-------------------------------- MODULE ULID --------------------------------
(***************************************************************************)
(* encodeULID of internal/audit/ulid.go.  A number is the set of its one   *)
(* bits, so that 48- and 64-bit words and the shifts on them are exact.    *)
(* A character is the 5-bit number it stands for: the Crockford alphabet   *)
(* is ascending in ASCII, so characters compare as their numbers do.       *)
(***************************************************************************)
EXTENDS Integers

Word(bits) == SUBSET (0..(bits - 1))

(* The randomness: randBuf[0:2] and randBuf[2:10], read big-endian.        *)
Entropy == [hi : Word(16), lo : Word(64)]

ZeroEntropy == [hi |-> {}, lo |-> {}]

Positions == 0..25

(* Seeded bug: the mask is missing.                                        *)
DigitUnmasked(x, n) == {b - n : b \in {c \in x : c >= n}}

(* (x >> n) & 0x1F                                                         *)
Digit(x, n) == {b \in 0..4 : b + n \in x}

(* Seeded bug: the shared character takes four bits of lo from one place   *)
(* too low.                                                                *)
encodeULIDOffByOne(ms, entropy) ==
    [i \in Positions |->
        CASE i \in 0..9   -> Digit(ms, 45 - 5 * i)
          [] i \in 10..12 -> Digit(entropy.hi, 11 - 5 * (i - 10))
          [] i = 13       -> {b \in {4} : 0 \in entropy.hi}
                                \cup {b \in 0..3 : b + 59 \in entropy.lo}
          [] OTHER        -> Digit(entropy.lo, 55 - 5 * (i - 14))]

(* Seeded bug: the time is written from its low end.                       *)
encodeULIDLowFirst(ms, entropy) ==
    [i \in Positions |->
        CASE i \in 0..9   -> Digit(ms, 5 * i)
          [] i \in 10..12 -> Digit(entropy.hi, 11 - 5 * (i - 10))
          [] i = 13       -> {b \in {4} : 0 \in entropy.hi}
                                \cup {b \in 0..3 : b + 60 \in entropy.lo}
          [] OTHER        -> Digit(entropy.lo, 55 - 5 * (i - 14))]

(* Ten characters of time, sixteen of randomness; one character takes the  *)
(* last bit of hi and the first four of lo.                                *)
encodeULID(ms, entropy) ==
    [i \in Positions |->
        CASE i \in 0..9   -> Digit(ms, 45 - 5 * i)
          [] i \in 10..12 -> Digit(entropy.hi, 11 - 5 * (i - 10))
          [] i = 13       -> {b \in {4} : 0 \in entropy.hi}
                                \cup {b \in 0..3 : b + 60 \in entropy.lo}
          [] OTHER        -> Digit(entropy.lo, 55 - 5 * (i - 14))]

-----------------------------------------------------------------------------
(* x < y as numbers: they differ, and in the highest such bit y has a one. *)
LessWord(x, y) ==
    \E b \in y \ x : \A c \in (x \ y) \cup (y \ x) : c <= b

(* u < v as strings.                                                       *)
LessString(u, v) ==
    \E i \in Positions :
        /\ LessWord(u[i], v[i])
        /\ \A j \in Positions : j < i => u[j] = v[j]

(* The order an ID is meant to have: by time, then by randomness.          *)
LessKey(ms1, e1, ms2, e2) ==
    \/ LessWord(ms1, ms2)
    \/ ms1 = ms2 /\ LessWord(e1.hi, e2.hi)
    \/ ms1 = ms2 /\ e1.hi = e2.hi /\ LessWord(e1.lo, e2.lo)
=============================================================================
