------------------------------ MODULE EventIDs ------------------------------
(***************************************************************************)
(* NewEventID of internal/audit/ulid.go under concurrency.  Every caller   *)
(* is a goroutine that makes one call (a webhook handler's Emit).  The     *)
(* clock is read before the lock is taken; the package's one randBuf is    *)
(* filled, in two halves here, and encoded under the lock.                 *)
(***************************************************************************)
EXTENDS ULID, FiniteSets

CONSTANTS
    Callers,      \* goroutines, one call each
    Draws,        \* what the random source may return
    FirstMs,      \* the clock runs from FirstMs ...
    LastMs,       \* ... to LastMs (bound)
    NoCaller      \* the holder of a free lock

ASSUME EventIDsAssumption ==
    /\ Draws \subseteq Entropy
    /\ FirstMs \in Nat /\ LastMs \in Nat /\ FirstMs <= LastMs
    /\ NoCaller \notin Callers

VARIABLES
    clock,     \* the wall clock in milliseconds; it is taken not to step back
    call,      \* call[c]: where caller c is, and what it holds
    ulidMu,    \* who holds the lock
    randBuf    \* the shared buffer

vars == <<clock, call, ulidMu, randBuf>>

Stages == {"idle", "locking", "reading", "halfRead", "read", "returned"}

NoID == [i \in Positions |-> {}]

Call == [stage : Stages, ms : FirstMs..LastMs, draw : Entropy,
         id : [Positions -> Word(5)], earlier : SUBSET Callers]

TypeOK ==
    /\ clock \in FirstMs..LastMs
    /\ call \in [Callers -> Call]
    /\ ulidMu \in Callers \cup {NoCaller}
    /\ randBuf \in Entropy

Init ==
    /\ clock = FirstMs
    /\ call = [c \in Callers |-> [stage |-> "idle", ms |-> FirstMs, draw |-> ZeroEntropy,
                                  id |-> NoID, earlier |-> {}]]
    /\ ulidMu = NoCaller
    /\ randBuf = ZeroEntropy

(* The one bits of a 48-bit number, in two halves of 24.                   *)
PowersOf2 == <<1, 2, 4, 8, 16, 32, 64, 128, 256, 512, 1024, 2048, 4096, 8192, 16384,
               32768, 65536, 131072, 262144, 524288, 1048576, 2097152, 4194304, 8388608>>

LowBits(n) == {b \in 0..23 : (n \div PowersOf2[b + 1]) % 2 = 1}

Bits(n) == LowBits(n) \cup {b + 24 : b \in LowBits(n \div 16777216)}

(* The clock fits the 48 bits that an ID has for it (until the year 10889). *)
ASSUME BitsAssumption == LastMs \div 16777216 < 16777216

Returned == {c \in Callers : call[c].stage = "returned"}

Tick ==
    /\ clock < LastMs
    /\ clock' = clock + 1
    /\ UNCHANGED <<call, ulidMu, randBuf>>

(* ms := time.Now(), before the lock.                                      *)
ReadClock(c) ==
    /\ call[c].stage = "idle"
    /\ call' = [call EXCEPT ![c].stage = "locking", ![c].ms = clock,
                            ![c].earlier = Returned]
    /\ UNCHANGED <<clock, ulidMu, randBuf>>

(* Seeded bug: there is no lock.                                           *)
LockSkipped(c) == ulidMu' = ulidMu

Lock(c) == ulidMu = NoCaller /\ ulidMu' = c

Enter(c) ==
    /\ call[c].stage = "locking"
    /\ Lock(c)
    /\ \E d \in Draws : call' = [call EXCEPT ![c].stage = "reading", ![c].draw = d]
    /\ UNCHANGED <<clock, randBuf>>

(* rand.Read fills the buffer from the front.                              *)
ReadHi(c) ==
    /\ call[c].stage = "reading"
    /\ call' = [call EXCEPT ![c].stage = "halfRead"]
    /\ randBuf' = [randBuf EXCEPT !.hi = call[c].draw.hi]
    /\ UNCHANGED <<clock, ulidMu>>

ReadLo(c) ==
    /\ call[c].stage = "halfRead"
    /\ call' = [call EXCEPT ![c].stage = "read"]
    /\ randBuf' = [randBuf EXCEPT !.lo = call[c].draw.lo]
    /\ UNCHANGED <<clock, ulidMu>>

(* rand.Read fails, part of the buffer written or not: the loop zeroes it. *)
ReadFails(c) ==
    /\ call[c].stage \in {"reading", "halfRead"}
    /\ call' = [call EXCEPT ![c].stage = "read", ![c].draw = ZeroEntropy]
    /\ randBuf' = ZeroEntropy
    /\ UNCHANGED <<clock, ulidMu>>

(* The ID is encoded from a copy of the buffer; the deferred unlock runs.  *)
Return(c) ==
    /\ call[c].stage = "read"
    /\ call' = [call EXCEPT ![c].stage = "returned",
                            ![c].id = encodeULID(Bits(call[c].ms), randBuf)]
    /\ ulidMu' = NoCaller
    /\ UNCHANGED <<clock, randBuf>>

NewEventID(c) ==
    ReadClock(c) \/ Enter(c) \/ ReadHi(c) \/ ReadLo(c) \/ ReadFails(c) \/ Return(c)

Next == Tick \/ \E c \in Callers : NewEventID(c)

Spec == Init /\ [][Next]_vars

-----------------------------------------------------------------------------
(* Every ID carries the time its own call read and the randomness its own  *)
(* call drew, or none if the draw failed: never a mixture with another     *)
(* goroutine's, although all share one buffer ("goroutine-safe", ulid.go). *)
OwnEntropy ==
    \A c \in Returned : call[c].id = encodeULID(Bits(call[c].ms), call[c].draw)

(* IDs sort by the time their calls read, whatever the draws and however   *)
(* the calls overlap: one that reads the clock first and is overtaken on   *)
(* its way to the lock still gets the smaller ID ("stable sort", ulid.go). *)
LaterMsSortsLater ==
    \A p, c \in Returned : call[p].ms < call[c].ms => LessString(call[p].id, call[c].id)

(* The 128 bits of a key, and the two halves of a key again.               *)
Key(ms, draw) == {b + 80 : b \in Bits(ms)} \cup {b + 64 : b \in draw.hi} \cup draw.lo
Ms(k)   == {b \in 0..47 : b + 80 \in k}
Rand(k) == [hi |-> {b \in 0..15 : b + 64 \in k}, lo |-> {b \in 0..63 : b \in k}]

(* The two neighbours that are hardest to tell apart behind the bits of k  *)
(* above `bit': every lower bit and not this one, or this one and no       *)
(* lower.                                                                  *)
Smaller(k, bit) == {b \in k : b > bit} \cup 0..(bit - 1)
Larger(k, bit)  == {b \in k : b > bit} \cup {bit}

(* Around every prefix of every key the callers can draw.                  *)
NeighboursInOrder ==
    \A ms \in FirstMs..LastMs, draw \in Draws \cup {ZeroEntropy}, bit \in 0..127 :
        LET s == Smaller(Key(ms, draw), bit)
            l == Larger(Key(ms, draw), bit)
        IN  /\ LessKey(Ms(s), Rand(s), Ms(l), Rand(l))
            /\ LessString(encodeULID(Ms(s), Rand(s)), encodeULID(Ms(l), Rand(l)))

(* IDs sort as strings the way time and randomness sort as numbers         *)
(* ("eventId to be a ULID for stable sort", ulid.go): the IDs handed out   *)
(* among each other, and on both sides of every bit of their keys, in      *)
(* particular where a character or a word ends.                            *)
StringOrderIsKeyOrder ==
    /\ NeighboursInOrder
    /\ \A c, d \in Returned :
          LessString(call[c].id, call[d].id) <=>
              LessKey(Bits(call[c].ms), call[c].draw, Bits(call[d].ms), call[d].draw)

(* The plan's stronger reading, "ULIDs are monotonic"                      *)
(* (docs/plans/2026-05-audit-event-schema.md, 11.3): of two calls one      *)
(* after the other, the second never gets the smaller ID.                  *)
Monotonic ==
    \A c \in Returned : \A p \in call[c].earlier : ~LessString(call[c].id, call[p].id)
=============================================================================
