--------------------------- MODULE EventIDsProofs ---------------------------
(***************************************************************************)
(* Proofs about NewEventID: the lock keeps every goroutine's randomness    *)
(* its own, and encodeULID turns the order of time and randomness into the *)
(* order of strings, for all 48-bit times and all 80-bit draws.            *)
(***************************************************************************)
EXTENDS EventIDs, WellFoundedInduction, TLAPS

(* Every character is a 5-bit number.                                      *)
LEMMA CharactersFit ==
    ASSUME NEW ms, NEW e
    PROVE  encodeULID(ms, e) \in [Positions -> Word(5)]
  BY DEF encodeULID, Digit, Word

-----------------------------------------------------------------------------
(* The order of words and of strings.                                      *)

(* A character whose digit has its highest differing bit at b orders the   *)
(* characters as that bit orders the words.                                *)
LEMMA DigitDecides ==
    ASSUME NEW x, NEW y, NEW n \in Int, NEW r \in 0..4,
           r + n \in y, r + n \notin x,
           \A c \in (x \ y) \cup (y \ x) : c \in Int /\ c <= r + n
    PROVE  LessWord(Digit(x, n), Digit(y, n))
  <1>1. r \in Digit(y, n) \ Digit(x, n)
    BY DEF Digit
  <1>2. ASSUME NEW c \in (Digit(x, n) \ Digit(y, n)) \cup (Digit(y, n) \ Digit(x, n))
        PROVE  c <= r
    <2>1. c \in 0..4 /\ c + n \in (x \ y) \cup (y \ x)
      BY DEF Digit
    <2> QED
      BY <2>1
  <1> QED
    BY <1>1, <1>2 DEF LessWord

(* A character above the highest differing bit is the same in both.        *)
LEMMA DigitAgrees ==
    ASSUME NEW x, NEW y, NEW n \in Int, NEW b \in Int, b < n,
           \A c \in (x \ y) \cup (y \ x) : c \in Int /\ c <= b
    PROVE  Digit(x, n) = Digit(y, n)
  <1>1. ASSUME NEW d \in 0..4 PROVE d + n \in x <=> d + n \in y
    <2>1. ~ (d + n <= b)
      OBVIOUS
    <2> QED
      BY <2>1
  <1> QED
    BY <1>1 DEF Digit

(* The character at a place, by the part of the key it is taken from.      *)
LEMMA CharacterAt ==
    ASSUME NEW ms, NEW e
    PROVE  /\ \A i \in 0..9 : encodeULID(ms, e)[i] = Digit(ms, 45 - 5 * i)
           /\ \A i \in 10..12 : encodeULID(ms, e)[i] = Digit(e.hi, 11 - 5 * (i - 10))
           /\ encodeULID(ms, e)[13] = {b \in {4} : 0 \in e.hi} \cup {b \in 0..3 : b + 60 \in e.lo}
           /\ \A i \in 14..25 : encodeULID(ms, e)[i] = Digit(e.lo, 55 - 5 * (i - 14))
  BY DEF encodeULID, Positions

(* An earlier millisecond sorts first, whatever was drawn.                 *)
LEMMA TimeDecides ==
    ASSUME NEW x \in Word(48), NEW y \in Word(48), NEW e, NEW f, LessWord(x, y)
    PROVE  LessString(encodeULID(x, e), encodeULID(y, f))
  <1>1. PICK b \in y \ x : \A c \in (x \ y) \cup (y \ x) : c <= b
    BY DEF LessWord
  <1>2. b \in 0..47 /\ \A c \in (x \ y) \cup (y \ x) : c \in Int /\ c <= b
    BY <1>1 DEF Word
  <1>3. PICK i \in 0..9 : b - (45 - 5 * i) \in 0..4
    <2> DEFINE k == (49 - b) \div 5
    <2>1. k \in 0..9 /\ b - (45 - 5 * k) \in 0..4
      BY <1>2
    <2> QED
      BY <2>1
  <1>4. LessWord(encodeULID(x, e)[i], encodeULID(y, f)[i])
    <2> DEFINE n == 45 - 5 * i
               r == b - n
    <2>1. n \in Int /\ r \in 0..4 /\ r + n = b
      BY <1>2, <1>3
    <2> HIDE DEF n, r
    <2>2. LessWord(Digit(x, n), Digit(y, n))
      BY <1>1, <1>2, <2>1, DigitDecides
    <2> QED
      BY <2>2, CharacterAt DEF n
  <1>5. ASSUME NEW j \in Positions, j < i
        PROVE  encodeULID(x, e)[j] = encodeULID(y, f)[j]
    <2> DEFINE n == 45 - 5 * j
    <2>1. j \in 0..9 /\ n \in Int /\ b < n
      BY <1>2, <1>3, <1>5 DEF Positions
    <2> HIDE DEF n
    <2>2. Digit(x, n) = Digit(y, n)
      BY <1>2, <2>1, DigitAgrees
    <2> QED
      BY <2>1, <2>2, CharacterAt DEF n
  <1>6. i \in Positions
    BY DEF Positions
  <1> QED
    BY <1>4, <1>5, <1>6 DEF LessString

(* Of two IDs of one time, the first two random bytes decide, then the rest. *)
LEMMA HiDecides ==
    ASSUME NEW ms, NEW e \in Entropy, NEW f \in Entropy, LessWord(e.hi, f.hi)
    PROVE  LessString(encodeULID(ms, e), encodeULID(ms, f))
  <1> DEFINE x == e.hi
             y == f.hi
             u == encodeULID(ms, e)
             v == encodeULID(ms, f)
  <1>1. PICK b \in y \ x : \A c \in (x \ y) \cup (y \ x) : c <= b
    BY DEF LessWord
  <1>2. b \in 0..15 /\ \A c \in (x \ y) \cup (y \ x) : c \in Int /\ c <= b
    BY <1>1 DEF Word, Entropy
  <1>3. \A j \in 0..9 : u[j] = v[j]
    BY CharacterAt
  <1>4. ASSUME NEW j \in 10..12, b < 11 - 5 * (j - 10) PROVE u[j] = v[j]
    <2> DEFINE n == 11 - 5 * (j - 10)
    <2>1. n \in Int /\ b \in Int
      BY <1>2
    <2> HIDE DEF n
    <2>2. Digit(x, n) = Digit(y, n)
      BY <1>2, <1>4, <2>1, DigitAgrees DEF n
    <2> QED
      BY <2>2, CharacterAt DEF n
  <1>5. CASE b = 0
    <2> HIDE DEF u, v
    <2>1. 4 \in v[13] \ u[13] /\ \A c \in (u[13] \ v[13]) \cup (v[13] \ u[13]) : c <= 4
      BY <1>1, <1>5, CharacterAt DEF u, v
    <2>2. LessWord(u[13], v[13])
      BY <2>1 DEF LessWord
    <2>3. ASSUME NEW j \in Positions, j < 13 PROVE u[j] = v[j]
      BY <1>3, <1>4, <1>5, <2>3 DEF Positions
    <2> QED
      BY <2>2, <2>3 DEF LessString, Positions, u, v
  <1>6. CASE b # 0
    <2>1. PICK i \in 10..12 : b - (11 - 5 * (i - 10)) \in 0..4
      <3> DEFINE k == 10 + ((15 - b) \div 5)
      <3>1. k \in 10..12 /\ b - (11 - 5 * (k - 10)) \in 0..4
        BY <1>2, <1>6
      <3> QED
        BY <3>1
    <2>2. LessWord(u[i], v[i])
      <3> DEFINE n == 11 - 5 * (i - 10)
                 r == b - n
      <3>1. n \in Int /\ r \in 0..4 /\ r + n = b
        BY <1>2, <2>1
      <3> HIDE DEF n, r
      <3>2. LessWord(Digit(x, n), Digit(y, n))
        BY <1>1, <1>2, <3>1, DigitDecides
      <3> QED
        BY <3>2, CharacterAt DEF n
    <2> HIDE DEF u, v
    <2>3. ASSUME NEW j \in Positions, j < i PROVE u[j] = v[j]
      <3>1. j \in 0..9 \/ (j \in 10..12 /\ b < 11 - 5 * (j - 10))
        BY <1>2, <2>1, <2>3 DEF Positions
      <3> QED
        BY <1>3, <1>4, <3>1
    <2> QED
      BY <2>1, <2>2, <2>3 DEF LessString, Positions, u, v
  <1> QED
    BY <1>5, <1>6

(* Of equal times and high words, the low word decides the order.          *)
LEMMA LoDecides ==
    ASSUME NEW ms, NEW e \in Entropy, NEW f \in Entropy, e.hi = f.hi, LessWord(e.lo, f.lo)
    PROVE  LessString(encodeULID(ms, e), encodeULID(ms, f))
  <1> DEFINE x == e.lo
             y == f.lo
             u == encodeULID(ms, e)
             v == encodeULID(ms, f)
  <1>1. PICK b \in y \ x : \A c \in (x \ y) \cup (y \ x) : c <= b
    BY DEF LessWord
  <1>2. b \in 0..63 /\ \A c \in (x \ y) \cup (y \ x) : c \in Int /\ c <= b
    BY <1>1 DEF Word, Entropy
  <1>3. \A j \in 0..12 : u[j] = v[j]
    <2>1. ASSUME NEW j \in 0..12 PROVE u[j] = v[j]
      <3>1. j \in 0..9 \/ j \in 10..12
        OBVIOUS
      <3> QED
        BY <3>1, CharacterAt
    <2> QED
      BY <2>1
  <1>4. CASE b >= 60
    <2>1. b - 60 \in 0..3 /\ (b - 60) + 60 = b
      BY <1>2, <1>4
    <2> HIDE DEF u, v
    <2>2. /\ u[13] = {d \in {4} : 0 \in e.hi} \cup {d \in 0..3 : d + 60 \in x}
          /\ v[13] = {d \in {4} : 0 \in e.hi} \cup {d \in 0..3 : d + 60 \in y}
      BY CharacterAt DEF u, v
    <2>3. b - 60 \in v[13] \ u[13]
      BY <1>1, <2>1, <2>2
    <2>4. ASSUME NEW c \in (u[13] \ v[13]) \cup (v[13] \ u[13]) PROVE c <= b - 60
      <3>1. c \in 0..3 /\ c + 60 \in (x \ y) \cup (y \ x)
        BY <2>2
      <3> QED
        BY <1>2, <3>1
    <2>5. LessWord(u[13], v[13])
      BY <2>3, <2>4 DEF LessWord
    <2>6. 13 \in Positions /\ \A j \in Positions : j < 13 => j \in 0..12
      BY DEF Positions
    <2> QED
      BY <1>3, <2>5, <2>6 DEF LessString, u, v
  <1>5. CASE b < 60
    <2>1. PICK i \in 14..25 : b - (55 - 5 * (i - 14)) \in 0..4
      <3> DEFINE k == 14 + ((59 - b) \div 5)
      <3>1. k \in 14..25 /\ b - (55 - 5 * (k - 14)) \in 0..4
        BY <1>2, <1>5
      <3> QED
        BY <3>1
    <2>2. LessWord(u[i], v[i])
      <3> DEFINE n == 55 - 5 * (i - 14)
                 r == b - n
      <3>1. n \in Int /\ r \in 0..4 /\ r + n = b
        BY <1>2, <2>1
      <3> HIDE DEF n, r
      <3>2. LessWord(Digit(x, n), Digit(y, n))
        BY <1>1, <1>2, <3>1, DigitDecides
      <3> QED
        BY <3>2, CharacterAt DEF n
    <2>3. u[13] = v[13]
      <3>1. ASSUME NEW d \in 0..3 PROVE d + 60 \in x <=> d + 60 \in y
        BY <1>2, <1>5
      <3>2. {d \in 0..3 : d + 60 \in x} = {d \in 0..3 : d + 60 \in y}
        BY <3>1
      <3>3. /\ u[13] = {d \in {4} : 0 \in e.hi} \cup {d \in 0..3 : d + 60 \in x}
            /\ v[13] = {d \in {4} : 0 \in e.hi} \cup {d \in 0..3 : d + 60 \in y}
        BY CharacterAt
      <3> QED
        BY <3>2, <3>3
    <2>4. ASSUME NEW j \in 14..25, j < i PROVE u[j] = v[j]
      <3> DEFINE n == 55 - 5 * (j - 14)
      <3>1. n \in Int /\ b \in Int /\ b < n
        BY <1>2, <2>1, <2>4
      <3> HIDE DEF n
      <3>2. Digit(x, n) = Digit(y, n)
        BY <1>2, <3>1, DigitAgrees
      <3> QED
        BY <3>2, CharacterAt DEF n
    <2> HIDE DEF u, v
    <2>5. ASSUME NEW j \in Positions, j < i PROVE u[j] = v[j]
      <3>1. j \in 0..12 \/ j = 13 \/ j \in 14..25
        BY DEF Positions
      <3> QED
        BY <1>3, <2>3, <2>4, <2>5, <3>1
    <2> QED
      BY <2>1, <2>2, <2>5 DEF LessString, Positions, u, v
  <1> QED
    BY <1>2, <1>4, <1>5

(* Every nonempty set of natural numbers has a least one, so a nonempty set *)
(* of bits of a word has a highest.                                        *)
NatLess == {ss \in Nat \X Nat : ss[1] < ss[2]}

(* A set of naturals that is not empty has a least member.                 *)
LEMMA LeastNat ==
    ASSUME NEW T, T \subseteq Nat, T # {}
    PROVE  \E m \in T : \A t \in T : m <= t
  <1>1. IsWellFoundedOn(NatLess, Nat)
    BY NatLessThanWellFounded, Zenon DEF OpToRel, NatLess
  <1>2. PICK m \in T : \A t \in T : ~ (<<t, m>> \in NatLess)
    BY <1>1, WFMin
  <1>3. ASSUME NEW t \in T PROVE m <= t
    <2>1. m \in Nat /\ t \in Nat /\ <<t, m>> \notin NatLess
      BY <1>2
    <2>2. ~ (t < m)
      BY <2>1 DEF NatLess
    <2> QED
      BY <2>1, <2>2
  <1> QED
    BY <1>3

(* A word that is not zero has a highest bit.                              *)
LEMMA HighestBit ==
    ASSUME NEW n \in Nat, NEW T \in SUBSET (0..n), T # {}
    PROVE  \E m \in T : \A t \in T : t <= m
  <1> DEFINE D == {d \in Nat : n - d \in T}
  <1>1. ASSUME NEW t \in T PROVE n - t \in D
    <2>1. n - t \in Nat /\ n - (n - t) = t
      OBVIOUS
    <2> QED
      BY <2>1
  <1>2. D \subseteq Nat /\ D # {}
    BY <1>1
  <1> HIDE DEF D
  <1>3. PICK d \in D : \A e \in D : d <= e
    BY <1>2, LeastNat
  <1>4. n - d \in T
    BY DEF D
  <1>5. ASSUME NEW t \in T PROVE t <= n - d
    <2>1. d <= n - t /\ d \in Nat /\ t \in Nat
      BY <1>1, <1>2, <1>3
    <2> QED
      BY <2>1
  <1> QED
    BY <1>4, <1>5

(* Words are totally ordered.                                              *)
LEMMA WordsTotal ==
    ASSUME NEW n \in Nat, NEW x \in Word(n + 1), NEW y \in Word(n + 1), x # y
    PROVE  LessWord(x, y) \/ LessWord(y, x)
  <1> DEFINE T == (x \ y) \cup (y \ x)
  <1>1. T \in SUBSET (0..n) /\ T # {}
    BY DEF Word
  <1>2. PICK m \in T : \A t \in T : t <= m
    BY <1>1, HighestBit
  <1>3. m \in x \ y \/ m \in y \ x
    OBVIOUS
  <1>4. (y \ x) \cup (x \ y) = T
    OBVIOUS
  <1> QED
    BY <1>2, <1>3, <1>4 DEF LessWord

(* No two words are each less than the other.                              *)
LEMMA WordsAsymmetric ==
    ASSUME NEW x \in SUBSET Nat, NEW y \in SUBSET Nat, LessWord(x, y)
    PROVE  x # y /\ ~ LessWord(y, x)
  <1>1. PICK b \in y \ x : \A c \in (x \ y) \cup (y \ x) : c <= b
    BY DEF LessWord
  <1>2. ASSUME LessWord(y, x) PROVE FALSE
    <2>1. PICK d \in x \ y : \A c \in (y \ x) \cup (x \ y) : c <= d
      BY <1>2 DEF LessWord
    <2>2. b <= d /\ d <= b /\ b \in Nat /\ d \in Nat
      BY <1>1, <2>1
    <2> QED
      BY <1>1, <2>1, <2>2
  <1> QED
    BY <1>1, <1>2

(* So is the order of strings asymmetric.                                  *)
LEMMA StringsAsymmetric ==
    ASSUME NEW u \in [Positions -> Word(5)], NEW v \in [Positions -> Word(5)], LessString(u, v)
    PROVE  u # v /\ ~ LessString(v, u)
  <1>1. PICK i \in Positions : LessWord(u[i], v[i]) /\ \A j \in Positions : j < i => u[j] = v[j]
    BY DEF LessString
  <1>2. \A k \in Positions : u[k] \in SUBSET Nat /\ v[k] \in SUBSET Nat
    BY DEF Word
  <1>3. u[i] # v[i] /\ ~ LessWord(v[i], u[i])
    BY <1>1, <1>2, WordsAsymmetric
  <1>4. ASSUME LessString(v, u) PROVE FALSE
    <2>1. PICK k \in Positions : LessWord(v[k], u[k]) /\ \A j \in Positions : j < k => v[j] = u[j]
      BY <1>4 DEF LessString
    <2>2. v[k] # u[k]
      BY <1>2, <2>1, WordsAsymmetric
    <2>3. i = k
      BY <1>1, <1>3, <2>1, <2>2 DEF Positions
    <2> QED
      BY <1>3, <2>1, <2>3
  <1> QED
    BY <1>3, <1>4

(* encodeULID: IDs compare as strings exactly as their times and draws do   *)
(* as numbers, for every 48-bit time and all 80 random bits, across every   *)
(* boundary between characters and words.                                   *)
THEOREM EncodingOrder ==
    ASSUME NEW x \in Word(48), NEW y \in Word(48), NEW e \in Entropy, NEW f \in Entropy
    PROVE  LessString(encodeULID(x, e), encodeULID(y, f)) <=> LessKey(x, e, y, f)
  <1>1. ASSUME NEW x1 \in Word(48), NEW y1 \in Word(48), NEW e1 \in Entropy, NEW f1 \in Entropy,
               LessKey(x1, e1, y1, f1)
        PROVE  LessString(encodeULID(x1, e1), encodeULID(y1, f1))
    BY <1>1, TimeDecides, HiDecides, LoDecides DEF LessKey
  <1>2. LessKey(x, e, y, f) \/ LessKey(y, f, x, e) \/ (x = y /\ e = f)
    <2>1. x # y => LessWord(x, y) \/ LessWord(y, x)
      <3>1. x \in Word(47 + 1) /\ y \in Word(47 + 1) /\ 47 \in Nat
        BY DEF Word
      <3> QED
        BY <3>1, WordsTotal
    <2>2. e.hi # f.hi => LessWord(e.hi, f.hi) \/ LessWord(f.hi, e.hi)
      <3>1. e.hi \in Word(15 + 1) /\ f.hi \in Word(15 + 1) /\ 15 \in Nat
        BY DEF Word, Entropy
      <3> QED
        BY <3>1, WordsTotal
    <2>3. e.lo # f.lo => LessWord(e.lo, f.lo) \/ LessWord(f.lo, e.lo)
      <3>1. e.lo \in Word(63 + 1) /\ f.lo \in Word(63 + 1) /\ 63 \in Nat
        BY DEF Word, Entropy
      <3> QED
        BY <3>1, WordsTotal
    <2>4. e.hi = f.hi /\ e.lo = f.lo => e = f
      BY DEF Entropy
    <2> QED
      BY <2>1, <2>2, <2>3, <2>4 DEF LessKey
  <1>3. encodeULID(x, e) \in [Positions -> Word(5)] /\ encodeULID(y, f) \in [Positions -> Word(5)]
    BY CharactersFit
  <1>4. ASSUME LessString(encodeULID(x, e), encodeULID(y, f)) PROVE LessKey(x, e, y, f)
    <2>1. ~ LessString(encodeULID(y, f), encodeULID(x, e)) /\ encodeULID(x, e) # encodeULID(y, f)
      BY <1>3, <1>4, StringsAsymmetric
    <2>2. ~ LessKey(y, f, x, e)
      BY <1>1, <2>1
    <2>3. ~ (x = y /\ e = f)
      BY <2>1
    <2> QED
      BY <1>2, <2>2, <2>3
  <1> QED
    BY <1>1, <1>4

-----------------------------------------------------------------------------
(* The one bits of a number order as the number does.                      *)
Power(b) == IF b = 24 THEN 16777216 ELSE PowersOf2[b + 1]

(* The table has the powers of two.                                        *)
LEMMA Powers ==
    /\ Power(0) = 1
    /\ \A b \in 0..24 : Power(b) \in Nat /\ Power(b) > 0
    /\ \A b \in 0..23 : Power(b + 1) = 2 * Power(b) /\ Power(b) = PowersOf2[b + 1]
  <1>1. Power(0) = 1
    BY SMT DEF Power, PowersOf2
  <1>2. ASSUME NEW b \in 0..24 PROVE Power(b) \in Nat /\ Power(b) > 0
    BY SMT DEF Power, PowersOf2
  <1>3. ASSUME NEW b \in 0..23 PROVE Power(b + 1) = 2 * Power(b)
    BY SMT DEF Power, PowersOf2
  <1>4. ASSUME NEW b \in 0..23 PROVE Power(b) = PowersOf2[b + 1]
    BY SMT DEF Power
  <1> QED
    BY <1>1, <1>2, <1>3, <1>4

(* Shifting by one more bit halves.                                        *)
LEMMA Halving ==
    ASSUME NEW m \in Nat, NEW b \in 0..23
    PROVE  m \div Power(b + 1) = (m \div Power(b)) \div 2 /\ m \div Power(b) \in Nat
  <1> DEFINE p == Power(b)
             q == Power(b + 1)
  <1>1. p \in Nat /\ p > 0 /\ q = 2 * p
    BY Powers
  <1> HIDE DEF p, q
  <1>2. m \div q = (m \div p) \div 2 /\ m \div p \in Nat
    BY <1>1
  <1> QED
    BY <1>2 DEF p, q

(* Of two numbers that agree above their low half, the low halves order as *)
(* the numbers do.                                                         *)
LEMMA LowBitsOrder ==
    ASSUME NEW m \in Nat, NEW n \in Nat, m < n, m \div Power(24) = n \div Power(24)
    PROVE  LessWord(LowBits(m), LowBits(n))
  <1> DEFINE Same(k) == m \div Power(k) = n \div Power(k)
             K == {k \in 0..24 : Same(k)}
  <1>1. 24 \in K
    OBVIOUS
  <1>2. ~ Same(0)
    BY Powers
  <1>3. PICK k \in K : \A j \in K : k <= j
    <2>1. K \subseteq Nat /\ K # {}
      BY <1>1
    <2> HIDE DEF K
    <2> QED
      BY <2>1, LeastNat
  <1>4. ASSUME NEW c \in 0..24, c >= k PROVE Same(c)
    <2> DEFINE C == {d \in 0..24 : d >= k /\ ~ Same(d)}
    <2>1. ASSUME C # {} PROVE FALSE
      <3>1. C \subseteq Nat
        OBVIOUS
      <3> HIDE DEF C
      <3>2. PICK d \in C : \A j \in C : d <= j
        BY <2>1, <3>1, LeastNat
      <3> USE DEF C
      <3>3. d \in 0..24 /\ d >= k /\ ~ Same(d) /\ d # k
        BY <1>3
      <3>4. d - 1 \in 0..23 /\ d - 1 >= k /\ (d - 1) + 1 = d
        BY <3>3
      <3>5. Same(d - 1)
        BY <3>2, <3>4
      <3>6. Same((d - 1) + 1)
        <4> DEFINE b == d - 1
        <4>1. b \in 0..23 /\ m \div Power(b) = n \div Power(b)
          BY <3>4, <3>5
        <4> HIDE DEF b
        <4>2. m \div Power(b + 1) = n \div Power(b + 1)
          <5>1. m \div Power(b + 1) = (m \div Power(b)) \div 2
            BY <4>1, Halving
          <5>2. n \div Power(b + 1) = (n \div Power(b)) \div 2
            BY <4>1, Halving
          <5> QED
            BY <4>1, <5>1, <5>2
        <4> QED
          BY <4>2 DEF b
      <3> QED
        BY <3>3, <3>4, <3>6
    <2> QED
      BY <1>4, <2>1
  <1>5. k \in 1..24
    BY <1>2
  <1> DEFINE b == k - 1
  <1>6. b \in 0..23 /\ b + 1 = k
    BY <1>5
  <1>7. ~ Same(b)
    BY <1>3, <1>6
  <1>8. Same(b + 1)
    BY <1>6
  <1> HIDE DEF b, K
  <1>9. (m \div Power(b)) % 2 = 0 /\ (n \div Power(b)) % 2 = 1
    <2> DEFINE p == Power(b)
               mp == m \div p
               np == n \div p
    <2>1. p \in Nat /\ p > 0
      BY <1>6, Powers
    <2>2. mp \in Nat /\ np \in Nat /\ mp \div 2 = np \div 2 /\ mp # np
      <3>1. m \div Power(b + 1) = mp \div 2 /\ mp \in Nat
        BY <1>6, Halving
      <3>2. n \div Power(b + 1) = np \div 2 /\ np \in Nat
        BY <1>6, Halving
      <3> QED
        BY <1>7, <1>8, <3>1, <3>2
    <2>3. mp <= np
      <3> HIDE DEF p
      <3> QED
        BY <2>1
    <2> HIDE DEF mp, np
    <2>4. mp % 2 = 0 /\ np % 2 = 1
      BY <2>2, <2>3
    <2> QED
      BY <2>4 DEF mp, np, p
  <1>10. b \in LowBits(n) \ LowBits(m)
    <2>1. Power(b) = PowersOf2[b + 1]
      BY <1>6, Powers
    <2>2. (m \div PowersOf2[b + 1]) % 2 # 1 /\ (n \div PowersOf2[b + 1]) % 2 = 1
      BY <1>9, <2>1
    <2> QED
      BY <1>6, <2>2 DEF LowBits
  <1>11. ASSUME NEW c \in (LowBits(m) \ LowBits(n)) \cup (LowBits(n) \ LowBits(m)) PROVE c <= b
    <2>1. c \in 0..23 /\ ~ Same(c)
      BY Powers DEF LowBits
    <2> QED
      BY <1>4, <1>6, <2>1
  <1> QED
    BY <1>10, <1>11 DEF LessWord

(* Bits keeps the order of the clock.                                      *)
LEMMA BitsOrder ==
    ASSUME NEW m \in Nat, NEW n \in Nat, m < n, n \div 16777216 < 16777216
    PROVE  LessWord(Bits(m), Bits(n))
  <1> DEFINE h == m \div 16777216
             k == n \div 16777216
  <1>1. h \in Nat /\ k \in Nat /\ h <= k /\ Power(24) = 16777216
    BY SMT DEF Power
  <1>2. CASE h = k
    <2>1. LessWord(LowBits(m), LowBits(n))
      BY <1>1, <1>2, LowBitsOrder, SMT
    <2>2. Bits(m) = LowBits(m) \cup {b + 24 : b \in LowBits(h)}
      BY SMT DEF Bits
    <2>3. Bits(n) = LowBits(n) \cup {b + 24 : b \in LowBits(h)}
      BY <1>2, SMT DEF Bits
    <2> HIDE DEF h, k
    <2>4. PICK b \in LowBits(n) \ LowBits(m) :
              \A c \in (LowBits(m) \ LowBits(n)) \cup (LowBits(n) \ LowBits(m)) : c <= b
      BY <2>1 DEF LessWord
    <2>5. b \in 0..23
      BY DEF LowBits
    <2>6. b \in Bits(n) \ Bits(m)
      <3>1. \A c \in LowBits(h) : c + 24 # b
        BY <2>5 DEF LowBits
      <3> QED  BY <2>2, <2>3, <2>4, <3>1
    <2>7. \A c \in (Bits(m) \ Bits(n)) \cup (Bits(n) \ Bits(m)) : c <= b
      BY <2>2, <2>3, <2>4
    <2> QED  BY <2>6, <2>7 DEF LessWord
  <1>3. CASE h < k
    <2>1. h \div Power(24) = k \div Power(24)
      BY <1>1, <1>3, SMT
    <2>2. Bits(m) = LowBits(m) \cup {b + 24 : b \in LowBits(h)}
      BY SMT DEF Bits
    <2>3. Bits(n) = LowBits(n) \cup {b + 24 : b \in LowBits(k)}
      BY SMT DEF Bits
    <2> HIDE DEF h, k
    <2>4. LessWord(LowBits(h), LowBits(k))
      BY <1>1, <1>3, <2>1, LowBitsOrder
    <2>5. PICK b \in LowBits(k) \ LowBits(h) :
              \A c \in (LowBits(h) \ LowBits(k)) \cup (LowBits(k) \ LowBits(h)) : c <= b
      BY <2>4 DEF LessWord
    <2>6. LowBits(h) \subseteq 0..23 /\ LowBits(k) \subseteq 0..23
          /\ LowBits(m) \subseteq 0..23 /\ LowBits(n) \subseteq 0..23
      BY DEF LowBits
    <2>7. b + 24 \in Bits(n) \ Bits(m)
      BY <2>2, <2>3, <2>5, <2>6
    <2>8. ASSUME NEW c \in (Bits(m) \ Bits(n)) \cup (Bits(n) \ Bits(m)) PROVE c <= b + 24
      <3>1. CASE c \in 0..23
        BY <2>5, <2>6, <3>1
      <3>2. CASE c \notin 0..23
        <4>1. PICK d \in (LowBits(h) \ LowBits(k)) \cup (LowBits(k) \ LowBits(h)) : c = d + 24
          BY <2>2, <2>3, <2>6, <3>2
        <4> QED  BY <2>5, <2>6, <4>1
      <3> QED  BY <3>1, <3>2
    <2> QED  BY <2>7, <2>8 DEF LessWord
  <1> QED  BY <1>1, <1>2, <1>3

-----------------------------------------------------------------------------
(* The lock is held from the first read of the random source to the return, *)
(* and what its holder has read so far is what the buffer holds.            *)
LockInv ==
    /\ \A c \in Callers : call[c].stage \in {"reading", "halfRead", "read"} <=> ulidMu = c
    /\ \A c \in Callers : call[c].stage = "halfRead" => randBuf.hi = call[c].draw.hi
    /\ \A c \in Callers : call[c].stage = "read" => randBuf = call[c].draw

(* Whoever had returned when a call began has still returned.              *)
EarlierReturned == \A c \in Callers : call[c].earlier \subseteq Returned

Inv == TypeOK /\ LockInv /\ OwnEntropy /\ EarlierReturned

(* Before the first call the lock is free.                                 *)
LEMMA InvInit == Init => Inv
  <1> SUFFICES ASSUME Init PROVE Inv
    OBVIOUS
  <1>1. ZeroEntropy \in Entropy /\ NoID \in [Positions -> Word(5)]
    BY DEF ZeroEntropy, Entropy, Word, NoID
  <1>2. TypeOK
    BY <1>1, EventIDsAssumption DEF Init, TypeOK, Call, Stages
  <1>3. LockInv /\ EarlierReturned /\ OwnEntropy
    BY EventIDsAssumption DEF Init, LockInv, EarlierReturned, OwnEntropy, Returned
  <1> QED
    BY <1>2, <1>3 DEF Inv

(* No step of a call or of the clock breaks the invariant.                 *)
LEMMA InvNext == Inv /\ [Next]_vars => Inv'
  <1> SUFFICES ASSUME Inv, [Next]_vars PROVE Inv'
    OBVIOUS
  <1> USE DEF Inv
  <1>1. CASE Tick
    <2>1. TypeOK'
      BY <1>1, EventIDsAssumption DEF Tick, TypeOK
    <2> QED
      BY <1>1, <2>1 DEF Tick, LockInv, OwnEntropy, EarlierReturned, Returned
  <1>2. ASSUME NEW c \in Callers, ReadClock(c) PROVE Inv'
    <2>1. /\ call' \in [Callers -> Call]
          /\ \A d \in Callers : d # c => call'[d] = call[d]
          /\ call'[c].stage = "locking" /\ call'[c].earlier = Returned
      <3> DEFINE r == [call[c] EXCEPT !.stage = "locking", !.ms = clock, !.earlier = Returned]
      <3>1. call[c] \in Call /\ clock \in FirstMs..LastMs /\ Returned \in SUBSET Callers
        BY DEF TypeOK, Returned
      <3>2. r \in Call /\ r.stage = "locking" /\ r.earlier = Returned
        BY <3>1 DEF Call, Stages
      <3>3. call' = [call EXCEPT ![c] = r]
        BY <1>2 DEF ReadClock
      <3> HIDE DEF r
      <3> QED
        BY <3>2, <3>3 DEF TypeOK
    <2>2. TypeOK'
      BY <1>2, <2>1 DEF ReadClock, TypeOK
    <2>3. Returned' = Returned
      BY <1>2, <2>1 DEF ReadClock, Returned
    <2>4. LockInv'
      BY <1>2, <2>1 DEF ReadClock, LockInv
    <2>5. OwnEntropy'
      BY <2>1, <2>3 DEF OwnEntropy, Returned
    <2>6. EarlierReturned'
      BY <2>1, <2>3 DEF EarlierReturned
    <2> QED
      BY <2>2, <2>4, <2>5, <2>6
  <1>3. ASSUME NEW c \in Callers, Enter(c) PROVE Inv'
    <2>1. PICK dr \in Draws : call' = [call EXCEPT ![c].stage = "reading", ![c].draw = dr]
      BY <1>3 DEF Enter
    <2>2. dr \in Entropy
      BY EventIDsAssumption
    <2>3. /\ call' \in [Callers -> Call]
          /\ \A d \in Callers : d # c => call'[d] = call[d]
          /\ call'[c].stage = "reading" /\ call'[c].earlier = call[c].earlier
      <3> DEFINE r == [call[c] EXCEPT !.stage = "reading", !.draw = dr]
      <3>1. call[c] \in Call
        BY DEF TypeOK
      <3>2. r \in Call /\ r.stage = "reading" /\ r.earlier = call[c].earlier
        BY <2>2, <3>1 DEF Call, Stages
      <3>3. call' = [call EXCEPT ![c] = r]
        BY <2>1
      <3> HIDE DEF r
      <3> QED
        BY <3>2, <3>3 DEF TypeOK
    <2>4. TypeOK'
      BY <1>3, <2>3 DEF Enter, Lock, TypeOK
    <2>5. Returned' = Returned
      BY <1>3, <2>3 DEF Enter, Returned
    <2>6. LockInv'
      BY <1>3, <2>3, EventIDsAssumption DEF Enter, Lock, LockInv
    <2>7. OwnEntropy'
      BY <2>3, <2>5 DEF OwnEntropy, Returned
    <2>8. EarlierReturned'
      BY <2>3, <2>5 DEF EarlierReturned
    <2> QED
      BY <2>4, <2>6, <2>7, <2>8
  <1>4. ASSUME NEW c \in Callers, ReadHi(c) PROVE Inv'
    <2>1. /\ call' \in [Callers -> Call]
          /\ \A d \in Callers : d # c => call'[d] = call[d]
          /\ call'[c].stage = "halfRead" /\ call'[c].earlier = call[c].earlier
          /\ call'[c].draw = call[c].draw
      <3> DEFINE r == [call[c] EXCEPT !.stage = "halfRead"]
      <3>1. call[c] \in Call
        BY DEF TypeOK
      <3>2. /\ r \in Call /\ r.stage = "halfRead" /\ r.earlier = call[c].earlier
            /\ r.draw = call[c].draw
        BY <3>1 DEF Call, Stages
      <3>3. call' = [call EXCEPT ![c] = r]
        BY <1>4 DEF ReadHi
      <3> HIDE DEF r
      <3> QED
        BY <3>2, <3>3 DEF TypeOK
    <2>2. randBuf' \in Entropy /\ randBuf'.hi = call[c].draw.hi
      BY <1>4 DEF ReadHi, TypeOK, Call, Entropy
    <2>3. TypeOK'
      BY <1>4, <2>1, <2>2 DEF ReadHi, TypeOK
    <2>4. Returned' = Returned
      BY <1>4, <2>1 DEF ReadHi, Returned
    <2>5. LockInv'
      BY <1>4, <2>1, <2>2 DEF ReadHi, LockInv
    <2>6. OwnEntropy'
      BY <2>1, <2>4 DEF OwnEntropy, Returned
    <2>7. EarlierReturned'
      BY <2>1, <2>4 DEF EarlierReturned
    <2> QED
      BY <2>3, <2>5, <2>6, <2>7
  <1>5. ASSUME NEW c \in Callers, ReadLo(c) PROVE Inv'
    <2>1. /\ call' \in [Callers -> Call]
          /\ \A d \in Callers : d # c => call'[d] = call[d]
          /\ call'[c].stage = "read" /\ call'[c].earlier = call[c].earlier
          /\ call'[c].draw = call[c].draw
      <3> DEFINE r == [call[c] EXCEPT !.stage = "read"]
      <3>1. call[c] \in Call
        BY DEF TypeOK
      <3>2. /\ r \in Call /\ r.stage = "read" /\ r.earlier = call[c].earlier
            /\ r.draw = call[c].draw
        BY <3>1 DEF Call, Stages
      <3>3. call' = [call EXCEPT ![c] = r]
        BY <1>5 DEF ReadLo
      <3> HIDE DEF r
      <3> QED
        BY <3>2, <3>3 DEF TypeOK
    <2>2. randBuf' \in Entropy /\ randBuf' = call[c].draw
      <3>1. randBuf.hi = call[c].draw.hi /\ randBuf' = [randBuf EXCEPT !.lo = call[c].draw.lo]
        BY <1>5 DEF ReadLo, LockInv
      <3>2. randBuf \in Entropy /\ call[c].draw \in Entropy
        BY DEF TypeOK, Call
      <3> QED
        BY <3>1, <3>2 DEF Entropy
    <2>3. TypeOK'
      BY <1>5, <2>1, <2>2 DEF ReadLo, TypeOK
    <2>4. Returned' = Returned
      BY <1>5, <2>1 DEF ReadLo, Returned
    <2>5. LockInv'
      BY <1>5, <2>1, <2>2 DEF ReadLo, LockInv
    <2>6. OwnEntropy'
      BY <2>1, <2>4 DEF OwnEntropy, Returned
    <2>7. EarlierReturned'
      BY <2>1, <2>4 DEF EarlierReturned
    <2> QED
      BY <2>3, <2>5, <2>6, <2>7
  <1>6. ASSUME NEW c \in Callers, ReadFails(c) PROVE Inv'
    <2>1. ZeroEntropy \in Entropy
      BY DEF ZeroEntropy, Entropy, Word
    <2>2. /\ call' \in [Callers -> Call]
          /\ \A d \in Callers : d # c => call'[d] = call[d]
          /\ call'[c].stage = "read" /\ call'[c].earlier = call[c].earlier
          /\ call'[c].draw = ZeroEntropy
      <3> DEFINE r == [call[c] EXCEPT !.stage = "read", !.draw = ZeroEntropy]
      <3>1. call[c] \in Call
        BY DEF TypeOK
      <3>2. r \in Call /\ r.stage = "read" /\ r.earlier = call[c].earlier /\ r.draw = ZeroEntropy
        BY <2>1, <3>1 DEF Call, Stages
      <3>3. call' = [call EXCEPT ![c] = r]
        BY <1>6 DEF ReadFails
      <3> HIDE DEF r
      <3> QED
        BY <3>2, <3>3 DEF TypeOK
    <2>3. TypeOK'
      BY <1>6, <2>1, <2>2 DEF ReadFails, TypeOK
    <2>4. Returned' = Returned
      BY <1>6, <2>2 DEF ReadFails, Returned
    <2>5. LockInv'
      BY <1>6, <2>2 DEF ReadFails, LockInv
    <2>6. OwnEntropy'
      BY <2>2, <2>4 DEF OwnEntropy, Returned
    <2>7. EarlierReturned'
      BY <2>2, <2>4 DEF EarlierReturned
    <2> QED
      BY <2>3, <2>5, <2>6, <2>7
  <1>7. ASSUME NEW c \in Callers, Return(c) PROVE Inv'
    <2> DEFINE id == encodeULID(Bits(call[c].ms), randBuf)
    <2>1. id \in [Positions -> Word(5)]
      BY CharactersFit
    <2>2. call' = [call EXCEPT ![c].stage = "returned", ![c].id = id]
      BY <1>7 DEF Return
    <2> HIDE DEF id
    <2>3. /\ call' \in [Callers -> Call]
          /\ \A d \in Callers : d # c => call'[d] = call[d]
          /\ call'[c].stage = "returned" /\ call'[c].earlier = call[c].earlier
          /\ call'[c].draw = call[c].draw /\ call'[c].ms = call[c].ms /\ call'[c].id = id
      <3> DEFINE r == [call[c] EXCEPT !.stage = "returned", !.id = id]
      <3>1. call[c] \in Call
        BY DEF TypeOK
      <3>2. /\ r \in Call /\ r.stage = "returned" /\ r.earlier = call[c].earlier
            /\ r.draw = call[c].draw /\ r.ms = call[c].ms /\ r.id = id
        BY <2>1, <3>1 DEF Call, Stages
      <3>3. call' = [call EXCEPT ![c] = r]
        BY <2>2
      <3> HIDE DEF r
      <3> QED
        BY <3>2, <3>3 DEF TypeOK
    <2>4. TypeOK'
      BY <1>7, <2>3 DEF Return, TypeOK
    <2>5. Returned' = Returned \cup {c}
      BY <2>3 DEF Returned
    <2>6. LockInv'
      BY <1>7, <2>3, EventIDsAssumption DEF Return, LockInv
    <2>7. id = encodeULID(Bits(call'[c].ms), call'[c].draw)
      BY <1>7, <2>3 DEF Return, LockInv, id
    <2>8. OwnEntropy'
      BY <2>3, <2>5, <2>7 DEF OwnEntropy, Returned
    <2>9. EarlierReturned'
      BY <2>3, <2>5 DEF EarlierReturned
    <2> QED
      BY <2>4, <2>6, <2>8, <2>9
  <1>8. CASE UNCHANGED vars
    BY <1>8 DEF vars, TypeOK, LockInv, OwnEntropy, EarlierReturned, Returned
  <1> QED
    BY <1>1, <1>2, <1>3, <1>4, <1>5, <1>6, <1>7, <1>8 DEF Next, NewEventID

-----------------------------------------------------------------------------
(* IDs with their own time sort by time.                                   *)
LEMMA InvSorts == Inv => LaterMsSortsLater
  <1> SUFFICES ASSUME Inv, NEW p \in Returned, NEW c \in Returned,
                      call[p].ms < call[c].ms
               PROVE  LessString(call[p].id, call[c].id)
    BY DEF LaterMsSortsLater
  <1>1. c \in Callers /\ p \in Callers
    BY DEF Returned
  <1>2. /\ call[p].ms \in Nat /\ call[c].ms \in Nat /\ call[c].ms <= LastMs
        /\ call[p].draw \in Entropy /\ call[c].draw \in Entropy
    BY <1>1, EventIDsAssumption DEF Inv, TypeOK, Call
  <1>3. call[c].ms \div 16777216 < 16777216
    <2>1. PICK n : n = call[c].ms
      OBVIOUS
    <2>2. n \in Nat /\ n <= LastMs /\ LastMs \in Nat
      BY <1>2, <2>1, EventIDsAssumption
    <2>3. n \div 16777216 < 16777216
      BY <2>2, BitsAssumption, SMT
    <2> QED  BY <2>1, <2>3, SMT
  <1>4. LessWord(Bits(call[p].ms), Bits(call[c].ms))
    BY <1>2, <1>3, BitsOrder
  <1>5. Bits(call[p].ms) \in Word(48) /\ Bits(call[c].ms) \in Word(48)
    BY DEF Bits, LowBits, Word
  <1>6. LessString(encodeULID(Bits(call[p].ms), call[p].draw),
                   encodeULID(Bits(call[c].ms), call[c].draw))
    BY <1>2, <1>4, <1>5, TimeDecides
  <1> QED
    BY <1>1, <1>6 DEF Inv, OwnEntropy

(* Whatever a key's higher bits are, the two keys around one bit are in    *)
(* order.                                                                  *)
LEMMA Neighbours ==
    ASSUME NEW k \in SUBSET Nat, NEW bit \in 0..127
    PROVE  LessKey(Ms(Smaller(k, bit)), Rand(Smaller(k, bit)), Ms(Larger(k, bit)), Rand(Larger(k, bit)))
  <1> DEFINE s == Smaller(k, bit)
             l == Larger(k, bit)
  <1>1. \A b \in Nat : (b > bit => (b \in s <=> b \in l)) /\ bit \notin s /\ bit \in l
    BY DEF Smaller, Larger
  <1> HIDE DEF s, l
  <1>2. CASE bit >= 80
    <2>1. bit - 80 \in 0..47 /\ (bit - 80) + 80 = bit
      BY <1>2
    <2>2. bit - 80 \in Ms(l) \ Ms(s)
      BY <1>1, <2>1 DEF Ms
    <2>3. ASSUME NEW c \in (Ms(s) \ Ms(l)) \cup (Ms(l) \ Ms(s)) PROVE c <= bit - 80
      <3>1. c \in 0..47 /\ c + 80 \in Nat /\ ~ (c + 80 \in s <=> c + 80 \in l)
        BY DEF Ms
      <3> QED
        BY <1>1, <3>1
    <2> QED
      BY <2>2, <2>3 DEF LessKey, LessWord, s, l
  <1>3. ASSUME bit < 80 PROVE Ms(s) = Ms(l)
    <2>1. ASSUME NEW b \in 0..47 PROVE b + 80 \in s <=> b + 80 \in l
      BY <1>1, <1>3
    <2> QED
      BY <2>1 DEF Ms
  <1>4. CASE bit < 80 /\ bit >= 64
    <2>1. bit - 64 \in 0..15 /\ (bit - 64) + 64 = bit
      BY <1>4
    <2>2. bit - 64 \in Rand(l).hi \ Rand(s).hi
      BY <1>1, <2>1 DEF Rand
    <2>3. ASSUME NEW c \in (Rand(s).hi \ Rand(l).hi) \cup (Rand(l).hi \ Rand(s).hi)
          PROVE  c <= bit - 64
      <3>1. c \in 0..15 /\ c + 64 \in Nat /\ ~ (c + 64 \in s <=> c + 64 \in l)
        BY DEF Rand
      <3> QED
        BY <1>1, <3>1
    <2> QED
      BY <1>3, <1>4, <2>2, <2>3 DEF LessKey, LessWord, s, l
  <1>5. CASE bit < 64
    <2>1. Rand(s).hi = Rand(l).hi
      <3>1. ASSUME NEW b \in 0..15 PROVE b + 64 \in s <=> b + 64 \in l
        BY <1>1, <1>5
      <3> QED
        BY <3>1 DEF Rand
    <2>2. bit \in Rand(l).lo \ Rand(s).lo
      BY <1>1, <1>5 DEF Rand
    <2>3. ASSUME NEW c \in (Rand(s).lo \ Rand(l).lo) \cup (Rand(l).lo \ Rand(s).lo)
          PROVE  c <= bit
      <3>1. c \in 0..63 /\ ~ (c \in s <=> c \in l)
        BY DEF Rand
      <3> QED
        BY <1>1, <3>1
    <2> QED
      BY <1>3, <1>5, <2>1, <2>2, <2>3 DEF LessKey, LessWord, s, l
  <1> QED
    BY <1>2, <1>4, <1>5

(* IDs with their own time and draw sort as their keys do.                 *)
LEMMA InvKeyOrder == Inv => StringOrderIsKeyOrder
  <1> SUFFICES ASSUME Inv PROVE StringOrderIsKeyOrder
    OBVIOUS
  <1>1. NeighboursInOrder
    <2> SUFFICES ASSUME NEW ms \in FirstMs..LastMs, NEW draw \in Draws \cup {ZeroEntropy},
                        NEW bit \in 0..127
                 PROVE  LET s == Smaller(Key(ms, draw), bit)
                            l == Larger(Key(ms, draw), bit)
                        IN  /\ LessKey(Ms(s), Rand(s), Ms(l), Rand(l))
                            /\ LessString(encodeULID(Ms(s), Rand(s)), encodeULID(Ms(l), Rand(l)))
      BY DEF NeighboursInOrder
    <2> DEFINE k == Key(ms, draw)
               s == Smaller(k, bit)
               l == Larger(k, bit)
    <2>1. k \in SUBSET Nat
      <3>1. draw \in Entropy
        BY EventIDsAssumption DEF ZeroEntropy, Entropy, Word
      <3>2. draw.hi \in SUBSET Nat /\ draw.lo \in SUBSET Nat /\ Bits(ms) \in SUBSET Nat
        BY <3>1 DEF Entropy, Word, Bits, LowBits
      <3> QED
        BY <3>2 DEF Key
    <2> HIDE DEF k
    <2>2. LessKey(Ms(s), Rand(s), Ms(l), Rand(l))
      BY <2>1, Neighbours
    <2> HIDE DEF s, l
    <2>3. Ms(s) \in Word(48) /\ Ms(l) \in Word(48) /\ Rand(s) \in Entropy /\ Rand(l) \in Entropy
      BY DEF Ms, Rand, Word, Entropy
    <2>4. LessString(encodeULID(Ms(s), Rand(s)), encodeULID(Ms(l), Rand(l)))
      BY <2>2, <2>3, EncodingOrder
    <2> QED
      BY <2>2, <2>4 DEF s, l, k
  <1>2. ASSUME NEW c \in Returned, NEW d \in Returned
        PROVE  LessString(call[c].id, call[d].id) <=>
                   LessKey(Bits(call[c].ms), call[c].draw, Bits(call[d].ms), call[d].draw)
    <2>1. call[c].draw \in Entropy /\ call[d].draw \in Entropy
      BY DEF Inv, TypeOK, Call, Returned
    <2>2. Bits(call[c].ms) \in Word(48) /\ Bits(call[d].ms) \in Word(48)
      BY DEF Bits, LowBits, Word
    <2>3. /\ call[c].id = encodeULID(Bits(call[c].ms), call[c].draw)
          /\ call[d].id = encodeULID(Bits(call[d].ms), call[d].draw)
      BY DEF Inv, OwnEntropy
    <2> QED
      BY <2>1, <2>2, <2>3, EncodingOrder
  <1> QED
    BY <1>1, <1>2 DEF StringOrderIsKeyOrder

(* Together the invariants of every run of NewEventID.                     *)
THEOREM EventIDInvariant == Spec => []Inv
  BY InvInit, InvNext, PTL DEF Spec

(* Each caller's time, draw and ID, the lock and the buffer keep their     *)
(* shapes.                                                                 *)
THEOREM EventIDTypeCorrect == Spec => []TypeOK
  <1>1. Inv => TypeOK
    BY DEF Inv
  <1> QED
    BY <1>1, EventIDInvariant, PTL

(* ulidMu suffices: with any number of goroutines, no ID is encoded from   *)
(* another call's randomness.                                              *)
THEOREM EntropyOwned == Spec => []OwnEntropy
  <1>1. Inv => OwnEntropy
    BY DEF Inv
  <1> QED
    BY <1>1, EventIDInvariant, PTL

(* The ID of a call that read a later time sorts after that of one that    *)
(* read an earlier time, whatever was drawn and in whatever order the two  *)
(* got the lock and returned, for every clock of 48 bits.                  *)
THEOREM LaterSortsLater == Spec => []LaterMsSortsLater
  BY InvSorts, EventIDInvariant, PTL

(* The strings handed out, and any two around one bit of a key, sort as    *)
(* their times and draws do.                                               *)
THEOREM KeyOrderKept == Spec => []StringOrderIsKeyOrder
  BY InvKeyOrder, EventIDInvariant, PTL
=============================================================================
