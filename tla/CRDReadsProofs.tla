--------------------------- MODULE CRDReadsProofs ---------------------------
(***************************************************************************)
(* What a call of the CRD-backed read model answers, for every cluster,    *)
(* every sequence of changes and every call of CRDReads.                   *)
(***************************************************************************)
EXTENDS CRDReads, FunctionTheorems, FiniteSetTheorems, SequenceTheorems, TLAPS

-----------------------------------------------------------------------------
(* Sorting.  A finite set with a strict total order R can be enumerated in *)
(* that order: the place of an element is the number of those before it.   *)

(* So there is an answer that sort.Slice may give.                         *)
LEMMA Enumeration ==
    ASSUME NEW S, IsFiniteSet(S), NEW R,
           \A x, y \in S : x # y => <<x, y>> \in R \/ <<y, x>> \in R,
           \A x, y, z \in S : <<x, y>> \in R /\ <<y, z>> \in R => <<x, z>> \in R,
           \A x \in S : <<x, x>> \notin R
    PROVE  \E f \in [1..Cardinality(S) -> S] :
               \A i, j \in 1..Cardinality(S) :
                   i < j => f[i] # f[j] /\ <<f[i], f[j]>> \in R
<1> DEFINE n == Cardinality(S)
           below(x) == {y \in S : <<y, x>> \in R}
           count == [x \in S |-> Cardinality(below(x))]
           rank == [x \in S |-> count[x] + 1]
<1>1. n \in Nat
  BY FS_CardinalityType
<1>2. ASSUME NEW x \in S
      PROVE  IsFiniteSet(below(x)) /\ count[x] \in Nat /\ count[x] <= n - 1
  <2> DEFINE B == below(x)
             D == S \ {x}
  <2>1. B \in SUBSET D
    OBVIOUS
  <2>2. IsFiniteSet(D) /\ Cardinality(D) = n - 1
    BY FS_RemoveElement
  <2> HIDE DEF B, D
  <2>3. IsFiniteSet(B) /\ Cardinality(B) <= n - 1
    BY <2>1, <2>2, FS_Subset
  <2>4. Cardinality(B) \in Nat
    BY <2>3, FS_CardinalityType
  <2>5. QED
    BY <2>3, <2>4, Zenon DEF B
<1>3. ASSUME NEW x \in S, NEW y \in S, <<x, y>> \in R
      PROVE  count[x] < count[y]
  <2> DEFINE A == below(x)
             B == below(y)
  <2>1. A \in SUBSET B /\ A # B
    BY <1>3
  <2>2. IsFiniteSet(B) /\ Cardinality(A) \in Nat /\ Cardinality(B) \in Nat
    BY <1>2
  <2> HIDE DEF A, B
  <2>3. Cardinality(A) <= Cardinality(B) /\ Cardinality(A) # Cardinality(B)
    BY <2>1, <2>2, FS_Subset
  <2>4. Cardinality(A) < Cardinality(B)
    BY <2>2, <2>3
  <2>5. QED
    BY <2>4, Zenon DEF A, B
<1>30. /\ \A x \in S : count[x] \in Nat /\ count[x] <= n - 1
       /\ \A x, y \in S : <<x, y>> \in R => count[x] < count[y]
  BY <1>2, <1>3, Zenon
<1> HIDE DEF n, below, count
<1>4. \A x \in S : rank[x] = count[x] + 1 /\ rank[x] \in 1..n
  BY <1>1, <1>30
<1>5. \A x, y \in S : rank[x] = rank[y] => x = y
  <2>1. SUFFICES ASSUME NEW x \in S, NEW y \in S, rank[x] = rank[y], x # y PROVE FALSE
    OBVIOUS
  <2>2. count[x] = count[y] /\ count[x] \in Nat
    BY <1>30, <1>4, <2>1
  <2>3. ~(count[x] < count[y]) /\ ~(count[y] < count[x])
    BY <2>2
  <2>4. QED
    BY <1>30, <2>1, <2>3
<1>6. rank \in [S -> 1..n]
  BY <1>4
<1> HIDE DEF rank
<1>7. rank \in Injection(S, 1..n)
  BY <1>5, <1>6, Fun_IsInj
<1>8. IsFiniteSet(1..n) /\ Cardinality(1..n) = n
  BY <1>1, FS_Interval
<1>9. rank \in Surjection(S, 1..n)
  BY <1>7, <1>8, FS_Injection DEF n
<1>10. \A i \in 1..n : \E x \in S : rank[x] = i
  BY <1>9, Fun_SurjectionProperties, Zenon
<1> DEFINE f == [i \in 1..n |-> CHOOSE x \in S : rank[x] = i]
<1>11. \A i \in 1..n : f[i] \in S /\ rank[f[i]] = i
  BY <1>10
<1>12. f \in [1..n -> S]
  BY <1>11
<1> HIDE DEF f
<1>13. ASSUME NEW i \in 1..n, NEW j \in 1..n, i < j
       PROVE  f[i] # f[j] /\ <<f[i], f[j]>> \in R
  <2>1. f[i] \in S /\ f[j] \in S /\ rank[f[i]] = i /\ rank[f[j]] = j
    BY <1>11
  <2>2. f[i] # f[j]
    BY <1>13, <2>1, <1>1
  <2>3. ASSUME <<f[j], f[i]>> \in R PROVE FALSE
    <3>1. count[f[j]] < count[f[i]]
      BY <1>30, <2>1, <2>3
    <3>2. QED
      BY <1>1, <1>30, <1>4, <1>13, <2>1, <3>1
  <2>4. QED
    BY <2>1, <2>2, <2>3
<1>14. QED
  BY <1>12, <1>13 DEF n

(* f lists the members of S, each once.                                    *)
Enumerates(f, S) ==
    /\ f \in Seq(S) /\ Len(f) = Cardinality(S)
    /\ DOMAIN f = 1..Cardinality(S)
    /\ \A i \in DOMAIN f : f[i] \in S
    /\ \A x \in S : \E i \in DOMAIN f : f[i] = x
    /\ \A i, j \in DOMAIN f : f[i] = f[j] => i = j

(* A sequence of distinct members, as long as the set, has every member once. *)
LEMMA EachOnce ==
    ASSUME NEW S, IsFiniteSet(S), NEW f \in [1..Cardinality(S) -> S],
           \A i, j \in 1..Cardinality(S) : i < j => f[i] # f[j]
    PROVE  Enumerates(f, S)
<1> DEFINE n == Cardinality(S)
<1>1. n \in Nat
  BY FS_CardinalityType
<1>2. f \in [1..n -> S] /\ \A i, j \in 1..n : i < j => f[i] # f[j]
  OBVIOUS
<1> HIDE DEF n
<1>3. \A i, j \in 1..n : f[i] = f[j] => i = j
  BY <1>1, <1>2
<1>4. f \in Injection(1..n, S)
  BY <1>2, <1>3, Fun_IsInj
<1>5. IsFiniteSet(1..n) /\ Cardinality(1..n) = n
  BY <1>1, FS_Interval
<1>6. f \in Surjection(1..n, S)
  BY <1>4, <1>5, FS_Injection DEF n
<1>7. \A x \in S : \E i \in 1..n : f[i] = x
  BY <1>6 DEF Surjection
<1>8. f \in Seq(S) /\ Len(f) = n /\ DOMAIN f = 1..n
  BY <1>1, <1>2
<1>9. QED
  BY <1>2, <1>3, <1>7, <1>8 DEF Enumerates, n

(* The order of integers: positions, cells and regions.                    *)
LEMMA SortedIntegers ==
    ASSUME NEW S \in SUBSET Int, IsFiniteSet(S)
    PROVE  /\ Enumerates(Sorted(S, Ascending), S)
           /\ \A i, j \in 1..Cardinality(S) :
                 i < j => ~Ascending(Sorted(S, Ascending)[j], Sorted(S, Ascending)[i])
<1> DEFINE n == Cardinality(S)
           F == [1..n -> S]
           Ordered(f) == \A i, j \in DOMAIN f : i < j => f[i] # f[j] /\ ~Ascending(f[j], f[i])
           s == Sorted(S, Ascending)
<1>1. \E f \in F : Ordered(f)
  <2> DEFINE R == {e \in S \X S : e[1] < e[2]}
  <2>1. \A x, y \in S : x # y => <<x, y>> \in R \/ <<y, x>> \in R
    OBVIOUS
  <2>2. \A x, y, z \in S : <<x, y>> \in R /\ <<y, z>> \in R => <<x, z>> \in R
    OBVIOUS
  <2>3. \A x \in S : <<x, x>> \notin R
    OBVIOUS
  <2>4. \A x, y \in S : <<x, y>> \in R => ~Ascending(y, x)
    BY DEF Ascending
  <2> HIDE DEF R
  <2>5. PICK f \in F : \A i, j \in 1..n : i < j => f[i] # f[j] /\ <<f[i], f[j]>> \in R
    BY <2>1, <2>2, <2>3, Enumeration
  <2>6. f \in [1..n -> S]
    OBVIOUS
  <2> HIDE DEF n, F
  <2>7. DOMAIN f = 1..n /\ \A i \in 1..n : f[i] \in S
    BY <2>6
  <2>8. Ordered(f)
    BY <2>4, <2>5, <2>7
  <2>9. QED
    BY <2>8
<1>2. s = CHOOSE f \in F : Ordered(f)
  BY DEF Sorted
<1>3. s \in F /\ Ordered(s)
  <2> HIDE DEF F, Ordered, s
  <2>1. QED
    BY <1>1, <1>2, Zenon
<1>4. s \in [1..Cardinality(S) -> S] /\ DOMAIN s = 1..Cardinality(S)
  <2> HIDE DEF s
  <2>1. QED
    BY <1>3
<1>5. \A i, j \in 1..Cardinality(S) : i < j => s[i] # s[j] /\ ~Ascending(s[j], s[i])
  BY <1>3, <1>4
<1> HIDE DEF s
<1>6. Enumerates(s, S)
  BY <1>4, <1>5, EachOnce
<1>7. QED
  BY <1>5, <1>6 DEF s

(* The order of the API server: no two stored objects tie.                 *)
LEMMA SortedObjects ==
    ASSUME NEW S , IsFiniteSet(S),
           \A o \in S : o.ns \in Nat /\ o.name \in Nat,
           \A o, p \in S : SameObject(o, p) => o = p
    PROVE  /\ Enumerates(Sorted(S, ListedBefore), S)
           /\ \A i, j \in 1..Cardinality(S) :
                 i < j => ~ListedBefore(Sorted(S, ListedBefore)[j], Sorted(S, ListedBefore)[i])
<1> DEFINE n == Cardinality(S)
           F == [1..n -> S]
           Ordered(f) == \A i, j \in DOMAIN f : i < j => f[i] # f[j] /\ ~ListedBefore(f[j], f[i])
           s == Sorted(S, ListedBefore)
<1>1. \E f \in F : Ordered(f)
  <2> DEFINE R == {e \in S \X S : ListedBefore(e[1], e[2])}
  <2>1. \A x, y \in S : x # y => <<x, y>> \in R \/ <<y, x>> \in R
    BY DEF ListedBefore, SameObject
  <2>2. \A x, y, z \in S : <<x, y>> \in R /\ <<y, z>> \in R => <<x, z>> \in R
    BY DEF ListedBefore
  <2>3. \A x \in S : <<x, x>> \notin R
    BY DEF ListedBefore
  <2>4. \A x, y \in S : <<x, y>> \in R => ~ListedBefore(y, x)
    BY DEF ListedBefore
  <2> HIDE DEF R
  <2>5. PICK f \in F : \A i, j \in 1..n : i < j => f[i] # f[j] /\ <<f[i], f[j]>> \in R
    BY <2>1, <2>2, <2>3, Enumeration
  <2>6. f \in [1..n -> S]
    OBVIOUS
  <2> HIDE DEF n, F
  <2>7. DOMAIN f = 1..n /\ \A i \in 1..n : f[i] \in S
    BY <2>6
  <2>8. Ordered(f)
    BY <2>4, <2>5, <2>7
  <2>9. QED
    BY <2>8
<1>2. s = CHOOSE f \in F : Ordered(f)
  BY DEF Sorted
<1>3. s \in F /\ Ordered(s)
  <2> HIDE DEF F, Ordered, s
  <2>1. QED
    BY <1>1, <1>2, Zenon
<1>4. s \in [1..Cardinality(S) -> S] /\ DOMAIN s = 1..Cardinality(S)
  <2> HIDE DEF s
  <2>1. QED
    BY <1>3
<1>5. \A i, j \in 1..Cardinality(S) : i < j => s[i] # s[j] /\ ~ListedBefore(s[j], s[i])
  BY <1>3, <1>4
<1> HIDE DEF s
<1>6. Enumerates(s, S)
  BY <1>4, <1>5, EachOnce
<1>7. QED
  BY <1>5, <1>6 DEF s

(* The order of the headers of a matrix.                                   *)
LEMMA SortedHeaders ==
    ASSUME NEW S \in SUBSET [env : Nat, region : Nat], IsFiniteSet(S)
    PROVE  /\ Enumerates(Sorted(S, Before), S)
           /\ \A i, j \in 1..Cardinality(S) :
                 i < j => ~Before(Sorted(S, Before)[j], Sorted(S, Before)[i])
<1> DEFINE n == Cardinality(S)
           F == [1..n -> S]
           Ordered(f) == \A i, j \in DOMAIN f : i < j => f[i] # f[j] /\ ~Before(f[j], f[i])
           s == Sorted(S, Before)
<1>1. \E f \in F : Ordered(f)
  <2> DEFINE R == {e \in S \X S : Before(e[1], e[2])}
  <2>1. \A x, y \in S : x # y => <<x, y>> \in R \/ <<y, x>> \in R
    BY DEF Before
  <2>2. \A x, y, z \in S : <<x, y>> \in R /\ <<y, z>> \in R => <<x, z>> \in R
    BY DEF Before
  <2>3. \A x \in S : <<x, x>> \notin R
    BY DEF Before
  <2>4. \A x, y \in S : <<x, y>> \in R => ~Before(y, x)
    BY DEF Before
  <2> HIDE DEF R
  <2>5. PICK f \in F : \A i, j \in 1..n : i < j => f[i] # f[j] /\ <<f[i], f[j]>> \in R
    BY <2>1, <2>2, <2>3, Enumeration
  <2>6. f \in [1..n -> S]
    OBVIOUS
  <2> HIDE DEF n, F
  <2>7. DOMAIN f = 1..n /\ \A i \in 1..n : f[i] \in S
    BY <2>6
  <2>8. Ordered(f)
    BY <2>4, <2>5, <2>7
  <2>9. QED
    BY <2>8
<1>2. s = CHOOSE f \in F : Ordered(f)
  BY DEF Sorted
<1>3. s \in F /\ Ordered(s)
  <2> HIDE DEF F, Ordered, s
  <2>1. QED
    BY <1>1, <1>2, Zenon
<1>4. s \in [1..Cardinality(S) -> S] /\ DOMAIN s = 1..Cardinality(S)
  <2> HIDE DEF s
  <2>1. QED
    BY <1>3
<1>5. \A i, j \in 1..Cardinality(S) : i < j => s[i] # s[j] /\ ~Before(s[j], s[i])
  BY <1>3, <1>4
<1> HIDE DEF s
<1>6. Enumerates(s, S)
  BY <1>4, <1>5, EachOnce
<1>7. QED
  BY <1>5, <1>6 DEF s

(* The order of the lifecycle leaves environments of one name in different *)
(* namespaces tied; the namespace would decide between them.               *)
LEMMA SortedEnvironments ==
    ASSUME NEW S , IsFiniteSet(S),
           \A o \in S : o.ns \in Nat /\ o.name \in Nat /\ o.order \in Int,
           \A o, p \in S : SameObject(o, p) => o = p
    PROVE  /\ Enumerates(Sorted(S, EarlierStage), S)
           /\ \A i, j \in 1..Cardinality(S) :
                 i < j => ~EarlierStage(Sorted(S, EarlierStage)[j], Sorted(S, EarlierStage)[i])
<1> DEFINE n == Cardinality(S)
           F == [1..n -> S]
           Ordered(f) == \A i, j \in DOMAIN f : i < j => f[i] # f[j] /\ ~EarlierStage(f[j], f[i])
           s == Sorted(S, EarlierStage)
<1>1. \E f \in F : Ordered(f)
  <2> DEFINE R == {e \in S \X S : \/ EarlierStage(e[1], e[2])
                                \/ /\ e[1].order = e[2].order /\ e[1].name = e[2].name
                                   /\ e[1].ns < e[2].ns}
  <2>1. \A x, y \in S : x # y => <<x, y>> \in R \/ <<y, x>> \in R
    BY DEF EarlierStage, SameObject
  <2>2. \A x, y, z \in S : <<x, y>> \in R /\ <<y, z>> \in R => <<x, z>> \in R
    BY DEF EarlierStage
  <2>3. \A x \in S : <<x, x>> \notin R
    BY DEF EarlierStage
  <2>4. \A x, y \in S : <<x, y>> \in R => ~EarlierStage(y, x)
    BY DEF EarlierStage
  <2> HIDE DEF R
  <2>5. PICK f \in F : \A i, j \in 1..n : i < j => f[i] # f[j] /\ <<f[i], f[j]>> \in R
    BY <2>1, <2>2, <2>3, Enumeration
  <2>6. f \in [1..n -> S]
    OBVIOUS
  <2> HIDE DEF n, F
  <2>7. DOMAIN f = 1..n /\ \A i \in 1..n : f[i] \in S
    BY <2>6
  <2>8. Ordered(f)
    BY <2>4, <2>5, <2>7
  <2>9. QED
    BY <2>8
<1>2. s = CHOOSE f \in F : Ordered(f)
  BY DEF Sorted
<1>3. s \in F /\ Ordered(s)
  <2> HIDE DEF F, Ordered, s
  <2>1. QED
    BY <1>1, <1>2, Zenon
<1>4. s \in [1..Cardinality(S) -> S] /\ DOMAIN s = 1..Cardinality(S)
  <2> HIDE DEF s
  <2>1. QED
    BY <1>3
<1>5. \A i, j \in 1..Cardinality(S) : i < j => s[i] # s[j] /\ ~EarlierStage(s[j], s[i])
  BY <1>3, <1>4
<1> HIDE DEF s
<1>6. Enumerates(s, S)
  BY <1>4, <1>5, EachOnce
<1>7. QED
  BY <1>5, <1>6 DEF s

(* The items of a sequence at some of its positions.                       *)
LEMMA ItemsAt ==
    ASSUME NEW T, NEW seq \in Seq(T), NEW I \in SUBSET DOMAIN seq
    PROVE  /\ IsFiniteSet(I) /\ Cardinality(I) \in Nat
           /\ At(seq, I) \in Seq(T)
           /\ Len(At(seq, I)) = Cardinality(I)
           /\ DOMAIN At(seq, I) = 1..Cardinality(I)
           /\ \A k \in DOMAIN At(seq, I) : \E i \in I : At(seq, I)[k] = seq[i]
           /\ \A i \in I : \E k \in DOMAIN At(seq, I) : At(seq, I)[k] = seq[i]
<1> DEFINE n == Cardinality(I)
           pos == Sorted(I, Ascending)
           at == At(seq, I)
<1>1. Len(seq) \in Nat /\ DOMAIN seq = 1..Len(seq) /\ \A i \in DOMAIN seq : seq[i] \in T
  OBVIOUS
<1>2. IsFiniteSet(1..Len(seq)) /\ I \in SUBSET (1..Len(seq)) /\ I \in SUBSET Int
  BY <1>1, FS_Interval
<1>3. IsFiniteSet(I) /\ n \in Nat
  BY <1>2, FS_Subset, FS_CardinalityType
<1>4. Enumerates(pos, I)
  BY <1>2, <1>3, SortedIntegers
<1>5. at = [k \in DOMAIN pos |-> seq[pos[k]]]
  BY DEF At
<1> HIDE DEF n, pos, at
<1>6. DOMAIN pos = 1..n /\ \A k \in 1..n : pos[k] \in I
  BY <1>4 DEF Enumerates, n
<1>7. DOMAIN at = 1..n /\ \A k \in 1..n : at[k] = seq[pos[k]] /\ at[k] \in T
  BY <1>1, <1>5, <1>6
<1>8. at \in Seq(T) /\ Len(at) = n
  <2>1. at \in [1..n -> T]
    BY <1>5, <1>6, <1>7
  <2>2. QED
    BY <1>3, <2>1
<1>9. \A i \in I : \E k \in 1..n : pos[k] = i
  BY <1>4, <1>6 DEF Enumerates
<1>10. QED
  BY <1>3, <1>6, <1>7, <1>8, <1>9 DEF at, n

-----------------------------------------------------------------------------
(* What the answer of a List holds.                                        *)

(* What is stored of a kind is finite, with one version of each object.    *)
LEMMA StoredShape ==
    ASSUME NEW k \in Kinds, NEW S \in Stored(k)
    PROVE  /\ S \subseteq Universe[k] /\ IsFiniteSet(S)
           /\ \A o \in S : o.ns \in Nat /\ o.name \in Nat
           /\ \A o, p \in S : SameObject(o, p) => o = p
  BY ObjectsAssumption DEF Stored

(* The answer of a List has every stored object once.                      *)
LEMMA ListAnswer ==
    ASSUME NEW k \in Kinds, NEW S \in Stored(k)
    PROVE  Enumerates(InListOrder(S), S)
  BY StoredShape, SortedObjects DEF InListOrder

-----------------------------------------------------------------------------
(* The inductive invariant: the last entry of the history is the present,  *)
(* each List answered with what was stored at some moment of the call, and *)
(* the method's answer is made from these Lists, unless one of them failed.*)

HistoryTyped ==
    /\ \A m \in DOMAIN seen : \A k \in Kinds : seen[m].cluster[k] \in Stored(k)
    /\ seen[Len(seen)] = [cluster |-> cluster, installed |-> installed]

ListsSeen ==
    /\ lists \in Seq(Seq(UNION {Universe[k] : k \in Kinds}))
    /\ \A i \in DOMAIN lists : \E m \in DOMAIN seen :
          lists[i] = InListOrder(seen[m].cluster[ListedBy(call.op)[i]])

(* A CRD takes its objects with it.                                        *)
GoneIsEmpty == \A k \in Kinds : k \notin installed => cluster[k] = {}

NextKindGone == Len(lists) < Len(ListedBy(call.op)) /\ NextKind \notin installed

AnswerFromLists ==
    \/ Pending
    \/ result = Failed
    \/ result = NotFound /\ NextKindGone
    \/ /\ result = answer(call, lists)
       /\ ListedBy(call.op) = << >> \/ Len(lists) > 0

ReadInv == TypeOK /\ HistoryTyped /\ GoneIsEmpty /\ ListsSeen /\ AnswerFromLists

Operations == {"ListTargets", "ListEnvironments", "QueryAudit", "GetDiff",
               "ListApplications", "ListReleases", "ListApplicationReleases",
               "GetApplication", "GetMatrix", "GetTargetHealth", "GetTargetDrift",
               "GetPromotion", "ListApplicationPromotions", "ListPromotions"}

(* A call is of one of the methods of the port.                            *)
LEMMA CallOperation == ASSUME NEW c \in Calls PROVE c.op \in Operations
  BY DEF Calls, Operations

(* A method makes at most two Lists, of known kinds.                       *)
LEMMA ListedKinds ==
    ASSUME NEW op \in Operations
    PROVE  /\ Len(ListedBy(op)) \in 0..2
           /\ ListedBy(op) \in Seq(Kinds)
           /\ DOMAIN ListedBy(op) = 1..Len(ListedBy(op))
           /\ \A i \in DOMAIN ListedBy(op) : ListedBy(op)[i] \in Kinds
<1>1. \/ ListedBy(op) = << >>
      \/ \E k \in Kinds : ListedBy(op) = <<k>>
      \/ \E k, l \in Kinds : ListedBy(op) = <<k, l>>
  BY DEF Operations, ListedBy, Kinds
<1>2. ASSUME NEW k \in Kinds, ListedBy(op) = <<k>>
      PROVE  /\ Len(ListedBy(op)) \in 0..2 /\ ListedBy(op) \in Seq(Kinds)
             /\ DOMAIN ListedBy(op) = 1..Len(ListedBy(op))
             /\ \A i \in DOMAIN ListedBy(op) : ListedBy(op)[i] \in Kinds
  BY <1>2
<1>3. ASSUME NEW k \in Kinds, NEW l \in Kinds, ListedBy(op) = <<k, l>>
      PROVE  /\ Len(ListedBy(op)) \in 0..2 /\ ListedBy(op) \in Seq(Kinds)
             /\ DOMAIN ListedBy(op) = 1..Len(ListedBy(op))
             /\ \A i \in DOMAIN ListedBy(op) : ListedBy(op)[i] \in Kinds
  BY <1>3
<1>4. CASE ListedBy(op) = << >>
  BY <1>4
<1>5. QED
  BY <1>1, <1>2, <1>3, <1>4

(* Each method, by the name it is called under.                            *)
LEMMA AnswerOf ==
    ASSUME NEW c \in Calls, NEW ls
    PROVE  /\ c.op = "ListApplications" => answer(c, ls) = ListApplications(ls, c.filter)
           /\ c.op = "GetApplication" => answer(c, ls) = GetApplication(ls, c.arg)
           /\ c.op = "GetMatrix" => answer(c, ls) = GetMatrix(ls, c.arg)
           /\ c.op = "ListTargets" => answer(c, ls) = ListTargets(ls)
           /\ c.op = "GetTargetHealth" => answer(c, ls) = GetTargetHealth(ls, c.arg)
           /\ c.op = "GetTargetDrift" => answer(c, ls) = GetTargetDrift(ls, c.arg)
           /\ c.op = "ListEnvironments" => answer(c, ls) = ListEnvironments(ls)
           /\ c.op = "ListApplicationReleases" =>
                 answer(c, ls) = ListApplicationReleases(ls, c.arg)
           /\ c.op = "ListReleases" => answer(c, ls) = ListReleases(ls, c.project)
           /\ c.op = "GetDiff" => answer(c, ls) = GetDiff(c.right)
           /\ c.op = "QueryAudit" => answer(c, ls) = QueryAudit
           /\ c.op = "ListApplicationPromotions" =>
                 answer(c, ls) = ListApplicationPromotions(ls, c.arg)
           /\ c.op = "ListPromotions" => answer(c, ls) = ListPromotions(ls, c.state)
           /\ c.op = "GetPromotion" => answer(c, ls) = GetPromotion(ls, c.arg)
  BY DEF answer

(* A method returns a value or not found, or goes on to its next List.     *)
LEMMA AnswerOutcome ==
    ASSUME NEW c \in Calls, NEW ls
    PROVE  answer(c, ls).outcome \in {"ok", "notFound", "pending"}
<1>1. \A v : Ok(v).outcome = "ok"
  BY DEF Ok
<1>2. NotFound.outcome = "notFound" /\ Unfinished.outcome = "pending"
  BY DEF NotFound, Unfinished
<1>3. c.op \in Operations
  BY CallOperation
<1>4. CASE c.op \in {"ListApplications", "ListTargets", "ListApplicationReleases",
                     "ListReleases", "ListApplicationPromotions", "ListPromotions"}
  <2>1. \E v : answer(c, ls) = Ok(v)
    BY <1>4, AnswerOf, Zenon
       DEF ListApplications, ListTargets, ListApplicationReleases, ListReleases,
           ListApplicationPromotions, ListPromotions
  <2>2. QED
    BY <1>1, <2>1
<1>5. CASE c.op \in {"GetDiff", "QueryAudit"}
  BY <1>1, <1>5, AnswerOf DEF GetDiff, QueryAudit
<1>6. CASE c.op \in {"GetApplication", "GetTargetDrift", "GetPromotion"}
  BY <1>1, <1>2, <1>6, AnswerOf DEF GetApplication, GetTargetDrift, GetPromotion
<1>7. CASE c.op \in {"GetMatrix", "GetTargetHealth", "ListEnvironments"}
  <2>1. answer(c, ls) \in {NotFound, Unfinished} \/ \E v : answer(c, ls) = Ok(v)
    BY <1>7, AnswerOf, Zenon DEF GetMatrix, GetTargetHealth, ListEnvironments
  <2>2. QED
    BY <1>1, <1>2, <2>1
<1>8. QED
  BY <1>3, <1>4, <1>5, <1>6, <1>7 DEF Operations

(* A change leaves at most one version of each object.                     *)
LEMMA ChangedStored ==
    ASSUME NEW k \in Kinds, NEW S \in Stored(k), NEW o \in Universe[k]
    PROVE  /\ S \ {o} \in Stored(k)
           /\ {p \in S : ~SameObject(p, o)} \cup {o} \in Stored(k)
           /\ {} \in Stored(k)
<1> DEFINE T == {p \in S : ~SameObject(p, o)}
<1>1. IsFiniteSet(S \ {o}) /\ IsFiniteSet(T) /\ IsFiniteSet({})
  BY FS_Subset, FS_RemoveElement, FS_EmptySet DEF Stored
<1>2. IsFiniteSet(T \cup {o})
  BY <1>1, FS_AddElement
<1>3. \A p, q \in T \cup {o} : SameObject(p, q) => p = q
  BY DEF Stored, SameObject
<1>4. QED
  BY <1>1, <1>2, <1>3 DEF Stored

(* A call that has not begun has listed nothing.                           *)
LEMMA InitReads == Init => ReadInv
<1> SUFFICES ASSUME Init PROVE ReadInv
  OBVIOUS
<1>1. call \in Calls /\ installed = Kinds /\ lists = << >> /\ result = [outcome |-> "pending"]
      /\ seen = <<[cluster |-> cluster, installed |-> installed]>>
  BY DEF Init
<1>2. DOMAIN cluster = Kinds /\ cluster \in Clusters
  BY DEF Init, Kinds, Clusters, Universe, Stored
<1>3. \A k \in Kinds : cluster[k] \in Stored(k)
  <2> DEFINE found(k) == IF k \in Listed(call) THEN Stored(k) ELSE {{}}
  <2>1. PICK A \in found("Application"), R \in found("Release"),
             T \in found("DeploymentTarget"), E \in found("Environment"),
             H \in found("HealthCheck"), P \in found("Promotion") :
           cluster = [Application |-> A, Release |-> R, DeploymentTarget |-> T,
                      Environment |-> E, HealthCheck |-> H, Promotion |-> P]
    BY DEF Init
  <2>2. ASSUME NEW k \in Kinds, NEW X \in found(k) PROVE X \in Stored(k)
    <3>1. {} \in Stored(k)
      BY FS_EmptySet DEF Stored
    <3>2. QED
      BY <3>1
  <2>3. /\ A \in Stored("Application") /\ R \in Stored("Release")
        /\ T \in Stored("DeploymentTarget") /\ E \in Stored("Environment")
        /\ H \in Stored("HealthCheck") /\ P \in Stored("Promotion")
    BY <2>2 DEF Kinds
  <2>4. QED
    BY <2>1, <2>3 DEF Kinds
<1>4. /\ Len(seen) = 1 /\ DOMAIN seen = {1}
      /\ seen[1] = [cluster |-> cluster, installed |-> installed]
      /\ Len(lists) = 0 /\ DOMAIN lists = {}
  BY <1>1
<1>5. Len(ListedBy(call.op)) \in Nat
  BY <1>1, CallOperation, ListedKinds
<1>6. TypeOK
  <2>1. seen \in Seq([cluster : Clusters, installed : SUBSET Kinds])
    BY <1>1, <1>2
  <2>2. QED
    BY <1>1, <1>2, <1>3, <1>4, <1>5, <2>1, ObjectsAssumption DEF TypeOK
<1>7. HistoryTyped
  BY <1>3, <1>4 DEF HistoryTyped
<1>8. ListsSeen /\ AnswerFromLists
  BY <1>1, <1>4 DEF ListsSeen, AnswerFromLists, Pending
<1>9. GoneIsEmpty
  BY <1>1 DEF GoneIsEmpty
<1>10. QED
  BY <1>6, <1>7, <1>8, <1>9 DEF ReadInv

(* A change by another client lengthens the history, and only that.        *)
LEMMA WorldStep ==
    ASSUME ReadInv, Pending, Len(seen) <= MaxChanges, Observe,
           cluster' \in Clusters, \A k \in Kinds : cluster'[k] \in Stored(k),
           installed' \subseteq Kinds, GoneIsEmpty', UNCHANGED <<call, lists, result>>
    PROVE  ReadInv'
<1> DEFINE Moment == [cluster : Clusters, installed : SUBSET Kinds]
           now == [cluster |-> cluster', installed |-> installed']
           n == Len(seen)
<1>1. now \in Moment /\ seen \in Seq(Moment) /\ seen' = Append(seen, now) /\ n \in 1..MaxChanges
  BY ObjectsAssumption DEF ReadInv, TypeOK, Observe
<1> HIDE DEF now
<1>2. /\ seen' \in Seq(Moment) /\ Len(seen') = n + 1 /\ DOMAIN seen' = 1..(n + 1)
      /\ seen'[n + 1] = now /\ \A m \in 1..n : seen'[m] = seen[m] /\ m \in DOMAIN seen'
      /\ DOMAIN seen = 1..n
  BY <1>1
<1>3. TypeOK'
  BY <1>1, <1>2, ObjectsAssumption DEF ReadInv, TypeOK
<1>4. HistoryTyped'
  <2>1. ASSUME NEW m \in DOMAIN seen', NEW k \in Kinds
        PROVE  seen'[m].cluster[k] \in Stored(k)
    <3>1. CASE m = n + 1
      BY <1>2, <3>1 DEF now
    <3>2. CASE m \in 1..n
      BY <1>2, <3>2 DEF ReadInv, HistoryTyped
    <3>3. QED
      BY <1>1, <1>2, <3>1, <3>2
  <2>2. QED
    BY <1>2, <2>1 DEF HistoryTyped, now
<1>5. ListsSeen'
  BY <1>2 DEF ReadInv, ListsSeen
<1>6. AnswerFromLists'
  BY DEF AnswerFromLists, Pending
<1>7. QED
  BY <1>3, <1>4, <1>5, <1>6 DEF ReadInv

(* A change by another client adds a moment to the call.                   *)
LEMMA ChangeObjectStep == ReadInv /\ ChangeObject => ReadInv'
<1> SUFFICES ASSUME ReadInv, ChangeObject PROVE ReadInv'
  OBVIOUS
<1>1. PICK k \in Listed(call) \cap installed : \E o \in Universe[k] :
         cluster' = [cluster EXCEPT ![k] =
                       IF o \in @ THEN @ \ {o}
                       ELSE {p \in @ : ~SameObject(p, o)} \cup {o}]
  BY DEF ChangeObject
<1>2. PICK o \in Universe[k] :
         cluster' = [cluster EXCEPT ![k] =
                       IF o \in @ THEN @ \ {o}
                       ELSE {p \in @ : ~SameObject(p, o)} \cup {o}]
  BY <1>1
<1>3. k \in Kinds /\ cluster \in Clusters /\ \A j \in Kinds : cluster[j] \in Stored(j)
  BY DEF ReadInv, TypeOK
<1>4. PICK X \in Stored(k) : cluster' = [cluster EXCEPT ![k] = X]
  BY <1>2, <1>3, ChangedStored
<1>5. cluster' \in Clusters /\ \A j \in Kinds : cluster'[j] \in Stored(j)
  BY <1>3, <1>4 DEF Clusters, Stored
<1>6. k \in installed /\ installed' = installed
  BY DEF ChangeObject
<1>7. GoneIsEmpty'
  BY <1>3, <1>4, <1>6 DEF ReadInv, GoneIsEmpty, Clusters
<1>8. QED
  BY <1>5, <1>7, WorldStep DEF ChangeObject, ReadInv, TypeOK

(* So does the removal of a CRD.                                           *)
LEMMA UninstallKindStep == ReadInv /\ UninstallKind => ReadInv'
<1> SUFFICES ASSUME ReadInv, UninstallKind PROVE ReadInv'
  OBVIOUS
<1>1. PICK k \in Listed(call) \cap installed :
         installed' = installed \ {k} /\ cluster' = [cluster EXCEPT ![k] = {}]
  BY DEF UninstallKind
<1>2. k \in Kinds /\ installed' \subseteq Kinds /\ cluster \in Clusters
      /\ \A j \in Kinds : cluster[j] \in Stored(j)
  BY <1>1 DEF ReadInv, TypeOK
<1>3. {} \in Stored(k)
  BY FS_EmptySet DEF Stored
<1>4. cluster' \in Clusters /\ \A j \in Kinds : cluster'[j] \in Stored(j)
  BY <1>1, <1>2, <1>3 DEF Clusters, Stored
<1>5. GoneIsEmpty'
  BY <1>1, <1>2 DEF ReadInv, GoneIsEmpty, Clusters
<1>6. QED
  BY <1>2, <1>4, <1>5, WorldStep DEF UninstallKind

(* A List shows the cluster of the moment at which it is answered.         *)
LEMMA ListSucceedsStep == ReadInv /\ ListSucceeds => ReadInv'
<1> SUFFICES ASSUME ReadInv, ListSucceeds PROVE ReadInv'
  OBVIOUS
<1> DEFINE All_ == UNION {Universe[k] : k \in Kinds}
           kinds == ListedBy(call.op)
           n == Len(lists)
           l == InListOrder(cluster[NextKind])
<1>1. /\ call \in Calls /\ call.op \in Operations /\ kinds \in Seq(Kinds) /\ Len(kinds) \in 0..2
      /\ DOMAIN kinds = 1..Len(kinds) /\ lists \in Seq(Seq(All_)) /\ n \in Nat /\ n < Len(kinds)
  BY CallOperation, ListedKinds DEF ReadInv, TypeOK, ListsSeen, ListSucceeds, Lists
<1>2. NextKind = kinds[n + 1] /\ NextKind \in Kinds
  BY <1>1 DEF NextKind
<1>3. cluster[NextKind] \in Stored(NextKind)
  BY <1>2 DEF ReadInv, TypeOK
<1>4. Enumerates(l, cluster[NextKind])
  BY <1>2, <1>3, ListAnswer
<1>5. l \in Seq(All_) /\ Range(l) = cluster[NextKind]
  <2> HIDE DEF l
  <2>1. cluster[NextKind] \subseteq All_
    BY <1>2, <1>3, StoredShape
  <2>2. l \in Seq(cluster[NextKind])
    BY <1>4 DEF Enumerates
  <2>3. l \in Seq(All_)
    BY <2>1, <2>2
  <2>4. Range(l) = cluster[NextKind]
    BY <1>4 DEF Enumerates, Range
  <2>5. QED
    BY <2>3, <2>4
<1>6. lists' = Append(lists, l) /\ UNCHANGED <<cluster, installed, call, seen>>
      /\ result' = answer(call, lists')
  BY DEF ListSucceeds
<1> HIDE DEF l
<1>7. /\ lists' \in Seq(Seq(All_)) /\ Len(lists') = n + 1 /\ DOMAIN lists' = 1..(n + 1)
      /\ lists'[n + 1] = l /\ \A i \in 1..n : lists'[i] = lists[i] /\ i \in DOMAIN lists
  BY <1>1, <1>5, <1>6
<1>8. TypeOK'
  <2>1. \A i \in DOMAIN lists' : Range(lists'[i]) \in Stored(kinds[i])
    <3>1. ASSUME NEW i \in 1..n PROVE Range(lists'[i]) \in Stored(kinds[i])
      <4>1. lists'[i] = lists[i] /\ i \in DOMAIN lists
        BY <1>7
      <4>2. QED
        BY <4>1 DEF ReadInv, TypeOK
    <3>2. Range(lists'[n + 1]) \in Stored(kinds[n + 1])
      BY <1>2, <1>3, <1>5, <1>7
    <3>3. QED
      BY <1>1, <1>7, <3>1, <3>2
  <2>2. result'.outcome \in {"pending", "ok", "notFound", "failed"}
    BY <1>1, <1>6, AnswerOutcome
  <2>3. QED
    BY <1>1, <1>6, <1>7, <2>1, <2>2 DEF ReadInv, TypeOK
<1>9. HistoryTyped' /\ GoneIsEmpty'
  BY <1>6 DEF ReadInv, HistoryTyped, GoneIsEmpty
<1>10. ListsSeen'
  <2>1. /\ Len(seen) \in DOMAIN seen
        /\ seen[Len(seen)].cluster[kinds[n + 1]] = cluster[NextKind]
    BY <1>2 DEF ReadInv, TypeOK, HistoryTyped
  <2>2. ASSUME NEW i \in DOMAIN lists'
        PROVE  \E m \in DOMAIN seen : lists'[i] = InListOrder(seen[m].cluster[kinds[i]])
    <3>1. CASE i = n + 1
      BY <1>7, <2>1, <3>1 DEF l
    <3>2. CASE i \in 1..n
      BY <1>7, <3>2 DEF ReadInv, ListsSeen
    <3>3. QED
      BY <1>1, <1>7, <3>1, <3>2
  <2>3. QED
    BY <1>6, <1>7, <2>2 DEF ListsSeen
<1>11. AnswerFromLists'
  BY <1>1, <1>6, <1>7 DEF AnswerFromLists
<1>12. QED
  BY <1>8, <1>9, <1>10, <1>11 DEF ReadInv

(* A step that only returns.                                               *)
LEMMA ReturnStep ==
    ASSUME ReadInv, UNCHANGED <<cluster, installed, call, lists, seen>>,
           result'.outcome \in {"pending", "ok", "notFound", "failed"}, AnswerFromLists'
    PROVE  ReadInv'
<1>1. TypeOK'
  BY DEF ReadInv, TypeOK
<1>2. HistoryTyped' /\ GoneIsEmpty' /\ ListsSeen'
  BY DEF ReadInv, HistoryTyped, GoneIsEmpty, ListsSeen
<1>3. QED
  BY <1>1, <1>2 DEF ReadInv

(* GetDiff and QueryAudit answer without a List.                           *)
LEMMA AnswersAtOnceStep == ReadInv /\ AnswersAtOnce => ReadInv'
<1> SUFFICES ASSUME ReadInv, AnswersAtOnce PROVE ReadInv'
  OBVIOUS
<1>1. call \in Calls /\ call.op \in Operations /\ ListedBy(call.op) = << >>
  BY CallOperation DEF ReadInv, TypeOK, AnswersAtOnce
<1>2. lists = << >>
  BY <1>1 DEF ReadInv, TypeOK, ListsSeen
<1>3. result' = answer(call, lists)
  BY <1>2 DEF AnswersAtOnce
<1>4. QED
  BY <1>1, <1>3, AnswerOutcome, ReturnStep DEF AnswersAtOnce, AnswerFromLists

(* A kind that is gone is not found, and missing at that moment.           *)
LEMMA ListFindsNoKindStep == ReadInv /\ ListFindsNoKind => ReadInv'
<1> SUFFICES ASSUME ReadInv, ListFindsNoKind PROVE ReadInv'
  OBVIOUS
<1>1. result' = NotFound /\ NotFound.outcome = "notFound"
  BY DEF ListFindsNoKind, wrapErr, NotFound
<1>2. NextKindGone'
  BY DEF ListFindsNoKind, NextKindGone, NextKind, Lists
<1>3. QED
  BY <1>1, <1>2, ReturnStep DEF ListFindsNoKind, AnswerFromLists, NotFound

(* Any other failure of a List is returned as such.                        *)
LEMMA ListFailsStep == ReadInv /\ ListFails => ReadInv'
<1> SUFFICES ASSUME ReadInv, ListFails PROVE ReadInv'
  OBVIOUS
<1>1. result' = Failed /\ Failed.outcome = "failed"
  BY DEF ListFails, wrapErr, Failed
<1>2. QED
  BY <1>1, ReturnStep DEF ListFails, AnswerFromLists, Failed

(* Every List a method has made was true at some moment of the call, and   *)
(* its answer is computed from these Lists alone.                          *)
THEOREM ReadInvariant == Spec => []ReadInv
<1>1. ReadInv /\ UNCHANGED vars => ReadInv'
  BY DEF ReadInv, TypeOK, HistoryTyped, GoneIsEmpty, ListsSeen, AnswerFromLists,
         NextKindGone, NextKind, Pending, vars
<1>2. ReadInv /\ [Next]_vars => ReadInv'
  BY <1>1, ChangeObjectStep, UninstallKindStep, ListSucceedsStep, AnswersAtOnceStep,
     ListFindsNoKindStep, ListFailsStep DEF Next
<1>3. QED
  BY <1>2, InitReads, PTL DEF Spec

(* The variables keep their types, and every stored kind keeps at most one *)
(* version of an object.                                                   *)
THEOREM ReadTypeCorrect == Spec => []TypeOK
  BY ReadInvariant, PTL DEF ReadInv

-----------------------------------------------------------------------------
(* The properties follow from the invariant.                               *)

(* The answer of the i-th List, and the moment it was true.                *)
LEMMA ListMoment ==
    ASSUME ReadInv, NEW i \in DOMAIN lists
    PROVE  /\ i \in DOMAIN ListedBy(call.op) /\ ListedBy(call.op)[i] \in Kinds
           /\ \E m \in DOMAIN seen :
                 /\ seen[m].cluster[ListedBy(call.op)[i]] \in Stored(ListedBy(call.op)[i])
                 /\ Enumerates(lists[i], seen[m].cluster[ListedBy(call.op)[i]])
<1>1. /\ call.op \in Operations /\ Len(ListedBy(call.op)) \in Nat
      /\ DOMAIN ListedBy(call.op) = 1..Len(ListedBy(call.op))
      /\ Len(lists) <= Len(ListedBy(call.op)) /\ DOMAIN lists = 1..Len(lists) /\ Len(lists) \in Nat
  BY CallOperation, ListedKinds DEF ReadInv, TypeOK, ListsSeen
<1>2. i \in DOMAIN ListedBy(call.op)
  BY <1>1
<1>3. ListedBy(call.op)[i] \in Kinds
  BY <1>1, <1>2, ListedKinds
<1>4. PICK m \in DOMAIN seen : lists[i] = InListOrder(seen[m].cluster[ListedBy(call.op)[i]])
  BY DEF ReadInv, ListsSeen
<1>5. seen[m].cluster[ListedBy(call.op)[i]] \in Stored(ListedBy(call.op)[i])
  BY <1>3 DEF ReadInv, HistoryTyped
<1>6. QED
  BY <1>2, <1>3, <1>4, <1>5, ListAnswer

-----------------------------------------------------------------------------
(* Collections.                                                            *)

(* The positions I of the members of a List that are in S.                 *)
LEMMA PositionsCounted ==
    ASSUME NEW T, NEW l, Enumerates(l, T), NEW S \in SUBSET T, IsFiniteSet(T),
           NEW I \in SUBSET DOMAIN l, \A i \in DOMAIN l : i \in I <=> l[i] \in S
    PROVE  Cardinality(I) = Cardinality(S)
<1> DEFINE f == [i \in I |-> l[i]]
<1>1. f \in [I -> S] /\ \A i, j \in I : f[i] = f[j] => i = j
  BY DEF Enumerates
<1>2. \A x \in S : \E i \in I : f[i] = x
  BY DEF Enumerates
<1>3. IsFiniteSet(S)
  BY FS_Subset
<1> HIDE DEF f
<1>4. f \in Injection(I, S) /\ f \in Surjection(I, S)
  BY <1>1, <1>2, Fun_IsInj, Fun_IsSurj
<1>5. QED
  BY <1>3, <1>4, FS_Injection

(* The members of a List that are in S, in the order of the List.          *)
LEMMA KeptItems ==
    ASSUME NEW T, NEW l, Enumerates(l, T), NEW S \in SUBSET T, IsFiniteSet(T),
           NEW I \in SUBSET DOMAIN l, \A i \in DOMAIN l : i \in I <=> l[i] \in S
    PROVE  /\ Cardinality(S) \in Nat /\ DOMAIN At(l, I) = 1..Cardinality(S)
           /\ \A k \in DOMAIN At(l, I) : At(l, I)[k] \in S
           /\ \A x \in S : \E k \in DOMAIN At(l, I) : At(l, I)[k] = x
<1> DEFINE at == At(l, I)
<1>1. l \in Seq(T) /\ Cardinality(I) = Cardinality(S)
  BY PositionsCounted DEF Enumerates
<1>2. /\ Cardinality(I) \in Nat /\ DOMAIN at = 1..Cardinality(I)
      /\ \A k \in DOMAIN at : \E i \in I : at[k] = l[i]
      /\ \A i \in I : \E k \in DOMAIN at : at[k] = l[i]
  BY <1>1, ItemsAt
<1>3. \A x \in S : \E i \in I : l[i] = x
  BY DEF Enumerates
<1>4. \A i \in I : l[i] \in S
  OBVIOUS
<1> HIDE DEF at
<1>5. \A k \in DOMAIN at : at[k] \in S
  BY <1>2, <1>4
<1>6. \A x \in S : \E k \in DOMAIN at : at[k] = x
  BY <1>2, <1>3
<1>7. QED
  BY <1>1, <1>2, <1>5, <1>6 DEF at

SingleLists == {"ListApplications", "ListReleases", "ListApplicationReleases", "ListTargets",
                "ListPromotions", "ListApplicationPromotions"}

(* The items of l that c asks for, each translated.                        *)
Filtered(c, l) ==
    LET at == At(l, {i \in DOMAIN l : Asked(c, l[i])})
    IN  [k \in DOMAIN at |-> Image(c, at[k])]

(* A collection read keeps what is asked for, and translates it.           *)
LEMMA CollectionAnswer ==
    ASSUME NEW c \in Calls, NEW ls, c.op \in SingleLists
    PROVE  answer(c, ls) = Ok(Filtered(c, ls[1]))
<1> DEFINE I == {i \in DOMAIN ls[1] : Asked(c, ls[1][i])}
           at == At(ls[1], I)
<1>1. Filtered(c, ls[1]) = [k \in DOMAIN at |-> Image(c, at[k])]
  BY DEF Filtered
<1>2. CASE c.op = "ListApplications"
  <2>1. I = {i \in DOMAIN ls[1] : matchesApplicationFilter(ls[1][i], c.filter)}
    BY <1>2 DEF Asked, PartOf, projectOf, matchesApplicationFilter
  <2>2. answer(c, ls) = ListApplications(ls, c.filter)
    BY <1>2, AnswerOf
  <2> HIDE DEF I
  <2>3. answer(c, ls) = Ok([k \in DOMAIN at |-> applicationToAPI(at[k])])
    BY <2>1, <2>2 DEF ListApplications, Mapped
  <2>4. QED
    BY <1>1, <1>2, <2>3 DEF Image
<1>3. CASE c.op = "ListReleases"
  <2>1. I = {i \in DOMAIN ls[1] : c.project \in {0, projectOf(ls[1][i])}}
    BY <1>3 DEF Asked, PartOf, projectOf
  <2>2. answer(c, ls) = ListReleases(ls, c.project)
    BY <1>3, AnswerOf
  <2> HIDE DEF I
  <2>3. answer(c, ls) = Ok([k \in DOMAIN at |-> releaseToAPI(at[k])])
    BY <2>1, <2>2 DEF ListReleases, Mapped
  <2>4. QED
    BY <1>1, <1>3, <2>3 DEF Image
<1>4. CASE c.op = "ListApplicationReleases"
  <2>1. I = {i \in DOMAIN ls[1] : ls[1][i].app = c.arg}
    BY <1>4 DEF Asked
  <2>2. answer(c, ls) = ListApplicationReleases(ls, c.arg)
    BY <1>4, AnswerOf
  <2> HIDE DEF I
  <2>3. answer(c, ls) = Ok([k \in DOMAIN at |-> releaseToAPI(at[k])])
    BY <2>1, <2>2 DEF ListApplicationReleases, Mapped
  <2>4. QED
    BY <1>1, <1>4, <2>3 DEF Image
<1>5. CASE c.op = "ListTargets"
  <2>1. I = {i \in DOMAIN ls[1] : TRUE}
    BY <1>5 DEF Asked
  <2>2. answer(c, ls) = ListTargets(ls)
    BY <1>5, AnswerOf
  <2> HIDE DEF I
  <2>3. answer(c, ls) = Ok([k \in DOMAIN at |-> targetToAPI(at[k])])
    BY <2>1, <2>2 DEF ListTargets, Mapped
  <2>4. QED
    BY <1>1, <1>5, <2>3 DEF Image
<1>6. CASE c.op = "ListPromotions"
  <2>1. I = {i \in DOMAIN ls[1] : promotionMatchesState(ls[1][i], c.state)}
    BY <1>6 DEF Asked, Ended, promotionMatchesState, isTerminalPhase
  <2>2. answer(c, ls) = ListPromotions(ls, c.state)
    BY <1>6, AnswerOf
  <2> HIDE DEF I
  <2>3. answer(c, ls) = Ok([k \in DOMAIN at |-> promotionToAPI(at[k])])
    BY <2>1, <2>2 DEF ListPromotions, Mapped
  <2>4. QED
    BY <1>1, <1>6, <2>3 DEF Image
<1>7. CASE c.op = "ListApplicationPromotions"
  <2>1. I = {i \in DOMAIN ls[1] : ls[1][i].app = c.arg}
    BY <1>7 DEF Asked
  <2>2. answer(c, ls) = ListApplicationPromotions(ls, c.arg)
    BY <1>7, AnswerOf
  <2> HIDE DEF I
  <2>3. answer(c, ls) = Ok([k \in DOMAIN at |-> promotionToAPI(at[k])])
    BY <2>1, <2>2 DEF ListApplicationPromotions, Mapped
  <2>4. QED
    BY <1>1, <1>7, <2>3 DEF Image
<1>8. QED
  BY <1>2, <1>3, <1>4, <1>5, <1>6, <1>7 DEF SingleLists

(* The checks of a target are kept from the second List in the same way.   *)
LEMMA HealthAnswer ==
    ASSUME NEW c \in Calls, NEW ls, c.op = "GetTargetHealth", answer(c, ls).outcome = "ok"
    PROVE  answer(c, ls) = Ok(Filtered(c, ls[2]))
<1> DEFINE I == {i \in DOMAIN ls[2] : Asked(c, ls[2][i])}
           at == At(ls[2], I)
           v == Mapped(ls[2], LAMBDA h : h.target # 0 /\ h.target = c.arg, healthCheckToAPI)
<1>1. I = {i \in DOMAIN ls[2] : ls[2][i].target # 0 /\ ls[2][i].target = c.arg}
  BY DEF Asked
<1>2. Filtered(c, ls[2]) = [k \in DOMAIN at |-> Image(c, at[k])]
  BY DEF Filtered
<1> HIDE DEF I
<1>3. v = [k \in DOMAIN at |-> healthCheckToAPI(at[k])]
  BY <1>1 DEF Mapped
<1>4. v = Filtered(c, ls[2])
  BY <1>2, <1>3 DEF Image
<1>5. answer(c, ls) = GetTargetHealth(ls, c.arg)
  BY AnswerOf
<1>6. NotFound.outcome # "ok" /\ Unfinished.outcome # "ok"
  BY DEF NotFound, Unfinished
<1>7. GetTargetHealth(ls, c.arg) \in {NotFound, Unfinished, Ok(v)}
  BY DEF GetTargetHealth
<1> HIDE DEF v
<1>8. QED
  BY <1>4, <1>5, <1>6, <1>7

(* It has the image of each object asked for, each once.                   *)
LEMMA FilteredShows ==
    ASSUME NEW c, NEW l, NEW T, Enumerates(l, T), IsFiniteSet(T),
           NEW S \in SUBSET T, \A o \in T : o \in S <=> Asked(c, o)
    PROVE  /\ Range(Filtered(c, l)) = {Image(c, o) : o \in S}
           /\ Len(Filtered(c, l)) = Cardinality(S)
<1> DEFINE I == {i \in DOMAIN l : Asked(c, l[i])}
           at == At(l, I)
           v == [j \in DOMAIN at |-> Image(c, at[j])]
<1>1. I \in SUBSET DOMAIN l /\ \A i \in DOMAIN l : i \in I <=> l[i] \in S
  BY DEF Enumerates
<1>2. Filtered(c, l) = v
  BY DEF Filtered
<1> HIDE DEF I
<1>3. /\ Cardinality(S) \in Nat /\ DOMAIN at = 1..Cardinality(S)
      /\ \A j \in DOMAIN at : at[j] \in S
      /\ \A x \in S : \E j \in DOMAIN at : at[j] = x
  BY <1>1, KeptItems
<1> HIDE DEF at
<1>4. DOMAIN v = DOMAIN at /\ \A j \in DOMAIN at : v[j] = Image(c, at[j])
  OBVIOUS
<1>5. Len(v) = Cardinality(S)
  <2> DEFINE n == Cardinality(S)
  <2>1. n \in Nat /\ DOMAIN at = 1..n
    BY <1>3
  <2> HIDE DEF n
  <2>2. Len(v) = n
    BY <2>1
  <2>3. QED
    BY <2>2 DEF n
<1> HIDE DEF v
<1>6. \A y \in Range(v) : \E x \in S : y = Image(c, x)
  BY <1>3, <1>4 DEF Range
<1>7. \A x \in S : Image(c, x) \in Range(v)
  BY <1>3, <1>4 DEF Range
<1>8. Range(v) = {Image(c, o) : o \in S}
  BY <1>6, <1>7
<1>9. QED
  BY <1>2, <1>5, <1>8

(* So the i-th List, filtered, shows what was asked for at one moment.     *)
LEMMA FilteredMoment ==
    ASSUME ReadInv, NEW i \in DOMAIN lists
    PROVE  \E m \in DOMAIN seen :
               ShowsAll(Filtered(call, lists[i]), seen[m].cluster[ListedBy(call.op)[i]])
<1> DEFINE k == ListedBy(call.op)[i]
<1>1. PICK m \in DOMAIN seen : Enumerates(lists[i], seen[m].cluster[k]) /\ k \in Kinds
                               /\ seen[m].cluster[k] \in Stored(k)
  BY ListMoment
<1>2. PICK c, l, T : c = call /\ l = lists[i] /\ T = seen[m].cluster[k]
  OBVIOUS
<1>3. PICK S : S = {o \in T : Asked(c, o)}
  OBVIOUS
<1>4. Enumerates(l, T) /\ IsFiniteSet(T) /\ S \in SUBSET T
      /\ \A o \in T : o \in S <=> Asked(c, o)
  BY <1>1, <1>2, <1>3, StoredShape
<1>5. Range(Filtered(c, l)) = {Image(c, o) : o \in S} /\ Len(Filtered(c, l)) = Cardinality(S)
  BY <1>4, FilteredShows
<1>6. QED
  BY <1>2, <1>3, <1>5 DEF ShowsAll

(* Each of the six collections read with one List shows exactly what       *)
(* belonged to the question at one moment of the call, each item once.     *)
THEOREM SnapshotRead == Spec => []CollectionIsSnapshot
<1>1. ReadInv => CollectionIsSnapshot
  <2>1. SUFFICES ASSUME ReadInv, result.outcome = "ok", call.op \in Collections,
                        Len(ListedBy(call.op)) = 1
                 PROVE  \E m \in DOMAIN seen :
                           ShowsAll(result.value, seen[m].cluster[ListedBy(call.op)[1]])
    BY DEF CollectionIsSnapshot
  <2>2. call \in Calls
    BY <2>1 DEF ReadInv, TypeOK
  <2>3. result = answer(call, lists) /\ (ListedBy(call.op) = << >> \/ Len(lists) > 0)
    BY <2>1 DEF ReadInv, AnswerFromLists, Pending, Failed, NotFound
  <2>4. call.op \in SingleLists
    BY <2>1 DEF SingleLists, Collections, ListedBy
  <2>5. ListedBy(call.op) # << >>
    BY <2>4 DEF SingleLists, ListedBy
  <2>6. 1 \in DOMAIN lists
    BY <2>1, <2>3, <2>5 DEF ReadInv, ListsSeen
  <2>7. result.value = Filtered(call, lists[1])
    BY <2>2, <2>3, <2>4, CollectionAnswer DEF Ok
  <2>8. QED
    BY <2>1, <2>6, <2>7, FilteredMoment
<1>2. QED
  BY <1>1, ReadInvariant, PTL

-----------------------------------------------------------------------------
(* Reads by name.                                                          *)

(* The first of some positions is one of them.                             *)
LEMMA FirstPosition ==
    ASSUME NEW T, NEW l \in Seq(T), NEW I \in SUBSET DOMAIN l, I # {}
    PROVE  Min(I) \in I /\ \A i \in I : Min(I) <= i
<1> DEFINE s == Sorted(I, Ascending)
           n == Cardinality(I)
           least(x) == \A i \in I : x <= i
<1>1. I \in SUBSET Int /\ IsFiniteSet(I)
  BY ItemsAt
<1>2. /\ DOMAIN s = 1..n /\ n \in Nat
      /\ \A i \in DOMAIN s : s[i] \in I
      /\ \A x \in I : \E i \in DOMAIN s : s[i] = x
      /\ \A i, j \in 1..n : i < j => ~(s[j] < s[i])
  BY <1>1, SortedIntegers, FS_CardinalityType DEF Enumerates, Ascending
<1> HIDE DEF s, n
<1>3. n > 0
  BY <1>2
<1>4. s[1] \in I
  BY <1>2, <1>3
<1>5. ASSUME NEW x \in I PROVE s[1] <= x
  <2>1. PICK i \in 1..n : s[i] = x
    BY <1>2
  <2>2. CASE i = 1
    BY <1>1, <2>1, <2>2
  <2>3. CASE i > 1
    <3>1. ~(s[i] < s[1])
      BY <1>2, <1>3, <2>3
    <3>2. QED
      BY <1>1, <1>4, <2>1, <3>1
  <2>4. QED
    BY <1>2, <2>2, <2>3
<1>6. \E x \in I : least(x)
  BY <1>4, <1>5
<1>7. Min(I) = CHOOSE x \in I : least(x)
  BY DEF Min
<1>8. Min(I) \in I /\ least(Min(I))
  <2> HIDE DEF least
  <2>1. QED
    BY <1>6, <1>7, Zenon
<1>9. QED
  BY <1>8

(* A method with two Lists has made both when it answers.                  *)
LEMMA BothLists ==
    ASSUME ReadInv, result.outcome = "ok", call.op \in {"GetMatrix", "ListEnvironments", "GetTargetHealth"}
    PROVE  result = answer(call, lists) /\ Len(lists) = 2 /\ 1 \in DOMAIN lists /\ 2 \in DOMAIN lists
<1>1. call \in Calls /\ lists \in Seq(Seq(UNION {Universe[k] : k \in Kinds}))
      /\ Len(lists) <= Len(ListedBy(call.op))
  BY DEF ReadInv, TypeOK, ListsSeen
<1>2. result = answer(call, lists) /\ (ListedBy(call.op) = << >> \/ Len(lists) > 0)
  BY DEF ReadInv, AnswerFromLists, Pending, Failed, NotFound
<1>3. Len(ListedBy(call.op)) = 2 /\ ListedBy(call.op) # << >>
  BY DEF ListedBy
<1>4. Len(lists) # 1
  <2>1. NotFound.outcome # "ok" /\ Unfinished.outcome # "ok"
    BY DEF NotFound, Unfinished
  <2>2. CASE call.op = "GetMatrix"
    BY <1>1, <1>2, <2>1, <2>2, AnswerOf DEF GetMatrix
  <2>3. CASE call.op = "ListEnvironments"
    <3>1. result = ListEnvironments(lists)
      BY <1>1, <1>2, <2>3, AnswerOf
    <3>2. QED
      BY <2>1, <3>1 DEF ListEnvironments
  <2>4. CASE call.op = "GetTargetHealth"
    <3>1. result = GetTargetHealth(lists, call.arg)
      BY <1>1, <1>2, <2>4, AnswerOf
    <3>2. QED
      BY <2>1, <3>1, Zenon DEF GetTargetHealth
  <2>5. QED
    BY <2>2, <2>3, <2>4
<1>5. Len(lists) \in Nat /\ DOMAIN lists = 1..Len(lists)
  BY <1>1
<1>6. Len(lists) = 2
  BY <1>1, <1>2, <1>3, <1>4, <1>5
<1>7. QED
  BY <1>2, <1>5, <1>6

Found(c, o) == IF c.op = "GetPromotion" THEN Identifies(c.arg, o) ELSE o.name = c.arg

(* What a read of one resource says of it.                                 *)
Shows(c, v, o) ==
    CASE c.op = "GetApplication" -> v = applicationToAPI(o)
      [] c.op = "GetPromotion"   -> v = promotionToAPI(o)
      [] OTHER                   -> TRUE

NamedReads == {"GetApplication", "GetMatrix", "GetTargetHealth", "GetTargetDrift",
               "GetPromotion"}

(* A read by name looks for the name in its first List, and answers with   *)
(* an item of that name.                                                   *)
LEMMA NamedAnswer ==
    ASSUME NEW c \in Calls, NEW ls, c.op \in NamedReads,
           ~(c.op = "GetMatrix" /\ c.arg = All), NEW T, ls[1] \in Seq(T)
    PROVE  /\ answer(c, ls).outcome = "notFound" =>
                 ~\E i \in DOMAIN ls[1] : Found(c, ls[1][i])
           /\ answer(c, ls).outcome = "ok" =>
                 \E i \in DOMAIN ls[1] :
                     Found(c, ls[1][i]) /\ Shows(c, answer(c, ls).value, ls[1][i])
<1>1. \A v : Ok(v).outcome = "ok" /\ Ok(v).value = v
  BY DEF Ok
<1>2. NotFound.outcome = "notFound" /\ Unfinished.outcome = "pending"
  BY DEF NotFound, Unfinished
<1> DEFINE hits == {i \in DOMAIN ls[1] : Found(c, ls[1][i])}
           first == Min(hits)
<1>3. hits # {} => first \in hits
  <2>1. hits \in SUBSET DOMAIN ls[1]
    OBVIOUS
  <2> HIDE DEF hits
  <2>2. QED
    BY <2>1, FirstPosition
<1>4. \/ hits = {} /\ answer(c, ls) = NotFound
      \/ hits # {} /\ answer(c, ls) = Unfinished
      \/ hits # {} /\ \E v : answer(c, ls) = Ok(v) /\ Shows(c, v, ls[1][first])
  <2>1. CASE c.op = "GetApplication"
    <3>1. hits = Named(ls[1], c.arg)
      BY <2>1 DEF Named, Found
    <3> HIDE DEF hits
    <3>2. answer(c, ls) = GetApplication(ls, c.arg)
      BY <2>1, AnswerOf
    <3>3. QED
      BY <2>1, <3>1, <3>2 DEF GetApplication, Shows
  <2>2. CASE c.op = "GetMatrix"
    <3>1. \A v, o : Shows(c, v, o)
      BY <2>2 DEF Shows
    <3>2. hits = Named(ls[1], c.arg)
      BY <2>2 DEF Named, Found
    <3> HIDE DEF hits
    <3>3. QED
      BY <2>2, <3>1, <3>2, AnswerOf, Zenon DEF GetMatrix
  <2>3. CASE c.op = "GetTargetHealth"
    <3>1. \A v, o : Shows(c, v, o)
      BY <2>3 DEF Shows
    <3>2. hits = Named(ls[1], c.arg)
      BY <2>3 DEF Named, Found
    <3> HIDE DEF hits
    <3>3. QED
      BY <2>3, <3>1, <3>2, AnswerOf, Zenon DEF GetTargetHealth
  <2>4. CASE c.op = "GetTargetDrift"
    <3>1. \A v, o : Shows(c, v, o)
      BY <2>4 DEF Shows
    <3>2. hits = Named(ls[1], c.arg)
      BY <2>4 DEF Named, Found
    <3> HIDE DEF hits
    <3>3. QED
      BY <2>4, <3>1, <3>2, AnswerOf, Zenon DEF GetTargetDrift
  <2>5. CASE c.op = "GetPromotion"
    <3>1. hits = {i \in DOMAIN ls[1] : Identifies(c.arg, ls[1][i])}
      BY <2>5 DEF Found
    <3> HIDE DEF hits
    <3>2. answer(c, ls) = GetPromotion(ls, c.arg)
      BY <2>5, AnswerOf
    <3>3. QED
      BY <2>5, <3>1, <3>2 DEF GetPromotion, Shows
  <2>6. QED
    BY <2>1, <2>2, <2>3, <2>4, <2>5 DEF NamedReads
<1>5. QED
  BY <1>1, <1>2, <1>3, <1>4

(* A first List that is answered 404 means that nothing of the kind is     *)
(* there, at that moment.                                                  *)
LEMMA FirstKindGone ==
    ASSUME ReadInv, call.op \in NamedReads, NextKindGone, ~SecondKindGone
    PROVE  \E m \in DOMAIN seen : NamedAt(m) = {}
<1> DEFINE k == ListedBy(call.op)[1]
<1>1. /\ Len(lists) \in Nat /\ Len(lists) < Len(ListedBy(call.op)) /\ NextKind \notin installed
      /\ Len(ListedBy(call.op)) \in 1..2 /\ k \in Kinds
  <2>1. Len(lists) \in Nat
    BY DEF ReadInv, ListsSeen
  <2>2. Len(ListedBy(call.op)) \in 1..2 /\ k \in Kinds
    <3>1. PICK op : op = call.op
      OBVIOUS
    <3>2. op \in Operations /\ ListedBy(op) # << >>
      BY <3>1 DEF NamedReads, Operations, ListedBy
    <3>3. /\ Len(ListedBy(op)) \in 0..2 /\ ListedBy(op) \in Seq(Kinds)
          /\ \A i \in DOMAIN ListedBy(op) : ListedBy(op)[i] \in Kinds
      BY <3>2, ListedKinds
    <3>4. QED
      BY <3>1, <3>2, <3>3
  <2>3. QED
    BY <2>1, <2>2 DEF NextKindGone
<1>2. Len(lists) = 0
  <2>1. PICK n, w : n = Len(lists) /\ w = Len(ListedBy(call.op))
    OBVIOUS
  <2>2. n \in Nat /\ n < w /\ w \in 1..2
    BY <1>1, <2>1
  <2>3. n = 0 \/ (n = 1 /\ w = 2)
    BY <2>2
  <2>4. ~(n = 1 /\ w = 2)
    <3>1. SUFFICES ASSUME n = 1, w = 2 PROVE FALSE
      OBVIOUS
    <3>2. NextKind = ListedBy(call.op)[n + 1] /\ n + 1 = 2
      BY <2>1, <3>1 DEF NextKind
    <3>3. QED
      BY <1>1, <2>1, <3>1, <3>2 DEF SecondKindGone
  <2>5. QED
    BY <2>1, <2>3, <2>4
<1>3. cluster[k] = {}
  BY <1>1, <1>2 DEF ReadInv, GoneIsEmpty, NextKind
<1>4. Len(seen) \in DOMAIN seen /\ seen[Len(seen)].cluster = cluster
  BY DEF ReadInv, TypeOK, HistoryTyped
<1>5. NamedAt(Len(seen)) = {}
  BY <1>3, <1>4 DEF NamedAt
<1>6. QED
  BY <1>4, <1>5

(* A read by name says "not found" only if at some moment nothing answered *)
(* to the name or its second List was answered 404; an answer is that of a *)
(* resource that was there; and the checks of a target are those of one    *)
(* moment.                                                                 *)
THEOREM NamedReadsTrue == Spec => []NamedReadTruthful
<1>1. ReadInv => NamedReadTruthful
  <2> SUFFICES ASSUME ReadInv PROVE NamedReadTruthful
    OBVIOUS
  <2> DEFINE k == ListedBy(call.op)[1]
  <2>1. call \in Calls /\ call.op \in Operations
    BY CallOperation DEF ReadInv, TypeOK
  <2>2. \A m : NamedAt(m) = {o \in seen[m].cluster[k] : Found(call, o)}
    BY DEF NamedAt, Found
  <2>3. NamesOne => call.op \in NamedReads /\ ~(call.op = "GetMatrix" /\ call.arg = All)
    BY <2>1 DEF NamesOne, Operations, Collections, NamedReads
  <2>4. ASSUME NamesOne, result.outcome \in {"notFound", "ok"}, result = answer(call, lists),
               ListedBy(call.op) = << >> \/ Len(lists) > 0
        PROVE  \E m \in DOMAIN seen :
                  IF result.outcome = "ok" THEN \E o \in NamedAt(m) : Shows(call, result.value, o)
                                           ELSE NamedAt(m) = {}
    <3>1. ListedBy(call.op) # << >>
      BY <2>3, <2>4 DEF NamedReads, ListedBy
    <3>2. 1 \in DOMAIN lists
      BY <2>4, <3>1 DEF ReadInv, ListsSeen
    <3>3. PICK m \in DOMAIN seen : Enumerates(lists[1], seen[m].cluster[k])
      BY <3>2, ListMoment
    <3>4. PICK c, ls, T : c = call /\ ls = lists /\ T = seen[m].cluster[k]
      OBVIOUS
    <3>5. /\ ls[1] \in Seq(T) /\ \A i \in DOMAIN ls[1] : ls[1][i] \in T
          /\ \A o \in T : \E i \in DOMAIN ls[1] : ls[1][i] = o
      BY <3>3, <3>4 DEF Enumerates
    <3>6. /\ answer(c, ls).outcome = "notFound" =>
                 ~\E i \in DOMAIN ls[1] : Found(c, ls[1][i])
          /\ answer(c, ls).outcome = "ok" =>
                 \E i \in DOMAIN ls[1] :
                     Found(c, ls[1][i]) /\ Shows(c, answer(c, ls).value, ls[1][i])
      BY <2>1, <2>3, <2>4, <3>4, <3>5, NamedAnswer
    <3>7. NamedAt(m) = {o \in T : Found(c, o)}
      BY <2>2, <3>4
    <3>8. CASE result.outcome = "ok"
      BY <2>4, <3>4, <3>5, <3>6, <3>7, <3>8
    <3>9. CASE result.outcome = "notFound"
      <4>1. NamedAt(m) = {}
        BY <2>4, <3>4, <3>5, <3>6, <3>7, <3>9
      <4>2. QED
        BY <3>9, <4>1
    <3>10. QED
      BY <2>4, <3>8, <3>9
  <2>5. \/ Pending \/ result = Failed \/ (result = NotFound /\ NextKindGone)
        \/ result = answer(call, lists) /\ (ListedBy(call.op) = << >> \/ Len(lists) > 0)
    BY DEF ReadInv, AnswerFromLists
  <2>6. /\ Pending => result.outcome = "pending"
        /\ Failed.outcome = "failed" /\ NotFound.outcome = "notFound"
    BY DEF Pending, Failed, NotFound
  <2>7. NamesOne /\ result.outcome = "notFound" =>
            (\E i \in DOMAIN seen : NamedAt(i) = {}) \/ SecondKindGone
    <3>1. SUFFICES ASSUME NamesOne, result.outcome = "notFound", ~SecondKindGone
                   PROVE  \E i \in DOMAIN seen : NamedAt(i) = {}
      OBVIOUS
    <3>2. CASE NextKindGone
      BY <2>3, <3>1, <3>2, FirstKindGone
    <3>3. CASE ~NextKindGone
      BY <2>4, <2>5, <2>6, <3>1, <3>3
    <3>4. QED
      BY <3>2, <3>3
  <2>8. NamesOne /\ result.outcome = "ok" =>
            \E i \in DOMAIN seen : \E o \in NamedAt(i) : Shows(call, result.value, o)
    BY <2>4, <2>5, <2>6
  <2>9. ASSUME Served("GetTargetHealth")
        PROVE  \E i \in DOMAIN seen : ShowsAll(result.value, seen[i].cluster["HealthCheck"])
    <3>1. call.op = "GetTargetHealth" /\ result.outcome = "ok"
      BY <2>9 DEF Served
    <3>2. result = answer(call, lists) /\ 2 \in DOMAIN lists
      BY <3>1, BothLists
    <3>3. result.value = Filtered(call, lists[2])
      BY <2>1, <3>1, <3>2, HealthAnswer DEF Ok
    <3>4. ListedBy(call.op)[2] = "HealthCheck"
      BY <3>1 DEF ListedBy
    <3>5. QED
      BY <3>2, <3>3, <3>4, FilteredMoment
  <2>10. QED
    BY <2>7, <2>8, <2>9 DEF NamedReadTruthful, Shows
<1>2. QED
  BY <1>1, ReadInvariant, PTL

-----------------------------------------------------------------------------
(* The matrix.                                                             *)

(* The headers: those of the targets, each once, in order.                 *)
LEMMA ColumnsShow ==
    ASSUME NEW T \in Stored("DeploymentTarget"), NEW ts, Enumerates(ts, T)
    PROVE  LET cols == matrixColumns(ts)
           IN  /\ Len(cols) \in Nat /\ DOMAIN cols = 1..Len(cols)
               /\ \A i \in DOMAIN cols : \E t \in T : cols[i] = Header(t)
               /\ \A t \in T : \E i \in DOMAIN cols : cols[i] = Header(t)
               /\ \A i, j \in DOMAIN cols : i < j => Before(cols[i], cols[j])
<1> DEFINE H == {Header(ts[i]) : i \in DOMAIN ts}
           f == [i \in DOMAIN ts |-> Header(ts[i])]
           n == Cardinality(H)
           cols == Sorted(H, Before)
<1>1. /\ T \subseteq Targets /\ IsFiniteSet(T)
      /\ \A t \in T : t.env \in Nat /\ t.region \in Nat
  BY ObjectsAssumption DEF Stored, Universe
<1>2. H \in SUBSET [env : Nat, region : Nat]
  BY <1>1 DEF Enumerates, Header
<1>3. IsFiniteSet(H)
  <2>1. Cardinality(T) \in Nat /\ DOMAIN ts = 1..Cardinality(T)
    BY <1>1, FS_CardinalityType DEF Enumerates
  <2>2. IsFiniteSet(DOMAIN ts)
    BY <2>1, FS_Interval
  <2>3. f \in Surjection(DOMAIN ts, H)
    BY DEF Surjection
  <2> HIDE DEF f, H
  <2>4. QED
    BY <2>2, <2>3, FS_Surjection
<1>4. \A x \in H : \E t \in T : x = Header(t)
  BY DEF Enumerates
<1>5. \A t \in T : Header(t) \in H
  BY DEF Enumerates
<1>6. cols = matrixColumns(ts)
  BY DEF matrixColumns
<1> HIDE DEF H
<1>7. /\ Enumerates(cols, H)
      /\ \A i, j \in 1..n : i < j => ~Before(cols[j], cols[i])
  BY <1>2, <1>3, SortedHeaders
<1>8. n \in Nat
  BY <1>3, FS_CardinalityType
<1> HIDE DEF cols, n
<1>9. /\ DOMAIN cols = 1..n /\ Len(cols) = n
      /\ \A i \in 1..n : cols[i] \in H
      /\ \A x \in H : \E i \in 1..n : cols[i] = x
      /\ \A i, j \in 1..n : cols[i] = cols[j] => i = j
  BY <1>7 DEF Enumerates, n
<1>10. ASSUME NEW i \in 1..n, NEW j \in 1..n, i < j PROVE Before(cols[i], cols[j])
  <2>1. cols[i] # cols[j] /\ ~Before(cols[j], cols[i])
    BY <1>7, <1>8, <1>9, <1>10
  <2>2. cols[i] \in [env : Nat, region : Nat] /\ cols[j] \in [env : Nat, region : Nat]
    BY <1>2, <1>9
  <2>3. QED
    BY <2>1, <2>2 DEF Before
<1>11. QED
  BY <1>4, <1>5, <1>6, <1>8, <1>9, <1>10

(* What the matrix m shows when n is asked for, made from the applications *)
(* A and the targets listed in ts.                                         *)
IsMatrix(m, n, A, ts) ==
    /\ m.columns = matrixColumns(ts)
    /\ \A r \in DOMAIN m.rows : \E a \in A : m.rows[r] = matrixRow(a, m.columns)
    /\ \A a \in A : n \in {All, a.name} =>
          \E r \in DOMAIN m.rows : m.rows[r].application = a.name

(* GetMatrix builds a matrix of the two lists it made.                     *)
LEMMA MatrixShows ==
    ASSUME NEW c \in Calls, c.op = "GetMatrix", NEW ls, Len(ls) = 2,
           NEW A, Enumerates(ls[1], A),
           NEW T \in Stored("DeploymentTarget"), Enumerates(ls[2], T),
           answer(c, ls).outcome = "ok"
    PROVE  IsMatrix(answer(c, ls).value, c.arg, A, ls[2])
<1> DEFINE l == ls[1]
           n == c.arg
           hits == Named(l, n)
           selected == IF n = All THEN l ELSE <<l[Min(hits)]>>
           cols == matrixColumns(ls[2])
           rows == [i \in DOMAIN selected |-> matrixRow(selected[i], cols)]
<1>1. answer(c, ls) = GetMatrix(ls, n)
  BY AnswerOf
<1>2. NotFound.outcome # "ok"
  BY DEF NotFound
<1>3. ~(n # All /\ hits = {})
  BY <1>1, <1>2 DEF GetMatrix
<1>4. answer(c, ls) = Ok([columns |-> cols, rows |-> rows])
  BY <1>1, <1>3 DEF GetMatrix
<1>5. /\ l \in Seq(A) /\ \A i \in DOMAIN l : l[i] \in A
      /\ \A x \in A : \E i \in DOMAIN l : l[i] = x
  BY DEF Enumerates
<1>6. hits \in SUBSET DOMAIN l /\ \A i \in hits : l[i].name = n
  BY DEF Named
<1>7. /\ \A i \in DOMAIN selected : selected[i] \in A
      /\ \A a \in A : n \in {All, a.name} =>
            \E i \in DOMAIN selected : selected[i].name = a.name
  <2>1. CASE n = All
    BY <1>5, <2>1
  <2>2. CASE n # All
    <3>1. Min(hits) \in hits
      <4> HIDE DEF hits
      <4>1. QED
        BY <1>3, <1>5, <1>6, <2>2, FirstPosition
    <3> HIDE DEF hits, l
    <3>2. selected = <<l[Min(hits)]>> /\ l[Min(hits)] \in A /\ l[Min(hits)].name = n
      BY <1>5, <1>6, <2>2, <3>1
    <3>3. DOMAIN selected = {1} /\ selected[1] = l[Min(hits)]
      BY <3>2
    <3>4. QED
      BY <2>2, <3>2, <3>3
  <2>3. QED
    BY <2>1, <2>2
<1> HIDE DEF selected, cols
<1>8. DOMAIN rows = DOMAIN selected /\ \A i \in DOMAIN rows : rows[i] = matrixRow(selected[i], cols)
  OBVIOUS
<1> HIDE DEF rows
<1> DEFINE m == answer(c, ls).value
<1>9. m.columns = cols /\ m.rows = rows
  BY <1>4 DEF Ok
<1> HIDE DEF m
<1>10. \A a : matrixRow(a, cols).application = a.name
  BY DEF matrixRow
<1>11. QED
  BY <1>7, <1>8, <1>9, <1>10 DEF cols, m, IsMatrix

(* What was stored at one moment was stored sometime, and what was stored  *)
(* throughout was stored at that moment.                                   *)
LEMMA Moments ==
    ASSUME NEW m \in DOMAIN seen, NEW k
    PROVE  /\ seen[m].cluster[k] \subseteq Sometime(k)
           /\ Throughout(k) \subseteq seen[m].cluster[k]
  BY DEF Sometime, Throughout

(* Whatever changes between its two Lists, a matrix is whole and invents   *)
(* nothing, and what stayed put is in it.                                  *)
THEOREM MatrixTrue == Spec => []MatrixTruthful
<1>1. ReadInv => MatrixTruthful
  <2> SUFFICES ASSUME ReadInv, Served("GetMatrix") PROVE MatrixTruthful
    BY DEF MatrixTruthful
  <2>1. call \in Calls /\ call.op = "GetMatrix" /\ result.outcome = "ok"
    BY DEF ReadInv, TypeOK, Served
  <2>2. result = answer(call, lists) /\ Len(lists) = 2 /\ 1 \in DOMAIN lists /\ 2 \in DOMAIN lists
    BY <2>1, BothLists
  <2>3. ListedBy(call.op)[1] = "Application" /\ ListedBy(call.op)[2] = "DeploymentTarget"
    BY <2>1 DEF ListedBy
  <2>4. PICK i1 \in DOMAIN seen : Enumerates(lists[1], seen[i1].cluster["Application"])
    BY <2>2, <2>3, ListMoment
  <2>5. PICK i2 \in DOMAIN seen :
           /\ Enumerates(lists[2], seen[i2].cluster["DeploymentTarget"])
           /\ seen[i2].cluster["DeploymentTarget"] \in Stored("DeploymentTarget")
    BY <2>2, <2>3, ListMoment
  <2>6. PICK A : A = seen[i1].cluster["Application"]
    OBVIOUS
  <2>7. PICK T : T = seen[i2].cluster["DeploymentTarget"]
    OBVIOUS
  <2>8. PICK m : m = result.value
    OBVIOUS
  <2>9. /\ m.columns = matrixColumns(lists[2])
        /\ \A r \in DOMAIN m.rows : \E a \in A : m.rows[r] = matrixRow(a, m.columns)
        /\ \A a \in A : call.arg \in {All, a.name} =>
              \E r \in DOMAIN m.rows : m.rows[r].application = a.name
    <3>1. /\ Enumerates(lists[1], A) /\ Enumerates(lists[2], T)
          /\ T \in Stored("DeploymentTarget")
      BY <2>4, <2>5, <2>6, <2>7
    <3>2. answer(call, lists).outcome = "ok" /\ m = answer(call, lists).value /\ Len(lists) = 2
      BY <2>1, <2>2, <2>8
    <3>3. IsMatrix(answer(call, lists).value, call.arg, A, lists[2])
      BY <2>1, <3>1, <3>2, MatrixShows
    <3>4. QED
      BY <3>2, <3>3 DEF IsMatrix
  <2> DEFINE cols == m.columns
  <2>10. /\ Len(cols) \in Nat /\ DOMAIN cols = 1..Len(cols)
         /\ \A i \in DOMAIN cols : \E t \in T : cols[i] = Header(t)
         /\ \A t \in T : \E i \in DOMAIN cols : cols[i] = Header(t)
         /\ \A i, j \in DOMAIN cols : i < j => Before(cols[i], cols[j])
    BY <2>5, <2>7, <2>9, ColumnsShow
  <2>11. /\ A \subseteq Sometime("Application") /\ Throughout("Application") \subseteq A
         /\ T \subseteq Sometime("DeploymentTarget") /\ Throughout("DeploymentTarget") \subseteq T
    BY <2>6, <2>7, Moments
  <2>12. ASSUME NEW r \in DOMAIN m.rows
         PROVE  /\ Len(m.rows[r].cells) = Len(m.columns)
                /\ \E a \in Sometime("Application") :
                      /\ a.name = m.rows[r].application
                      /\ \A i \in DOMAIN m.columns :
                            m.rows[r].cells[i] = [env |-> m.columns[i].env,
                                                  region |-> m.columns[i].region,
                                                  status |-> statusFromConditions(a.accepted)]
    <3>1. PICK a \in A : m.rows[r] = matrixRow(a, cols)
      BY <2>9
    <3>2. PICK row : row = m.rows[r]
      OBVIOUS
    <3>3. /\ row.application = a.name
          /\ row.cells = [i \in DOMAIN cols |->
                            [env |-> cols[i].env, region |-> cols[i].region,
                             status |-> statusFromConditions(a.accepted)]]
      BY <3>1, <3>2 DEF matrixRow
    <3> HIDE DEF cols
    <3>4. Len(row.cells) = Len(cols)
      BY <2>10, <3>3
    <3>5. a \in Sometime("Application")
      BY <2>11
    <3>6. \A i \in DOMAIN cols : row.cells[i] = [env |-> cols[i].env, region |-> cols[i].region,
                                                 status |-> statusFromConditions(a.accepted)]
      BY <3>3
    <3>7. QED
      BY <3>2, <3>3, <3>4, <3>5, <3>6 DEF cols
  <2>13. Range(m.columns) \subseteq {Header(t) : t \in Sometime("DeploymentTarget")}
    BY <2>10, <2>11 DEF Range
  <2>14. {Header(t) : t \in Throughout("DeploymentTarget")} \subseteq Range(m.columns)
    BY <2>10, <2>11 DEF Range
  <2>15. \A a \in Throughout("Application") : call.arg \in {All, a.name} =>
            \E r \in DOMAIN m.rows : m.rows[r].application = a.name
    BY <2>9, <2>11
  <2>16. QED
    BY <2>8, <2>10, <2>12, <2>13, <2>14, <2>15 DEF MatrixTruthful
<1>2. QED
  BY <1>1, ReadInvariant, PTL

-----------------------------------------------------------------------------
(* The topology.                                                           *)

(* The cells cs show the targets of ts: each in its cell, and no others.   *)
ShowsTargets(cs, ts) ==
    /\ \A i \in DOMAIN ts : \E c \in DOMAIN cs :
          cs[c].name = ts[i].cell /\ targetToAPI(ts[i]) \in Range(cs[c].targets)
    /\ \A c \in DOMAIN cs : \A y \in Range(cs[c].targets) :
          \E i \in DOMAIN ts : y = targetToAPI(ts[i])

(* envCells puts every target in the cell it names.                        *)
LEMMA CellsShow ==
    ASSUME NEW T, NEW ts \in Seq(T), \A t \in T : t.cell \in Nat
    PROVE  ShowsTargets(envCells(ts), ts)
<1> DEFINE C == {ts[i].cell : i \in DOMAIN ts}
           f == [i \in DOMAIN ts |-> ts[i].cell]
           order == Sorted(C, Ascending)
           group(c) == At(ts, {i \in DOMAIN ts : ts[i].cell = c})
           cs == envCells(ts)
<1>1. \A i \in DOMAIN ts : ts[i] \in T
  OBVIOUS
<1>2. C \in SUBSET Int
  BY <1>1
<1>3. IsFiniteSet(C)
  <2>1. IsFiniteSet(DOMAIN ts)
    BY FS_Interval
  <2>2. f \in Surjection(DOMAIN ts, C)
    BY DEF Surjection
  <2> HIDE DEF f, C
  <2>3. QED
    BY <2>1, <2>2, FS_Surjection
<1>4. \A i \in DOMAIN ts : ts[i].cell \in C
  OBVIOUS
<1>5. cs = [k \in DOMAIN order |->
              [name |-> order[k], region |-> cellRegion(group(order[k])),
               targets |-> [i \in DOMAIN group(order[k]) |-> targetToAPI(group(order[k])[i])]]]
  BY DEF envCells
<1> HIDE DEF C
<1>6. /\ \A k \in DOMAIN order : order[k] \in C
      /\ \A x \in C : \E k \in DOMAIN order : order[k] = x
  BY <1>2, <1>3, SortedIntegers DEF Enumerates
<1> HIDE DEF order
<1>7. ASSUME NEW c
      PROVE  /\ \A k \in DOMAIN group(c) : \E i \in DOMAIN ts : group(c)[k] = ts[i]
             /\ \A i \in DOMAIN ts : ts[i].cell = c =>
                   \E k \in DOMAIN group(c) : group(c)[k] = ts[i]
  <2> DEFINE I == {i \in DOMAIN ts : ts[i].cell = c}
  <2>1. I \in SUBSET DOMAIN ts /\ \A i \in DOMAIN ts : ts[i].cell = c => i \in I
    OBVIOUS
  <2> HIDE DEF I
  <2>2. /\ \A k \in DOMAIN At(ts, I) : \E i \in I : At(ts, I)[k] = ts[i]
        /\ \A i \in I : \E k \in DOMAIN At(ts, I) : At(ts, I)[k] = ts[i]
    BY <2>1, ItemsAt
  <2> DEFINE g == At(ts, I)
  <2> HIDE DEF g
  <2>3. /\ \A k \in DOMAIN g : \E i \in DOMAIN ts : g[k] = ts[i]
        /\ \A i \in DOMAIN ts : ts[i].cell = c => \E k \in DOMAIN g : g[k] = ts[i]
    BY <2>1, <2>2 DEF g
  <2>4. QED
    BY <2>3 DEF g, I
<1> HIDE DEF group
<1>8. DOMAIN cs = DOMAIN order
  BY <1>5
<1>9. ASSUME NEW k \in DOMAIN order
      PROVE  /\ cs[k].name = order[k]
             /\ \A y \in Range(cs[k].targets) : \E i \in DOMAIN ts : y = targetToAPI(ts[i])
             /\ \A i \in DOMAIN ts : ts[i].cell = order[k] =>
                   targetToAPI(ts[i]) \in Range(cs[k].targets)
  <2>1. PICK g : g = group(order[k])
    OBVIOUS
  <2>2. /\ \A j \in DOMAIN g : \E i \in DOMAIN ts : g[j] = ts[i]
        /\ \A i \in DOMAIN ts : ts[i].cell = order[k] => \E j \in DOMAIN g : g[j] = ts[i]
    BY <1>7, <2>1
  <2>3. PICK e : e = cs[k]
    OBVIOUS
  <2>4. /\ e.name = order[k]
        /\ e.targets = [j \in DOMAIN g |-> targetToAPI(g[j])]
    BY <1>5, <2>1, <2>3
  <2>5. /\ \A y \in Range(e.targets) : \E i \in DOMAIN ts : y = targetToAPI(ts[i])
        /\ \A i \in DOMAIN ts : ts[i].cell = order[k] => targetToAPI(ts[i]) \in Range(e.targets)
    BY <2>2, <2>4 DEF Range
  <2>6. QED
    BY <2>3, <2>4, <2>5
<1> HIDE DEF cs
<1>10. \A i \in DOMAIN ts : \E c \in DOMAIN cs :
          cs[c].name = ts[i].cell /\ targetToAPI(ts[i]) \in Range(cs[c].targets)
  BY <1>4, <1>6, <1>8, <1>9
<1>11. \A c \in DOMAIN cs : \A y \in Range(cs[c].targets) :
          \E i \in DOMAIN ts : y = targetToAPI(ts[i])
  BY <1>8, <1>9
<1>12. QED
  BY <1>10, <1>11 DEF cs, ShowsTargets

(* What the answer es shows, made from the environments E and targets T.   *)
IsTopology(es, E, T) ==
    /\ \A i, j \in DOMAIN es : i < j =>
          \E e, f \in E : e.name = es[i].name /\ f.name = es[j].name /\ e.order <= f.order
    /\ \A i \in DOMAIN es : \A t \in T : t.env = es[i].name =>
          \E c \in DOMAIN es[i].cells :
              es[i].cells[c].name = t.cell /\ targetToAPI(t) \in Range(es[i].cells[c].targets)
    /\ \A i \in DOMAIN es : \A c \in DOMAIN es[i].cells :
          \A y \in Range(es[i].cells[c].targets) :
              \E t \in T : t.env = es[i].name /\ y = targetToAPI(t)

(* ListEnvironments builds the topology of the two lists it made.          *)
LEMMA TopologyShows ==
    ASSUME NEW ls, Len(ls) = 2,
           NEW E \in Stored("Environment"), Enumerates(ls[1], E),
           NEW T \in Stored("DeploymentTarget"), Enumerates(ls[2], T)
    PROVE  IsTopology(ListEnvironments(ls).value, E, T)
<1> DEFINE s == sortedEnvironments(ls[1])
           l == ls[2]
           here(i) == At(l, {k \in DOMAIN l : l[k].env = s[i].name})
           es == ListEnvironments(ls).value
           n == Cardinality(E)
<1>1. /\ IsFiniteSet(E) /\ \A e, f \in E : SameObject(e, f) => e = f
      /\ \A e \in E : e.ns \in Nat /\ e.name \in Nat /\ e.order \in Int
  <2>1. "Environment" \in Kinds /\ E \subseteq Envs
    BY DEF Kinds, Stored, Universe
  <2>2. QED
    BY <2>1, StoredShape, ObjectsAssumption
<1>2. \A t \in T : t.cell \in Nat
  BY ObjectsAssumption DEF Stored, Universe
<1>3. s = Sorted(E, EarlierStage)
  <2>1. Range(ls[1]) = E
    BY DEF Enumerates, Range
  <2>2. QED
    BY <2>1 DEF sortedEnvironments
<1>4. /\ DOMAIN s = 1..n /\ n \in Nat /\ \A i \in DOMAIN s : s[i] \in E
      /\ \A i, j \in 1..n : i < j => ~EarlierStage(s[j], s[i])
  BY <1>1, <1>3, SortedEnvironments, FS_CardinalityType DEF Enumerates
<1>5. es = [i \in DOMAIN s |-> environmentToAPI(s[i], here(i))]
  BY DEF ListEnvironments, Ok
<1> HIDE DEF s, n
<1>6. l \in Seq(T) /\ (\A k \in DOMAIN l : l[k] \in T) /\ \A t \in T : \E k \in DOMAIN l : l[k] = t
  BY DEF Enumerates
<1> HIDE DEF l
<1>7. ASSUME NEW i \in DOMAIN s
      PROVE  /\ es[i].name = s[i].name
             /\ \A t \in T : t.env = es[i].name =>
                   \E c \in DOMAIN es[i].cells :
                       /\ es[i].cells[c].name = t.cell
                       /\ targetToAPI(t) \in Range(es[i].cells[c].targets)
             /\ \A c \in DOMAIN es[i].cells : \A y \in Range(es[i].cells[c].targets) :
                   \E t \in T : t.env = es[i].name /\ y = targetToAPI(t)
  <2>1. PICK e : e = es[i]
    OBVIOUS
  <2>2. e = [name |-> s[i].name, regions |-> uniqueRegions(here(i)), cells |-> envCells(here(i))]
    BY <1>5, <2>1 DEF environmentToAPI
  <2> DEFINE I == {k \in DOMAIN l : l[k].env = s[i].name}
             ts == At(l, I)
  <2>3. /\ I \in SUBSET DOMAIN l /\ \A k \in I : l[k] \in T /\ l[k].env = s[i].name
        /\ \A t \in T : t.env = s[i].name => \E k \in I : l[k] = t
    BY <1>6
  <2>4. e.name = s[i].name /\ e.cells = envCells(ts)
    BY <2>2
  <2> HIDE DEF I
  <2>5. /\ ts \in Seq(T)
        /\ \A k \in DOMAIN ts : \E j \in I : ts[k] = l[j]
        /\ \A j \in I : \E k \in DOMAIN ts : ts[k] = l[j]
    BY <1>6, <2>3, ItemsAt
  <2> HIDE DEF ts
  <2>6. ShowsTargets(e.cells, ts)
    BY <1>2, <2>4, <2>5, CellsShow
  <2>7. \A t \in T : t.env = s[i].name => \E k \in DOMAIN ts : ts[k] = t
    BY <2>3, <2>5
  <2>8. \A k \in DOMAIN ts : ts[k] \in T /\ ts[k].env = s[i].name
    BY <2>3, <2>5
  <2>9. \A t \in T : t.env = s[i].name =>
           \E c \in DOMAIN e.cells :
               e.cells[c].name = t.cell /\ targetToAPI(t) \in Range(e.cells[c].targets)
    BY <2>6, <2>7 DEF ShowsTargets
  <2>10. \A c \in DOMAIN e.cells : \A y \in Range(e.cells[c].targets) :
            \E t \in T : t.env = s[i].name /\ y = targetToAPI(t)
    BY <2>6, <2>8 DEF ShowsTargets
  <2>11. QED
    BY <2>1, <2>4, <2>9, <2>10
<1>8. DOMAIN es = DOMAIN s
  BY <1>5
<1> HIDE DEF es
<1>9. ASSUME NEW i \in DOMAIN es, NEW j \in DOMAIN es, i < j
      PROVE  \E e, f \in E : e.name = es[i].name /\ f.name = es[j].name /\ e.order <= f.order
  <2>1. s[i] \in E /\ s[j] \in E /\ ~EarlierStage(s[j], s[i])
    BY <1>4, <1>8, <1>9
  <2>2. s[i].order <= s[j].order
    BY <1>1, <2>1 DEF EarlierStage
  <2>3. QED
    BY <1>7, <1>8, <2>1, <2>2
<1>10. QED
  BY <1>7, <1>8, <1>9 DEF IsTopology, es

(* Whatever changes between its two Lists, the topology is in lifecycle    *)
(* order, a target that stayed put is in its cell of its environment, and  *)
(* no environment shows a target that never named it.                      *)
THEOREM TopologyTrue == Spec => []TopologyTruthful
<1>1. ReadInv => TopologyTruthful
  <2> SUFFICES ASSUME ReadInv, Served("ListEnvironments") PROVE TopologyTruthful
    BY DEF TopologyTruthful
  <2>1. call \in Calls /\ call.op = "ListEnvironments" /\ result.outcome = "ok"
    BY DEF ReadInv, TypeOK, Served
  <2>2. result = answer(call, lists) /\ Len(lists) = 2 /\ 1 \in DOMAIN lists /\ 2 \in DOMAIN lists
    BY <2>1, BothLists
  <2>3. ListedBy(call.op)[1] = "Environment" /\ ListedBy(call.op)[2] = "DeploymentTarget"
    BY <2>1 DEF ListedBy
  <2>4. PICK i1 \in DOMAIN seen : /\ Enumerates(lists[1], seen[i1].cluster["Environment"])
                                  /\ seen[i1].cluster["Environment"] \in Stored("Environment")
    BY <2>2, <2>3, ListMoment
  <2>5. PICK i2 \in DOMAIN seen :
           /\ Enumerates(lists[2], seen[i2].cluster["DeploymentTarget"])
           /\ seen[i2].cluster["DeploymentTarget"] \in Stored("DeploymentTarget")
    BY <2>2, <2>3, ListMoment
  <2>6. PICK E : E = seen[i1].cluster["Environment"]
    OBVIOUS
  <2>7. PICK T : T = seen[i2].cluster["DeploymentTarget"]
    OBVIOUS
  <2>8. PICK es : es = result.value
    OBVIOUS
  <2>9. IsTopology(es, E, T)
    <3>1. /\ Enumerates(lists[1], E) /\ Enumerates(lists[2], T) /\ Len(lists) = 2
          /\ E \in Stored("Environment") /\ T \in Stored("DeploymentTarget")
      BY <2>2, <2>4, <2>5, <2>6, <2>7
    <3>2. es = ListEnvironments(lists).value
      BY <2>1, <2>2, <2>8, AnswerOf
    <3>3. IsTopology(ListEnvironments(lists).value, E, T)
      BY <3>1, TopologyShows
    <3>4. QED
      BY <3>2, <3>3
  <2>10. Range(lists[1]) = E
    <3>1. Enumerates(lists[1], E)
      BY <2>4, <2>6
    <3>2. QED
      BY <3>1 DEF Enumerates, Range
  <2>11. T \subseteq Sometime("DeploymentTarget") /\ Throughout("DeploymentTarget") \subseteq T
    BY <2>7, Moments
  <2>12. \A i, j \in DOMAIN es : i < j =>
            \E e, f \in Range(lists[1]) :
                e.name = es[i].name /\ f.name = es[j].name /\ e.order <= f.order
    BY <2>9, <2>10 DEF IsTopology
  <2>13. \A i \in DOMAIN es : \A t \in Throughout("DeploymentTarget") :
            t.env = es[i].name =>
                \E c \in DOMAIN es[i].cells :
                    /\ es[i].cells[c].name = t.cell
                    /\ targetToAPI(t) \in Range(es[i].cells[c].targets)
    BY <2>9, <2>11 DEF IsTopology
  <2>14. \A i \in DOMAIN es :
            UNION {Range(es[i].cells[c].targets) : c \in DOMAIN es[i].cells} \subseteq
               {targetToAPI(t) : t \in {u \in Sometime("DeploymentTarget") : u.env = es[i].name}}
    BY <2>9, <2>11 DEF IsTopology
  <2>15. QED
    BY <2>8, <2>12, <2>13, <2>14 DEF TopologyTruthful
<1>2. QED
  BY <1>1, ReadInvariant, PTL
=============================================================================
