---------------------------- MODULE GraphsProofs ----------------------------
(***************************************************************************)
(* Proofs about the two orchestration graphs, PlanGraph and MultiAgent,    *)
(* for every number of tasks, plan, request, split and turn.               *)
(*                                                                         *)
(* The batches of a plan are what a recursive function peels off its       *)
(* tasks, so what is proved of them is proved by induction over the sets   *)
(* of remaining tasks: the sets for which it is false have no smallest.    *)
(* The messages of a superstep are joined with FlattenSeq; FlattenPieces   *)
(* says where each worker's are found again, and both graphs' matching     *)
(* of results rests on it.                                                 *)
(***************************************************************************)
EXTENDS MCGraphs, FiniteSetTheorems, FunctionTheorems, SequenceTheorems, WellFoundedInduction, TLAPS

-----------------------------------------------------------------------------
(* Induction, without operators as parameters.                             *)

\* A set of numbers has a least one.
LEMMA LeastNumber ==
  ASSUME NEW S \in SUBSET Nat, S # {}
  PROVE  \E n \in S : \A m \in S : n <= m
<1>1. IsWellFoundedOn(OpToRel(<, Nat), Nat)
  BY NatLessThanWellFounded
<1> DEFINE R == OpToRel(<, Nat)
<1>2. \A m, n \in Nat : m < n => <<m, n>> \in R
  BY DEF OpToRel
<1> HIDE DEF R
<1>3. IsWellFoundedOn(R, Nat)
  BY <1>1 DEF R
<1>4. PICK n \in S : \A m \in S : ~(<<m, n>> \in R)
  <2>1. S \subseteq Nat
    OBVIOUS
  <2>2. \E n \in S : \A m \in S : ~(<<m, n>> \in R)
    BY <1>3, <2>1, WFMin, Zenon
  <2> QED BY <2>2
<1>5. \A m \in S : n <= m
  <2> TAKE m \in S
  <2>1. m \in Nat /\ n \in Nat /\ ~(m < n)
    BY <1>2, <1>4
  <2> QED BY <2>1
<1> QED BY <1>5

\* A set that holds zero and the successors of its members holds all numbers.
LEMMA AllNumbers ==
  ASSUME NEW S \in SUBSET Nat, 0 \in S, \A n \in S : n + 1 \in S
  PROVE  S = Nat
<1> SUFFICES ASSUME Nat \ S # {}
             PROVE  FALSE
  OBVIOUS
<1>1. PICK n \in Nat \ S : \A m \in Nat \ S : n <= m
  BY LeastNumber
<1>2. n # 0
  OBVIOUS
<1>3. n - 1 \in Nat /\ ~(n <= n - 1)
  BY <1>2
<1>4. n - 1 \in S
  BY <1>1, <1>3
<1>5. (n - 1) + 1 = n
  OBVIOUS
<1> QED BY <1>4, <1>5

-----------------------------------------------------------------------------
(* compute_batches.                                                        *)

\* The batches peeled off what remains, when f gives those of what then remains.
Peeled(p, f, remaining) ==
  IF Ready(p, remaining) = {} THEN <<>>
  ELSE <<Ready(p, remaining)>> \o f[remaining \ Ready(p, remaining)]

\* A plan has finitely many tasks, numbered from one, which depend on tasks of it.
LEMMA PlanFinite ==
  ASSUME NEW p \in Plans
  PROVE  /\ IsFiniteSet(DOMAIN p) /\ DOMAIN p \subseteq Ids
         /\ \A t \in DOMAIN p : p[t].depends_on \subseteq DOMAIN p /\ p[t].description \in Texts
<1>1. PICK n \in Ids : p \in [1..n -> [description : Texts, depends_on : SUBSET (1..n)]]
  BY DEF Plans
<1>2. n \in Nat /\ DOMAIN p = 1..n
  BY <1>1, PlanAssumption DEF Ids
<1>3. IsFiniteSet(1..n)
  BY <1>2, FS_Interval
<1>4. 1..n \subseteq 1..MaxTasks
  BY <1>2, PlanAssumption DEF Ids
<1> QED BY <1>1, <1>2, <1>3, <1>4 DEF Ids

\* The recursion that peels batches off defines a function: what it needs of the
\* tasks that remain is what it gives for fewer.
LEMMA PeelExists ==
  ASSUME NEW p, IsFiniteSet(DOMAIN p)
  PROVE  \E f : f = [remaining \in SUBSET DOMAIN p |-> Peeled(p, f, remaining)]
<1> DEFINE Small(n) == {r \in SUBSET DOMAIN p : Cardinality(r) <= n}
           Good(n) == \E f : f = [r \in Small(n) |-> Peeled(p, f, r)]
           bad == {n \in Nat : ~Good(n)}
<1>1. Good(0)
  <2> DEFINE f == [r \in Small(0) |-> <<>>]
  <2>1. \A r \in Small(0) : Peeled(p, f, r) = <<>>
    <3> SUFFICES ASSUME NEW r \in Small(0)
                 PROVE  Peeled(p, f, r) = <<>>
      OBVIOUS
    <3>1. IsFiniteSet(r) /\ Cardinality(r) \in Nat
      BY FS_Subset, FS_CardinalityType
    <3>2. r = {}
      BY <3>1, FS_EmptySet
    <3> QED BY <3>2 DEF Peeled, Ready
  <2>2. f = [r \in Small(0) |-> Peeled(p, f, r)]
    BY <2>1
  <2> QED BY <2>2
<1>2. ASSUME NEW n \in Nat, Good(n)
      PROVE  Good(n + 1)
  <2>1. PICK g : g = [r \in Small(n) |-> Peeled(p, g, r)]
    BY <1>2
  <2> DEFINE f == [r \in Small(n + 1) |-> Peeled(p, g, r)]
  <2>2. ASSUME NEW r \in Small(n + 1)
        PROVE  Peeled(p, f, r) = Peeled(p, g, r)
    <3> DEFINE rest == r \ Ready(p, r)
    <3>1. CASE Ready(p, r) = {}
      BY <3>1 DEF Peeled
    <3>2. CASE Ready(p, r) # {}
      <4>1. Ready(p, r) \subseteq r
        BY DEF Ready
      <4>2. IsFiniteSet(r) /\ Cardinality(r) \in Nat /\ Cardinality(r) <= n + 1
        BY FS_Subset, FS_CardinalityType
      <4>3. rest \subseteq r /\ rest # r
        BY <3>2, <4>1
      <4>4. IsFiniteSet(rest) /\ Cardinality(rest) \in Nat /\ Cardinality(rest) < Cardinality(r)
        <5> HIDE DEF rest
        <5>1. IsFiniteSet(rest) /\ Cardinality(rest) <= Cardinality(r)
          BY <4>2, <4>3, FS_Subset
        <5>2. Cardinality(rest) # Cardinality(r)
          BY <4>2, <4>3, FS_Subset
        <5>3. Cardinality(rest) \in Nat
          BY <5>1, FS_CardinalityType
        <5> QED BY <4>2, <5>1, <5>2, <5>3
      <4>5. rest \in Small(n) /\ rest \in Small(n + 1)
        BY <4>2, <4>3, <4>4
      <4>6. f[rest] = Peeled(p, g, rest) /\ g[rest] = Peeled(p, g, rest)
        <5> HIDE DEF Small, rest
        <5>1. f[rest] = Peeled(p, g, rest)
          BY <4>5
        <5>2. g[rest] = Peeled(p, g, rest)
          BY <2>1, <4>5
        <5> QED BY <5>1, <5>2
      <4> HIDE DEF f
      <4> QED BY <3>2, <4>6 DEF Peeled
    <3> QED BY <3>1, <3>2
  <2>3. f = [r \in Small(n + 1) |-> Peeled(p, f, r)]
    <3> HIDE DEF Small
    <3> QED BY <2>2
  <2> HIDE DEF f
  <2> QED BY <2>3
<1> HIDE DEF Good
<1>3. \A n \in Nat : Good(n)
  <2> DEFINE good == {n \in Nat : Good(n)}
  <2>1. 0 \in good /\ \A n \in good : n + 1 \in good
    BY <1>1, <1>2
  <2>2. good = Nat
    <3> HIDE DEF good
    <3>1. good \in SUBSET Nat
      BY DEF good
    <3> QED BY <2>1, <3>1, AllNumbers
  <2> QED BY <2>2
<1>4. Cardinality(DOMAIN p) \in Nat
  BY FS_CardinalityType
<1>5. Small(Cardinality(DOMAIN p)) = SUBSET DOMAIN p
  <2>1. ASSUME NEW r \in SUBSET DOMAIN p
        PROVE  Cardinality(r) <= Cardinality(DOMAIN p)
    BY FS_Subset
  <2> QED BY <2>1
<1> HIDE DEF Small
<1>6. Good(Cardinality(DOMAIN p))
  BY <1>3, <1>4
<1> QED BY <1>5, <1>6 DEF Good

\* What is peeled off what remains.
LEMMA PeelingIs ==
  ASSUME NEW p, IsFiniteSet(DOMAIN p), NEW r \in SUBSET DOMAIN p
  PROVE  Peeling(p)[r] = IF Ready(p, r) = {} THEN <<>>
                         ELSE <<Ready(p, r)>> \o Peeling(p)[r \ Ready(p, r)]
<1>1. \E f : f = [remaining \in SUBSET DOMAIN p |->
                    IF Ready(p, remaining) = {} THEN <<>>
                    ELSE <<Ready(p, remaining)>> \o f[remaining \ Ready(p, remaining)]]
  BY PeelExists DEF Peeled
<1>2. Peeling(p) = [remaining \in SUBSET DOMAIN p |->
                      IF Ready(p, remaining) = {} THEN <<>>
                      ELSE <<Ready(p, remaining)>> \o Peeling(p)[remaining \ Ready(p, remaining)]]
  BY <1>1 DEF Peeling
<1> QED BY <1>2

\* No task is in two batches, and none before what it depends on.
Ordered(p, r, B) ==
  /\ B \in Seq(SUBSET r)
  /\ \A i, j \in DOMAIN B : i # j => B[i] \cap B[j] = {}
  /\ \A i \in DOMAIN B : \A t \in B[i] : \A d \in p[t].depends_on \cap r :
       \E j \in 1..(i - 1) : d \in B[j]
  /\ \A i \in DOMAIN B : \A t \in B[i] : i = 1 \/ p[t].depends_on \cap B[i - 1] # {}

\* Every task of S waits for one of S.
Circular(p, S) == \A t \in S : p[t].depends_on \cap S # {}

\* What waits for itself is in no batch, and what is in none does.
Exhausted(p, r, B) ==
  /\ Circular(p, {t \in r : \A i \in DOMAIN B : t \notin B[i]})
  /\ \A S \in SUBSET r : Circular(p, S) => \A i \in DOMAIN B : S \cap B[i] = {}

\* One batch more in front leaves the others in order.
LEMMA BatchBefore ==
  ASSUME NEW p, NEW r, NEW ready, ready = Ready(p, r), ready # {},
         NEW C, Ordered(p, r \ ready, C), Exhausted(p, r \ ready, C),
         NEW B, B = <<ready>> \o C
  PROVE  Ordered(p, r, B) /\ Exhausted(p, r, B)
<1> DEFINE rest == r \ ready
<1>1. C \in Seq(SUBSET rest) /\ ready \in SUBSET r
  BY DEF Ordered, Ready
<1>2. Len(C) \in Nat /\ DOMAIN C = 1..Len(C)
  BY <1>1
<1>3. /\ B \in Seq(SUBSET r) /\ Len(B) = Len(C) + 1 /\ DOMAIN B = 1..(Len(C) + 1)
      /\ B[1] = ready /\ \A i \in DOMAIN C : B[i + 1] = C[i]
  <2>1. C \in Seq(SUBSET r)
    BY <1>1
  <2>2. <<ready>> \in Seq(SUBSET r) /\ Len(<<ready>>) = 1
    BY <1>1
  <2> QED BY <2>1, <2>2, <1>2
<1>4. \A i \in DOMAIN B : i = 1 \/ (i - 1 \in DOMAIN C /\ B[i] = C[i - 1] /\ i - 1 + 1 = i)
  BY <1>2, <1>3
<1>5. \A i \in DOMAIN C : C[i] \subseteq rest
  BY <1>1
<1>6. \A t \in ready : t \in r /\ p[t].depends_on \cap r = {}
  BY DEF Ready
<1>7. \A t \in rest : p[t].depends_on \cap r # {}
  BY DEF Ready
<1> HIDE DEF rest
<1>8. ready \cap rest = {} /\ r = ready \cup rest
  BY <1>1 DEF rest
<1>9. /\ \A i, j \in DOMAIN C : i # j => C[i] \cap C[j] = {}
      /\ \A i \in DOMAIN C : \A t \in C[i] : \A d \in p[t].depends_on \cap rest :
           \E j \in 1..(i - 1) : d \in C[j]
      /\ \A i \in DOMAIN C : \A t \in C[i] : i = 1 \/ p[t].depends_on \cap C[i - 1] # {}
  BY DEF Ordered, rest
<1>10. \A i, j \in DOMAIN B : i # j => B[i] \cap B[j] = {}
  <2> SUFFICES ASSUME NEW i \in DOMAIN B, NEW j \in DOMAIN B, i # j
               PROVE  B[i] \cap B[j] = {}
    OBVIOUS
  <2>1. CASE i = 1
    BY <1>3, <1>4, <1>5, <1>8, <2>1
  <2>2. CASE j = 1
    BY <1>3, <1>4, <1>5, <1>8, <2>2
  <2>3. CASE i # 1 /\ j # 1
    <3>1. i - 1 \in DOMAIN C /\ j - 1 \in DOMAIN C /\ B[i] = C[i - 1] /\ B[j] = C[j - 1]
      BY <1>4, <2>3
    <3>2. i - 1 # j - 1
      BY <1>3, <1>2
    <3> QED BY <1>9, <3>1, <3>2
  <2> QED BY <2>1, <2>2, <2>3
<1>11. ASSUME NEW i \in DOMAIN B, NEW t \in B[i], NEW d \in p[t].depends_on \cap r
       PROVE  \E j \in 1..(i - 1) : d \in B[j]
  <2>1. CASE i = 1
    BY <1>3, <1>6, <2>1
  <2>2. CASE i # 1
    <3>1. i - 1 \in DOMAIN C /\ t \in C[i - 1]
      BY <1>4, <2>2
    <3>2. CASE d \in ready
      <4>1. 1 \in 1..(i - 1)
        BY <1>2, <3>1
      <4> QED BY <1>3, <3>2, <4>1
    <3>3. CASE d \in rest
      <4>1. PICK k \in 1..(i - 1 - 1) : d \in C[k]
        BY <1>9, <3>1, <3>3
      <4>2. k \in DOMAIN C /\ k + 1 \in 1..(i - 1)
        BY <1>2, <3>1, <4>1
      <4> QED BY <1>3, <4>1, <4>2
    <3> QED BY <1>8, <3>2, <3>3
  <2> QED BY <2>1, <2>2
<1>12. ASSUME NEW i \in DOMAIN B, NEW t \in B[i], i # 1
       PROVE  p[t].depends_on \cap B[i - 1] # {}
  <2>1. i - 1 \in DOMAIN C /\ t \in C[i - 1] /\ t \in rest
    BY <1>4, <1>5, <1>12
  <2>2. CASE i - 1 = 1
    <3>1. p[t].depends_on \cap rest = {}
      <4> SUFFICES ASSUME NEW d \in p[t].depends_on \cap rest
                   PROVE  FALSE
        OBVIOUS
      <4>1. PICK j \in 1..(i - 1 - 1) : d \in C[j]
        BY <1>9, <2>1
      <4>2. 1..(i - 1 - 1) = {}
        BY <2>2
      <4> QED BY <4>1, <4>2
    <3>2. p[t].depends_on \cap ready # {}
      BY <1>7, <1>8, <2>1, <3>1
    <3> QED BY <1>3, <2>2, <3>2
  <2>3. CASE i - 1 # 1
    <3>1. p[t].depends_on \cap C[i - 1 - 1] # {}
      BY <1>9, <2>1, <2>3
    <3>2. i - 1 - 1 \in DOMAIN C /\ i - 1 - 1 + 1 = i - 1
      BY <1>2, <2>1, <2>3
    <3> QED BY <1>3, <3>1, <3>2
  <2> QED BY <2>2, <2>3
<1>13. Ordered(p, r, B)
  <2>1. B \in Seq(SUBSET r)
    BY <1>3
  <2>2. \A i \in DOMAIN B : \A t \in B[i] : \A d \in p[t].depends_on \cap r :
          \E j \in 1..(i - 1) : d \in B[j]
    BY <1>11
  <2>3. \A i \in DOMAIN B : \A t \in B[i] : i = 1 \/ p[t].depends_on \cap B[i - 1] # {}
    BY <1>12
  <2> QED BY ONLY <2>1, <2>2, <2>3, <1>10, Zenon DEF Ordered
<1>14. {t \in r : \A i \in DOMAIN B : t \notin B[i]} = {t \in rest : \A i \in DOMAIN C : t \notin C[i]}
  <2>1. ASSUME NEW t \in r, \A i \in DOMAIN B : t \notin B[i]
        PROVE  t \in rest /\ \A i \in DOMAIN C : t \notin C[i]
    <3>1. 1 \in DOMAIN B /\ \A i \in DOMAIN C : i + 1 \in DOMAIN B
      BY <1>2, <1>3
    <3> QED BY <1>3, <1>8, <2>1, <3>1
  <2>2. ASSUME NEW t \in rest, \A i \in DOMAIN C : t \notin C[i], NEW i \in DOMAIN B
        PROVE  t \in r /\ t \notin B[i]
    BY <1>3, <1>4, <1>8, <2>2
  <2> QED BY <1>8, <2>1, <2>2
<1>15. Circular(p, {t \in r : \A i \in DOMAIN B : t \notin B[i]})
  BY <1>14 DEF Exhausted, rest
<1>16. ASSUME NEW S \in SUBSET r, Circular(p, S), NEW i \in DOMAIN B
       PROVE  S \cap B[i] = {}
  <2>1. S \cap ready = {}
    BY <1>6, <1>16 DEF Circular
  <2>2. S \in SUBSET rest
    BY <1>8, <2>1
  <2>3. \A j \in DOMAIN C : S \cap C[j] = {}
    BY <1>16, <2>2 DEF Exhausted, rest
  <2> QED BY <1>3, <1>4, <2>1, <2>3
<1>17. Exhausted(p, r, B)
  BY <1>15, <1>16 DEF Exhausted
<1> QED BY <1>13, <1>17

\* What is peeled off any tasks of a plan is in order and exhausts them.
LEMMA PeelingSound ==
  ASSUME NEW p, IsFiniteSet(DOMAIN p)
  PROVE  \A r \in SUBSET DOMAIN p : Ordered(p, r, Peeling(p)[r]) /\ Exhausted(p, r, Peeling(p)[r])
<1> DEFINE Sound(r) == Ordered(p, r, Peeling(p)[r]) /\ Exhausted(p, r, Peeling(p)[r])
           bad == {r \in SUBSET DOMAIN p : ~Sound(r)}
           R == StrictSubsetOrdering(DOMAIN p)
<1> SUFFICES ASSUME bad # {}
             PROVE  FALSE
  OBVIOUS
<1>1. IsWellFoundedOn(R, SUBSET DOMAIN p)
  BY FS_StrictSubsetOrderingWellFounded, FS_FiniteSubsetsOfFinite
<1>2. PICK r \in bad : \A s \in bad : ~(<<s, r>> \in R)
  <2> HIDE DEF R, bad
  <2>1. bad \subseteq SUBSET DOMAIN p
    BY DEF bad
  <2> QED BY <1>1, <2>1, WFMin
<1>3. r \in SUBSET DOMAIN p /\ ~Sound(r)
  OBVIOUS
<1>4. \A s \in SUBSET DOMAIN p : s \subseteq r /\ s # r => Sound(s)
  <2> SUFFICES ASSUME NEW s \in SUBSET DOMAIN p, s \subseteq r, s # r
               PROVE  Sound(s)
    OBVIOUS
  <2>1. <<s, r>> \in R
    BY <1>3 DEF StrictSubsetOrdering
  <2> QED BY <1>2, <2>1
<1> HIDE DEF bad, R
<1>5. CASE Ready(p, r) = {}
  <2>1. Peeling(p)[r] = <<>>
    BY <1>3, <1>5, PeelingIs
  <2>2. Ordered(p, r, <<>>)
    BY DEF Ordered
  <2>3. Exhausted(p, r, <<>>)
    BY <1>5 DEF Exhausted, Circular, Ready
  <2> QED BY <1>3, <2>1, <2>2, <2>3
<1>6. CASE Ready(p, r) # {}
  <2> DEFINE ready == Ready(p, r)
             rest == r \ ready
  <2>1. ready \subseteq r
    BY DEF Ready
  <2>2. rest \in SUBSET DOMAIN p /\ rest \subseteq r /\ rest # r
    BY <1>3, <1>6, <2>1
  <2>3. Sound(rest)
    BY <1>4, <2>2
  <2>4. Peeling(p)[r] = <<ready>> \o Peeling(p)[rest]
    BY <1>3, <1>6, PeelingIs
  <2>5. Ordered(p, r, Peeling(p)[r]) /\ Exhausted(p, r, Peeling(p)[r])
    BY <1>6, <2>3, <2>4, BatchBefore
  <2> QED BY <1>3, <2>5
<1> QED BY <1>5, <1>6

-----------------------------------------------------------------------------
(* FlattenSeq.                                                             *)

\* The first i pieces, when those before are joined.
Joined(ss, f, i) == IF i = 1 THEN ss[i] ELSE f[i - 1] \o ss[i]

\* What joins one piece more.
LEMMA JoinedNext ==
  ASSUME NEW ss, NEW f, NEW n \in Nat, n # 0
  PROVE  Joined(ss, f, n + 1) = f[n] \o ss[n + 1]
<1>1. n + 1 # 1 /\ (n + 1) - 1 = n
  OBVIOUS
<1>2. Joined(ss, f, n + 1) = f[(n + 1) - 1] \o ss[n + 1]
  BY <1>1, Zenon DEF Joined
<1> QED BY <1>1, <1>2, Zenon

\* The pieces can be joined one after the other.
LEMMA JoinedExists ==
  ASSUME NEW ss, NEW n \in Nat
  PROVE  \E f : f = [i \in 1..n |-> Joined(ss, f, i)]
<1> DEFINE Good(m) == \E f : f = [i \in 1..m |-> Joined(ss, f, i)]
           good == {m \in Nat : Good(m)}
<1>1. Good(0)
  <2> DEFINE f == [i \in 1..0 |-> ss[i]]
  <2>1. f = [i \in 1..0 |-> Joined(ss, f, i)]
    OBVIOUS
  <2> QED BY <2>1
<1>2. ASSUME NEW m \in Nat, Good(m)
      PROVE  Good(m + 1)
  <2>1. PICK g : g = [i \in 1..m |-> Joined(ss, g, i)]
    BY <1>2
  <2> DEFINE f == [i \in 1..(m + 1) |-> Joined(ss, g, i)]
  <2>2. ASSUME NEW i \in 1..(m + 1)
        PROVE  Joined(ss, f, i) = Joined(ss, g, i)
    <3>1. CASE i = 1
      BY <3>1 DEF Joined
    <3>2. CASE i # 1
      <4>1. i - 1 \in 1..m /\ i - 1 \in 1..(m + 1)
        BY <3>2
      <4>2. f[i - 1] = Joined(ss, g, i - 1) /\ g[i - 1] = Joined(ss, g, i - 1)
        <5>1. f[i - 1] = Joined(ss, g, i - 1)
          BY <4>1
        <5>2. g[i - 1] = Joined(ss, g, i - 1)
          BY <2>1, <4>1
        <5> QED BY <5>1, <5>2
      <4> HIDE DEF f
      <4> QED BY <3>2, <4>2 DEF Joined
    <3> QED BY <3>1, <3>2
  <2>3. f = [i \in 1..(m + 1) |-> Joined(ss, f, i)]
    BY <2>2
  <2> HIDE DEF f
  <2> QED BY <2>3
<1> HIDE DEF Good
<1>3. 0 \in good /\ \A m \in good : m + 1 \in good
  BY <1>1, <1>2
<1>4. good = Nat
  <2>1. good \in SUBSET Nat
    OBVIOUS
  <2> HIDE DEF good
  <2> QED BY <1>3, <2>1, AllNumbers
<1>5. Good(n)
  BY <1>4
<1> QED BY <1>5 DEF Good

\* Where each of the first n pieces begins in their join.
Pieces(ss, start, n, flat) ==
  /\ \A i \in 1..n : \A k \in DOMAIN ss[i] :
       start[i] + k \in DOMAIN flat /\ flat[start[i] + k] = ss[i][k]
  /\ \A m \in DOMAIN flat : \E i \in 1..n : \E k \in DOMAIN ss[i] : m = start[i] + k
  /\ \A i \in 1..n : start[i] + Len(ss[i]) <= Len(flat)
  /\ \A i, j \in 1..n : i < j => start[i] + Len(ss[i]) <= start[j]

\* One piece more.
LEMMA PieceMore ==
  ASSUME NEW M, NEW ss, NEW start, NEW n \in Nat, NEW a \in Seq(M), NEW b \in Seq(M),
         \A i \in 1..n : start[i] \in Nat /\ ss[i] \in Seq(M),
         Pieces(ss, start, n, a), ss[n + 1] = b, start[n + 1] = Len(a)
  PROVE  Pieces(ss, start, n + 1, a \o b)
<1> DEFINE c == a \o b
<1>1. /\ c \in Seq(M) /\ Len(c) = Len(a) + Len(b) /\ Len(a) \in Nat /\ Len(b) \in Nat
      /\ DOMAIN a = 1..Len(a) /\ DOMAIN b = 1..Len(b) /\ DOMAIN c = 1..Len(c)
  OBVIOUS
<1>2. \A m \in 1..Len(a) : c[m] = a[m]
  OBVIOUS
<1>3. \A k \in 1..Len(b) : c[Len(a) + k] = b[k]
  OBVIOUS
<1>4. \A i \in 1..(n + 1) : i = n + 1 \/ i \in 1..n
  OBVIOUS
<1>5. \A i \in 1..n : Len(ss[i]) \in Nat /\ start[i] \in Nat
  OBVIOUS
<1> HIDE DEF c
<1>6. ASSUME NEW i \in 1..(n + 1), NEW k \in DOMAIN ss[i]
      PROVE  start[i] + k \in DOMAIN c /\ c[start[i] + k] = ss[i][k]
  <2>1. CASE i = n + 1
    <3>1. k \in 1..Len(b) /\ start[i] + k = Len(a) + k
      BY <1>1, <2>1
    <3>2. Len(a) + k \in 1..Len(c)
      BY <1>1, <3>1
    <3> QED BY <1>1, <1>3, <2>1, <3>1, <3>2
  <2>2. CASE i \in 1..n
    <3>1. start[i] + k \in 1..Len(a) /\ a[start[i] + k] = ss[i][k]
      BY <1>1, <2>2 DEF Pieces
    <3>2. 1..Len(a) \subseteq DOMAIN c
      BY <1>1
    <3> QED BY <1>2, <3>1, <3>2
  <2> QED BY <1>4, <2>1, <2>2
<1>7. ASSUME NEW m \in DOMAIN c
      PROVE  \E i \in 1..(n + 1) : \E k \in DOMAIN ss[i] : m = start[i] + k
  <2>1. CASE m <= Len(a)
    <3>1. m \in DOMAIN a
      BY <1>1, <2>1
    <3>2. \E i \in 1..n : \E k \in DOMAIN ss[i] : m = start[i] + k
      BY <3>1 DEF Pieces
    <3>3. 1..n \subseteq 1..(n + 1)
      OBVIOUS
    <3> QED BY <3>2, <3>3
  <2>2. CASE ~(m <= Len(a))
    <3>1. m - Len(a) \in DOMAIN b /\ m = Len(a) + (m - Len(a))
      BY <1>1, <2>2
    <3>2. n + 1 \in 1..(n + 1)
      OBVIOUS
    <3> QED BY <3>1, <3>2
  <2> QED BY <2>1, <2>2
<1>8. \A i \in 1..n : start[i] + Len(ss[i]) <= Len(a)
  BY DEF Pieces
<1>9. ASSUME NEW i \in 1..(n + 1)
      PROVE  start[i] + Len(ss[i]) <= Len(c)
  <2>1. CASE i = n + 1
    BY <1>1, <2>1
  <2>2. CASE i \in 1..n
    BY <1>1, <1>5, <1>8, <2>2
  <2> QED BY <1>4, <2>1, <2>2
<1>10. ASSUME NEW i \in 1..(n + 1), NEW j \in 1..(n + 1), i < j
       PROVE  start[i] + Len(ss[i]) <= start[j]
  <2>1. i \in 1..n
    BY <1>10
  <2>2. CASE j = n + 1
    BY <1>8, <2>1, <2>2
  <2>3. CASE j \in 1..n
    BY <1>10, <2>1, <2>3 DEF Pieces
  <2> QED BY <1>4, <2>2, <2>3
<1>11. Pieces(ss, start, n + 1, c)
  BY <1>6, <1>7, <1>9, <1>10 DEF Pieces
<1> QED BY <1>11 DEF c

\* FlattenSeq joins the pieces, each of which stays whole and in its place.
LEMMA FlattenPieces ==
  ASSUME NEW M, NEW ss \in Seq(Seq(M))
  PROVE  /\ FlattenSeq(ss) \in Seq(M)
         /\ \E start \in [DOMAIN ss -> Nat] : Pieces(ss, start, Len(ss), FlattenSeq(ss))
<1> DEFINE N == Len(ss)
<1>1. N \in Nat /\ DOMAIN ss = 1..N /\ \A i \in 1..N : ss[i] \in Seq(M)
  OBVIOUS
<1>2. CASE N = 0
  <2>1. FlattenSeq(ss) = ss /\ ss = <<>>
    BY <1>2 DEF FlattenSeq
  <2> DEFINE start == [i \in DOMAIN ss |-> 0]
  <2>2. start \in [DOMAIN ss -> Nat]
    OBVIOUS
  <2> HIDE DEF start
  <2>3. Pieces(ss, start, Len(ss), ss)
    <3>1. \A i \in 1..Len(ss) : FALSE
      BY <1>2
    <3>2. \A m \in DOMAIN ss : FALSE
      BY <1>2
    <3> QED BY ONLY <3>1, <3>2 DEF Pieces
  <2>4. FlattenSeq(ss) \in Seq(M)
    BY <2>1
  <2> QED BY <2>1, <2>2, <2>3, <2>4, Zenon
<1>3. CASE N # 0
  <2> DEFINE f == CHOOSE F : F = [i \in 1..N |-> Joined(ss, F, i)]
  <2>1. f = [i \in 1..N |-> Joined(ss, f, i)]
    BY <1>1, JoinedExists
  <2>2. FlattenSeq(ss) = f[N]
    BY <1>3 DEF FlattenSeq, Joined
  <2> HIDE DEF f
  <2>3. \A i \in 1..N : f[i] = Joined(ss, f, i)
    BY <2>1
  <2> DEFINE start == [i \in 1..N |-> IF i = 1 THEN 0 ELSE Len(f[i - 1])]
             Whole(n) == /\ f[n] \in Seq(M) /\ \A i \in 1..n : start[i] \in Nat
                         /\ Pieces(ss, start, n, f[n])
             good == {n \in Nat : n + 1 <= N => Whole(n + 1)}
  <2>4. Whole(1)
    <3>1. 1 \in 1..N
      BY <1>1, <1>3
    <3>2. f[1] = ss[1] /\ start[1] = 0 /\ ss[1] \in Seq(M)
      BY <1>1, <2>3, <3>1 DEF Joined
    <3> HIDE DEF start
    <3>3. Pieces(ss, start, 1, f[1])
      BY <3>2 DEF Pieces
    <3>4. \A i \in 1..1 : start[i] \in Nat
      BY <3>2
    <3> QED BY <3>2, <3>3, <3>4
  <2>5. ASSUME NEW n \in 1..N, n + 1 <= N, Whole(n)
        PROVE  Whole(n + 1)
    <3>1. n + 1 \in 1..N /\ n + 1 # 1 /\ n + 1 - 1 = n /\ n \in Nat
      BY <1>1, <2>5
    <3>2. f[n + 1] = f[n] \o ss[n + 1] /\ start[n + 1] = Len(f[n])
      <4>1. f[n + 1] = Joined(ss, f, n + 1)
        BY <2>3, <3>1
      <4>3. Joined(ss, f, n + 1) = f[n] \o ss[n + 1]
        <5>1. n \in Nat /\ n # 0
          BY <1>1
        <5> QED BY <5>1, JoinedNext, Zenon
      <4>2. start[n + 1] = Len(f[n + 1 - 1])
        BY <3>1
      <4> QED BY <3>1, <4>1, <4>2, <4>3
    <3> HIDE DEF start
    <3>3. f[n] \in Seq(M) /\ ss[n + 1] \in Seq(M)
      BY <1>1, <2>5, <3>1
    <3>4. \A i \in 1..n : start[i] \in Nat /\ ss[i] \in Seq(M)
      <4>1. \A i \in 1..n : i \in 1..N
        BY <1>1, <3>1
      <4> QED BY <1>1, <2>5, <4>1
    <3>5. Pieces(ss, start, n + 1, f[n + 1])
      <4>1. Pieces(ss, start, n, f[n])
        BY <2>5
      <4>2. Pieces(ss, start, n + 1, f[n] \o ss[n + 1])
        BY <3>1, <3>2, <3>3, <3>4, <4>1, PieceMore
      <4> QED BY <3>2, <4>2
    <3>6. f[n + 1] \in Seq(M) /\ Len(f[n]) \in Nat
      BY <3>2, <3>3
    <3>7. \A i \in 1..(n + 1) : i = n + 1 \/ i \in 1..n
      BY <3>1
    <3>8. \A i \in 1..(n + 1) : start[i] \in Nat
      BY <3>2, <3>4, <3>6, <3>7
    <3> QED BY <3>5, <3>6, <3>8
  <2> HIDE DEF Whole
  <2>6. 0 \in good /\ \A n \in good : n + 1 \in good
    <3>1. 0 \in good
      BY <2>4
    <3>2. ASSUME NEW n \in good
          PROVE  n + 1 \in good
      <4>1. n \in Nat /\ (n + 1 <= N => Whole(n + 1))
        OBVIOUS
      <4>2. n + 1 + 1 <= N => n + 1 \in 1..N /\ n + 1 <= N
        BY <1>1, <4>1
      <4>3. n + 1 + 1 <= N => Whole(n + 1 + 1)
        BY <2>5, <4>1, <4>2
      <4> QED BY <4>1, <4>3
    <3> QED BY <3>1, <3>2
  <2>7. good = Nat
    <3>1. good \in SUBSET Nat
      OBVIOUS
    <3> HIDE DEF good
    <3> QED BY <2>6, <3>1, AllNumbers
  <2>8. \A n \in 1..N : Whole(n)
    <3> SUFFICES ASSUME NEW n \in 1..N
                 PROVE  Whole(n)
      OBVIOUS
    <3>1. n - 1 \in Nat /\ n - 1 + 1 = n /\ n <= N
      BY <1>1
    <3>2. n - 1 \in good
      BY <2>7, <3>1
    <3> QED BY <3>1, <3>2
  <2>9. start \in [DOMAIN ss -> Nat]
    BY <1>1, <2>8 DEF Whole
  <2>10. Whole(N)
    BY <1>1, <1>3, <2>8
  <2> QED BY <2>2, <2>9, <2>10 DEF Whole
<1> QED BY <1>2, <1>3

-----------------------------------------------------------------------------
(* PlanGraph: the inductive invariant.                                     *)

\* Tasks of the batches that are done.
Done == UNION {batches[i] : i \in 1..batchIndex}

\* What the planner has made is split once, and not touched again.
PlanMade ==
  /\ plan = <<>> => batches = <<>>
  /\ plan # <<>> => IF Stuck(plan) THEN pc = "raised" /\ batches = <<>>
                    ELSE batches = Peel(plan)
  /\ pc = "plan" => plan = <<>> /\ batchIndex = 0 /\ results = <<>>
  /\ pc \in {"finalize", "answered"} => plan # <<>> /\ batchIndex = Len(batches)

\* The batch at batch_index runs, and what was run is done or has answered.
BatchRuns ==
  /\ failed = {} /\ sent.skip = {}
  /\ pc = "run" => batchIndex < Len(batches) /\ sent.run = batches[batchIndex + 1]
  /\ pc \notin {"run", "raised"} => DOMAIN left = {}
  /\ pc # "raised" => \A t \in Ids : runs[t] = IF t \in Done \cup DOMAIN left THEN 1 ELSE 0

\* A worker has left what it was asked, and what it answered.
LeftSays == \A t \in DOMAIN left : \E tools \in BOOLEAN : left[t] = Answers(t, tools)

\* Messages of a thread that runs a plan.
PlanMessages ==
  [type : {"human"}, text : Texts] \cup [type : {"ai"}, by : Tasks, last : BOOLEAN]

\* An AI message follows one, or the description of its own task.
AnswersFollow(ms) ==
  \A i \in DOMAIN ms : ms[i].type = "ai" =>
    /\ i - 1 \in DOMAIN ms
    /\ ms[i - 1].type = "ai" \/ ms[i - 1] = Human(plan[ms[i].by].description)

\* What is done has a result, and it is its own.
ResultsOwn ==
  DistinctDescriptions =>
    Done \subseteq DOMAIN results /\ \A t \in DOMAIN results : results[t].by = t

PlanIInv ==
  /\ TypeOK /\ PlanMade /\ BatchRuns /\ LeftSays
  /\ messages \in Seq(PlanMessages) /\ AnswersFollow(messages)
  /\ ResultsOwn

-----------------------------------------------------------------------------
(* PlanGraph: what the operators give.                                     *)

\* Min is in its set.
LEMMA MinIn ==
  ASSUME NEW S \in SUBSET Nat, S # {}
  PROVE  Min(S) \in S
BY LeastNumber DEF Min

\* The tasks are numbered, have a description and depend on tasks.
LEMMA TasksTyped ==
  ASSUME plan = <<>> \/ plan \in Plans
  PROVE  /\ Tasks \subseteq Ids /\ IsFiniteSet(Tasks) /\ Tasks \subseteq Nat
         /\ \A t \in Tasks : plan[t].description \in Texts /\ plan[t].depends_on \subseteq Tasks
<1>0. Ids \subseteq Nat
  BY PlanAssumption DEF Ids
<1>1. CASE plan = <<>>
  <2>1. DOMAIN plan = {}
    BY <1>1
  <2> QED BY <2>1, FS_EmptySet DEF Tasks
<1>2. CASE plan \in Plans
  BY <1>0, <1>2, PlanFinite DEF Tasks
<1> QED BY <1>1, <1>2

\* The batches of any state are in order.
LEMMA BatchesOrdered ==
  ASSUME TypeOK, PlanMade
  PROVE  /\ Ordered(plan, Tasks, batches)
         /\ \A i, j \in DOMAIN batches : i # j => batches[i] \cap batches[j] = {}
         /\ \A i \in DOMAIN batches : \A t \in batches[i] : \A d \in plan[t].depends_on :
              \E j \in 1..(i - 1) : d \in batches[j]
<1>1. Ordered(plan, Tasks, <<>>)
  BY DEF Ordered
<1>2. plan = <<>> \/ plan \in Plans
  BY DEF TypeOK
<1>3. Ordered(plan, Tasks, Peel(plan))
  <2>1. Tasks \in SUBSET DOMAIN plan
    BY DEF Tasks
  <2> QED BY <1>2, <2>1, TasksTyped, PeelingSound DEF Peel, Tasks
<1>4. Ordered(plan, Tasks, batches)
  BY <1>1, <1>3 DEF PlanMade
<1>5. \A i \in DOMAIN batches : \A t \in batches[i] : plan[t].depends_on \cap Tasks = plan[t].depends_on
  <2>1. \A i \in DOMAIN batches : batches[i] \subseteq Tasks
    BY DEF TypeOK
  <2> QED BY <1>2, <2>1, TasksTyped
<1> QED BY <1>4, <1>5 DEF Ordered

\* One element more.
LEMMA OneMore ==
  ASSUME NEW S, NEW s \in Seq(S), NEW z \in S
  PROVE  /\ s \o <<z>> \in Seq(S) /\ Len(s \o <<z>>) = Len(s) + 1
         /\ \A i \in 1..Len(s) : (s \o <<z>>)[i] = s[i]
         /\ (s \o <<z>>)[Len(s) + 1] = z
<1>1. <<z>> \in Seq(S) /\ Len(<<z>>) = 1 /\ <<z>>[1] = z /\ Len(s) \in Nat
  OBVIOUS
<1>2. /\ s \o <<z>> \in Seq(S)
      /\ Len(s \o <<z>>) = Len(s) + Len(<<z>>)
      /\ \A i \in 1..Len(s) + Len(<<z>>) : (s \o <<z>>)[i] =
           IF i <= Len(s) THEN s[i] ELSE <<z>>[i - Len(s)]
  BY <1>1, ConcatProperties
<1>3. \A i \in 1..Len(s) + 1 : (s \o <<z>>)[i] =
        IF i <= Len(s) THEN s[i] ELSE <<z>>[i - Len(s)]
  BY <1>1, <1>2
<1>4. (s \o <<z>>)[Len(s) + 1] = <<z>>[1]
  <2>1. Len(s) + 1 \in 1..Len(s) + 1 /\ ~(Len(s) + 1 <= Len(s)) /\ (Len(s) + 1) - Len(s) = 1
    BY <1>1
  <2> QED BY <1>3, <2>1
<1>5. \A i \in 1..Len(s) : (s \o <<z>>)[i] = s[i]
  BY <1>1, <1>3
<1> QED BY <1>1, <1>2, <1>4, <1>5

\* What a worker leaves.
LEMMA AnswersAre ==
  ASSUME NEW t \in Tasks, plan[t].description \in Texts, NEW tools \in BOOLEAN
  PROVE  /\ Answers(t, tools) \in Seq(PlanMessages)
         /\ Len(Answers(t, tools)) \in {2, 3}
         /\ Answers(t, tools)[1] = Human(plan[t].description)
         /\ \A k \in 2..Len(Answers(t, tools)) :
              Answers(t, tools)[k].type = "ai" /\ Answers(t, tools)[k].by = t
<1> DEFINE h == Human(plan[t].description)
           a == AI(t, FALSE)
           z == AI(t, TRUE)
<1>1. h \in PlanMessages
  BY DEF PlanMessages, Human
<1>2. a \in PlanMessages /\ z \in PlanMessages
  BY DEF PlanMessages, AI
<1>3. a.type = "ai" /\ a.by = t /\ z.type = "ai" /\ z.by = t
  BY DEF AI
<1> HIDE DEF h, a, z
<1> DEFINE asked == IF tools THEN <<a>> ELSE <<>>
           u == <<h>> \o asked
           s == u \o <<z>>
<1>4. Answers(t, tools) = s
  BY DEF Answers, h, a, z
<1>5. <<h>> \in Seq(PlanMessages) /\ Len(<<h>>) = 1 /\ <<h>>[1] = h
  BY <1>1
<1>6. /\ u \in Seq(PlanMessages) /\ (Len(u) = 1 \/ Len(u) = 2) /\ u[1] = h
      /\ Len(u) = 2 => u[2] = a
  <2>1. CASE tools
    <3>1. u = <<h>> \o <<a>>
      BY <2>1
    <3>2. 1 \in 1..Len(<<h>>) /\ Len(<<h>>) + 1 = 2
      BY <1>5
    <3> HIDE DEF u
    <3> QED BY <1>2, <1>5, <3>1, <3>2, OneMore
  <2>2. CASE ~tools
    <3>1. u = <<h>> \o <<>>
      BY <2>2
    <3>2. u = <<h>>
      BY <1>5, <3>1, ConcatEmptySeq
    <3> QED BY <1>5, <3>2
  <2> QED BY <2>1, <2>2
<1> HIDE DEF u
<1>7. /\ s \in Seq(PlanMessages) /\ Len(s) = Len(u) + 1 /\ s[Len(u) + 1] = z
      /\ \A i \in 1..Len(u) : s[i] = u[i]
  BY <1>2, <1>6, OneMore
<1> HIDE DEF s
<1>8. Len(s) \in {2, 3} /\ s[1] = h
  BY <1>6, <1>7
<1>9. ASSUME NEW k \in 2..Len(s)
      PROVE  s[k].type = "ai" /\ s[k].by = t
  <2>1. k = Len(u) + 1 \/ (k = 2 /\ Len(u) = 2)
    <3>1. Len(s) = Len(u) + 1 /\ (Len(u) = 1 \/ Len(u) = 2)
      BY <1>6, <1>7
    <3> DEFINE m == Len(u)
    <3>2. (m = 1 \/ m = 2) /\ k \in 2..(m + 1)
      BY <3>1
    <3> HIDE DEF m
    <3>3. k = m + 1 \/ (k = 2 /\ m = 2)
      BY <3>2
    <3> QED BY <3>3 DEF m
  <2>2. CASE k = Len(u) + 1
    BY <1>3, <1>7, <2>2
  <2>3. CASE k = 2 /\ Len(u) = 2
    <3>1. s[k] = a
      BY <1>6, <1>7, <2>3
    <3> QED BY <1>3, <3>1
  <2> QED BY <2>1, <2>2, <2>3
<1> QED BY <1>4, <1>7, <1>8, <1>9 DEF h

\* What a worker has left: the description of its task, and AI messages by it.
WorkerLeft(t, piece) ==
  /\ piece \in Seq(PlanMessages) /\ Len(piece) \in {2, 3}
  /\ piece[1] = Human(plan[t].description)
  /\ \A k \in 2..Len(piece) : piece[k].type = "ai" /\ piece[k].by = t

\* The description of task t, and an AI message behind it.
Answered(t, ms) ==
  \E h \in DOMAIN ms : /\ ms[h] = Human(plan[t].description)
                       /\ h + 1 \in DOMAIN ms /\ ms[h + 1].type = "ai"

\* What the workers have left, put behind the messages of a thread.
LEMMA LaidDown ==
  ASSUME NEW old \in Seq(PlanMessages), AnswersFollow(old), NEW R \in SUBSET Ids,
         NEW pieces \in Seq(Seq(PlanMessages)), DOMAIN pieces = Ids,
         \A t \in R : WorkerLeft(t, pieces[t]), \A t \in Ids \ R : pieces[t] = <<>>,
         NEW ms, ms = old \o FlattenSeq(pieces)
  PROVE  /\ ms \in Seq(PlanMessages) /\ AnswersFollow(ms)
         /\ \A t \in R : Answered(t, ms)
<1> DEFINE flat == FlattenSeq(pieces)
           n == Len(old)
<1>1. flat \in Seq(PlanMessages)
  BY FlattenPieces
<1>2. PICK start \in [DOMAIN pieces -> Nat] : Pieces(pieces, start, Len(pieces), flat)
  BY FlattenPieces
<1>3. ms = old \o flat
  OBVIOUS
<1> HIDE DEF flat
<1>4. ms \in Seq(PlanMessages) /\ DOMAIN ms = 1..(n + Len(flat))
  BY <1>1, <1>3
<1>5. \A i \in 1..n : ms[i] = old[i]
  BY <1>1, <1>3
<1>6. \A i \in 1..Len(flat) : ms[n + i] = flat[i]
  BY <1>1, <1>3
<1>7. n \in Nat /\ Len(flat) \in Nat /\ DOMAIN old = 1..n /\ DOMAIN flat = 1..Len(flat)
  BY <1>1
<1>8. Len(pieces) \in Nat /\ 1..Len(pieces) = Ids
  OBVIOUS
<1> HIDE DEF n
<1>9. ASSUME NEW t \in R
      PROVE  /\ start[t] \in Nat /\ DOMAIN pieces[t] = 1..Len(pieces[t])
             /\ Len(pieces[t]) = 2 \/ Len(pieces[t]) = 3
             /\ pieces[t][1] = Human(plan[t].description)
             /\ \A k \in 2..Len(pieces[t]) : pieces[t][k].type = "ai" /\ pieces[t][k].by = t
  <2>1. WorkerLeft(t, pieces[t]) /\ t \in DOMAIN pieces
    OBVIOUS
  <2>2. pieces[t] \in Seq(PlanMessages)
    BY <2>1 DEF WorkerLeft
  <2>3. DOMAIN pieces[t] = 1..Len(pieces[t])
    BY ONLY <2>2
  <2> QED BY <2>1, <2>3 DEF WorkerLeft
<1>10. ASSUME NEW t \in R, NEW k \in DOMAIN pieces[t]
       PROVE  n + (start[t] + k) \in DOMAIN ms /\ ms[n + (start[t] + k)] = pieces[t][k]
  <2>1. t \in 1..Len(pieces)
    BY <1>8
  <2>2. start[t] + k \in DOMAIN flat /\ flat[start[t] + k] = pieces[t][k]
    BY ONLY <1>2, <1>10, <2>1 DEF Pieces
  <2> DEFINE i == start[t] + k
  <2>3. i \in 1..Len(flat) /\ flat[i] = pieces[t][k]
    BY <1>7, <2>2
  <2> HIDE DEF i
  <2>4. n + i \in DOMAIN ms
    BY <1>4, <1>7, <2>3
  <2>5. ms[n + i] = flat[i]
    BY <1>6, <2>3
  <2> QED BY <2>3, <2>4, <2>5 DEF i
<1>11. ASSUME NEW i \in DOMAIN ms, ms[i].type = "ai"
       PROVE  /\ i - 1 \in DOMAIN ms
              /\ ms[i - 1].type = "ai" \/ ms[i - 1] = Human(plan[ms[i].by].description)
  <2>1. CASE i <= n
    <3>1. i \in DOMAIN old /\ ms[i] = old[i]
      BY <1>4, <1>5, <1>7, <2>1
    <3>2. /\ i - 1 \in DOMAIN old
          /\ old[i - 1].type = "ai" \/ old[i - 1] = Human(plan[old[i].by].description)
      BY <1>11, <3>1 DEF AnswersFollow
    <3>3. i - 1 \in DOMAIN ms /\ ms[i - 1] = old[i - 1]
      BY <1>4, <1>5, <1>7, <3>2
    <3> QED BY <3>1, <3>2, <3>3
  <2>2. CASE ~(i <= n)
    <3>1. i - n \in DOMAIN flat /\ i = n + (i - n)
      BY <1>4, <1>7, <2>2
    <3>2. PICK t \in 1..Len(pieces) : \E k \in DOMAIN pieces[t] : i - n = start[t] + k
      BY ONLY <1>2, <3>1 DEF Pieces
    <3>3. PICK k \in DOMAIN pieces[t] : i - n = start[t] + k
      BY <3>2
    <3>4. t \in R
      <4>1. pieces[t] # <<>>
        BY <3>3
      <4> QED BY <1>8, <4>1
    <3>5. /\ start[t] \in Nat /\ k \in 1..Len(pieces[t])
          /\ Len(pieces[t]) = 2 \/ Len(pieces[t]) = 3
      BY <1>9, <3>3, <3>4
    <3>6. ms[i] = pieces[t][k]
      BY <1>10, <3>1, <3>3, <3>4
    <3>7. k # 1
      <4>1. Human(plan[t].description).type = "human"
        BY DEF Human
      <4>2. pieces[t][1] = Human(plan[t].description)
        BY <1>9, <3>4
      <4> QED BY <1>11, <3>6, <4>1, <4>2
    <3>8. k - 1 \in DOMAIN pieces[t] /\ k \in 2..Len(pieces[t])
      BY <1>9, <3>4, <3>5, <3>7
    <3>9. i - 1 = n + (start[t] + (k - 1))
      <4>1. \A x, y, w \in Int : x - n = y + w => x - 1 = n + (y + (w - 1))
        BY <1>7
      <4>2. i \in Int /\ start[t] \in Int /\ k \in Int
        BY <1>4, <1>7, <3>5
      <4> QED BY <3>3, <4>1, <4>2
    <3>10. i - 1 \in DOMAIN ms /\ ms[i - 1] = pieces[t][k - 1]
      BY <1>10, <3>4, <3>8, <3>9
    <3>11. ms[i].by = t
      BY <1>9, <3>4, <3>6, <3>8
    <3>12. CASE k - 1 = 1
      <4>1. ms[i - 1] = Human(plan[t].description)
        BY <1>9, <3>4, <3>10, <3>12
      <4> QED BY <3>10, <3>11, <4>1
    <3>13. CASE k - 1 # 1
      <4>1. k - 1 \in 2..Len(pieces[t])
        BY <3>5, <3>7, <3>13
      <4>2. pieces[t][k - 1].type = "ai"
        BY <1>9, <3>4, <4>1
      <4> QED BY <3>10, <4>2
    <3> QED BY <3>12, <3>13
  <2> QED BY <2>1, <2>2
<1>12. AnswersFollow(ms)
  BY <1>11 DEF AnswersFollow
<1>13. ASSUME NEW t \in R
       PROVE  Answered(t, ms)
  <2> DEFINE h == n + (start[t] + 1)
  <2>1. 1 \in DOMAIN pieces[t] /\ 2 \in DOMAIN pieces[t] /\ 2 \in 2..Len(pieces[t])
    <3>1. DOMAIN pieces[t] = 1..Len(pieces[t]) /\ (Len(pieces[t]) = 2 \/ Len(pieces[t]) = 3)
      BY <1>9
    <3>2. 1 \in 1..Len(pieces[t]) /\ 2 \in 1..Len(pieces[t]) /\ 2 \in 2..Len(pieces[t])
      <4> DEFINE m == Len(pieces[t])
      <4>1. m = 2 \/ m = 3
        BY <3>1
      <4> HIDE DEF m
      <4>2. 1 \in 1..m /\ 2 \in 1..m /\ 2 \in 2..m
        BY <4>1
      <4> QED BY <4>2 DEF m
    <3> QED BY <3>1, <3>2
  <2>2. h \in DOMAIN ms /\ ms[h] = pieces[t][1]
    BY <1>10, <2>1
  <2>3. h + 1 = n + (start[t] + 2)
    BY <1>7, <1>9
  <2>4. h + 1 \in DOMAIN ms /\ ms[h + 1] = pieces[t][2]
    BY <1>10, <2>1, <2>3
  <2>5. ms[h] = Human(plan[t].description) /\ ms[h + 1].type = "ai"
    <3>1. pieces[t][1] = Human(plan[t].description) /\ pieces[t][2].type = "ai"
      BY <1>9, <2>1
    <3> QED BY <2>2, <2>4, <3>1
  <2> QED BY <2>2, <2>4, <2>5 DEF Answered
<1> QED BY <1>4, <1>12, <1>13

\* What is collected behind the messages of a thread.
LEMMA Collected ==
  ASSUME PlanIInv, pc = "run", Awaited = {},
         NEW pieces, pieces = [t \in Ids |-> IF t \in sent.run THEN left[t] ELSE <<>>],
         NEW ms, ms = messages \o FlattenSeq(pieces)
  PROVE  /\ ms \in Seq(PlanMessages) /\ AnswersFollow(ms)
         /\ \A t \in sent.run : Answered(t, ms)
<1>1. plan = <<>> \/ plan \in Plans
  BY DEF PlanIInv, TypeOK
<1>2. sent.run \subseteq Tasks /\ sent.run = DOMAIN left
  BY DEF PlanIInv, TypeOK, Awaited
<1>3. ASSUME NEW t \in sent.run
      PROVE  WorkerLeft(t, pieces[t])
  <2>1. t \in Tasks /\ t \in Ids /\ plan[t].description \in Texts
    BY <1>1, <1>2, TasksTyped
  <2>2. PICK tools \in BOOLEAN : left[t] = Answers(t, tools)
    BY <1>2 DEF PlanIInv, LeftSays
  <2>3. pieces[t] = Answers(t, tools)
    BY <2>1, <2>2
  <2> QED BY <2>1, <2>3, AnswersAre DEF WorkerLeft
<1>4. \A t \in Ids \ sent.run : pieces[t] = <<>>
  OBVIOUS
<1>5. \A t \in Ids : pieces[t] \in Seq(PlanMessages)
  <2>1. <<>> \in Seq(PlanMessages)
    OBVIOUS
  <2> QED BY <1>3, <1>4, <2>1 DEF WorkerLeft
<1>6. pieces \in Seq(Seq(PlanMessages)) /\ DOMAIN pieces = Ids
  <2>1. pieces \in [Ids -> Seq(PlanMessages)] /\ DOMAIN pieces = Ids
    BY <1>5
  <2> QED BY <2>1, PlanAssumption DEF Ids
<1>7. sent.run \in SUBSET Ids
  BY <1>1, <1>2, TasksTyped
<1>8. messages \in Seq(PlanMessages) /\ AnswersFollow(messages)
  BY DEF PlanIInv
<1> DEFINE R == sent.run
<1> HIDE DEF R
<1>9. \A t \in R : WorkerLeft(t, pieces[t])
  BY <1>3 DEF R
<1>10. R \in SUBSET Ids /\ \A t \in Ids \ R : pieces[t] = <<>>
  BY <1>4, <1>7 DEF R
<1>11. /\ ms \in Seq(PlanMessages) /\ AnswersFollow(ms)
       /\ \A t \in R : Answered(t, ms)
  BY <1>6, <1>8, <1>9, <1>10, LaidDown
<1> QED BY <1>11 DEF R

\* A scan takes for a task what its own worker said, if no two tasks have
\* one description.
LEMMA ScanTakes ==
  ASSUME plan = <<>> \/ plan \in Plans, DistinctDescriptions,
         NEW ms \in Seq(PlanMessages), AnswersFollow(ms)
  PROVE  /\ \A t \in Tasks : \A i \in TakenFor(ms, t) : ms[i].by = t
         /\ \A t \in Tasks : Answered(t, ms) => TakenFor(ms, t) # {}
<1>0. DOMAIN ms = 1..Len(ms) /\ Len(ms) \in Nat
  OBVIOUS
<1>1. \A t \in Tasks : Described(plan[t].description) = {t}
  BY DEF Described, DistinctDescriptions
<1>2. \A t \in Tasks : DescToTid(plan[t].description) = t
  <2> SUFFICES ASSUME NEW t \in Tasks
               PROVE  DescToTid(plan[t].description) = t
    OBVIOUS
  <2>1. t \in Nat
    BY TasksTyped
  <2>2. t <= t
    BY <2>1
  <2> QED BY <1>1, <2>2 DEF DescToTid
<1>3. \A t \in Tasks : Opens(Human(plan[t].description))
  BY <1>1 DEF Opens, Human
<1>4. ASSUME NEW t \in Tasks, NEW i \in TakenFor(ms, t)
      PROVE  ms[i].by = t
  <2>1. i \in DOMAIN ms /\ \E h \in 1..(i - 1) : Taken(ms, h, i) /\ DescToTid(ms[h].text) = t
    BY DEF TakenFor
  <2>2. PICK h \in 1..(i - 1) : Taken(ms, h, i) /\ DescToTid(ms[h].text) = t
    BY <2>1
  <2>3. /\ ms[i].type = "ai" /\ Opens(ms[h])
        /\ \A k \in (h + 1)..(i - 1) : ~Opens(ms[k]) /\ ms[k].type # "ai"
    BY <2>2 DEF Taken
  <2>4. /\ i - 1 \in DOMAIN ms
        /\ ms[i - 1].type = "ai" \/ ms[i - 1] = Human(plan[ms[i].by].description)
    BY <2>1, <2>3 DEF AnswersFollow
  <2>5. ms[i].by \in Tasks
    BY <2>1, <2>3 DEF PlanMessages
  <2>6. h = i - 1
    <3> SUFFICES ASSUME h # i - 1
                 PROVE  FALSE
      OBVIOUS
    <3>1. i - 1 \in (h + 1)..(i - 1)
      BY <1>0, <2>1
    <3> QED BY <1>3, <2>3, <2>4, <2>5, <3>1
  <2>7. ms[h] = Human(plan[ms[i].by].description)
    BY <2>3, <2>4, <2>6 DEF Opens
  <2>8. ms[h].text = plan[ms[i].by].description
    BY <2>7 DEF Human
  <2> QED BY <1>2, <2>2, <2>5, <2>8
<1>5. ASSUME NEW t \in Tasks, Answered(t, ms)
      PROVE  TakenFor(ms, t) # {}
  <2>0. PICK h \in DOMAIN ms : /\ ms[h] = Human(plan[t].description)
                               /\ h + 1 \in DOMAIN ms /\ ms[h + 1].type = "ai"
    BY <1>5 DEF Answered
  <2>1. h \in 1..(h + 1 - 1) /\ \A k \in (h + 1)..(h + 1 - 1) : FALSE
    BY <1>0
  <2>2. Taken(ms, h, h + 1)
    BY <1>3, <2>0, <2>1 DEF Taken
  <2>3. DescToTid(ms[h].text) = t
    BY <1>2, <2>0 DEF Human
  <2>4. h + 1 \in TakenFor(ms, t)
    BY <2>0, <2>1, <2>2, <2>3 DEF TakenFor
  <2> QED BY <2>4
<1> QED BY <1>4, <1>5

\* What a scan adds to the results before it, and from which messages.
ScanSays(ms, before, after) ==
  /\ DOMAIN after = DOMAIN before \cup {t \in Tasks : TakenFor(ms, t) # {}}
  /\ \A t \in DOMAIN before : after[t] = before[t]
  /\ \A t \in DOMAIN after \ DOMAIN before : \E i \in TakenFor(ms, t) : after[t].by = ms[i].by
  /\ \A t \in DOMAIN after : after[t] \in Report

\* A scan reports tasks, and keeps what is reported.
LEMMA ScanTyped ==
  ASSUME plan = <<>> \/ plan \in Plans, NEW ms \in Seq(PlanMessages),
         NEW before, DOMAIN before \subseteq Tasks, \A t \in DOMAIN before : before[t] \in Report,
         NEW after, after = Scanned(ms, before)
  PROVE  ScanSays(ms, before, after)
<1> DEFINE found == {t \in Tasks : TakenFor(ms, t) # {}}
           m(t) == ms[Min(TakenFor(ms, t))]
<1>1. after = [t \in DOMAIN before \cup found |->
                 IF t \in DOMAIN before THEN before[t]
                 ELSE [status |-> "completed", by |-> m(t).by, last |-> m(t).last]]
  BY DEF Scanned
<1>2. ASSUME NEW t \in found
      PROVE  /\ Min(TakenFor(ms, t)) \in TakenFor(ms, t)
             /\ m(t).by \in Ids /\ m(t).last \in BOOLEAN
  <2>1. TakenFor(ms, t) \in SUBSET Nat /\ TakenFor(ms, t) # {}
    BY DEF TakenFor
  <2>2. Min(TakenFor(ms, t)) \in TakenFor(ms, t)
    BY <2>1, MinIn
  <2>3. Min(TakenFor(ms, t)) \in DOMAIN ms /\ m(t).type = "ai"
    BY <2>2 DEF TakenFor, Taken
  <2>4. m(t) \in PlanMessages
    BY <2>3
  <2>5. m(t).by \in Tasks /\ m(t).last \in BOOLEAN
    BY <2>3, <2>4 DEF PlanMessages
  <2> QED BY <2>2, <2>5, TasksTyped
<1> HIDE DEF found, m
<1>3. \A t \in DOMAIN after \ DOMAIN before :
        /\ t \in found
        /\ after[t] = [status |-> "completed", by |-> m(t).by, last |-> m(t).last]
  BY <1>1
<1>4. \A t \in DOMAIN after \ DOMAIN before : after[t] \in Report /\ after[t].by = m(t).by
  BY <1>2, <1>3 DEF Report
<1>5. \A t \in DOMAIN after \ DOMAIN before : \E i \in TakenFor(ms, t) : after[t].by = ms[i].by
  BY <1>2, <1>3, <1>4 DEF m
<1>6. DOMAIN after = DOMAIN before \cup found /\ \A t \in DOMAIN before : after[t] = before[t]
  BY <1>1
<1> QED BY <1>4, <1>5, <1>6 DEF found, ScanSays

-----------------------------------------------------------------------------
(* PlanGraph: the invariant is inductive.                                  *)

\* It holds initially.
LEMMA PlanStarts ==
  ASSUME Init
  PROVE  PlanIInv
<1>1. PICK text \in Texts : messages = <<Human(text)>>
  BY DEF Init
<1>2. DOMAIN plan = {} /\ DOMAIN left = {} /\ DOMAIN results = {} /\ Len(batches) = 0
  BY DEF Init
<1>3. TypeOK
  BY <1>2 DEF Init, TypeOK, Tasks, Nothing
<1>4. PlanMade /\ LeftSays
  BY <1>2 DEF Init, PlanMade, LeftSays
<1>5. Done = {}
  BY DEF Init, Done
<1>6. BatchRuns
  BY <1>2, <1>5 DEF Init, BatchRuns, Nothing
<1>7. Human(text) \in PlanMessages /\ Human(text).type = "human"
  BY DEF PlanMessages, Human
<1>8. messages \in Seq(PlanMessages) /\ AnswersFollow(messages)
  BY <1>1, <1>7 DEF AnswersFollow
<1>9. ResultsOwn
  BY <1>2, <1>5 DEF ResultsOwn
<1> QED BY <1>3, <1>4, <1>6, <1>8, <1>9 DEF PlanIInv

\* An action that moves pc alone, and not into a batch nor out of one.
LEMMA PcMoves ==
  ASSUME PlanIInv,
         UNCHANGED <<plan, batches, batchIndex, sent, left, messages, results, failed, runs>>,
         \/ pc = "plan" /\ pc' \in {"dispatch", "raised"}
         \/ pc = "dispatch" /\ pc' = "refused"
         \/ pc = "finalize" /\ pc' = "answered"
  PROVE  PlanIInv'
<1>1. Tasks' = Tasks /\ Done' = Done /\ PlanMessages' = PlanMessages
  BY DEF Tasks, Done, PlanMessages
<1>2. TypeOK'
  BY <1>1 DEF PlanIInv, TypeOK, Ended
<1>3. PlanMade'
  <2>1. PlanMade /\ UNCHANGED <<plan, batches, batchIndex, results>>
    BY DEF PlanIInv
  <2>2. Stuck(plan)' = Stuck(plan) /\ Peel(plan)' = Peel(plan)
    BY <2>1
  <2>3. pc \in {"plan", "dispatch", "finalize"} => plan = <<>> \/ ~Stuck(plan)
    BY <2>1 DEF PlanMade
  <2> QED BY <2>1, <2>2, <2>3 DEF PlanMade
<1>4. BatchRuns'
  BY <1>1 DEF PlanIInv, BatchRuns
<1>5. LeftSays'
  BY DEF PlanIInv, LeftSays, Answers
<1>6. (messages \in Seq(PlanMessages))' /\ AnswersFollow(messages)'
  BY <1>1 DEF PlanIInv, AnswersFollow
<1>7. ResultsOwn'
  BY <1>1 DEF PlanIInv, ResultsOwn, DistinctDescriptions
<1> QED BY <1>2, <1>3, <1>4, <1>5, <1>6, <1>7 DEF PlanIInv

\* The planner makes a plan, and it is split.
LEMMA PlanMakes ==
  ASSUME PlanIInv, MakePlan
  PROVE  PlanIInv'
<1>1. /\ plan = <<>> /\ batches = <<>> /\ batchIndex = 0 /\ results = <<>>
      /\ DOMAIN plan = {} /\ DOMAIN results = {} /\ DOMAIN left = {}
  BY DEF PlanIInv, PlanMade, BatchRuns, MakePlan
<1>2. /\ plan' \in Plans
      /\ UNCHANGED <<batchIndex, sent, left, messages, results, failed, runs>>
  BY DEF MakePlan
<1>3. plan' # <<>>
  <2>1. PICK n \in Ids : plan' \in [1..n -> [description : Texts, depends_on : SUBSET (1..n)]]
    BY <1>2 DEF Plans
  <2>2. 1 \in 1..n /\ DOMAIN plan' = 1..n
    BY <2>1, PlanAssumption DEF Ids
  <2>3. DOMAIN <<>> = {}
    OBVIOUS
  <2> QED BY <2>2, <2>3
<1>4. /\ Stuck(plan') => pc' = "raised" /\ batches' = <<>>
      /\ ~Stuck(plan') => pc' = "dispatch" /\ batches' = Peel(plan')
  BY <1>1 DEF MakePlan
<1>5. IsFiniteSet(DOMAIN plan')
  BY <1>2, PlanFinite
<1>6. Peel(plan') \in Seq(SUBSET Tasks')
  <2>1. Ordered(plan', DOMAIN plan', Peeling(plan')[DOMAIN plan'])
    BY <1>5, PeelingSound
  <2> QED BY <2>1 DEF Ordered, Peel, Tasks
<1>7. batches' \in Seq(SUBSET Tasks') /\ Len(batches') \in Nat
  <2> DEFINE S == SUBSET Tasks'
  <2>1. Peel(plan') \in Seq(S) /\ <<>> \in Seq(S)
    BY <1>6
  <2> HIDE DEF S
  <2>2. batches' \in Seq(S)
    BY <1>4, <2>1
  <2>3. Len(batches') \in Nat
    BY <2>2
  <2> QED BY <2>2, <2>3 DEF S
<1>8. Done = {} /\ Done' = {}
  BY <1>1, <1>2 DEF Done
<1>9. TypeOK'
  <2>1. sent.run = {} /\ sent.skip = {} /\ sent' = [run |-> {}, skip |-> {}]
    BY <1>1, <1>2 DEF PlanIInv, TypeOK, Tasks
  <2>2. (DOMAIN left \subseteq sent.run)'
    BY <1>1, <1>2
  <2>3. (DOMAIN results \subseteq Tasks /\ \A t \in DOMAIN results : results[t] \in Report)'
    BY <1>1, <1>2
  <2>4. failed' = {} /\ runs' \in [Ids -> 0..2]
    BY <1>2 DEF PlanIInv, TypeOK, BatchRuns
  <2>5. batchIndex' \in 0..Len(batches')
    BY <1>1, <1>2, <1>7
  <2>6. pc' \in {"dispatch", "raised"}
    BY <1>4
  <2> QED BY <1>2, <1>7, <2>1, <2>2, <2>3, <2>4, <2>5, <2>6 DEF TypeOK, Ended
<1>10. PlanMade'
  BY <1>3, <1>4 DEF PlanMade
<1>11. BatchRuns'
  BY <1>1, <1>2, <1>4, <1>8 DEF PlanIInv, BatchRuns, MakePlan
<1>12. LeftSays'
  BY <1>1, <1>2 DEF LeftSays
<1>13. (messages \in Seq(PlanMessages))' /\ AnswersFollow(messages)'
  <2>1. PlanMessages \subseteq PlanMessages'
    BY <1>1 DEF PlanMessages, Tasks
  <2>2. messages \in Seq(PlanMessages)
    BY DEF PlanIInv
  <2>3. \A i \in DOMAIN messages : messages[i].type # "ai"
    <3>1. \A i \in DOMAIN messages : messages[i] \in PlanMessages
      BY <2>2
    <3>2. \A m \in PlanMessages : m.type # "ai"
      BY <1>1 DEF PlanMessages, Tasks
    <3> QED BY <3>1, <3>2
  <2>4. messages \in Seq(PlanMessages')
    <3> DEFINE old == PlanMessages
               new == PlanMessages'
    <3>1. old \subseteq new /\ messages \in Seq(old)
      BY <2>1, <2>2
    <3> HIDE DEF old, new
    <3>2. messages \in Seq(new)
      BY <3>1
    <3> QED BY <3>2 DEF new
  <2> QED BY <1>2, <2>3, <2>4 DEF AnswersFollow
<1>14. ResultsOwn'
  BY <1>1, <1>2, <1>8 DEF ResultsOwn
<1> QED BY <1>9, <1>10, <1>11, <1>12, <1>13, <1>14 DEF PlanIInv

\* A batch is sent: no task of it is skipped.
LEMMA BatchSent ==
  ASSUME PlanIInv, Dispatch
  PROVE  PlanIInv'
<1>1. /\ pc = "dispatch" /\ pc' = "run" /\ batchIndex < Len(batches)
      /\ UNCHANGED <<plan, batches, batchIndex, left, messages, results, failed, runs>>
  BY DEF Dispatch
<1>2. Tasks' = Tasks /\ Done' = Done /\ PlanMessages' = PlanMessages
  BY <1>1 DEF Tasks, Done, PlanMessages
<1>3. /\ TypeOK /\ PlanMade /\ BatchRuns /\ LeftSays /\ ResultsOwn
      /\ messages \in Seq(PlanMessages) /\ AnswersFollow(messages)
  BY DEF PlanIInv
<1>4. sent' = [run |-> batches[batchIndex + 1], skip |-> {}]
  <2> DEFINE batch == batches[batchIndex + 1]
  <2>1. {t \in batch : plan[t].depends_on \cap failed # {}} = {}
    BY <1>3 DEF BatchRuns
  <2>2. sent' = [run |-> batch \ {t \in batch : plan[t].depends_on \cap failed # {}},
                 skip |-> {t \in batch : plan[t].depends_on \cap failed # {}}]
    BY DEF Dispatch
  <2> QED BY <2>1, <2>2
<1>5. batches[batchIndex + 1] \subseteq Tasks
  <2>1. batchIndex + 1 \in DOMAIN batches /\ batches \in Seq(SUBSET Tasks)
    BY <1>1, <1>3 DEF TypeOK
  <2> QED BY <2>1
<1>6. DOMAIN left = {}
  BY <1>1, <1>3 DEF BatchRuns
<1>7. TypeOK'
  BY <1>1, <1>2, <1>3, <1>4, <1>5, <1>6 DEF TypeOK
<1>8. PlanMade'
  BY <1>1, <1>3 DEF PlanMade
<1>9. BatchRuns'
  BY <1>1, <1>2, <1>3, <1>4, <1>6 DEF BatchRuns
<1>10. LeftSays'
  BY <1>1, <1>3 DEF LeftSays, Answers
<1>11. (messages \in Seq(PlanMessages))' /\ AnswersFollow(messages)'
  BY <1>1, <1>2, <1>3 DEF AnswersFollow
<1>12. ResultsOwn'
  BY <1>1, <1>2, <1>3 DEF ResultsOwn, DistinctDescriptions
<1> QED BY <1>7, <1>8, <1>9, <1>10, <1>11, <1>12 DEF PlanIInv

\* A task that is awaited has not run; what it depends on is done.
LEMMA AwaitedFirst ==
  ASSUME PlanIInv, pc = "run", NEW t \in Awaited
  PROVE  /\ t \in Ids /\ t \in Tasks /\ runs[t] = 0
         /\ \A d \in plan[t].depends_on : d \in Ids /\ runs[d] = 1 /\ d \notin DOMAIN left
<1>1. /\ TypeOK /\ PlanMade /\ BatchRuns
  BY DEF PlanIInv
<1>2. batchIndex \in Nat /\ batchIndex + 1 \in DOMAIN batches /\ sent.run = batches[batchIndex + 1]
  BY <1>1 DEF TypeOK, BatchRuns
<1>3. t \in batches[batchIndex + 1] /\ t \notin DOMAIN left /\ DOMAIN left \subseteq batches[batchIndex + 1]
  BY <1>1, <1>2 DEF Awaited, TypeOK
<1>4. plan = <<>> \/ plan \in Plans
  BY <1>1 DEF TypeOK
<1>5. t \in Tasks /\ t \in Ids /\ plan[t].depends_on \subseteq Ids
  <2>1. batches[batchIndex + 1] \subseteq Tasks
    BY <1>1, <1>2 DEF TypeOK
  <2> QED BY <1>3, <1>4, <2>1, TasksTyped
<1>6. \A i \in 1..batchIndex : i \in DOMAIN batches /\ batches[i] \cap batches[batchIndex + 1] = {}
  <2>1. \A i \in 1..batchIndex : i \in DOMAIN batches /\ i # batchIndex + 1
    BY <1>1, <1>2 DEF TypeOK
  <2> QED BY <1>1, <1>2, <2>1, BatchesOrdered
<1>7. t \notin Done
  BY <1>3, <1>6 DEF Done
<1>8. runs[t] = 0
  BY <1>1, <1>3, <1>5, <1>7 DEF BatchRuns
<1>9. ASSUME NEW d \in plan[t].depends_on
      PROVE  d \in Ids /\ runs[d] = 1 /\ d \notin DOMAIN left
  <2>1. PICK j \in 1..(batchIndex + 1 - 1) : d \in batches[j]
    BY <1>1, <1>2, <1>3, BatchesOrdered
  <2>2. j \in 1..batchIndex
    BY <1>2
  <2>3. d \in Done /\ d \notin DOMAIN left
    BY <1>3, <1>6, <2>1, <2>2 DEF Done
  <2> QED BY <1>1, <1>5, <2>3 DEF BatchRuns
<1> QED BY <1>5, <1>8, <1>9

\* A worker answers.
LEMMA WorkerRuns ==
  ASSUME PlanIInv, NEW t \in Ids, NEW tools \in BOOLEAN, RunOne(t, tools)
  PROVE  PlanIInv'
<1>1. /\ pc = "run" /\ t \in Awaited
      /\ UNCHANGED <<pc, plan, batches, batchIndex, sent, messages, results, failed>>
  BY DEF RunOne
<1>2. Tasks' = Tasks /\ Done' = Done /\ PlanMessages' = PlanMessages
  BY <1>1 DEF Tasks, Done, PlanMessages
<1>3. /\ TypeOK /\ PlanMade /\ BatchRuns /\ LeftSays /\ ResultsOwn
      /\ messages \in Seq(PlanMessages) /\ AnswersFollow(messages)
  BY DEF PlanIInv
<1>4. runs[t] = 0
  BY <1>1, AwaitedFirst
<1>5. runs' = [runs EXCEPT ![t] = 1] /\ runs \in [Ids -> 0..2]
  BY <1>3, <1>4 DEF RunOne, UpTo2, TypeOK
<1>6. /\ DOMAIN left' = DOMAIN left \cup {t} /\ t \notin DOMAIN left /\ t \in sent.run
      /\ left'[t] = Answers(t, tools) /\ \A s \in DOMAIN left : left'[s] = left[s]
  BY <1>1 DEF RunOne, Awaited
<1>7. TypeOK'
  <2>1. (DOMAIN left \subseteq sent.run)'
    BY <1>1, <1>3, <1>6 DEF TypeOK
  <2>2. (runs \in [Ids -> 0..2])'
    BY <1>5
  <2> QED BY <1>1, <1>2, <1>3, <2>1, <2>2 DEF TypeOK
<1>8. PlanMade'
  BY <1>1, <1>3 DEF PlanMade
<1>9. BatchRuns'
  <2>1. \A s \in Ids : runs'[s] = IF s \in Done \cup DOMAIN left' THEN 1 ELSE 0
    BY <1>1, <1>3, <1>5, <1>6 DEF BatchRuns
  <2> QED BY <1>1, <1>2, <1>3, <2>1 DEF BatchRuns
<1>10. LeftSays'
  <2>1. \A s : \A b : Answers(s, b)' = Answers(s, b)
    BY <1>1 DEF Answers
  <2>2. \A s \in DOMAIN left' : \E b \in BOOLEAN : left'[s] = Answers(s, b)
    BY <1>3, <1>6 DEF LeftSays
  <2> QED BY <2>1, <2>2 DEF LeftSays
<1>11. (messages \in Seq(PlanMessages))' /\ AnswersFollow(messages)'
  BY <1>1, <1>2, <1>3 DEF AnswersFollow
<1>12. ResultsOwn'
  BY <1>1, <1>2, <1>3 DEF ResultsOwn, DistinctDescriptions
<1> QED BY <1>7, <1>8, <1>9, <1>10, <1>11, <1>12 DEF PlanIInv

\* A worker raises.
LEMMA WorkerEnds ==
  ASSUME PlanIInv, NEW t \in Ids, WorkerRaises(t)
  PROVE  PlanIInv'
<1>1. /\ pc = "run" /\ t \in Awaited /\ pc' = "raised"
      /\ UNCHANGED <<plan, batches, batchIndex, sent, left, messages, results, failed>>
  BY DEF WorkerRaises
<1>2. Tasks' = Tasks /\ Done' = Done /\ PlanMessages' = PlanMessages
  BY <1>1 DEF Tasks, Done, PlanMessages
<1>3. /\ TypeOK /\ PlanMade /\ BatchRuns /\ LeftSays /\ ResultsOwn
      /\ messages \in Seq(PlanMessages) /\ AnswersFollow(messages)
  BY DEF PlanIInv
<1>4. runs' \in [Ids -> 0..2]
  <2>1. UpTo2(runs[t] + 1) \in 0..2
    BY <1>3 DEF UpTo2, TypeOK
  <2> QED BY <1>3, <2>1 DEF WorkerRaises, TypeOK
<1>5. TypeOK'
  BY <1>1, <1>2, <1>3, <1>4 DEF TypeOK, Ended
<1>6. PlanMade' /\ BatchRuns'
  BY <1>1, <1>3 DEF PlanMade, BatchRuns
<1>7. LeftSays'
  BY <1>1, <1>3 DEF LeftSays, Answers
<1>8. (messages \in Seq(PlanMessages))' /\ AnswersFollow(messages)'
  BY <1>1, <1>2, <1>3 DEF AnswersFollow
<1>9. ResultsOwn'
  BY <1>1, <1>2, <1>3 DEF ResultsOwn, DistinctDescriptions
<1> QED BY <1>5, <1>6, <1>7, <1>8, <1>9 DEF PlanIInv

\* The results of a batch are collected.
LEMMA BatchCollected ==
  ASSUME PlanIInv, Collect
  PROVE  PlanIInv'
<1> DEFINE pieces == [t \in Ids |-> IF t \in sent.run THEN left[t] ELSE <<>>]
<1>1. /\ pc = "run" /\ Awaited = {}
      /\ messages' = messages \o FlattenSeq(pieces)
      /\ results' = Scanned(messages', WithSkipped)
      /\ failed' = failed \cup {t \in batches[batchIndex + 1] \cap DOMAIN results' :
                                  results'[t].status = "failed"}
      /\ batchIndex' = batchIndex + 1
      /\ pc' = IF batchIndex' < Len(batches) THEN "dispatch" ELSE "finalize"
      /\ sent' = Nothing /\ left' = <<>>
      /\ UNCHANGED <<plan, batches, runs>>
  BY DEF Collect, NextBatch
<1>2. Tasks' = Tasks /\ PlanMessages' = PlanMessages
  BY <1>1 DEF Tasks, PlanMessages
<1>3. /\ TypeOK /\ PlanMade /\ BatchRuns /\ LeftSays /\ ResultsOwn
      /\ messages \in Seq(PlanMessages) /\ AnswersFollow(messages)
  BY DEF PlanIInv
<1>4. plan = <<>> \/ plan \in Plans
  BY <1>3 DEF TypeOK
<1>5. /\ batchIndex \in Nat /\ batchIndex < Len(batches) /\ Len(batches) \in Nat
      /\ sent.run = batches[batchIndex + 1] /\ DOMAIN left = sent.run /\ sent.skip = {}
      /\ sent.run \subseteq Tasks
  <2>1. batchIndex < Len(batches) /\ sent.run = batches[batchIndex + 1] /\ sent.skip = {}
    BY <1>1, <1>3 DEF BatchRuns
  <2>2. batchIndex \in 0..Len(batches) /\ batches \in Seq(SUBSET Tasks)
    BY <1>3 DEF TypeOK
  <2>3. batchIndex \in Nat /\ Len(batches) \in Nat
    BY <2>2
  <2>4. DOMAIN left = sent.run
    BY <1>1, <1>3 DEF TypeOK, Awaited
  <2>5. sent.run \subseteq Tasks
    BY <1>3 DEF TypeOK
  <2> QED BY <2>1, <2>3, <2>4, <2>5
<1>6. messages' \in Seq(PlanMessages) /\ AnswersFollow(messages')
  BY <1>1, Collected
<1>7. \A t \in sent.run : Answered(t, messages')
  BY <1>1, Collected
<1> HIDE DEF pieces
<1>8. Done' = Done \cup sent.run
  <2>1. 1..(batchIndex + 1) = (1..batchIndex) \cup {batchIndex + 1}
    BY <1>5
  <2>2. Done' = UNION {batches[i] : i \in 1..(batchIndex + 1)}
    BY <1>1 DEF Done
  <2> QED BY <1>5, <2>1, <2>2 DEF Done
<1>9. /\ DOMAIN WithSkipped = DOMAIN results
      /\ \A t \in DOMAIN results : WithSkipped[t] = results[t]
  BY <1>5 DEF WithSkipped
<1>10. /\ DOMAIN WithSkipped \subseteq Tasks
       /\ \A t \in DOMAIN WithSkipped : WithSkipped[t] \in Report
  BY <1>3, <1>9 DEF TypeOK
<1>11. /\ DOMAIN results' = DOMAIN WithSkipped \cup {t \in Tasks : TakenFor(messages', t) # {}}
       /\ \A t \in DOMAIN WithSkipped : results'[t] = WithSkipped[t]
       /\ \A t \in DOMAIN results' \ DOMAIN WithSkipped :
            \E i \in TakenFor(messages', t) : results'[t].by = messages'[i].by
       /\ \A t \in DOMAIN results' : results'[t] \in Report
  <2>1. ScanSays(messages', WithSkipped, Scanned(messages', WithSkipped))
    BY <1>4, <1>6, <1>10, ScanTyped
  <2> QED BY <1>1, <2>1 DEF ScanSays
<1>12. DOMAIN results' \subseteq Tasks
  BY <1>10, <1>11
<1>13. failed' = {}
  <2>1. \A t \in DOMAIN results' : results'[t].status # "failed"
    BY <1>11 DEF Report
  <2> QED BY <1>1, <1>3, <2>1 DEF BatchRuns
<1>14. DOMAIN left' = {}
  BY <1>1
<1>15. TypeOK'
  <2>1. pc' \in {"dispatch", "finalize"}
    BY <1>1
  <2>2. batchIndex' \in 0..Len(batches)
    BY <1>1, <1>5
  <2>3. sent' \in [run : SUBSET Tasks, skip : SUBSET Tasks]
    BY <1>1 DEF Nothing
  <2> QED BY <1>1, <1>2, <1>3, <1>11, <1>12, <1>13, <1>14, <2>1, <2>2, <2>3 DEF TypeOK
<1>16. PlanMade'
  <2>1. plan # <<>>
    <3>1. plan = <<>> => Len(batches) = 0
      BY <1>3 DEF PlanMade
    <3> QED BY <1>5, <3>1
  <2>2. pc' = "finalize" => batchIndex' = Len(batches)
    BY <1>1, <1>5
  <2>3. ~Stuck(plan) /\ batches = Peel(plan)
    BY <1>1, <1>3, <2>1 DEF PlanMade
  <2>4. Stuck(plan)' = Stuck(plan) /\ Peel(plan)' = Peel(plan)
    BY <1>1
  <2> QED BY <1>1, <2>1, <2>2, <2>3, <2>4 DEF PlanMade
<1>17. BatchRuns'
  <2>1. Done' \cup DOMAIN left' = Done \cup DOMAIN left
    BY <1>5, <1>8, <1>14
  <2>2. \A t \in Ids : runs[t] = IF t \in Done \cup DOMAIN left THEN 1 ELSE 0
    BY <1>1, <1>3 DEF BatchRuns
  <2>3. \A t \in Ids : runs'[t] = IF t \in Done' \cup DOMAIN left' THEN 1 ELSE 0
    BY <1>1, <2>1, <2>2
  <2>4. sent'.skip = {} /\ pc' # "run"
    BY <1>1 DEF Nothing
  <2> QED BY <1>13, <1>14, <2>3, <2>4 DEF BatchRuns
<1>18. LeftSays'
  BY <1>14 DEF LeftSays
<1>19. ResultsOwn'
  <2> SUFFICES ASSUME DistinctDescriptions
               PROVE  Done' \subseteq DOMAIN results' /\ \A t \in DOMAIN results' : results'[t].by = t
    <3>1. DistinctDescriptions' = DistinctDescriptions
      BY <1>1 DEF DistinctDescriptions, Tasks
    <3> QED BY <3>1 DEF ResultsOwn
  <2>1. Done \subseteq DOMAIN results /\ \A t \in DOMAIN results : results[t].by = t
    BY <1>3 DEF ResultsOwn
  <2>2. sent.run \subseteq DOMAIN results'
    <3>1. \A t \in sent.run : TakenFor(messages', t) # {}
      BY <1>4, <1>5, <1>6, <1>7, ScanTakes
    <3> QED BY <1>5, <1>11, <3>1
  <2>3. Done' \subseteq DOMAIN results'
    BY <1>8, <1>9, <1>11, <2>1, <2>2
  <2>4. ASSUME NEW t \in DOMAIN results'
        PROVE  results'[t].by = t
    <3>1. CASE t \in DOMAIN results
      BY <1>9, <1>11, <2>1, <3>1
    <3>2. CASE t \notin DOMAIN results
      <4>1. PICK i \in TakenFor(messages', t) : results'[t].by = messages'[i].by
        BY <1>9, <1>11, <3>2
      <4>2. messages'[i].by = t
        BY <1>4, <1>6, <1>12, ScanTakes
      <4> QED BY <4>1, <4>2
    <3> QED BY <3>1, <3>2
  <2> QED BY <2>3, <2>4
<1>20. (messages \in Seq(PlanMessages))' /\ AnswersFollow(messages)'
  BY <1>1, <1>2, <1>6 DEF AnswersFollow
<1> QED BY <1>15, <1>16, <1>17, <1>18, <1>19, <1>20 DEF PlanIInv

\* Nothing that the invariant reads moves.
LEMMA PlanRests ==
  ASSUME PlanIInv, UNCHANGED vars
  PROVE  PlanIInv'
<1>1. UNCHANGED <<pc, plan, batches, batchIndex, sent, left, messages, results, failed, runs>>
  BY DEF vars
<1>2. Tasks' = Tasks /\ Done' = Done /\ PlanMessages' = PlanMessages
  BY <1>1 DEF Tasks, Done, PlanMessages
<1>3. TypeOK'
  BY <1>1, <1>2 DEF PlanIInv, TypeOK
<1>4. PlanMade' /\ BatchRuns' /\ LeftSays'
  BY <1>1, <1>2 DEF PlanIInv, PlanMade, BatchRuns, LeftSays, Answers
<1>5. (messages \in Seq(PlanMessages))' /\ AnswersFollow(messages)'
  BY <1>1, <1>2 DEF PlanIInv, AnswersFollow
<1>6. ResultsOwn'
  BY <1>1, <1>2 DEF PlanIInv, ResultsOwn, DistinctDescriptions
<1> QED BY <1>3, <1>4, <1>5, <1>6 DEF PlanIInv

\* Every step keeps it.
LEMMA PlanKeeps ==
  ASSUME PlanIInv, [Next]_vars
  PROVE  PlanIInv'
<1>1. CASE PlanRefused
  BY <1>1, PcMoves DEF PlanRefused
<1>2. CASE PlanRaises
  BY <1>2, PcMoves DEF PlanRaises
<1>3. CASE MakePlan
  BY <1>3, PlanMakes
<1>4. CASE NothingToDispatch
  BY <1>4, PcMoves DEF NothingToDispatch
<1>5. CASE Dispatch
  BY <1>5, BatchSent
<1>6. CASE Collect
  BY <1>6, BatchCollected
<1>7. CASE Finalize
  BY <1>7, PcMoves DEF Finalize
<1>8. ASSUME NEW t \in Ids, WorkerRaises(t)
      PROVE  PlanIInv'
  BY <1>8, WorkerEnds
<1>9. ASSUME NEW t \in Ids, NEW tools \in BOOLEAN, RunOne(t, tools)
      PROVE  PlanIInv'
  BY <1>9, WorkerRuns
<1>10. CASE UNCHANGED vars
  BY <1>10, PlanRests
<1> QED BY <1>1, <1>2, <1>3, <1>4, <1>5, <1>6, <1>7, <1>8, <1>9, <1>10 DEF Next

-----------------------------------------------------------------------------
(* PlanGraph: what follows from the invariant.                             *)

\* A plan is split unless some of its tasks wait for each other, and then
\* every task is in a batch.
LEMMA SplitWhole ==
  ASSUME NEW p, IsFiniteSet(DOMAIN p), p # <<>>
  PROVE  /\ Stuck(p) <=> \E S \in SUBSET DOMAIN p : S # {} /\ Circular(p, S)
         /\ ~Stuck(p) => \A t \in DOMAIN p : \E i \in DOMAIN Peel(p) : t \in Peel(p)[i]
<1> DEFINE B == Peel(p)
           T == DOMAIN p
<1>1. Ordered(p, T, B) /\ Exhausted(p, T, B)
  BY PeelingSound DEF Peel
<1> HIDE DEF B
<1>2. /\ B \in Seq(SUBSET T)
      /\ Circular(p, {t \in T : \A i \in DOMAIN B : t \notin B[i]})
      /\ \A S \in SUBSET T : Circular(p, S) => \A i \in DOMAIN B : S \cap B[i] = {}
  BY <1>1 DEF Ordered, Exhausted
<1>3. Stuck(p) <=> \E t \in T : \A i \in DOMAIN B : t \notin B[i]
  <2>1. \A i \in DOMAIN B : B[i] \subseteq T
    BY <1>2
  <2>2. UNION Range(B) = {t \in T : \E i \in DOMAIN B : t \in B[i]}
    BY <2>1 DEF Range
  <2> QED BY <2>2 DEF Stuck, B
<1>4. ASSUME Stuck(p)
      PROVE  \E S \in SUBSET T : S # {} /\ Circular(p, S)
  <2> DEFINE S == {t \in T : \A i \in DOMAIN B : t \notin B[i]}
  <2>1. S \in SUBSET T /\ S # {}
    BY <1>3, <1>4
  <2>2. Circular(p, S)
    BY <1>2
  <2> QED BY <2>1, <2>2
<1>5. ASSUME NEW S \in SUBSET T, S # {}, Circular(p, S)
      PROVE  Stuck(p)
  <2>1. \A i \in DOMAIN B : S \cap B[i] = {}
    BY <1>2, <1>5
  <2> QED BY <1>3, <1>5, <2>1
<1>6. ~Stuck(p) => \A t \in T : \E i \in DOMAIN B : t \in B[i]
  BY <1>3
<1> QED BY <1>4, <1>5, <1>6 DEF B

\* The batches are as BatchesSound says.
LEMMA SoundSplit ==
  ASSUME PlanIInv
  PROVE  BatchesSound
<1> DEFINE BatchOf(t) == {i \in DOMAIN batches : t \in batches[i]}
           Cycle(S) == S # {} /\ \A t \in S : plan[t].depends_on \cap S # {}
<1> SUFFICES ASSUME plan # <<>>
             PROVE  IF \E S \in SUBSET Tasks : Cycle(S)
                    THEN pc = "raised"
                    ELSE \A t \in Tasks : \E i \in DOMAIN batches :
                           /\ BatchOf(t) = {i}
                           /\ \A d \in plan[t].depends_on : \E j \in 1..(i - 1) : d \in batches[j]
                           /\ i = 1 \/ plan[t].depends_on \cap batches[i - 1] # {}
  BY DEF BatchesSound
<1>1. TypeOK /\ PlanMade
  BY DEF PlanIInv
<1>2. plan \in Plans /\ IsFiniteSet(DOMAIN plan)
  BY <1>1, PlanFinite DEF TypeOK
<1>3. Stuck(plan) <=> \E S \in SUBSET Tasks : Cycle(S)
  BY <1>2, SplitWhole DEF Tasks, Circular
<1>4. CASE Stuck(plan)
  BY <1>1, <1>3, <1>4 DEF PlanMade
<1>5. CASE ~Stuck(plan)
  <2>1. batches = Peel(plan)
    BY <1>1, <1>5 DEF PlanMade
  <2>2. \A t \in Tasks : \E i \in DOMAIN batches : t \in batches[i]
    BY <1>2, <1>5, <2>1, SplitWhole DEF Tasks
  <2>3. \A i \in DOMAIN batches : \A t \in batches[i] :
          i = 1 \/ plan[t].depends_on \cap batches[i - 1] # {}
    BY <1>1, BatchesOrdered DEF Ordered
  <2>4. ASSUME NEW t \in Tasks
        PROVE  \E i \in DOMAIN batches :
                 /\ BatchOf(t) = {i}
                 /\ \A d \in plan[t].depends_on : \E j \in 1..(i - 1) : d \in batches[j]
                 /\ i = 1 \/ plan[t].depends_on \cap batches[i - 1] # {}
    <3>1. PICK i \in DOMAIN batches : t \in batches[i]
      BY <2>2
    <3>2. BatchOf(t) = {i}
      BY <1>1, <3>1, BatchesOrdered
    <3>3. \A d \in plan[t].depends_on : \E j \in 1..(i - 1) : d \in batches[j]
      BY <1>1, <3>1, BatchesOrdered
    <3> QED BY <2>3, <3>1, <3>2, <3>3
  <2> QED BY <1>3, <1>5, <2>4
<1> QED BY <1>4, <1>5

\* A step runs a task once, behind all it depends on.
LEMMA InOrder ==
  ASSUME PlanIInv, [Next]_vars
  PROVE  [\A t \in Tasks : runs'[t] # runs[t] =>
            /\ runs[t] = 0
            /\ \A d \in plan[t].depends_on : runs[d] = 1 /\ d \notin DOMAIN left]_vars
<1> SUFFICES ASSUME NEW t \in Tasks, runs'[t] # runs[t]
             PROVE  /\ runs[t] = 0
                    /\ \A d \in plan[t].depends_on : runs[d] = 1 /\ d \notin DOMAIN left
  OBVIOUS
<1>1. runs' # runs
  OBVIOUS
<1>2. PICK s \in Ids : WorkerRaises(s) \/ \E tools \in BOOLEAN : RunOne(s, tools)
  BY <1>1 DEF Next, vars, PlanRefused, PlanRaises, MakePlan, NothingToDispatch, Dispatch, Collect, Finalize
<1>3. pc = "run" /\ s \in Awaited /\ runs' = [runs EXCEPT ![s] = UpTo2(@ + 1)]
  BY <1>2 DEF WorkerRaises, RunOne
<1>4. t = s
  BY <1>3 DEF PlanIInv, TypeOK
<1> QED BY <1>3, <1>4, AwaitedFirst

\* A turn that has answered reports every task.
LEMMA AllReported ==
  ASSUME PlanIInv
  PROVE  EveryTaskReported
<1> SUFFICES ASSUME pc = "answered", DistinctDescriptions
             PROVE  DOMAIN results = Tasks /\ \A t \in Tasks : results[t].by = t
  BY DEF EveryTaskReported
<1>1. TypeOK /\ PlanMade /\ ResultsOwn
  BY DEF PlanIInv
<1>2. plan \in Plans /\ plan # <<>> /\ batchIndex = Len(batches)
  BY <1>1 DEF TypeOK, PlanMade
<1>3. ~Stuck(plan) /\ batches = Peel(plan)
  BY <1>1, <1>2 DEF PlanMade
<1>4. \A t \in Tasks : \E i \in DOMAIN batches : t \in batches[i]
  BY <1>2, <1>3, SplitWhole, PlanFinite DEF Tasks
<1>5. Tasks \subseteq Done
  BY <1>1, <1>2, <1>4 DEF Done, TypeOK
<1> QED BY <1>1, <1>5 DEF ResultsOwn, TypeOK

-----------------------------------------------------------------------------
(* MultiAgent: what the operators give.                                    *)

\* The place of the i-th that counts, when the first i of them are known.
LEMMA PlaceOf ==
  ASSUME NEW counts \in SUBSET Nat, IsFiniteSet(counts), NEW i \in Nat, i # 0,
         NEW pos \in [1..i -> counts],
         \A j, k \in 1..i : j < k => pos[j] < pos[k],
         \A m \in counts : m <= pos[i] => \E j \in 1..i : m = pos[j]
  PROVE  Place(counts, i) = {pos[i]}
<1> DEFINE Before(m) == {k \in counts : k <= m}
<1>1. i \in 1..i /\ \A j \in 1..i : pos[j] \in counts /\ pos[j] \in Nat
  <2>1. i \in 1..i
    OBVIOUS
  <2>2. \A j \in 1..i : pos[j] \in counts
    OBVIOUS
  <2>3. \A m \in counts : m \in Nat
    OBVIOUS
  <2> QED BY <2>1, <2>2, <2>3
<1>2. \A m \in counts : IsFiniteSet(Before(m)) /\ Cardinality(Before(m)) \in Nat
  BY FS_Subset, FS_CardinalityType
<1>3. Cardinality(Before(pos[i])) = i
  <2> DEFINE S == 1..i
             T == Before(pos[i])
  <2>1. \A j \in S : pos[j] \in T
    <3> SUFFICES ASSUME NEW j \in S
                 PROVE  pos[j] \in T
      OBVIOUS
    <3>1. j = i \/ j < i
      OBVIOUS
    <3> QED BY <1>1, <3>1
  <2>2. pos \in [S -> T]
    <3> HIDE DEF T
    <3> QED BY <2>1
  <2>3. \A j, k \in S : pos[j] = pos[k] => j = k
    <3> SUFFICES ASSUME NEW j \in S, NEW k \in S, j # k
                 PROVE  pos[j] # pos[k]
      OBVIOUS
    <3>1. j < k \/ k < j
      OBVIOUS
    <3> QED BY <1>1, <3>1
  <2>4. \A m \in T : \E j \in S : pos[j] = m
    OBVIOUS
  <2>5. IsFiniteSet(S) /\ Cardinality(S) = i
    BY FS_Interval
  <2> HIDE DEF S, T
  <2>6. pos \in Bijection(S, T)
    BY <2>2, <2>3, <2>4 DEF Bijection, Injection, Surjection, IsInjective
  <2>7. Cardinality(T) = Cardinality(S)
    BY <2>5, <2>6, FS_Bijection DEF ExistsBijection
  <2> QED BY <2>5, <2>7 DEF T
<1>4. ASSUME NEW a \in counts, NEW b \in counts, a < b
      PROVE  Cardinality(Before(a)) # Cardinality(Before(b))
  <2>1. Before(a) \subseteq Before(b) /\ b \in Before(b) /\ b \notin Before(a)
    <3>1. \A m \in counts : m \in Nat
      OBVIOUS
    <3>2. \A k, x, y \in Nat : k <= x /\ x < y => k <= y
      OBVIOUS
    <3>3. a \in Nat /\ b \in Nat /\ b <= b /\ ~(b <= a)
      BY <1>4, <3>1
    <3> QED BY <1>4, <3>1, <3>2, <3>3
  <2>2. IsFiniteSet(Before(b))
    BY <1>2
  <2> HIDE DEF Before
  <2>3. Before(a) # Before(b) /\ Before(a) \in SUBSET Before(b)
    BY <2>1
  <2> QED BY <2>2, <2>3, FS_Subset
<1>5. Place(counts, i) = {j \in counts : Cardinality(Before(j)) = i}
  BY DEF Place
<1>6. \A m \in counts : m = pos[i] \/ m < pos[i] \/ pos[i] < m
  BY <1>1
<1> HIDE DEF Before
<1>7. \A m \in counts : Cardinality(Before(m)) = i => m = pos[i]
  BY <1>1, <1>3, <1>4, <1>6
<1> QED BY <1>1, <1>3, <1>5, <1>7

\* A set of positions has a last one.
LEMMA LastPosition ==
  ASSUME NEW n \in Nat, NEW S \in SUBSET (1..n), S # {}
  PROVE  \E i \in S : \A j \in S : j <= i
<1> DEFINE T == {n - s : s \in S}
<1>1. T \in SUBSET Nat /\ T # {}
  <2>1. \A s \in S : s \in 1..n
    OBVIOUS
  <2>2. \A s \in 1..n : n - s \in Nat
    OBVIOUS
  <2> QED BY <2>1, <2>2
<1>2. PICK m \in T : \A k \in T : m <= k
  BY <1>1, LeastNumber
<1>3. PICK i \in S : m = n - i
  OBVIOUS
<1>4. \A j \in S : n - j \in T
  OBVIOUS
<1>5. ASSUME NEW j \in S
      PROVE  j <= i
  <2>1. n - i <= n - j
    BY <1>2, <1>3, <1>4
  <2>2. i \in Nat /\ j \in Nat
    OBVIOUS
  <2> QED BY <2>1, <2>2
<1> QED BY <1>5

\* The last human message of a channel that has one.
LEMMA LastHumanIs ==
  ASSUME NEW ms \in Seq(Message), NEW h \in DOMAIN ms, ms[h].type = "human"
  PROVE  /\ LastHuman(ms) \in Requests \cup Parts
         /\ h = Len(ms) => LastHuman(ms) = ms[h].text
<1> DEFINE humans == {i \in DOMAIN ms : ms[i].type = "human"}
           last == CHOOSE i \in humans : \A j \in humans : j <= i
<1>1. DOMAIN ms = 1..Len(ms) /\ Len(ms) \in Nat
  OBVIOUS
<1>2. humans \in SUBSET (1..Len(ms)) /\ h \in humans
  BY <1>1
<1>3. \E i \in humans : \A j \in humans : j <= i
  <2> HIDE DEF humans
  <2> QED BY <1>1, <1>2, LastPosition
<1>4. last \in humans /\ \A j \in humans : j <= last
  <2> HIDE DEF humans
  <2> QED BY <1>3
<1>5. LastHuman(ms) = ms[last].text
  BY DEF LastHuman
<1> HIDE DEF last
<1>6. ms[last] \in Message /\ ms[last].type = "human"
  BY <1>4
<1>7. ms[last].text \in Requests \cup Parts
  BY <1>6 DEF Message
<1>8. h = Len(ms) => last = h
  BY <1>1, <1>2, <1>4
<1> QED BY <1>5, <1>7, <1>8

\* What is placed are authors.
LEMMA PlacedTyped ==
  ASSUME NEW ms \in Seq(Message), subtasks \in Seq(Subtask)
  PROVE  /\ Matched(ms) \in Seq(Authors) /\ DOMAIN Matched(ms) = DOMAIN subtasks
         /\ \A i \in DOMAIN subtasks : \A j : Place(ResultsIn(ms), i) = {j} => Matched(ms)[i] = ms[j].by
<1> DEFINE N == Len(subtasks)
           counts == ResultsIn(ms)
           by(i) == IF Place(counts, i) = {} THEN NoAuthor
                    ELSE ms[CHOOSE j \in Place(counts, i) : TRUE].by
<1>1. DOMAIN subtasks = 1..N /\ N \in Nat
  OBVIOUS
<1>2. Matched(ms) = [i \in DOMAIN subtasks |-> by(i)]
  BY DEF Matched, Placed
<1>3. ASSUME NEW i \in DOMAIN subtasks
      PROVE  by(i) \in Authors
  <2>1. CASE Place(counts, i) = {}
    BY <2>1, MultiAssumption DEF NoAuthor, Authors
  <2>2. CASE Place(counts, i) # {}
    <3>1. PICK j : j = CHOOSE k \in Place(counts, i) : TRUE
      OBVIOUS
    <3>2. j \in Place(counts, i)
      BY <2>2, <3>1
    <3>3. j \in DOMAIN ms /\ ms[j].type = "ai"
      BY <3>2 DEF Place, ResultsIn, IsResult
    <3>4. ms[j] \in Message
      BY <3>3
    <3>5. ms[j].by \in Authors
      BY <3>3, <3>4 DEF Message
    <3> QED BY <2>2, <3>1, <3>5
  <2> QED BY <2>1, <2>2
<1>4. \A i \in DOMAIN subtasks : \A j : Place(counts, i) = {j} => by(i) = ms[j].by
  <2> SUFFICES ASSUME NEW i \in DOMAIN subtasks, NEW j, Place(counts, i) = {j}
               PROVE  by(i) = ms[j].by
    OBVIOUS
  <2>1. (CHOOSE k \in Place(counts, i) : TRUE) = j
    OBVIOUS
  <2> QED BY <2>1
<1> HIDE DEF by
<1>5. Matched(ms) \in [1..N -> Authors]
  BY <1>1, <1>2, <1>3
<1>6. Matched(ms) \in Seq(Authors)
  BY <1>1, <1>5
<1>7. \A i \in DOMAIN subtasks : Matched(ms)[i] = by(i)
  BY <1>2
<1> QED BY <1>2, <1>4, <1>6, <1>7

-----------------------------------------------------------------------------
(* MultiAgent: the results are in their place.                             *)

\* The i-th result in the channel is one that the i-th worker left.
ResultOf(ss, i, ms) ==
  \E k \in ResultsIn(ss[i]), m \in DOMAIN ms :
    Place(ResultsIn(ms), i) = {m} /\ ms[m] = ss[i][k]

\* The results of the first i workers follow a channel that has none: the
\* i-th result is that of the i-th of them.
LEMMA InPlace ==
  ASSUME NEW old \in Seq(Message), ResultsIn(old) = {},
         NEW ss \in Seq(Seq(Message)), NEW i \in DOMAIN ss,
         \A j \in 1..i : Cardinality(ResultsIn(ss[j])) = 1,
         NEW ms, ms = old \o FlattenSeq(ss)
  PROVE  ResultOf(ss, i, ms)
<1> DEFINE flat == FlattenSeq(ss)
           n == Len(old)
           N == Len(ss)
           counts == ResultsIn(ms)
<1>1. flat \in Seq(Message)
  BY FlattenPieces
<1>2. PICK start \in [DOMAIN ss -> Nat] : Pieces(ss, start, N, flat)
  BY FlattenPieces
<1>3. ms = old \o flat
  OBVIOUS
<1> HIDE DEF flat
<1>4. ms \in Seq(Message) /\ DOMAIN ms = 1..(n + Len(flat)) /\ Len(ms) = n + Len(flat)
  BY <1>1, <1>3
<1>5. \A m \in 1..n : ms[m] = old[m]
  BY <1>1, <1>3
<1>6. \A m \in 1..Len(flat) : ms[n + m] = flat[m]
  BY <1>1, <1>3
<1>7. n \in Nat /\ Len(flat) \in Nat /\ DOMAIN old = 1..n /\ DOMAIN flat = 1..Len(flat)
  BY <1>1
<1>8. DOMAIN ss = 1..N /\ N \in Nat /\ i \in Nat /\ i # 0 /\ i <= N
  OBVIOUS
<1>9. \A j \in 1..N : ss[j] \in Seq(Message) /\ start[j] \in Nat
  <2>1. \A j \in 1..N : j \in DOMAIN ss
    BY <1>8
  <2>2. \A j \in DOMAIN ss : ss[j] \in Seq(Message)
    OBVIOUS
  <2> QED BY <2>1, <2>2
<1> HIDE DEF n, N
<1>10. \A j \in 1..i : j \in 1..N
  BY <1>8
<1>11. ASSUME NEW j \in 1..i
       PROVE  \E k : ResultsIn(ss[j]) = {k}
  <2>1. IsFiniteSet(ResultsIn(ss[j]))
    <3>1. ss[j] \in Seq(Message)
      BY <1>9, <1>10
    <3>2. DOMAIN ss[j] = 1..Len(ss[j]) /\ Len(ss[j]) \in Nat
      BY <3>1
    <3>3. IsFiniteSet(DOMAIN ss[j])
      <4> DEFINE len == Len(ss[j])
      <4>1. DOMAIN ss[j] = 1..len /\ len \in Int /\ 1 \in Int
        BY <3>2
      <4> HIDE DEF len
      <4> QED BY <4>1, FS_Interval
    <3> QED BY <3>3, FS_Subset DEF ResultsIn
  <2> QED BY <2>1, FS_Singleton
<1> DEFINE r == [j \in 1..i |-> CHOOSE k : ResultsIn(ss[j]) = {k}]
<1>12. \A j \in 1..i : ResultsIn(ss[j]) = {r[j]}
  BY <1>11
<1> HIDE DEF r
<1>13. ASSUME NEW j \in 1..i
       PROVE  /\ r[j] \in DOMAIN ss[j] /\ r[j] \in Nat /\ r[j] # 0 /\ r[j] <= Len(ss[j])
              /\ IsResult(ss[j][r[j]]) /\ start[j] \in Nat /\ Len(ss[j]) \in Nat
  <2>1. r[j] \in DOMAIN ss[j] /\ IsResult(ss[j][r[j]])
    BY <1>12 DEF ResultsIn
  <2>2. ss[j] \in Seq(Message) /\ start[j] \in Nat
    BY <1>9, <1>10
  <2>3. r[j] \in 1..Len(ss[j]) /\ Len(ss[j]) \in Nat
    BY <2>1, <2>2
  <2> QED BY <2>1, <2>2, <2>3
<1> DEFINE pos == [j \in 1..i |-> n + (start[j] + r[j])]
<1>14. ASSUME NEW j \in 1..N, NEW k \in DOMAIN ss[j]
       PROVE  n + (start[j] + k) \in DOMAIN ms /\ ms[n + (start[j] + k)] = ss[j][k]
  <2>1. start[j] + k \in DOMAIN flat /\ flat[start[j] + k] = ss[j][k]
    BY ONLY <1>2, <1>14 DEF Pieces
  <2> DEFINE m == start[j] + k
  <2>2. m \in 1..Len(flat) /\ flat[m] = ss[j][k]
    BY <1>7, <2>1
  <2> HIDE DEF m
  <2>3. n + m \in DOMAIN ms
    BY <1>4, <1>7, <2>2
  <2>4. ms[n + m] = flat[m]
    BY <1>6, <2>2
  <2> QED BY <2>2, <2>3, <2>4 DEF m
<1>15. \A j \in 1..i : pos[j] \in counts /\ pos[j] \in Nat /\ ms[pos[j]] = ss[j][r[j]]
  <2> SUFFICES ASSUME NEW j \in 1..i
               PROVE  pos[j] \in counts /\ pos[j] \in Nat /\ ms[pos[j]] = ss[j][r[j]]
    OBVIOUS
  <2>1. n + (start[j] + r[j]) \in DOMAIN ms /\ ms[n + (start[j] + r[j])] = ss[j][r[j]]
    BY <1>10, <1>13, <1>14
  <2>2. pos[j] = n + (start[j] + r[j])
    OBVIOUS
  <2>3. IsResult(ss[j][r[j]])
    BY <1>13
  <2>4. pos[j] \in Nat
    <3>1. start[j] \in Nat /\ r[j] \in Nat
      BY <1>13
    <3>2. \A x, y, z \in Nat : x + (y + z) \in Nat
      OBVIOUS
    <3> QED BY <1>7, <2>2, <3>1, <3>2
  <2> HIDE DEF pos
  <2> QED BY <2>1, <2>2, <2>3, <2>4 DEF ResultsIn
<1>16. \A j, k \in 1..i : j < k => pos[j] < pos[k]
  <2> SUFFICES ASSUME NEW j \in 1..i, NEW k \in 1..i, j < k
               PROVE  pos[j] < pos[k]
    OBVIOUS
  <2>1. start[j] + Len(ss[j]) <= start[k]
    <3>1. j \in 1..N /\ k \in 1..N
      BY <1>10
    <3> QED BY <1>2, <3>1 DEF Pieces
  <2>2. /\ r[j] \in Nat /\ r[j] <= Len(ss[j]) /\ r[k] \in Nat /\ r[k] # 0
        /\ start[j] \in Nat /\ start[k] \in Nat /\ Len(ss[j]) \in Nat
    BY <1>13
  <2>3. n + (start[j] + r[j]) < n + (start[k] + r[k])
    <3>1. \A a, b, c, d, e, f \in Nat : a + e <= c /\ b <= e /\ d # 0 => f + (a + b) < f + (c + d)
      OBVIOUS
    <3> QED BY <1>7, <2>1, <2>2, <3>1
  <2> QED BY <2>3
<1>17. ASSUME NEW m \in counts, m <= pos[i]
       PROVE  \E j \in 1..i : m = pos[j]
  <2>1. m \in DOMAIN ms /\ IsResult(ms[m])
    BY DEF ResultsIn
  <2>2. ~(m <= n)
    <3> SUFFICES ASSUME m <= n
                 PROVE  FALSE
      OBVIOUS
    <3>1. m \in 1..n
      BY <1>4, <1>7, <2>1
    <3>2. m \in ResultsIn(old)
      BY <1>5, <1>7, <2>1, <3>1 DEF ResultsIn
    <3> QED BY <3>2
  <2>3. m - n \in DOMAIN flat /\ m = n + (m - n) /\ m \in Int
    <3>1. m \in Int /\ m <= n + Len(flat) /\ 1 <= m
      BY <1>4, <1>7, <2>1
    <3>2. m - n \in 1..Len(flat) /\ m = n + (m - n)
      BY <1>7, <2>2, <3>1
    <3> QED BY <1>7, <3>1, <3>2
  <2>4. PICK j \in 1..N : \E k \in DOMAIN ss[j] : m - n = start[j] + k
    BY ONLY <1>2, <2>3 DEF Pieces
  <2>5. PICK k \in DOMAIN ss[j] : m - n = start[j] + k
    BY <2>4
  <2>6. ms[m] = ss[j][k]
    BY <1>14, <2>3, <2>5
  <2>7. k \in ResultsIn(ss[j])
    BY <2>1, <2>6 DEF ResultsIn
  <2>8. k \in 1..Len(ss[j]) /\ start[j] \in Nat /\ Len(ss[j]) \in Nat
    BY <1>9
  <2>9. i \in 1..i /\ i \in 1..N
    BY <1>8
  <2>10. j <= i
    <3> SUFFICES ASSUME i < j
                 PROVE  FALSE
      BY <1>8
    <3>1. start[i] + Len(ss[i]) <= start[j]
      BY <1>2, <2>9 DEF Pieces
    <3>2. pos[i] = n + (start[i] + r[i])
      BY <2>9
    <3>3. r[i] <= Len(ss[i]) /\ r[i] \in Nat /\ start[i] \in Nat /\ Len(ss[i]) \in Nat
      BY <1>13, <2>9
    <3>4. m <= n + (start[i] + r[i])
      BY <1>17, <3>2
    <3>5. m = n + (start[j] + k)
      BY <2>3, <2>5
    <3>6. \A a, b, c, d, e, f \in Nat :
            ~(a + e <= c /\ b <= e /\ d # 0 /\ f + (c + d) <= f + (a + b))
      OBVIOUS
    <3>7. k \in Nat /\ k # 0
      BY <2>8
    <3>8. n + (start[j] + k) <= n + (start[i] + r[i])
      BY <3>4, <3>5
    <3> QED BY <1>7, <2>8, <3>1, <3>3, <3>6, <3>7, <3>8
  <2>11. j \in 1..i
    BY <1>8, <2>10
  <2>12. k = r[j]
    BY <1>12, <2>7, <2>11
  <2>13. m = n + (start[j] + r[j])
    BY <2>3, <2>5, <2>12
  <2> QED BY <2>11, <2>13
<1> HIDE DEF pos
<1>18. counts \in SUBSET Nat /\ IsFiniteSet(counts)
  <2>1. counts \subseteq 1..(n + Len(flat)) /\ n + Len(flat) \in Nat
    BY <1>4, <1>7 DEF ResultsIn
  <2>2. IsFiniteSet(1..(n + Len(flat)))
    BY <2>1, FS_Interval
  <2>3. 1..(n + Len(flat)) \subseteq Nat
    BY <2>1
  <2> HIDE DEF counts
  <2>4. counts \in SUBSET Nat
    BY <2>1, <2>3
  <2>5. IsFiniteSet(counts)
    BY <2>1, <2>2, FS_Subset
  <2> QED BY <2>4, <2>5
<1>19. pos \in [1..i -> counts]
  <2>1. \A j \in 1..i : pos[j] \in counts
    BY <1>15
  <2> HIDE DEF counts
  <2> QED BY <2>1 DEF pos
<1> HIDE DEF counts
<1>20. Place(counts, i) = {pos[i]}
  <2>1. \A m \in counts : m <= pos[i] => \E j \in 1..i : m = pos[j]
    BY <1>17
  <2>2. i \in Nat /\ i # 0
    BY <1>8
  <2>3. PICK c : c = counts
    OBVIOUS
  <2>4. PICK p : p = pos
    OBVIOUS
  <2>5. c \in SUBSET Nat /\ IsFiniteSet(c) /\ p \in [1..i -> c]
    BY <1>18, <1>19, <2>3, <2>4
  <2>6. \A j, k \in 1..i : j < k => p[j] < p[k]
    BY <1>16, <2>4
  <2>7. \A m \in c : m <= p[i] => \E j \in 1..i : m = p[j]
    BY <2>1, <2>3, <2>4
  <2>8. Place(c, i) = {p[i]}
    BY ONLY <2>2, <2>5, <2>6, <2>7, PlaceOf
  <2> QED BY <2>3, <2>4, <2>8
<1>21. i \in 1..i
  BY <1>8
<1>22. /\ r[i] \in ResultsIn(ss[i]) /\ pos[i] \in DOMAIN ms /\ ms[pos[i]] = ss[i][r[i]]
  BY <1>12, <1>15, <1>21 DEF counts, ResultsIn
<1> QED BY <1>20, <1>22 DEF counts, ResultOf

-----------------------------------------------------------------------------
(* MultiAgent: the inductive invariant.                                    *)

WorkerAt == {"model", "tools", "paused", "done"}

\* A turn that runs was started with what the user wrote, and every subtask
\* that was sent has a worker.
TurnRuns ==
  /\ turns > 0 \/ told.end = "answered" => \E j \in DOMAIN channel : channel[j].type = "human"
  /\ node # "idle" => turns > 0
  /\ node = "decompose" => request \in Requests /\ Len(channel) \in DOMAIN channel
                           /\ channel[Len(channel)] = User(request)
  /\ node \in {"workers", "finalize"} =>
       /\ at \in [DOMAIN subtasks -> WorkerAt]
       /\ said \in [DOMAIN subtasks -> Seq(Message)]

\* A result names the turn and the subtask it is from, and those in the
\* channel of a turn whose workers have not ended are from earlier turns.
Authored ==
  /\ node = "workers" => \A i \in DOMAIN said : \A k \in ResultsIn(said[i]) : said[i][k].by = Author(i)
  /\ \A j \in ResultsIn(channel) : channel[j].by[1] <= turns
  /\ node \in {"decompose", "workers"} => \A j \in ResultsIn(channel) : channel[j].by[1] < turns

\* There are no records before the workers end; what finalize computes
\* again is what gather has computed.
MatchedOnce ==
  /\ node \in {"decompose", "workers"} => records = <<>>
  /\ node = "finalize" => records = Matched(channel)

MultiIInv == MultiTypeOK /\ TurnRuns /\ Authored /\ MatchedOnce /\ EachToItsSubtask

\* It holds initially.
LEMMA MultiStarts ==
  ASSUME MultiInit
  PROVE  MultiIInv
<1>1. DOMAIN at = {} /\ DOMAIN said = {} /\ DOMAIN subtasks = {} /\ DOMAIN channel = {}
  BY DEF MultiInit
<1>2. MultiTypeOK
  BY <1>1, MultiAssumption DEF MultiInit, MultiTypeOK, Untold
<1>3. TurnRuns /\ Authored /\ MatchedOnce
  BY <1>1 DEF MultiInit, TurnRuns, Authored, MatchedOnce, ResultsIn, Untold
<1>4. EachToItsSubtask
  BY DEF MultiInit, EachToItsSubtask
<1> QED BY <1>2, <1>3, <1>4 DEF MultiIInv

\* What a user and what an agent says are messages.
LEMMA MessagesTyped ==
  /\ \A text \in Requests \cup Parts :
       User(text) \in Message /\ User(text).type = "human" /\ ~IsResult(User(text))
       /\ User(text).text = text
  /\ \A author \in Authors, content \in BOOLEAN :
       Said(author, content) \in Message /\ Said(author, content).by = author
<1>1. \A text \in Requests \cup Parts :
        User(text) \in Message /\ User(text).type = "human" /\ User(text).text = text
  BY DEF User, Message
<1>2. \A text : ~IsResult(User(text))
  BY DEF User, IsResult
<1>3. \A author \in Authors, content \in BOOLEAN :
        Said(author, content) \in Message /\ Said(author, content).by = author
  BY DEF Said, Message
<1> QED BY <1>1, <1>2, <1>3

\* An author names the turn.
LEMMA AuthorsNamed ==
  ASSUME turns \in 0..MaxTurns, NEW i \in Nat
  PROVE  Author(i) \in Authors /\ Author(i)[1] = turns /\ Author(i) = <<turns, i>>
BY DEF Author, Authors

\* A result has an author.
LEMMA ResultsTyped ==
  ASSUME NEW ms \in Seq(Message)
  PROVE  \A j \in ResultsIn(ms) : ms[j].by \in Authors /\ ms[j].by[1] \in Int
<1> SUFFICES ASSUME NEW j \in ResultsIn(ms)
             PROVE  ms[j].by \in Authors /\ ms[j].by[1] \in Int
  OBVIOUS
<1>1. ms[j] \in Message /\ ms[j].type = "ai"
  BY DEF ResultsIn, IsResult
<1>2. ms[j].by \in Authors
  BY <1>1 DEF Message
<1> QED BY <1>2, MultiAssumption DEF Authors

\* The result of an appended message is that message, if it is one.
LEMMA ResultAppended ==
  ASSUME NEW ms \in Seq(Message), NEW m \in Message
  PROVE  \A j \in ResultsIn(Append(ms, m)) :
           \/ j \in ResultsIn(ms) /\ Append(ms, m)[j] = ms[j]
           \/ j = Len(ms) + 1 /\ Append(ms, m)[j] = m /\ IsResult(m)
<1> DEFINE more == Append(ms, m)
<1>1. /\ DOMAIN more = 1..(Len(ms) + 1) /\ DOMAIN ms = 1..Len(ms) /\ Len(ms) \in Nat
      /\ more[Len(ms) + 1] = m
  OBVIOUS
<1>2. \A j \in 1..Len(ms) : more[j] = ms[j]
  OBVIOUS
<1> HIDE DEF more
<1>3. ASSUME NEW j \in ResultsIn(more)
      PROVE  \/ j \in ResultsIn(ms) /\ more[j] = ms[j]
             \/ j = Len(ms) + 1 /\ more[j] = m /\ IsResult(m)
  <2>1. j \in 1..(Len(ms) + 1) /\ IsResult(more[j])
    BY <1>1 DEF ResultsIn
  <2>2. CASE j \in 1..Len(ms)
    BY <1>1, <1>2, <2>1, <2>2 DEF ResultsIn
  <2>3. CASE j \notin 1..Len(ms)
    <3>1. j = Len(ms) + 1
      BY <1>1, <2>1, <2>3
    <3> QED BY <1>1, <2>1, <3>1
  <2> QED BY <2>2, <2>3
<1> QED BY <1>3 DEF more

-----------------------------------------------------------------------------
(* MultiAgent: the invariant is inductive.                                 *)

\* A turn starts.
LEMMA TurnStarts ==
  ASSUME MultiIInv, NEW r \in Requests, NEW begins \in {"blank", "checkpoint", "history"},
         StartTurn(r, begins)
  PROVE  MultiIInv'
<1>1. /\ node = "idle" /\ turns < MaxTurns /\ turns' = turns + 1 /\ request' = r
      /\ begins = "history" => told.end = "answered"
      /\ node' = "decompose" /\ told' = Untold /\ records' = <<>> /\ at' = <<>> /\ said' = <<>>
      /\ subtasks' = subtasks
  BY DEF StartTurn
<1>2. MultiTypeOK /\ TurnRuns /\ Authored
  BY DEF MultiIInv
<1>3. /\ turns \in Nat /\ turns \in 0..MaxTurns /\ turns' \in 0..MaxTurns /\ turns < turns'
      /\ channel \in Seq(Message) /\ subtasks \in Seq(Subtask)
  BY <1>1, <1>2, MultiAssumption DEF MultiTypeOK
<1> DEFINE last == User(r)
           answer == Said(Author(0), TRUE)
<1>4. last \in Message /\ last.type = "human" /\ ~IsResult(last)
  BY MessagesTyped
<1>5. answer \in Message /\ answer.by[1] = turns
  <2>1. 0 \in Nat /\ TRUE \in BOOLEAN
    OBVIOUS
  <2>2. Author(0) \in Authors /\ Author(0)[1] = turns
    BY <1>3, <2>1, AuthorsNamed
  <2>3. answer \in Message /\ answer.by = Author(0)
    BY <2>1, <2>2, MessagesTyped
  <2> QED BY <2>2, <2>3
<1> HIDE DEF last, answer
<1>6. PICK before \in Seq(Message) :
        /\ channel' = Append(before, last)
        /\ \A j \in ResultsIn(before) : before[j].by[1] <= turns
  <2>1. CASE begins = "blank"
    <3>1. channel' = <<last>>
      BY <2>1 DEF StartTurn, last
    <3>2. <<>> \in Seq(Message) /\ Append(<<>>, last) = <<last>> /\ ResultsIn(<<>>) = {}
      BY DEF ResultsIn
    <3> QED BY <3>1, <3>2
  <2>2. CASE begins = "checkpoint"
    <3>1. channel' = Append(channel, last)
      BY <2>2 DEF StartTurn, last
    <3> QED BY <1>2, <1>3, <3>1 DEF Authored
  <2>3. CASE begins = "history"
    <3>1. channel' = channel \o <<answer, last>>
      BY <2>3 DEF StartTurn, last, answer
    <3>2. channel \o <<answer, last>> = Append(Append(channel, answer), last)
      BY <1>3, <1>4, <1>5
    <3>3. Append(channel, answer) \in Seq(Message)
      BY <1>3, <1>5
    <3>4. \A j \in ResultsIn(Append(channel, answer)) : Append(channel, answer)[j].by[1] <= turns
      <4> SUFFICES ASSUME NEW j \in ResultsIn(Append(channel, answer))
                   PROVE  Append(channel, answer)[j].by[1] <= turns
        OBVIOUS
      <4>1. \/ j \in ResultsIn(channel) /\ Append(channel, answer)[j] = channel[j]
            \/ Append(channel, answer)[j] = answer
        BY <1>3, <1>5, ResultAppended
      <4>2. turns <= turns
        BY <1>3
      <4> QED BY <1>2, <1>5, <4>1, <4>2 DEF Authored
    <3> QED BY <3>1, <3>2, <3>3, <3>4
  <2> QED BY <2>1, <2>2, <2>3
<1>7. /\ channel' \in Seq(Message) /\ Len(channel') \in DOMAIN channel'
      /\ channel'[Len(channel')] = last
  BY <1>4, <1>6
<1>8. \A j \in ResultsIn(channel') : channel'[j].by[1] <= turns
  BY <1>4, <1>6, ResultAppended
<1>9. \A j \in ResultsIn(channel') : channel'[j].by[1] < turns'
  <2>1. \A j \in ResultsIn(channel') : channel'[j].by[1] \in Int
    BY <1>7, ResultsTyped
  <2> QED BY <1>1, <1>3, <1>8, <2>1
<1>10. DOMAIN at' = {} /\ DOMAIN said' = {}
  BY <1>1
<1>11. MultiTypeOK'
  BY <1>1, <1>3, <1>7, <1>10 DEF MultiTypeOK, Untold
<1>12. TurnRuns'
  <2>1. channel'[Len(channel')].type = "human" /\ last = User(request)'
    BY <1>1, <1>4, <1>7 DEF last, User
  <2> QED BY <1>1, <1>3, <1>7, <2>1 DEF TurnRuns
<1>13. Authored'
  <2>1. \A j \in ResultsIn(channel') : channel'[j].by[1] < turns' /\ channel'[j].by[1] <= turns'
    <3>1. \A j \in ResultsIn(channel') : channel'[j].by[1] \in Int
      BY <1>7, ResultsTyped
    <3> QED BY <1>1, <1>3, <1>9, <3>1
  <2> QED BY <1>1, <2>1 DEF Authored, ResultsIn
<1>14. MatchedOnce' /\ EachToItsSubtask'
  BY <1>1 DEF MatchedOnce, EachToItsSubtask
<1> QED BY <1>11, <1>12, <1>13, <1>14 DEF MultiIInv

\* The request is cut into subtasks, and each is sent.
LEMMA RequestCut ==
  ASSUME MultiIInv, Decompose
  PROVE  MultiIInv'
<1>1. /\ node = "decompose" /\ node' = "workers"
      /\ at' = [i \in DOMAIN subtasks' |-> "model"]
      /\ said' = [i \in DOMAIN subtasks' |-> <<User(subtasks'[i].text)>>]
      /\ UNCHANGED <<turns, request, channel, records, told>>
  BY DEF Decompose
<1>2. MultiTypeOK /\ TurnRuns /\ Authored /\ MatchedOnce
  BY DEF MultiIInv
<1>3. channel \in Seq(Message) /\ turns \in 0..MaxTurns
  BY <1>2 DEF MultiTypeOK
<1>4. LastHuman(channel) = request /\ request \in Requests
  <2>1. /\ request \in Requests /\ Len(channel) \in DOMAIN channel
        /\ channel[Len(channel)] = User(request)
    BY <1>1, <1>2 DEF TurnRuns
  <2>2. User(request).type = "human" /\ User(request).text = request
    BY <2>1, MessagesTyped
  <2> QED BY <1>3, <2>1, <2>2, LastHumanIs
<1>5. subtasks' \in Seq(Subtask)
  <2>1. PICK p \in LlmPlans : subtasks' = Decomposed(p, request)
    BY <1>4 DEF Decompose
  <2>2. p \in Seq(Subtask)
    <3>1. [kind : {"command", "business"}, text : Parts] \subseteq Subtask
      BY DEF Subtask
    <3>2. p \in Seq([kind : {"command", "business"}, text : Parts])
      BY MultiAssumption
    <3> DEFINE S == [kind : {"command", "business"}, text : Parts]
    <3>3. S \subseteq Subtask /\ p \in Seq(S)
      BY <3>1, <3>2
    <3> HIDE DEF S
    <3> QED BY <3>3
  <2>3. Heuristic(request) \in Seq(Subtask)
    <3> DEFINE parts == Split[request]
    <3>1. parts \in Seq(Parts)
      BY <1>4, MultiAssumption
    <3>2. Heuristic(request) = [i \in DOMAIN parts |->
             [kind |-> IF parts[i] \in Commands THEN "command" ELSE "business", text |-> parts[i]]]
      BY DEF Heuristic
    <3> HIDE DEF parts
    <3>3. DOMAIN parts = 1..Len(parts) /\ Len(parts) \in Nat /\ \A i \in DOMAIN parts : parts[i] \in Parts
      BY <3>1
    <3>4. Heuristic(request) \in [1..Len(parts) -> Subtask]
      BY <3>2, <3>3 DEF Subtask
    <3> QED BY <3>3, <3>4
  <2>4. <<[kind |-> "business", text |-> request]>> \in Seq(Subtask)
    <3>1. [kind |-> "business", text |-> request] \in Subtask
      BY <1>4 DEF Subtask
    <3> QED BY <3>1
  <2> QED BY <2>1, <2>2, <2>3, <2>4 DEF Decomposed
<1>6. \A i \in DOMAIN subtasks' : subtasks'[i].text \in Requests \cup Parts
  <2>1. \A i \in DOMAIN subtasks' : subtasks'[i] \in Subtask
    BY <1>5
  <2> QED BY <2>1 DEF Subtask
<1> DEFINE first(i) == User(subtasks'[i].text)
<1>7. \A i \in DOMAIN subtasks' : first(i) \in Message /\ ~IsResult(first(i))
  BY <1>6, MessagesTyped
<1> HIDE DEF first
<1>8. \A i \in DOMAIN subtasks' : <<first(i)>> \in Seq(Message) /\ ResultsIn(<<first(i)>>) = {}
  <2> SUFFICES ASSUME NEW i \in DOMAIN subtasks'
               PROVE  <<first(i)>> \in Seq(Message) /\ ResultsIn(<<first(i)>>) = {}
    OBVIOUS
  <2>1. DOMAIN <<first(i)>> = {1} /\ <<first(i)>>[1] = first(i)
    OBVIOUS
  <2> QED BY <1>7, <2>1 DEF ResultsIn
<1>9. said' = [i \in DOMAIN subtasks' |-> <<first(i)>>]
  BY <1>1 DEF first
<1>10. at' \in [DOMAIN subtasks' -> WorkerAt] /\ said' \in [DOMAIN subtasks' -> Seq(Message)]
  BY <1>1, <1>8, <1>9 DEF WorkerAt
<1>11. MultiTypeOK'
  BY <1>1, <1>2, <1>5, <1>10 DEF MultiTypeOK, WorkerAt
<1>12. TurnRuns'
  BY <1>1, <1>2, <1>10 DEF TurnRuns
<1>13. Authored'
  <2>1. \A i \in DOMAIN said' : ResultsIn(said'[i]) = {}
    BY <1>8, <1>9
  <2> QED BY <1>1, <1>2, <2>1 DEF Authored, ResultsIn
<1>14. MatchedOnce' /\ EachToItsSubtask'
  BY <1>1, <1>2 DEF MatchedOnce, EachToItsSubtask
<1> QED BY <1>11, <1>12, <1>13, <1>14 DEF MultiIInv

\* A worker moves on, and says something or not.
LEMMA WorkerSays ==
  ASSUME MultiIInv, NEW i, NEW from, NEW to \in WorkerAt, WorkerMoves(i, from, to),
         \/ UNCHANGED said
         \/ \E content \in BOOLEAN : said' = [said EXCEPT ![i] = Append(@, Said(Author(i), content))]
  PROVE  MultiIInv'
<1>1. /\ node = "workers" /\ i \in DOMAIN at /\ at' = [at EXCEPT ![i] = to]
      /\ UNCHANGED <<node, turns, request, channel, subtasks, records, told>>
  BY DEF WorkerMoves
<1>2. MultiTypeOK /\ TurnRuns /\ Authored /\ MatchedOnce /\ EachToItsSubtask
  BY DEF MultiIInv
<1>3. /\ at \in [DOMAIN subtasks -> WorkerAt] /\ said \in [DOMAIN subtasks -> Seq(Message)]
      /\ i \in DOMAIN subtasks
  BY <1>1, <1>2 DEF TurnRuns
<1>4. i \in Nat /\ turns \in 0..MaxTurns
  <2>1. subtasks \in Seq(Subtask) /\ turns \in 0..MaxTurns
    BY <1>2 DEF MultiTypeOK
  <2> QED BY <1>3, <2>1
<1>5. \A j \in DOMAIN said : \A k \in ResultsIn(said[j]) : said[j][k].by = Author(j)
  BY <1>1, <1>2 DEF Authored
<1>6. /\ said' \in [DOMAIN subtasks -> Seq(Message)]
      /\ \A j \in DOMAIN said' : \A k \in ResultsIn(said'[j]) : said'[j][k].by = Author(j)
  <2>1. CASE UNCHANGED said
    BY <1>3, <1>5, <2>1
  <2>2. ASSUME NEW content \in BOOLEAN, said' = [said EXCEPT ![i] = Append(@, Said(Author(i), content))]
        PROVE  /\ said' \in [DOMAIN subtasks -> Seq(Message)]
               /\ \A j \in DOMAIN said' : \A k \in ResultsIn(said'[j]) : said'[j][k].by = Author(j)
    <3> DEFINE m == Said(Author(i), content)
    <3>1. m \in Message /\ m.by = Author(i)
      <4>1. Author(i) \in Authors
        BY <1>4, AuthorsNamed
      <4> QED BY <4>1, MessagesTyped
    <3>2. said' = [said EXCEPT ![i] = Append(said[i], m)]
      BY <2>2
    <3> HIDE DEF m
    <3>3. said[i] \in Seq(Message) /\ Append(said[i], m) \in Seq(Message)
      BY <1>3, <3>1
    <3>4. \A k \in ResultsIn(Append(said[i], m)) : Append(said[i], m)[k].by = Author(i)
      <4> SUFFICES ASSUME NEW k \in ResultsIn(Append(said[i], m))
                   PROVE  Append(said[i], m)[k].by = Author(i)
        OBVIOUS
      <4>1. \/ k \in ResultsIn(said[i]) /\ Append(said[i], m)[k] = said[i][k]
            \/ Append(said[i], m)[k] = m
        BY <3>1, <3>3, ResultAppended
      <4> QED BY <1>3, <1>5, <3>1, <4>1
    <3>5. said'[i] = Append(said[i], m) /\ \A j \in DOMAIN said : j # i => said'[j] = said[j]
      BY <1>3, <3>2
    <3>6. said' \in [DOMAIN subtasks -> Seq(Message)] /\ DOMAIN said' = DOMAIN said
      BY <1>3, <3>2, <3>3
    <3> QED BY <1>3, <1>5, <3>4, <3>5, <3>6
  <2> QED BY <2>1, <2>2
<1>7. at' \in [DOMAIN subtasks -> WorkerAt]
  BY <1>1, <1>3
<1>8. MultiTypeOK'
  BY <1>1, <1>2, <1>6, <1>7 DEF MultiTypeOK, WorkerAt
<1>9. TurnRuns'
  BY <1>1, <1>2, <1>6, <1>7 DEF TurnRuns
<1>10. Authored'
  <2>1. \A j : Author(j)' = Author(j)
    BY <1>1 DEF Author
  <2> QED BY <1>1, <1>2, <1>6, <2>1 DEF Authored, ResultsIn
<1>11. MatchedOnce' /\ EachToItsSubtask'
  BY <1>1, <1>2 DEF MatchedOnce, EachToItsSubtask
<1> QED BY <1>8, <1>9, <1>10, <1>11 DEF MultiIInv

\* A worker raises, and the turn ends.
LEMMA TurnRaised ==
  ASSUME MultiIInv, NEW i, MultiWorkerRaises(i)
  PROVE  MultiIInv'
<1>1. /\ node = "workers" /\ node' = "idle" /\ told' = [Untold EXCEPT !.end = "raised"]
      /\ UNCHANGED <<turns, request, channel, subtasks, at, said, records>>
  BY DEF MultiWorkerRaises
<1>2. MultiTypeOK /\ TurnRuns /\ Authored /\ MatchedOnce
  BY DEF MultiIInv
<1>3. told'.end = "raised" /\ told'.task = "none"
  BY <1>1 DEF Untold
<1>4. MultiTypeOK'
  BY <1>1, <1>2, <1>3 DEF MultiTypeOK
<1>5. TurnRuns' /\ MatchedOnce' /\ EachToItsSubtask'
  BY <1>1, <1>2, <1>3 DEF TurnRuns, MatchedOnce, EachToItsSubtask
<1>6. Authored'
  BY <1>1, <1>2 DEF Authored, ResultsIn
<1> QED BY <1>4, <1>5, <1>6 DEF MultiIInv

\* The workers have ended, and their results are matched with the subtasks.
LEMMA ResultsGathered ==
  ASSUME MultiIInv, Gather
  PROVE  MultiIInv'
<1>1. /\ node = "workers" /\ node' = "finalize"
      /\ channel' = channel \o FlattenSeq(said) /\ records' = Matched(channel')
      /\ UNCHANGED <<turns, request, subtasks, at, said, told>>
  BY DEF Gather
<1>2. MultiTypeOK /\ TurnRuns /\ Authored
  BY DEF MultiIInv
<1>3. /\ channel \in Seq(Message) /\ subtasks \in Seq(Subtask) /\ turns \in 0..MaxTurns
      /\ at \in [DOMAIN subtasks -> WorkerAt] /\ said \in [DOMAIN subtasks -> Seq(Message)]
  BY <1>1, <1>2 DEF MultiTypeOK, TurnRuns
<1>4. said \in Seq(Seq(Message)) /\ DOMAIN said = DOMAIN subtasks
  <2>1. DOMAIN subtasks = 1..Len(subtasks) /\ Len(subtasks) \in Nat
    BY <1>3
  <2> QED BY <1>3, <2>1
<1>5. FlattenSeq(said) \in Seq(Message)
  BY <1>4, FlattenPieces
<1> DEFINE flat == FlattenSeq(said)
           ms == channel'
<1>6. ms = channel \o flat
  BY <1>1
<1> HIDE DEF flat, ms
<1>7. /\ ms \in Seq(Message) /\ Len(channel) \in Nat /\ DOMAIN channel = 1..Len(channel)
      /\ DOMAIN ms = 1..(Len(channel) + Len(flat)) /\ Len(flat) \in Nat
      /\ DOMAIN flat = 1..Len(flat)
  BY <1>3, <1>5, <1>6 DEF flat
<1>8. \A j \in 1..Len(channel) : ms[j] = channel[j]
  BY <1>3, <1>5, <1>6 DEF flat
<1>9. \A j \in 1..Len(flat) : ms[Len(channel) + j] = flat[j]
  BY <1>3, <1>5, <1>6 DEF flat
<1>10. \A i \in DOMAIN said : \A k \in ResultsIn(said[i]) : said[i][k].by = Author(i)
  BY <1>1, <1>2 DEF Authored
<1>11. \A i \in DOMAIN said : Author(i)[1] = turns /\ Author(i) = <<turns, i>>
  <2>1. \A i \in DOMAIN said : i \in Nat
    BY <1>4
  <2> QED BY <1>3, <2>1, AuthorsNamed
<1>12. turns \in Int
  BY <1>3, MultiAssumption
<1>13. ASSUME NEW j \in ResultsIn(ms)
       PROVE  ms[j].by[1] <= turns
  <2>1. j \in DOMAIN ms /\ IsResult(ms[j])
    BY DEF ResultsIn
  <2>2. CASE j <= Len(channel)
    <3>1. j \in 1..Len(channel)
      BY <1>7, <2>1, <2>2
    <3>2. j \in ResultsIn(channel) /\ ms[j] = channel[j]
      BY <1>7, <1>8, <2>1, <3>1 DEF ResultsIn
    <3> QED BY <1>2, <3>2 DEF Authored
  <2>3. CASE ~(j <= Len(channel))
    <3>1. j - Len(channel) \in DOMAIN flat /\ j = Len(channel) + (j - Len(channel))
      BY <1>7, <2>1, <2>3
    <3>2. PICK begins \in [DOMAIN said -> Nat] : Pieces(said, begins, Len(said), flat)
      BY <1>4, FlattenPieces DEF flat
    <3>3. PICK i \in 1..Len(said) : \E k \in DOMAIN said[i] : j - Len(channel) = begins[i] + k
      BY ONLY <3>1, <3>2 DEF Pieces
    <3>4. PICK k \in DOMAIN said[i] : j - Len(channel) = begins[i] + k
      BY <3>3
    <3>5. flat[begins[i] + k] = said[i][k]
      BY ONLY <3>2, <3>3, <3>4 DEF Pieces
    <3>6. ms[j] = said[i][k]
      BY <1>7, <1>9, <3>1, <3>4, <3>5
    <3>7. i \in DOMAIN said /\ k \in ResultsIn(said[i])
      BY <1>4, <2>1, <3>4, <3>6 DEF ResultsIn
    <3>8. ms[j].by[1] = turns
      BY <1>10, <1>11, <3>6, <3>7
    <3> QED BY <1>12, <3>8
  <2> QED BY <2>2, <2>3
<1>14. records' \in Seq(Authors) /\ records' = Matched(ms)
  BY <1>1, <1>3, <1>7, PlacedTyped DEF ms
<1>15. MultiTypeOK'
  BY <1>1, <1>2, <1>7, <1>14 DEF MultiTypeOK, ms
<1>16. TurnRuns'
  <2>1. \E j \in DOMAIN ms : ms[j].type = "human"
    <3>1. turns > 0
      BY <1>1, <1>2 DEF TurnRuns
    <3>2. PICK j \in DOMAIN channel : channel[j].type = "human"
      BY <1>2, <3>1 DEF TurnRuns
    <3>3. j \in DOMAIN ms /\ ms[j] = channel[j]
      BY <1>7, <1>8
    <3> QED BY <3>2, <3>3
  <2> QED BY <1>1, <1>2, <1>3, <2>1 DEF TurnRuns, ms
<1>17. Authored'
  BY <1>1, <1>13 DEF Authored, ResultsIn, ms
<1>18. MatchedOnce'
  <2>1. Matched(channel)' = Matched(ms)
    BY <1>1 DEF Matched, Placed, ms
  <2> QED BY <1>1, <1>14, <2>1 DEF MatchedOnce
<1>19. EachToItsSubtask'
  <2> SUFFICES ASSUME FreshChannel', NEW i \in DOMAIN subtasks,
                      \A j \in 1..i : Cardinality(ResultsIn(said[j])) = 1
               PROVE  records'[i] = <<turns, i>>
    BY <1>1 DEF EachToItsSubtask, ResultsIn
  <2>1. \A j \in ResultsIn(ms) : ms[j].by[1] = turns
    BY <1>1 DEF FreshChannel, ResultsIn, ms
  <2>2. ResultsIn(channel) = {}
    <3> SUFFICES ASSUME NEW j \in ResultsIn(channel)
                 PROVE  FALSE
      OBVIOUS
    <3>1. j \in ResultsIn(ms) /\ ms[j] = channel[j]
      BY <1>7, <1>8 DEF ResultsIn
    <3>2. channel[j].by[1] < turns
      BY <1>1, <1>2 DEF Authored
    <3> QED BY <1>12, <2>1, <3>1, <3>2
  <2>3. i \in DOMAIN said
    BY <1>4
  <2>4. PICK k \in ResultsIn(said[i]), m \in DOMAIN ms :
          Place(ResultsIn(ms), i) = {m} /\ ms[m] = said[i][k]
    <3>1. PICK ss : ss = said
      OBVIOUS
    <3>2. PICK c : c = ms
      OBVIOUS
    <3>3. ss \in Seq(Seq(Message)) /\ i \in DOMAIN ss /\ c = channel \o FlattenSeq(ss)
      BY <1>4, <1>6, <2>3, <3>1, <3>2 DEF flat
    <3>4. \A j \in 1..i : Cardinality(ResultsIn(ss[j])) = 1
      BY <3>1
    <3>5. channel \in Seq(Message)
      BY <1>3
    <3>6. ResultOf(ss, i, c)
      BY ONLY <2>2, <3>3, <3>4, <3>5, InPlace
    <3> QED BY <3>1, <3>2, <3>6 DEF ResultOf
  <2>5. Matched(ms)[i] = ms[m].by
    BY <1>3, <1>7, <2>4, PlacedTyped
  <2> QED BY <1>10, <1>11, <1>14, <2>3, <2>4, <2>5
<1> QED BY <1>15, <1>16, <1>17, <1>18, <1>19 DEF MultiIInv

\* The turn answers.
LEMMA TurnAnswered ==
  ASSUME MultiIInv, FinalizeMulti
  PROVE  MultiIInv'
<1>1. /\ node = "finalize" /\ node' = "idle" /\ records' = Matched(channel)
      /\ told' = [end |-> "answered", task |-> LastHuman(channel)]
      /\ UNCHANGED <<turns, request, channel, subtasks, at, said>>
  BY DEF FinalizeMulti
<1>2. MultiTypeOK /\ TurnRuns /\ Authored /\ MatchedOnce /\ EachToItsSubtask
  BY DEF MultiIInv
<1>3. records' = records
  BY <1>1, <1>2 DEF MatchedOnce
<1>4. LastHuman(channel) \in Requests \cup Parts
  <2>1. channel \in Seq(Message) /\ turns > 0
    BY <1>1, <1>2 DEF MultiTypeOK, TurnRuns
  <2> QED BY <1>2, <2>1, LastHumanIs DEF TurnRuns
<1>5. MultiTypeOK'
  BY <1>1, <1>2, <1>3, <1>4 DEF MultiTypeOK
<1>6. TurnRuns' /\ MatchedOnce'
  BY <1>1, <1>2 DEF TurnRuns, MatchedOnce
<1>7. Authored'
  BY <1>1, <1>2 DEF Authored, ResultsIn
<1>8. EachToItsSubtask'
  BY <1>1, <1>2, <1>3 DEF EachToItsSubtask, FreshChannel, ResultsIn
<1> QED BY <1>5, <1>6, <1>7, <1>8 DEF MultiIInv

\* Nothing that the invariant reads moves.
LEMMA MultiRests ==
  ASSUME MultiIInv, UNCHANGED multiVars
  PROVE  MultiIInv'
<1>1. UNCHANGED <<node, turns, request, channel, subtasks, at, said, records, told>>
  BY DEF multiVars
<1>2. MultiTypeOK /\ TurnRuns /\ Authored /\ MatchedOnce /\ EachToItsSubtask
  BY DEF MultiIInv
<1>3. MultiTypeOK' /\ TurnRuns'
  BY <1>1, <1>2 DEF MultiTypeOK, TurnRuns
<1>4. Authored'
  BY <1>1, <1>2 DEF Authored, ResultsIn, Author
<1>5. MatchedOnce'
  BY <1>1, <1>2 DEF MatchedOnce, Matched, Placed, ResultsIn
<1>6. EachToItsSubtask'
  BY <1>1, <1>2 DEF EachToItsSubtask, FreshChannel, ResultsIn
<1> QED BY <1>3, <1>4, <1>5, <1>6 DEF MultiIInv

\* Every step keeps it.
LEMMA MultiKeeps ==
  ASSUME MultiIInv, [MultiNext]_multiVars
  PROVE  MultiIInv'
<1>1. ASSUME NEW r \in Requests, NEW begins \in {"blank", "checkpoint", "history"},
             StartTurn(r, begins)
      PROVE  MultiIInv'
  BY <1>1, TurnStarts
<1>2. CASE Decompose
  BY <1>2, RequestCut
<1>3. CASE Gather
  BY <1>3, ResultsGathered
<1>4. CASE FinalizeMulti
  BY <1>4, TurnAnswered
<1>5. ASSUME NEW i \in DOMAIN at, WorkerStep(i)
      PROVE  MultiIInv'
  <2>1. CASE ToolsReturn(i)
    <3>1. WorkerMoves(i, "tools", "model") /\ UNCHANGED said
      BY <2>1 DEF ToolsReturn
    <3>2. "model" \in WorkerAt
      BY DEF WorkerAt
    <3> QED BY <3>1, <3>2, WorkerSays
  <2>2. CASE ToolPauses(i)
    <3>1. WorkerMoves(i, "tools", "paused") /\ UNCHANGED said
      BY <2>2 DEF ToolPauses
    <3>2. "paused" \in WorkerAt
      BY DEF WorkerAt
    <3> QED BY <3>1, <3>2, WorkerSays
  <2>3. CASE Resume(i)
    <3>1. WorkerMoves(i, "paused", "tools") /\ UNCHANGED said
      BY <2>3 DEF Resume
    <3>2. "tools" \in WorkerAt
      BY DEF WorkerAt
    <3> QED BY <3>1, <3>2, WorkerSays
  <2>4. CASE MultiWorkerRaises(i)
    BY <2>4, TurnRaised
  <2>5. ASSUME NEW content \in BOOLEAN, WorkerAsks(i, content)
        PROVE  MultiIInv'
    <3>1. /\ WorkerMoves(i, "model", "tools")
          /\ said' = [said EXCEPT ![i] = Append(@, Said(Author(i), content))]
      BY <2>5 DEF WorkerAsks
    <3>2. "tools" \in WorkerAt
      BY DEF WorkerAt
    <3> QED BY <3>1, <3>2, WorkerSays
  <2>6. ASSUME NEW content \in BOOLEAN, WorkerAnswers(i, content)
        PROVE  MultiIInv'
    <3>1. /\ WorkerMoves(i, "model", "done")
          /\ said' = [said EXCEPT ![i] = Append(@, Said(Author(i), content))]
      BY <2>6 DEF WorkerAnswers
    <3>2. "done" \in WorkerAt
      BY DEF WorkerAt
    <3> QED BY <3>1, <3>2, WorkerSays
  <2> QED BY <1>5, <2>1, <2>2, <2>3, <2>4, <2>5, <2>6 DEF WorkerStep
<1>6. CASE UNCHANGED multiVars
  BY <1>6, MultiRests
<1> QED BY <1>1, <1>2, <1>3, <1>4, <1>5, <1>6 DEF MultiNext

-----------------------------------------------------------------------------
(* The theorems.                                                           *)

\* The batches of a plan are as BatchesSound says, whatever the tasks are
\* and depend on: compute_batches fails just when tasks wait for each other
\* (planner.py:87-117).
THEOREM SplitRight == Spec => []BatchesSound
<1>1. Init => PlanIInv
  BY PlanStarts
<1>2. PlanIInv /\ [Next]_vars => PlanIInv'
  BY PlanKeeps
<1>3. PlanIInv => BatchesSound
  BY SoundSplit
<1> QED BY <1>1, <1>2, <1>3, PTL DEF Spec

\* A task is run once, and only behind the tasks it depends on, which are
\* done and collected (plan.py:10-12).
THEOREM RunInOrder == Spec => DependenciesFirst
<1>1. Init => PlanIInv
  BY PlanStarts
<1>2. PlanIInv /\ [Next]_vars => PlanIInv'
  BY PlanKeeps
<1>3. PlanIInv /\ [Next]_vars =>
        [\A t \in Tasks : runs'[t] # runs[t] =>
           /\ runs[t] = 0
           /\ \A d \in plan[t].depends_on : runs[d] = 1 /\ d \notin DOMAIN left]_vars
  BY InOrder
<1> QED BY <1>1, <1>2, <1>3, PTL DEF Spec, DependenciesFirst

\* A turn that has answered names a result for each task, and it is from
\* the task's own worker when no two descriptions are equal
\* (plan.py:148-163).
THEOREM ReportComplete == Spec => []EveryTaskReported
<1>1. Init => PlanIInv
  BY PlanStarts
<1>2. PlanIInv /\ [Next]_vars => PlanIInv'
  BY PlanKeeps
<1>3. PlanIInv => EveryTaskReported
  BY AllReported
<1> QED BY <1>1, <1>2, <1>3, PTL DEF Spec

\* The results up to the first worker that left none or several are given
\* to their own subtasks, over all turns and all plans of the model
\* (multi.py:165-183).
THEOREM ResultsPlaced == MultiSpec => []EachToItsSubtask
<1>1. MultiInit => MultiIInv
  BY MultiStarts
<1>2. MultiIInv /\ [MultiNext]_multiVars => MultiIInv'
  BY MultiKeeps
<1>3. MultiIInv => EachToItsSubtask
  BY DEF MultiIInv
<1> QED BY <1>1, <1>2, <1>3, PTL DEF MultiSpec

\* The variables of both graphs keep their types, whichever one the
\* conversation was started with (main.py:848-891).
THEOREM GraphsTypeCorrect == GraphsSpec => []GraphsTyped
<1>1. GraphsInit => PlanIInv /\ MultiIInv
  BY PlanStarts, MultiStarts DEF GraphsInit
<1>2. PlanIInv /\ MultiIInv /\ [GraphsNext]_<<graph, vars, multiVars>> => PlanIInv' /\ MultiIInv'
  <2> SUFFICES ASSUME PlanIInv, MultiIInv, [GraphsNext]_<<graph, vars, multiVars>>
               PROVE  PlanIInv' /\ MultiIInv'
    OBVIOUS
  <2>1. [Next]_vars /\ [MultiNext]_multiVars
    BY DEF GraphsNext
  <2> QED BY <2>1, PlanKeeps, MultiKeeps
<1>3. PlanIInv /\ MultiIInv => GraphsTyped
  BY DEF PlanIInv, MultiIInv, GraphsTyped
<1> QED BY <1>1, <1>2, <1>3, PTL DEF GraphsSpec
=============================================================================
