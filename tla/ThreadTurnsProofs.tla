-------------------------- MODULE ThreadTurnsProofs --------------------------
(***************************************************************************)
(* What a thread's history and its first turn's streams keep, for any      *)
(* number of turns, events and streams.                                    *)
(***************************************************************************)
EXTENDS ThreadTurns, NaturalsInduction, FiniteSetTheorems, SequenceTheorems, TLAPS

\* turns are numbered as they are posted
Numbered ==
  /\ \A i \in Turns : turn[i].pc = "unposted" <=> i > posted
  /\ \A k \in DOMAIN pushed : pushed[k].turn <= posted

Settled(i) == turn[i].pc \in {"replaced", "done"}

\* the buffer is closed by a turn; without an overlap it is the first one that
\* closes it before any other, and it pushes nothing afterwards
Closed ==
  /\ eof => \E i \in Turns : Ended(i)
  /\ \A s \in Streams : stream[s].pc = "ended" =>
       /\ eof
       /\ ~overlapped => Ended(1) /\ \A k \in DOMAIN items : items[k].turn # 1

Bounded(l, b) == \A k \in DOMAIN l : \A p \in l[k].parts : Rank(p) <= b

\* a turn that does not overlap is the last, and its list misses nothing
LastTurn ==
  ~overlapped =>
    \A i \in Turns : Active(i) =>
      /\ i = posted
      /\ turn[i].pc # "replaced" =>
           /\ \A j \in 1..posted :
                /\ Tells(turn[i].final, UserPart(j))
                /\ Answered(j) => Tells(turn[i].final, AgentPart(j))
           /\ Ordered(turn[i].final)
           /\ Bounded(turn[i].final,
                      IF turn[i].pc = "session" THEN 2 * posted ELSE 2 * posted + 1)

Complete ==
  ~overlapped =>
    /\ \A i \in 1..posted :
         /\ Tells(history, UserPart(i))
         /\ Settled(i) /\ Answered(i) => Tells(history, AgentPart(i))
    /\ Ordered(history)
    /\ Bounded(history, 2 * posted + 1)

IInv == TypeOK /\ Numbered /\ Closed /\ LastTurn /\ Complete

-----------------------------------------------------------------------------
(* Lists.                                                                  *)

\* What is appended is told, with all that was.
LEMMA TellsAppend ==
  ASSUME NEW S, NEW l \in Seq(S), NEW x \in S, NEW p
  PROVE  Tells(Append(l, x), p) <=> Tells(l, p) \/ p \in x.parts
<1>1. /\ DOMAIN Append(l, x) = 1..Len(l) + 1 /\ DOMAIN l = 1..Len(l) /\ Len(l) \in Nat
      /\ Append(l, x)[Len(l) + 1] = x /\ \A k \in 1..Len(l) : Append(l, x)[k] = l[k]
  OBVIOUS
<1> QED
  BY <1>1 DEF Tells

\* Ranks are numbers.
LEMMA RankNat ==
  /\ \A p \in Part : Rank(p) \in Nat
  /\ \A l \in Seq(Message) : \A k \in DOMAIN l : \A p \in l[k].parts : Rank(p) \in Nat
<1>1. ASSUME NEW p \in Part PROVE Rank(p) \in Nat
  <2>1. p.turn \in Nat
    BY ThreadAssumption DEF Part, Turns
  <2> QED
    BY <2>1 DEF Rank
<1>2. \A l \in Seq(Message) : \A k \in DOMAIN l : l[k] \in Message
  OBVIOUS
<1>3. \A m \in Message : m.parts \subseteq Part
  BY DEF Message
<1> QED
  BY <1>1, <1>2, <1>3

\* The parts of a turn and their ranks.
LEMMA Ranks ==
  ASSUME NEW i \in Turns
  PROVE  /\ UserPart(i) \in Part /\ AgentPart(i) \in Part /\ i \in Nat
         /\ Rank(UserPart(i)) = 2 * i /\ Rank(AgentPart(i)) = 2 * i + 1
         /\ User(i) \in Message /\ User(i).parts = {UserPart(i)}
         /\ Agent(i) \in Message /\ Agent(i).parts = {AgentPart(i)}
<1>1. UserPart(i) \in Part /\ AgentPart(i) \in Part /\ i \in Nat
  BY ThreadAssumption DEF UserPart, AgentPart, Part, Turns
<1>2. Rank(UserPart(i)) = 2 * i /\ Rank(AgentPart(i)) = 2 * i + 1
  BY <1>1 DEF UserPart, AgentPart, Rank
<1> QED
  BY <1>1, <1>2 DEF User, Agent, Message

\* A message whose one part ranks above all others may be appended.
LEMMA OrderedAppend ==
  ASSUME NEW l \in Seq(Message), NEW x \in Message, NEW p \in Part, x.parts = {p},
         Ordered(l), NEW b \in Nat, Bounded(l, b), b < Rank(p)
  PROVE  Ordered(Append(l, x)) /\ Bounded(Append(l, x), Rank(p))
<1>1. /\ DOMAIN Append(l, x) = 1..Len(l) + 1 /\ DOMAIN l = 1..Len(l) /\ Len(l) \in Nat
      /\ Append(l, x)[Len(l) + 1] = x
      /\ \A k \in 1..Len(l) : Append(l, x)[k] = l[k]
  OBVIOUS
<1>2. Rank(p) \in Nat /\ \A k \in 1..Len(l) : \A q \in l[k].parts : Rank(q) \in Nat
  BY <1>1, RankNat
<1>3. \A k \in 1..Len(l) : \A q \in l[k].parts : Rank(q) < Rank(p)
  BY <1>1, <1>2 DEF Bounded
<1>4. ASSUME NEW j \in 1..Len(l) + 1, NEW k \in 1..Len(l) + 1, j < k,
             NEW q \in Append(l, x)[j].parts, NEW r \in Append(l, x)[k].parts
      PROVE  Rank(q) < Rank(r)
  <2>1. j \in 1..Len(l) /\ Append(l, x)[j] = l[j]
    BY <1>1, <1>4
  <2>2. CASE k = Len(l) + 1
    <3>1. r = p
      BY <1>1, <1>4, <2>2
    <3> QED
      BY <1>3, <2>1, <3>1
  <2>3. CASE k \in 1..Len(l)
    BY <1>1, <1>4, <2>1, <2>3 DEF Ordered
  <2> QED
    BY <1>1, <2>2, <2>3
<1>5. ASSUME NEW k \in 1..Len(l) + 1, NEW q \in Append(l, x)[k].parts
      PROVE  Rank(q) <= Rank(p)
  <2>1. CASE k = Len(l) + 1
    <3>1. q = p
      BY <1>1, <2>1
    <3> QED
      BY <1>2, <3>1
  <2>2. CASE k \in 1..Len(l)
    BY <1>1, <1>2, <1>3, <2>2
  <2> QED
    BY <1>1, <2>1, <2>2
<1> QED
  BY <1>1, <1>4, <1>5 DEF Ordered, Bounded

\* A list with a summary tells what the whole list does, in its order.
LEMMA Summarized ==
  ASSUME NEW l \in Seq(Message), NEW n \in 0..Len(l)
  PROVE  /\ Summarize(l, n) \in Seq(Message)
         /\ \A p : Tells(Summarize(l, n), p) <=> Tells(l, p)
         /\ Ordered(l) => Ordered(Summarize(l, n))
         /\ \A b : Bounded(l, b) => Bounded(Summarize(l, n), b)
<1>1. CASE n = 0
  BY <1>1 DEF Summarize
<1>2. CASE n # 0
  <2> DEFINE x == [parts |-> UNION {l[k].parts : k \in 1..n}, summary |-> TRUE]
             rest == SubSeq(l, n + 1, Len(l))
             short == <<x>> \o rest
  <2>1. Len(l) \in Nat /\ n \in 1..Len(l) /\ DOMAIN l = 1..Len(l)
    BY <1>2
  <2>2. \A k \in 1..n : l[k] \in Message /\ l[k].parts \subseteq Part
    <3>1. \A k \in 1..n : l[k] \in Message
      BY <2>1
    <3> QED
      BY <3>1 DEF Message
  <2>3. x \in Message
    BY <2>2 DEF Message
  <2>4. /\ rest \in Seq(Message) /\ Len(rest) = Len(l) - n
        /\ \A k \in 1..Len(l) - n : rest[k] = l[n + k]
    <3>1. /\ n + 1 \in Int /\ Len(l) \in Int
          /\ \A k \in n + 1..Len(l) : l[k] \in Message
      BY <2>1
    <3>2. /\ rest \in Seq(Message)
          /\ Len(rest) = IF n + 1 <= Len(l) THEN (Len(l) - (n + 1)) + 1 ELSE 0
          /\ \A k \in 1..(Len(l) - (n + 1)) + 1 : rest[k] = l[((n + 1) + k) - 1]
      BY <3>1, SubSeqProperties
    <3>3. /\ (Len(l) - (n + 1)) + 1 = Len(l) - n
          /\ \A k \in 1..Len(l) - n : ((n + 1) + k) - 1 = n + k
      BY <2>1
    <3>4. Len(l) - n = IF n + 1 <= Len(l) THEN (Len(l) - (n + 1)) + 1 ELSE 0
      <4>1. \A a \in Nat : \A b \in 1..a :
              a - b = IF b + 1 <= a THEN (a - (b + 1)) + 1 ELSE 0
        OBVIOUS
      <4> QED
        BY <2>1, <4>1
    <3> HIDE DEF rest
    <3>5. Len(rest) = Len(l) - n
      BY <3>2, <3>4
    <3>6. \A k \in 1..Len(l) - n : rest[k] = l[n + k]
      <4>1. \A k \in 1..Len(l) - n : rest[k] = l[((n + 1) + k) - 1]
        BY <3>2, <3>3
      <4> QED
        BY <3>3, <4>1
    <3> QED
      BY <3>2, <3>5, <3>6
  <2>5. x.parts = UNION {l[k].parts : k \in 1..n}
    OBVIOUS
  <2>6. Summarize(l, n) = short
    BY <1>2 DEF Summarize
  <2> HIDE DEF x, rest
  <2>7. /\ short \in Seq(Message) /\ DOMAIN short = 1..(Len(l) - n) + 1 /\ short[1] = x
        /\ \A k \in 1..Len(l) - n : short[k + 1] = rest[k]
    <3>1. <<x>> \in Seq(Message) /\ Len(<<x>>) = 1 /\ <<x>>[1] = x
      BY <2>3
    <3>2. short \in Seq(Message) /\ Len(short) = 1 + Len(rest)
      BY <2>4, <3>1
    <3>3. Len(l) - n \in Nat /\ 1 + (Len(l) - n) = (Len(l) - n) + 1
      BY <2>1
    <3>4. DOMAIN short = 1..(Len(l) - n) + 1
      BY <2>4, <3>2, <3>3
    <3>5. short[1] = x
      BY <2>4, <3>1, <3>3
    <3>6. \A k \in 1..Len(l) - n : short[k + 1] = rest[k]
      BY <2>4, <3>1, <3>3
    <3> QED
      BY <3>2, <3>4, <3>5, <3>6
  <2> HIDE DEF short
  <2>8. \A k \in 2..(Len(l) - n) + 1 : short[k] = l[(n + k) - 1]
    <3> TAKE k \in 2..(Len(l) - n) + 1
    <3>1. k - 1 \in 1..Len(l) - n /\ (k - 1) + 1 = k /\ n + (k - 1) = (n + k) - 1
      BY <2>1
    <3> QED
      BY <2>4, <2>7, <3>1
  \* where each message of the one is in the other
  <2>9. ASSUME NEW k \in DOMAIN short, NEW p \in short[k].parts
        PROVE  \E j \in DOMAIN l : /\ p \in l[j].parts
                                   /\ k = 1 => j <= n
                                   /\ k # 1 => j = (n + k) - 1
    <3>1. CASE k = 1
      <4>1. PICK j \in 1..n : p \in l[j].parts
        BY <2>5, <2>7, <2>9, <3>1
      <4>2. j \in DOMAIN l /\ j <= n
        BY <2>1
      <4> QED
        BY <3>1, <4>1, <4>2
    <3>2. CASE k # 1
      <4>1. k \in 2..(Len(l) - n) + 1
        BY <2>1, <2>7, <3>2
      <4>2. (n + k) - 1 \in 1..Len(l)
        BY <2>1, <4>1
      <4> QED
        BY <2>1, <2>8, <2>9, <3>2, <4>1, <4>2
    <3> QED
      BY <3>1, <3>2
  <2>10. ASSUME NEW j \in DOMAIN l, NEW p \in l[j].parts
         PROVE  \E k \in DOMAIN short : p \in short[k].parts
    <3>1. CASE j \in 1..n
      <4>1. p \in x.parts /\ 1 \in DOMAIN short
        BY <2>1, <2>5, <2>7, <3>1
      <4> QED
        BY <2>7, <4>1
    <3>2. CASE j \notin 1..n
      <4>1. (j - n) + 1 \in 2..(Len(l) - n) + 1 /\ (n + ((j - n) + 1)) - 1 = j
        BY <2>1, <3>2
      <4>2. (j - n) + 1 \in DOMAIN short
        BY <2>1, <2>7, <4>1
      <4> QED
        BY <2>8, <4>1, <4>2
    <3> QED
      BY <3>1, <3>2
  <2>11. \A p : Tells(short, p) <=> Tells(l, p)
    BY <2>9, <2>10 DEF Tells
  <2>12. ASSUME Ordered(l) PROVE Ordered(short)
    <3> SUFFICES ASSUME NEW j \in DOMAIN short, NEW k \in DOMAIN short, j < k,
                        NEW p \in short[j].parts, NEW q \in short[k].parts
                 PROVE  Rank(p) < Rank(q)
      BY DEF Ordered
    <3>1. PICK a \in DOMAIN l : p \in l[a].parts /\ (j = 1 => a <= n) /\ (j # 1 => a = (n + j) - 1)
      BY <2>9
    <3>2. PICK c \in DOMAIN l : q \in l[c].parts /\ (k = 1 => c <= n) /\ (k # 1 => c = (n + k) - 1)
      BY <2>9
    <3>3. j \in Nat \ {0} /\ k \in Nat \ {0} /\ n \in Nat /\ a \in Nat /\ c \in Nat
      BY <2>1, <2>7
    <3>4. a < c
      BY <3>1, <3>2, <3>3
    <3> QED
      BY <2>12, <3>1, <3>2, <3>4 DEF Ordered
  <2>13. ASSUME NEW b, Bounded(l, b) PROVE Bounded(short, b)
    BY <2>9, <2>13 DEF Bounded
  <2> QED
    BY <2>6, <2>7, <2>11, <2>12, <2>13
<1> QED
  BY <1>1, <1>2

\* Nothing to be said is missing after a summary and an answer.
LEMMA AnswerAppended ==
  ASSUME NEW l \in Seq(Message), NEW n \in 0..Len(l), NEW i \in Turns,
         Ordered(l), Bounded(l, 2 * i)
  PROVE  LET f == Append(Summarize(l, n), Agent(i))
         IN  /\ f \in Seq(Message)
             /\ \A p : Tells(f, p) <=> Tells(l, p) \/ p = AgentPart(i)
             /\ Ordered(f) /\ Bounded(f, 2 * i + 1)
<1>1. PICK m \in Seq(Message) : m = Summarize(l, n)
  BY Summarized
<1>2. Ordered(m) /\ Bounded(m, 2 * i) /\ \A p : Tells(m, p) <=> Tells(l, p)
  BY <1>1, Summarized
<1>3. 2 * i \in Nat /\ 2 * i < 2 * i + 1
  BY Ranks
<1>4. Ordered(Append(m, Agent(i))) /\ Bounded(Append(m, Agent(i)), 2 * i + 1)
  BY <1>2, <1>3, Ranks, OrderedAppend
<1>5. \A p : Tells(Append(m, Agent(i)), p) <=> Tells(m, p) \/ p = AgentPart(i)
  BY Ranks, TellsAppend
<1>6. Append(m, Agent(i)) \in Seq(Message)
  BY Ranks
<1> QED
  BY <1>1, <1>2, <1>4, <1>5, <1>6

-----------------------------------------------------------------------------
(* What all streams have received.                                         *)

(* Induction, without operators as parameters.                             *)

\* A set of numbers has a least one.
LEMMA LeastNumber ==
  ASSUME NEW S \in SUBSET Nat, S # {}
  PROVE  \E n \in S : \A m \in S : n <= m
<1>1. IsWellFoundedOn(OpToRel(<, Nat), Nat)
  BY NatLessThanWellFounded
<1> DEFINE R == OpToRel(<, Nat)
<1>2. \A m, n \in Nat : m < n => <<m, n>> \in R
  BY DEF OpToRel
<1> HIDE DEF R
<1>3. IsWellFoundedOn(R, Nat)
  BY <1>1 DEF R
<1>4. PICK n \in S : \A m \in S : ~(<<m, n>> \in R)
  <2>1. S \subseteq Nat
    OBVIOUS
  <2>2. \E n \in S : \A m \in S : ~(<<m, n>> \in R)
    BY <1>3, <2>1, WFMin, Zenon
  <2> QED BY <2>2
<1>5. \A m \in S : n <= m
  <2> TAKE m \in S
  <2>1. m \in Nat /\ n \in Nat /\ ~(m < n)
    BY <1>2, <1>4
  <2> QED BY <2>1
<1> QED BY <1>5

\* A set that holds zero and the successors of its members holds all numbers.
LEMMA AllNumbers ==
  ASSUME NEW S \in SUBSET Nat, 0 \in S, \A n \in S : n + 1 \in S
  PROVE  S = Nat
<1> SUFFICES ASSUME Nat \ S # {}
             PROVE  FALSE
  OBVIOUS
<1>1. PICK n \in Nat \ S : \A m \in Nat \ S : n <= m
  BY LeastNumber
<1>2. n # 0
  OBVIOUS
<1>3. n - 1 \in Nat /\ ~(n <= n - 1)
  BY <1>2
<1>4. n - 1 \in S
  BY <1>1, <1>3
<1>5. (n - 1) + 1 = n
  OBVIOUS
<1> QED BY <1>4, <1>5

Picked(T) == CHOOSE x \in T : TRUE

\* The sum over the streams, as the fold defines it: what f gives for all of T
\* but one, and that one's.
Added(st, f, T) ==
  IF T = {} THEN 0
  ELSE Len(st[Picked(T)].got) + f[T \ {Picked(T)}]

Sums(st) == CHOOSE f : f = [T \in SUBSET Streams |-> Added(st, f, T)]

Received == Sums(stream)[Streams]

\* What holds of every set of streams if it holds of one when it does of that
\* without the chosen stream.
LEMMA AllSets ==
  ASSUME NEW good \in SUBSET (SUBSET Streams),
         \A T \in SUBSET Streams :
           T = {} \/ T \ {Picked(T)} \in good => T \in good
  PROVE  good = SUBSET Streams
<1> DEFINE Fit(n) == \A T \in SUBSET Streams : Cardinality(T) = n => T \in good
           fit == {n \in Nat : Fit(n)}
<1>1. \A T \in SUBSET Streams : IsFiniteSet(T) /\ Cardinality(T) \in Nat
  BY ThreadAssumption, FS_Subset, FS_CardinalityType
<1>2. Fit(0)
  BY <1>1, FS_EmptySet
<1>3. ASSUME NEW n \in Nat, Fit(n) PROVE Fit(n + 1)
  <2> SUFFICES ASSUME NEW T \in SUBSET Streams, Cardinality(T) = n + 1
               PROVE  T \in good
    OBVIOUS
  <2>1. PICK x : x = Picked(T) /\ (T # {} => x \in T)
    BY DEF Picked
  <2>2. T # {}
    BY FS_EmptySet
  <2>3. x \in T
    BY <2>1, <2>2
  <2>4. Cardinality(T \ {x}) = n
    BY <1>1, <2>3, FS_RemoveElement
  <2>5. T \ {x} \in good
    BY <1>3, <2>4
  <2> QED
    BY <2>1, <2>5
<1> HIDE DEF Fit
<1>4. \A n \in Nat : Fit(n)
  <2>1. fit \in SUBSET Nat /\ 0 \in fit /\ \A n \in fit : n + 1 \in fit
    BY <1>2, <1>3
  <2>2. fit = Nat
    <3> HIDE DEF fit
    <3> QED
      BY <2>1, AllNumbers
  <2> QED
    BY <2>2
<1>5. \A T \in SUBSET Streams : T \in good
  BY <1>1, <1>4 DEF Fit
<1> QED
  BY <1>5

\* The fold defines a function: what it needs of a set is what it gives for a
\* smaller one.
LEMMA SumExists ==
  ASSUME NEW st
  PROVE  \E f : f = [T \in SUBSET Streams |-> Added(st, f, T)]
<1> DEFINE Small(n) == {T \in SUBSET Streams : Cardinality(T) <= n}
           Good(n) == \E f : f = [T \in Small(n) |-> Added(st, f, T)]
           good == {n \in Nat : Good(n)}
<1>1. \A T \in SUBSET Streams : IsFiniteSet(T) /\ Cardinality(T) \in Nat
  BY ThreadAssumption, FS_Subset, FS_CardinalityType
<1>2. Good(0)
  <2> DEFINE f == [T \in Small(0) |-> 0]
  <2>1. \A T \in Small(0) : Added(st, f, T) = 0
    BY <1>1, FS_EmptySet DEF Added
  <2>2. f = [T \in Small(0) |-> Added(st, f, T)]
    BY <2>1
  <2> QED
    BY <2>2
<1>3. ASSUME NEW n \in Nat, Good(n) PROVE Good(n + 1)
  <2>1. PICK g : g = [T \in Small(n) |-> Added(st, g, T)]
    BY <1>3
  <2> DEFINE f == [T \in Small(n + 1) |-> Added(st, g, T)]
  <2>2. ASSUME NEW T \in Small(n + 1)
        PROVE  Added(st, f, T) = Added(st, g, T)
    <3>1. CASE T = {}
      BY <3>1 DEF Added
    <3>2. CASE T # {}
      <4>1. PICK x : x = Picked(T) /\ (T # {} => x \in T)
        BY DEF Picked
      <4>2. x \in T
        BY <3>2, <4>1
      <4>3. Cardinality(T \ {x}) = Cardinality(T) - 1
        BY <1>1, <4>2, FS_RemoveElement
      <4>4. T \ {x} \in Small(n) /\ T \ {x} \in Small(n + 1)
        BY <1>1, <4>3
      <4>5. f[T \ {x}] = g[T \ {x}]
        <5> HIDE DEF Small
        <5>1. f[T \ {x}] = Added(st, g, T \ {x})
          BY <4>4
        <5>2. g[T \ {x}] = Added(st, g, T \ {x})
          BY <2>1, <4>4
        <5> QED
          BY <5>1, <5>2
      <4> HIDE DEF f
      <4> QED
        BY <3>2, <4>1, <4>5 DEF Added
    <3> QED
      BY <3>1, <3>2
  <2>3. f = [T \in Small(n + 1) |-> Added(st, f, T)]
    <3> HIDE DEF Small
    <3> QED
      BY <2>2
  <2> HIDE DEF f
  <2> QED
    BY <2>3
<1> HIDE DEF Good
<1>4. good = Nat
  <2>1. good \in SUBSET Nat /\ 0 \in good /\ \A n \in good : n + 1 \in good
    BY <1>2, <1>3
  <2> HIDE DEF good
  <2> QED
    BY <2>1, AllNumbers
<1>5. Cardinality(Streams) \in Nat
  BY <1>1
<1>6. Good(Cardinality(Streams))
  BY <1>4, <1>5
<1>7. Small(Cardinality(Streams)) = SUBSET Streams
  BY ThreadAssumption, <1>1, FS_Subset
<1> QED
  BY <1>6, <1>7 DEF Good

\* What the sums are.
LEMMA SumIs ==
  ASSUME NEW st, NEW T \in SUBSET Streams
  PROVE  Sums(st)[T] = Added(st, Sums(st), T)
<1>1. Sums(st) = [U \in SUBSET Streams |-> Added(st, Sums(st), U)]
  BY SumExists DEF Sums
<1> QED
  BY <1>1

\* The sum without the chosen stream, and its part.
LEMMA SumStep ==
  ASSUME NEW st, NEW T, T \in SUBSET Streams, T # {}, NEW x, x = Picked(T)
  PROVE  Sums(st)[T] = Len(st[x].got) + Sums(st)[T \ {x}]
BY SumIs DEF Added

\* What the state's fold gives.
LEMMA FoldIs ==
  MapThenSumSet(LAMBDA s : Len(stream[s].got), Streams) = Received
BY DEF MapThenSumSet, MapThenFoldSet, Received, Sums, Added, Picked

\* Nothing received sums up to nothing.
LEMMA SumZero ==
  ASSUME NEW st, \A s \in Streams : st[s].got = <<>>
  PROVE  Sums(st)[Streams] = 0
<1> DEFINE good == {T \in SUBSET Streams : Sums(st)[T] = 0}
<1>1. ASSUME NEW T \in SUBSET Streams, T = {} \/ T \ {Picked(T)} \in good
      PROVE  T \in good
  <2>1. PICK x : x = Picked(T) /\ (T # {} => x \in T)
    BY DEF Picked
  <2>2. CASE T = {}
    BY <2>2, SumIs DEF Added
  <2>3. CASE T # {} /\ T \ {x} \in good
    <3>1. x \in Streams
      BY <2>1, <2>3
    <3>2. Len(st[x].got) = 0
      BY <3>1
    <3>3. Sums(st)[T] = Len(st[x].got) + Sums(st)[T \ {x}]
      <4>1. T \in SUBSET Streams /\ T # {}
        BY <2>3
      <4> QED
        BY ONLY <2>1, <4>1, SumStep
    <3> QED
      BY <2>3, <3>2, <3>3
  <2> QED
    BY <1>1, <2>1, <2>2, <2>3
<1>2. good \in SUBSET (SUBSET Streams)
  OBVIOUS
<1>3. good = SUBSET Streams
  <2> HIDE DEF good
  <2> QED
    BY <1>1, <1>2, AllSets
<1> QED
  BY <1>3

\* Of st and st2, one stream's differ, by d.
Longer(st, st2, s, d) ==
  /\ \A r \in Streams : Len(st[r].got) \in Nat
  /\ \A r \in Streams : Len(st2[r].got) = Len(st[r].got) + IF r = s THEN d ELSE 0

\* Where one stream has received d more, the sum is d more.
LEMMA SumMoved ==
  ASSUME NEW st, NEW st2, NEW s \in Streams, NEW d \in Nat, Longer(st, st2, s, d)
  PROVE  /\ Sums(st)[Streams] \in Nat
         /\ Sums(st2)[Streams] = Sums(st)[Streams] + d
<1> DEFINE good == {T \in SUBSET Streams :
                      /\ Sums(st)[T] \in Nat
                      /\ Sums(st2)[T] = Sums(st)[T] + IF s \in T THEN d ELSE 0}
<1>1. ASSUME NEW T \in SUBSET Streams, T = {} \/ T \ {Picked(T)} \in good
      PROVE  T \in good
  <2>1. PICK x : x = Picked(T) /\ (T # {} => x \in T)
    BY DEF Picked
  <2>2. CASE T = {}
    <3>1. Sums(st)[T] = 0 /\ Sums(st2)[T] = 0
      BY <2>2, SumIs DEF Added
    <3>2. s \notin T /\ 0 = 0 + 0
      BY <2>2
    <3> QED
      BY <3>1, <3>2
  <2>3. CASE T # {} /\ T \ {x} \in good
    <3>1. x \in T /\ x \in Streams
      BY <2>1, <2>3
    <3>2. /\ Sums(st)[T] = Len(st[x].got) + Sums(st)[T \ {x}]
          /\ Sums(st2)[T] = Len(st2[x].got) + Sums(st2)[T \ {x}]
      <4>1. T \in SUBSET Streams /\ T # {}
        BY <2>3
      <4> QED
        BY ONLY <2>1, <4>1, SumStep
    <3>3. /\ Sums(st)[T \ {x}] \in Nat
          /\ Sums(st2)[T \ {x}] = Sums(st)[T \ {x}] + IF s \in T \ {x} THEN d ELSE 0
      BY <2>3
    <3>4. Len(st[x].got) \in Nat /\ Len(st2[x].got) = Len(st[x].got) + IF x = s THEN d ELSE 0
      BY <3>1 DEF Longer
    <3>7. Sums(st)[T \ {x}] \in Nat /\ Len(st[x].got) \in Nat
      BY <3>3, <3>4
    <3>5. CASE x = s
      <4>1. Len(st2[x].got) = Len(st[x].got) + d /\ Sums(st2)[T \ {x}] = Sums(st)[T \ {x}]
        BY <3>3, <3>4, <3>5
      <4>2. \A a, b, c \in Nat : (a + c) + b = (a + b) + c
        OBVIOUS
      <4>3. Sums(st2)[T] = (Len(st[x].got) + d) + Sums(st)[T \ {x}]
        BY <3>2, <4>1
      <4>4. Sums(st2)[T] = Sums(st)[T] + d
        BY <3>2, <3>7, <4>2, <4>3
      <4>5. Sums(st)[T] \in Nat /\ s \in T
        BY <3>1, <3>2, <3>5, <3>7
      <4> QED
        BY <4>4, <4>5
    <3>6. CASE x # s
      <4>1. Len(st2[x].got) = Len(st[x].got)
        BY <3>4, <3>6
      <4>2. \A a, b, c \in Nat : a + (b + c) = (a + b) + c
        OBVIOUS
      <4>3. CASE s \in T
        <5>1. Sums(st2)[T \ {x}] = Sums(st)[T \ {x}] + d
          BY <3>3, <3>6, <4>3
        <5>2. Sums(st2)[T] = Len(st[x].got) + (Sums(st)[T \ {x}] + d)
          BY <3>2, <4>1, <5>1
        <5>3. Sums(st2)[T] = Sums(st)[T] + d
          BY <3>2, <3>7, <4>2, <5>2
        <5>4. Sums(st)[T] \in Nat
          BY <3>2, <3>7
        <5> QED
          BY <4>3, <5>3, <5>4
      <4>4. CASE s \notin T
        <5>1. Sums(st2)[T \ {x}] = Sums(st)[T \ {x}]
          BY <3>3, <4>4
        <5> QED
          BY <3>2, <3>7, <4>1, <4>4, <5>1
      <4> QED
        BY <4>3, <4>4
    <3> QED
      BY <3>5, <3>6
  <2> QED
    BY <1>1, <2>1, <2>2, <2>3
<1>2. good \in SUBSET (SUBSET Streams)
  OBVIOUS
<1>3. good = SUBSET Streams
  <2> HIDE DEF good
  <2> QED
    BY <1>1, <1>2, AllSets
<1> QED
  BY <1>3

-----------------------------------------------------------------------------
\* Every step keeps the types.
LEMMA TypesKept ==
  ASSUME TypeOK, [Next]_vars
  PROVE  TypeOK'
<1> USE ThreadAssumption DEF TypeOK, Turn, Stream
<1>1. CASE UNCHANGED vars
  BY <1>1 DEF vars
<1>2. ASSUME NEW i \in Turns, SendMessage(i) PROVE TypeOK'
  <2>1. history' \in Seq(Message)
    BY <1>2, Ranks DEF SendMessage
  <2>2. turn' \in [Turns -> Turn]
    BY <1>2, <2>1 DEF SendMessage
  <2>3. posted' \in 0..MaxTurns
    BY <1>2 DEF SendMessage, Turns
  <2> QED
    BY <1>2, <2>1, <2>2, <2>3 DEF SendMessage
<1>3. ASSUME NEW i \in Turns, NEW k \in {"chunk", "answer_end", "error"}, Push(Ev(k, i))
      PROVE  items' \in Seq(Event) /\ pushed' \in Seq(Event)
  BY <1>3 DEF Push, Ev, Event
<1>4. ASSUME NEW i \in Turns, PushChunk(i) PROVE TypeOK'
  BY <1>3, <1>4 DEF PushChunk
<1>5. ASSUME NEW i \in Turns, PushAnswer(i) PROVE TypeOK'
  <2>1. PICK n \in 0..Len(turn[i].final) :
          turn' = [turn EXCEPT ![i].pc = "answered",
                               ![i].final = Append(Summarize(@, n), Agent(i))]
    BY <1>5 DEF PushAnswer
  <2>2. Append(Summarize(turn[i].final, n), Agent(i)) \in Seq(Message)
    <3>1. turn[i].final \in Seq(Message)
      OBVIOUS
    <3>2. Summarize(turn[i].final, n) \in Seq(Message)
      BY <3>1, Summarized
    <3> QED
      BY <3>2, Ranks
  <2>3. turn' \in [Turns -> Turn]
    BY <2>1, <2>2
  <2> QED
    BY <1>3, <1>5, <2>3 DEF PushAnswer
<1>6. ASSUME NEW i \in Turns, FailTurn(i) PROVE TypeOK'
  <2>1. turn' \in [Turns -> Turn]
    BY <1>6 DEF FailTurn
  <2> QED
    BY <1>3, <1>6, <2>1 DEF FailTurn
<1>7. ASSUME NEW i \in Turns, ReplaceHistory(i) PROVE TypeOK'
  <2>1. turn' \in [Turns -> Turn]
    BY <1>7 DEF ReplaceHistory
  <2>2. history' \in Seq(Message)
    BY <1>7 DEF ReplaceHistory
  <2> QED
    BY <1>7, <2>1, <2>2 DEF ReplaceHistory
<1>8. ASSUME NEW i \in Turns, CloseBuffer(i) PROVE TypeOK'
  <2>1. turn' \in [Turns -> Turn]
    BY <1>8 DEF CloseBuffer
  <2> QED
    BY <1>8, <2>1 DEF CloseBuffer
<1>9. ASSUME NEW s \in Streams, OpenStream(s) \/ CheckDone(s) PROVE TypeOK'
  <2>1. \/ stream' = [stream EXCEPT ![s].pc = "open"]
        \/ stream' = [stream EXCEPT ![s].pc = "ended"]
    BY <1>9 DEF OpenStream, CheckDone
  <2>2. stream' \in [Streams -> Stream]
    <3>1. CASE stream' = [stream EXCEPT ![s].pc = "open"]
      BY <3>1
    <3>2. CASE stream' = [stream EXCEPT ![s].pc = "ended"]
      BY <3>2
    <3> QED
      BY <2>1, <3>1, <3>2
  <2> QED
    BY <1>9, <2>2 DEF OpenStream, CheckDone
<1>10. ASSUME NEW s \in Streams, Pop(s) PROVE TypeOK'
  <2>1. CASE items # <<>> /\ items' = Tail(items)
             /\ stream' = [stream EXCEPT ![s].got = Append(@, Head(items))]
    <3>1. items' \in Seq(Event) /\ Head(items) \in Event
      BY <2>1
    <3>2. Append(stream[s].got, Head(items)) \in Seq(Event)
      BY <3>1
    <3>3. stream' \in [Streams -> Stream]
      BY <2>1, <3>2
    <3> QED
      BY <1>10, <3>1, <3>3 DEF Pop
  <2>2. CASE stream' = [stream EXCEPT ![s].pc = "empty"] /\ UNCHANGED items
    <3>1. stream' \in [Streams -> Stream]
      BY <2>2
    <3> QED
      BY <1>10, <2>2, <3>1 DEF Pop
  <2> QED
    BY <1>10, <2>1, <2>2 DEF Pop
<1> QED
  BY <1>1, <1>2, <1>4, <1>5, <1>6, <1>7, <1>9, <1>10, <1>8 DEF Next, TurnStep, StreamStep

\* What a step of a turn's thread changes of it.
LEMMA TurnOnly ==
  ASSUME TypeOK, NEW i \in Turns, TurnStep(i)
  PROVE  /\ Active(i) /\ turn'[i].pc # "unposted"
         /\ \A j \in Turns : j # i => turn'[j] = turn[j]
         /\ UNCHANGED <<posted, stream, overlapped>>
         /\ CloseBuffer(i) \/ (Active(i)' /\ eof' = eof)
<1>1. CASE PushChunk(i)
  BY <1>1 DEF PushChunk, Active
<1>2. CASE PushAnswer(i)
  BY <1>2 DEF PushAnswer, Active, TypeOK, Turn
<1>3. CASE FailTurn(i)
  BY <1>3 DEF FailTurn, Active, TypeOK, Turn
<1>4. CASE ReplaceHistory(i)
  BY <1>4 DEF ReplaceHistory, Active, TypeOK, Turn
<1>5. CASE CloseBuffer(i)
  <2>1. /\ turn' = [turn EXCEPT ![i].pc = "done"] /\ Active(i)
        /\ UNCHANGED <<posted, stream, overlapped>>
    BY <1>5 DEF CloseBuffer, Active
  <2> QED
    BY <1>5, <2>1 DEF TypeOK, Turn
<1> QED
  BY <1>1, <1>2, <1>3, <1>4, <1>5 DEF TurnStep

\* What a push adds to the events.
LEMMA Pushes ==
  ASSUME TypeOK, NEW i \in Turns, NEW kind \in {"chunk", "answer_end", "error"},
         Push(Ev(kind, i))
  PROVE  \A k \in DOMAIN pushed' :
           pushed'[k] = Ev(kind, i) \/ (k \in DOMAIN pushed /\ pushed'[k] = pushed[k])
<1>1. pushed \in Seq(Event) /\ Ev(kind, i) \in Event /\ pushed' = Append(pushed, Ev(kind, i))
  BY DEF TypeOK, Push, Ev, Event
<1>2. /\ DOMAIN pushed' = 1..Len(pushed) + 1 /\ DOMAIN pushed = 1..Len(pushed)
      /\ Len(pushed) \in Nat /\ pushed'[Len(pushed) + 1] = Ev(kind, i)
      /\ \A k \in 1..Len(pushed) : pushed'[k] = pushed[k]
  BY <1>1
<1> QED
  BY <1>2

\* Turns stay numbered.
LEMMA NumberedKept ==
  ASSUME TypeOK, Numbered, [Next]_vars
  PROVE  Numbered'
<1> USE ThreadAssumption
<1>1. CASE UNCHANGED <<turn, posted, pushed>>
  BY <1>1 DEF Numbered
<1>2. ASSUME NEW i \in Turns, SendMessage(i) PROVE Numbered'
  <2>1. posted \in Nat /\ posted' = posted + 1 /\ posted' = i /\ pushed' = pushed
    BY <1>2 DEF SendMessage, TypeOK
  <2>2. \A k \in DOMAIN pushed : pushed[k].turn \in Nat
    <3>1. \A k \in DOMAIN pushed : pushed[k] \in Event
      BY DEF TypeOK
    <3> QED
      BY <3>1 DEF Event, Turns
  <2>3. \A j \in Turns : turn'[j].pc = IF j = i THEN "session" ELSE turn[j].pc
    BY <1>2 DEF SendMessage, TypeOK
  <2> QED
    BY <2>1, <2>2, <2>3 DEF Numbered, Turns
<1>3. ASSUME NEW i \in Turns, TurnStep(i) PROVE Numbered'
  <2>1. i <= posted /\ posted' = posted
    <3>1. Active(i) /\ posted' = posted
      BY <1>3, TurnOnly
    <3>2. i \in Nat /\ posted \in Nat /\ ~(i > posted)
      BY <3>1 DEF Numbered, Active, Turns, TypeOK
    <3> QED
      BY <3>1, <3>2
  <2>2. \A j \in Turns : turn'[j].pc = "unposted" <=> turn[j].pc = "unposted"
    BY <1>3, TurnOnly DEF Active
  <2>3. \/ pushed' = pushed
        \/ \E kind \in {"chunk", "answer_end", "error"} : Push(Ev(kind, i))
    BY <1>3 DEF TurnStep, PushChunk, PushAnswer, FailTurn, ReplaceHistory, CloseBuffer
  <2>4. \A k \in DOMAIN pushed' : pushed'[k].turn <= posted
    <3>1. \A kind : Ev(kind, i).turn = i
      BY DEF Ev
    <3> QED
      BY <2>1, <2>3, <3>1, Pushes DEF Numbered
  <2> QED
    BY <2>1, <2>2, <2>4 DEF Numbered
<1> QED
  BY <1>1, <1>2, <1>3
     DEF Next, vars, StreamStep, OpenStream, Pop, CheckDone

\* No stream ends before a turn has closed the buffer, the first one if turns
\* do not overlap.
LEMMA ClosedKept ==
  ASSUME TypeOK, Numbered, Closed, LastTurn, [Next]_vars
  PROVE  Closed'
<1> USE ThreadAssumption
<1>1. CASE UNCHANGED vars
  BY <1>1 DEF Closed, vars, Ended
<1>2. ASSUME NEW i \in Turns, SendMessage(i) PROVE Closed'
  <2>1. /\ posted \in Nat /\ posted' = posted + 1 /\ posted' = i
        /\ UNCHANGED <<items, eof, stream>> /\ (overlapped => overlapped')
    BY <1>2 DEF SendMessage, TypeOK
  <2>2. \A j \in Turns : Ended(j) => j # i
    BY <2>1 DEF Numbered, Ended, Turns
  <2>3. \A j \in Turns : Ended(j) => Ended(j)'
    BY <1>2, <2>2 DEF Ended, SendMessage, TypeOK
  <2>4. 1 \in Turns
    BY DEF Turns
  <2> QED
    BY <2>1, <2>3, <2>4 DEF Closed
<1>3. ASSUME NEW i \in Turns, TurnStep(i) PROVE Closed'
  <2>1. /\ Active(i) /\ UNCHANGED <<stream, overlapped>>
        /\ \A j \in Turns : j # i => turn'[j] = turn[j]
    BY <1>3, TurnOnly
  <2>2. \A j \in Turns : Ended(j) => j # i /\ Ended(j)'
    BY <2>1 DEF Ended, Active
  <2>3. \/ items' = items
        \/ \E kind \in {"chunk", "answer_end", "error"} : items' = Append(items, Ev(kind, i))
    BY <1>3 DEF TurnStep, PushChunk, PushAnswer, FailTurn, ReplaceHistory, CloseBuffer, Push
  <2>4. ASSUME i # 1, \A k \in DOMAIN items : items[k].turn # 1
        PROVE  \A k \in DOMAIN items' : items'[k].turn # 1
    <3>1. CASE items' = items
      BY <2>4, <3>1
    <3>2. ASSUME NEW kind \in {"chunk", "answer_end", "error"},
                 items' = Append(items, Ev(kind, i))
          PROVE  \A k \in DOMAIN items' : items'[k].turn # 1
      <4>1. items \in Seq(Event) /\ Ev(kind, i) \in Event /\ Ev(kind, i).turn = i
        BY DEF TypeOK, Ev, Event
      <4>2. /\ DOMAIN items' = 1..Len(items) + 1 /\ DOMAIN items = 1..Len(items)
            /\ Len(items) \in Nat /\ items'[Len(items) + 1] = Ev(kind, i)
            /\ \A k \in 1..Len(items) : items'[k] = items[k]
        BY <3>2, <4>1
      <4> QED
        BY <2>4, <4>1, <4>2
    <3> QED
      BY <2>3, <3>1, <3>2
  <2>5. 1 \in Turns
    BY DEF Turns
  <2>6. \/ eof' = eof
        \/ eof' /\ Ended(i)'
    <3>1. CASE CloseBuffer(i)
      BY <3>1 DEF CloseBuffer, Ended, TypeOK, Turn
    <3> QED
      BY <1>3, <3>1, TurnOnly
  <2>7. eof' => \E j \in Turns : Ended(j)'
    BY <2>2, <2>6 DEF Closed
  <2>8. ASSUME NEW s \in Streams, stream'[s].pc = "ended"
        PROVE  /\ eof'
               /\ ~overlapped' => Ended(1)' /\ \A k \in DOMAIN items' : items'[k].turn # 1
    <3>1. stream[s].pc = "ended" /\ eof /\ eof'
      BY <2>1, <2>6, <2>8 DEF Closed
    <3>2. ~overlapped' => Ended(1) /\ \A k \in DOMAIN items : items[k].turn # 1
      BY <2>1, <3>1 DEF Closed
    <3> QED
      BY <2>2, <2>4, <2>5, <3>1, <3>2
  <2> QED
    BY <2>7, <2>8 DEF Closed
<1>4. ASSUME NEW s \in Streams, OpenStream(s) \/ Pop(s) \/ CheckDone(s) PROVE Closed'
  <2>1. UNCHANGED <<eof, turn, posted, overlapped>>
    BY <1>4 DEF OpenStream, Pop, CheckDone
  <2>2. \A r \in Streams : stream'[r].pc = "ended" =>
          stream[r].pc = "ended" \/ (eof /\ items' = <<>>)
    BY <1>4 DEF OpenStream, Pop, CheckDone, Done, TypeOK, Stream
  <2>3. items' = items \/ (items # <<>> /\ items' = Tail(items))
    BY <1>4 DEF OpenStream, Pop, CheckDone
  <2>4. (\A k \in DOMAIN items : items[k].turn # 1)
          => \A k \in DOMAIN items' : items'[k].turn # 1
    <3>1. CASE items # <<>> /\ items' = Tail(items)
      <4>1. items \in Seq(Event)
        BY DEF TypeOK
      <4>2. /\ DOMAIN items = 1..Len(items) /\ Len(items) \in Nat /\ Len(items) > 0
            /\ DOMAIN Tail(items) = 1..Len(items) - 1
            /\ \A k \in 1..Len(items) - 1 : Tail(items)[k] = items[k + 1]
        BY <3>1, <4>1
      <4>3. \A k \in 1..Len(items) - 1 : k + 1 \in DOMAIN items
        BY <4>2
      <4> QED
        BY <3>1, <4>2, <4>3
    <3> QED
      BY <2>3, <3>1
  \* the first turn ends before any other is posted
  <2>5. eof /\ ~overlapped => Ended(1)
    <3> SUFFICES ASSUME eof, ~overlapped PROVE Ended(1)
      OBVIOUS
    <3>1. PICK i \in Turns : Ended(i)
      BY DEF Closed
    <3>2. posted \in Nat /\ i \in Nat \ {0} /\ ~(i > posted) /\ 1 \in Turns
      BY <3>1 DEF Numbered, Ended, TypeOK, Turns
    <3>3. turn[1].pc # "unposted" /\ turn[1].pc \in
            {"unposted", "session", "answered", "failed", "replaced", "done"}
      BY <3>2 DEF Numbered, TypeOK, Turn
    <3>4. CASE i = 1
      BY <3>1, <3>4
    <3>5. CASE i # 1
      <4>1. posted # 1
        BY <3>2, <3>5
      <4>2. ~Active(1)
        BY <3>2, <4>1 DEF LastTurn
      <4> QED
        BY <3>3, <4>2 DEF Active, Ended
    <3> QED
      BY <3>4, <3>5
  <2>6. DOMAIN <<>> = {}
    OBVIOUS
  <2> QED
    BY <2>1, <2>2, <2>4, <2>5, <2>6 DEF Closed, Ended
<1> QED
  BY <1>1, <1>2, <1>3, <1>4 DEF Next, StreamStep

-----------------------------------------------------------------------------
(* The history.                                                            *)

\* Only an answer answers, and only a turn that was posted.
LEMMA Answers ==
  ASSUME TypeOK, Numbered, NEW i \in Turns, NEW kind \in {"chunk", "answer_end", "error"},
         Push(Ev(kind, i))
  PROVE  \A j \in Turns : Answered(j)' => Answered(j) \/ (kind = "answer_end" /\ j = i)
<1>1. ASSUME NEW j \in Turns, NEW k \in DOMAIN pushed', pushed'[k] = Ev("answer_end", j)
      PROVE  Answered(j) \/ (kind = "answer_end" /\ j = i)
  <2>1. CASE pushed'[k] = Ev(kind, i)
    BY <1>1, <2>1 DEF Ev
  <2>2. CASE k \in DOMAIN pushed /\ pushed'[k] = pushed[k]
    BY <1>1, <2>2 DEF Answered
  <2> QED
    BY <2>1, <2>2, Pushes
<1> QED
  BY <1>1 DEF Answered

\* A turn that begins after the others takes the whole history with it.
LEMMA SendKeeps ==
  ASSUME TypeOK, Numbered, LastTurn, Complete, NEW i \in Turns, SendMessage(i)
  PROVE  LastTurn' /\ Complete'
<1> SUFFICES ASSUME ~overlapped' PROVE LastTurn' /\ Complete'
  BY DEF LastTurn, Complete
<1>1. ~overlapped /\ \A j \in Turns : ~Active(j)
  BY DEF SendMessage
<1>2. /\ posted \in Nat /\ i = posted + 1 /\ posted' = i /\ pushed' = pushed
      /\ history' = Append(history, User(i)) /\ history \in Seq(Message)
  BY DEF SendMessage, TypeOK
<1>3. /\ turn'[i].pc = "session" /\ turn'[i].final = history'
      /\ \A j \in Turns : j # i => turn'[j] = turn[j]
  BY DEF SendMessage, TypeOK
<1>4. PICK h : h = Append(history, User(i)) /\ history' = h
  BY <1>2
<1>5. Ordered(h) /\ Bounded(h, 2 * i)
  <2>1. 2 * posted + 1 < 2 * i /\ 2 * posted + 1 \in Nat
    BY <1>2
  <2>2. Ordered(history) /\ Bounded(history, 2 * posted + 1)
    BY <1>1 DEF Complete
  <2>3. \A l \in Seq(Message) : Ordered(l) /\ Bounded(l, 2 * posted + 1)
          => Ordered(Append(l, User(i))) /\ Bounded(Append(l, User(i)), 2 * i)
    BY <2>1, Ranks, OrderedAppend
  <2> QED
    BY <1>2, <2>2, <2>3, <1>4
<1>6. \A j \in 1..posted : j \in Turns /\ Settled(j)
  <2>1. \A j \in 1..posted : j \in Turns /\ turn[j].pc # "unposted"
    BY <1>2, ThreadAssumption DEF Numbered, Turns
  <2>2. \A j \in Turns : turn[j].pc \in {"unposted", "done"}
    BY <1>1 DEF Active, TypeOK, Turn
  <2> QED
    BY <2>1, <2>2 DEF Settled
<1>7. ~Answered(i)
  BY <1>2 DEF Answered, Ev, Numbered
<1>8. \A j \in 1..i : /\ Tells(h, UserPart(j))
                      /\ Answered(j) => Tells(h, AgentPart(j))
  <2>1. \A j \in 1..i : j \in 1..posted \/ j = i
    BY <1>2
  <2>2. \A p : Tells(h, p) <=> Tells(history, p) \/ p = UserPart(i)
    BY <1>2, <1>4, Ranks, TellsAppend
  <2> QED
    BY <1>1, <1>6, <1>7, <2>1, <2>2 DEF Complete
<1>9. \A j : Answered(j)' <=> Answered(j)
  BY <1>2 DEF Answered
<1>10. Complete'
  <2>1. Bounded(h, 2 * i + 1)
    <3>1. h \in Seq(Message) /\ 2 * i \in Nat
      BY <1>2, <1>4, Ranks
    <3>2. \A k \in DOMAIN h : \A p \in h[k].parts : Rank(p) \in Nat
      BY <3>1, RankNat
    <3> QED
      BY <1>5, <3>1, <3>2 DEF Bounded
  <2>2. 1..posted' = 1..i /\ 2 * posted' + 1 = 2 * i + 1
    BY <1>2
  <2>3. \A j \in 1..posted' : /\ Tells(h, UserPart(j))
                              /\ Settled(j)' /\ Answered(j)' => Tells(h, AgentPart(j))
    BY <1>8, <1>9, <2>2
  <2>4. Bounded(h, 2 * posted' + 1)
    BY <2>1, <2>2
  <2> QED
    BY <1>5, <1>4, <2>3, <2>4 DEF Complete
<1>11. LastTurn'
  <2>1. \A j \in Turns : Active(j)' => j = i
    BY <1>1, <1>3 DEF Active
  <2>2. 1..posted' = 1..i /\ 2 * posted' = 2 * i
    BY <1>2
  <2>3. \A j \in 1..posted' : /\ Tells(h, UserPart(j))
                              /\ Answered(j)' => Tells(h, AgentPart(j))
    BY <1>3, <1>8, <1>9, <2>2
  <2>4. /\ Ordered(h)
        /\ Bounded(h, IF turn'[i].pc = "session" THEN 2 * posted' ELSE 2 * posted' + 1)
    BY <1>3, <1>5, <2>2
  <2> QED
    BY <1>2, <1>3, <1>4, <2>1, <2>3, <2>4 DEF LastTurn
<1> QED
  BY <1>10, <1>11

\* The last turn's list gains its answer, and becomes the history.
LEMMA TurnKeeps ==
  ASSUME TypeOK, Numbered, LastTurn, Complete, NEW i \in Turns, TurnStep(i)
  PROVE  LastTurn' /\ Complete'
<1> SUFFICES ASSUME ~overlapped' PROVE LastTurn' /\ Complete'
  BY DEF LastTurn, Complete
<1> DEFINE f == turn[i].final
           bound == IF turn[i].pc = "session" THEN 2 * posted ELSE 2 * posted + 1
<1>1. /\ Active(i) /\ ~overlapped /\ posted' = posted /\ posted \in Nat
      /\ \A j \in Turns : j # i => turn'[j] = turn[j]
  BY TurnOnly DEF TypeOK
<1>2. i = posted /\ f \in Seq(Message)
  BY <1>1 DEF LastTurn, TypeOK, Turn
<1>3. turn[i].pc # "replaced" =>
        /\ Ordered(f) /\ Bounded(f, bound)
        /\ \A j \in 1..posted : /\ Tells(f, UserPart(j))
                                /\ Answered(j) => Tells(f, AgentPart(j))
  BY <1>1 DEF LastTurn
<1>4. \A j \in 1..posted : j \in Turns
  BY <1>1, ThreadAssumption DEF Turns, TypeOK
<1>5. \A j \in Turns : j # i => ~Active(j) /\ ~Active(j)' /\ (Settled(j)' <=> Settled(j))
  BY <1>1, <1>2 DEF LastTurn, Active, Settled
<1> HIDE DEF f
<1>6. CASE PushChunk(i) \/ FailTurn(i)
  <2>1. PICK kind \in {"chunk", "error"} : Push(Ev(kind, i))
    BY <1>6 DEF PushChunk, FailTurn
  <2>2. \A j \in Turns : Answered(j)' => Answered(j)
    BY <2>1, Answers
  <2>3. /\ turn'[i].final = f /\ (turn'[i].pc = "session" => turn[i].pc = "session")
        /\ history' = history /\ ~Settled(i)' /\ turn[i].pc # "replaced"
    BY <1>6 DEF PushChunk, FailTurn, TypeOK, Turn, Settled, f
  <2>4. Complete'
    BY <1>1, <1>2, <1>4, <1>5, <2>2, <2>3 DEF Complete
  <2>5. LastTurn'
    <3>1. \A j \in Turns : Active(j)' => j = i
      BY <1>5
    <3>2. \A k \in DOMAIN f : \A p \in f[k].parts : Rank(p) \in Nat
      BY <1>2, RankNat
    <3>3. Bounded(f, IF turn'[i].pc = "session" THEN 2 * posted ELSE 2 * posted + 1)
      BY <1>1, <1>3, <2>3, <3>2 DEF Bounded
    <3> QED
      BY <1>1, <1>2, <1>3, <1>4, <2>2, <2>3, <3>1, <3>3 DEF LastTurn
  <2> QED
    BY <2>4, <2>5
<1>7. CASE PushAnswer(i)
  <2>1. \A j \in Turns : Answered(j)' => Answered(j) \/ j = i
    BY <1>7, Answers DEF PushAnswer
  <2>2. PICK n \in 0..Len(f) :
          turn' = [turn EXCEPT ![i].pc = "answered",
                               ![i].final = Append(Summarize(@, n), Agent(i))]
    BY <1>7 DEF PushAnswer, f
  <2>3. turn[i].pc = "session" /\ history' = history
    BY <1>7 DEF PushAnswer
  <2>4. PICK g : g = Append(Summarize(f, n), Agent(i))
    OBVIOUS
  <2>5. turn'[i].final = g /\ turn'[i].pc = "answered" /\ ~Settled(i)'
    BY <2>2, <2>4 DEF TypeOK, Turn, Settled, f
  <2>6. Bounded(f, 2 * i)
    BY <1>2, <1>3, <2>3
  <2>7. /\ Ordered(g) /\ Bounded(g, 2 * i + 1)
        /\ \A p : Tells(g, p) <=> Tells(f, p) \/ p = AgentPart(i)
    BY <1>2, <1>3, <2>3, <2>4, <2>6, AnswerAppended
  <2>8. Complete'
    BY <1>1, <1>2, <1>4, <1>5, <2>1, <2>3, <2>5 DEF Complete
  <2>9. \A j \in 1..posted : /\ Tells(g, UserPart(j))
                             /\ Answered(j)' => Tells(g, AgentPart(j))
    BY <1>3, <1>4, <2>1, <2>3, <2>7
  <2>10. LastTurn'
    <3>1. \A j \in Turns : Active(j)' => j = i
      BY <1>5
    <3> QED
      BY <1>1, <1>2, <2>5, <2>7, <2>9, <3>1 DEF LastTurn
  <2> QED
    BY <2>8, <2>10
<1>8. CASE ReplaceHistory(i)
  <2>1. /\ history' = f /\ pushed' = pushed /\ turn'[i].pc = "replaced"
        /\ turn[i].pc # "replaced"
    BY <1>8 DEF ReplaceHistory, TypeOK, f
  <2>2. \A j : Answered(j)' <=> Answered(j)
    BY <2>1 DEF Answered
  <2>3. Bounded(f, 2 * posted + 1)
    <3>1. \A k \in DOMAIN f : \A p \in f[k].parts : Rank(p) \in Nat
      BY <1>2, RankNat
    <3> QED
      BY <1>1, <1>3, <2>1, <3>1 DEF Bounded
  <2>4. Complete'
    BY <1>1, <1>3, <2>1, <2>2, <2>3 DEF Complete
  <2>5. LastTurn'
    BY <1>1, <1>2, <1>5, <2>1 DEF LastTurn
  <2> QED
    BY <2>4, <2>5
<1>9. CASE CloseBuffer(i)
  <2>1. /\ history' = history /\ pushed' = pushed /\ ~Active(i)' /\ Settled(i)
    BY <1>9 DEF CloseBuffer, TypeOK, Turn, Active, Settled
  <2>2. \A j : Answered(j)' <=> Answered(j)
    BY <2>1 DEF Answered
  <2>3. Complete'
    BY <1>1, <1>4, <1>5, <2>1, <2>2 DEF Complete
  <2>4. LastTurn'
    BY <1>5, <2>1 DEF LastTurn
  <2> QED
    BY <2>3, <2>4
<1> QED
  BY <1>6, <1>7, <1>8, <1>9 DEF TurnStep

\* Streams do not touch it.
LEMMA StreamKeeps ==
  ASSUME LastTurn, Complete, UNCHANGED <<history, turn, posted, pushed, overlapped>>
  PROVE  LastTurn' /\ Complete'
BY DEF LastTurn, Complete, Active, Settled, Answered

\* Nothing is posted at first.
LEMMA Begins ==
  Init => IInv
<1> SUFFICES ASSUME Init PROVE IInv
  OBVIOUS
<1>1. TypeOK
  <2>1. turn \in [Turns -> Turn]
    BY DEF Init, Turn
  <2>2. stream \in [Streams -> Stream]
    BY DEF Init, Stream
  <2>3. history \in Seq(Message) /\ items \in Seq(Event) /\ pushed \in Seq(Event)
    BY DEF Init
  <2>4. posted \in 0..MaxTurns
    BY ThreadAssumption DEF Init
  <2>5. eof \in BOOLEAN /\ overlapped \in BOOLEAN
    BY DEF Init
  <2> QED
    BY <2>1, <2>2, <2>3, <2>4, <2>5 DEF TypeOK
<1>2. Numbered /\ Closed
  BY ThreadAssumption DEF Init, Numbered, Closed, Turns
<1>3. LastTurn /\ Complete
  BY DEF Init, LastTurn, Complete, Active, Ordered, Bounded
<1> QED
  BY <1>1, <1>2, <1>3 DEF IInv

\* The invariant is inductive.
LEMMA Kept ==
  IInv /\ [Next]_vars => IInv'
<1> SUFFICES ASSUME IInv, [Next]_vars PROVE IInv'
  OBVIOUS
<1>1. TypeOK' /\ Numbered' /\ Closed'
  BY TypesKept, NumberedKept, ClosedKept DEF IInv
<1>2. LastTurn' /\ Complete'
  BY SendKeeps, TurnKeeps, StreamKeeps
     DEF IInv, Next, vars, StreamStep, OpenStream, Pop, CheckDone
<1> QED
  BY <1>1, <1>2 DEF IInv

-----------------------------------------------------------------------------
(* The events.                                                             *)

\* What is buffered is what no stream has received yet.
Buffered ==
  /\ Received \in Nat
  /\ Len(pushed) = Received + Len(items)
  /\ items = SubSeq(pushed, Received + 1, Len(pushed))

\* A stream that no other has taken an event from has received all that is
\* no longer buffered, in order.
Alone ==
  \A s \in Streams :
    (\A r \in Streams \ {s} : stream[r].got = <<>>) => stream[s].got \o items = pushed

\* What is appended to a list is appended to each of its ends.
LEMMA EndAppend ==
  ASSUME NEW S, NEW l \in Seq(S), NEW e \in S, NEW n \in Nat, n <= Len(l)
  PROVE  SubSeq(Append(l, e), n + 1, Len(Append(l, e))) = Append(SubSeq(l, n + 1, Len(l)), e)
<1> DEFINE longer == SubSeq(Append(l, e), n + 1, Len(Append(l, e)))
           end == SubSeq(l, n + 1, Len(l))
<1>1. Append(l, e) \in Seq(S) /\ Len(Append(l, e)) = Len(l) + 1 /\ Len(l) \in Nat
  OBVIOUS
<1>2. /\ longer \in Seq(S) /\ Len(longer) = (Len(l) + 1) - n
      /\ \A k \in 1..(Len(l) + 1) - n : longer[k] = Append(l, e)[n + k]
  BY <1>1
<1>3. /\ end \in Seq(S) /\ Len(end) = Len(l) - n
      /\ \A k \in 1..Len(l) - n : end[k] = l[n + k]
  BY <1>1
<1>4. /\ \A k \in 1..Len(l) - n : Append(l, e)[n + k] = l[n + k]
      /\ Append(l, e)[n + ((Len(l) - n) + 1)] = e
  BY <1>1
<1> HIDE DEF longer, end
<1>5. Append(end, e) \in Seq(S) /\ Len(Append(end, e)) = (Len(l) + 1) - n
  BY <1>1, <1>3
<1>6. ASSUME NEW k \in 1..(Len(l) + 1) - n PROVE longer[k] = Append(end, e)[k]
  <2>1. CASE k = (Len(l) - n) + 1
    <3>1. Append(end, e)[k] = e
      BY <1>1, <1>3, <2>1
    <3>2. longer[k] = Append(l, e)[n + k]
      BY <1>2
    <3> QED
      BY <1>4, <2>1, <3>1, <3>2
  <2>2. CASE k \in 1..Len(l) - n
    <3>1. Append(end, e)[k] = end[k]
      BY <1>1, <1>3, <2>2
    <3>2. end[k] = l[n + k]
      BY <1>3, <2>2
    <3>3. longer[k] = Append(l, e)[n + k]
      BY <1>2
    <3>4. Append(l, e)[n + k] = l[n + k]
      BY <1>4, <2>2
    <3> QED
      BY <3>1, <3>2, <3>3, <3>4
  <2>3. Len(l) - n \in Nat /\ (Len(l) + 1) - n = (Len(l) - n) + 1
    BY <1>1
  <2>4. \A a \in Nat : \A b \in 1..a + 1 : b = a + 1 \/ b \in 1..a
    OBVIOUS
  <2> QED
    BY <2>1, <2>2, <2>3, <2>4
<1>7. longer = Append(end, e)
  BY <1>2, <1>5, <1>6, SeqEqual
<1> QED
  BY <1>7 DEF longer, end

\* What is appended to the second of two lists is appended to both.
LEMMA AppendRight ==
  ASSUME NEW S, NEW l \in Seq(S), NEW m \in Seq(S), NEW e \in S
  PROVE  l \o Append(m, e) = Append(l \o m, e)
<1>1. <<e>> \in Seq(S) /\ l \o m \in Seq(S)
  BY ConcatProperties
<1>2. Append(m, e) = m \o <<e>> /\ Append(l \o m, e) = (l \o m) \o <<e>>
  BY <1>1, AppendIsConcat
<1>3. (l \o m) \o <<e>> = l \o (m \o <<e>>)
  BY <1>1, ConcatAssociative
<1> QED
  BY <1>2, <1>3

\* The first of the second of two lists may be the last of the first.
LEMMA HeadMoved ==
  ASSUME NEW S, NEW l \in Seq(S), NEW m \in Seq(S), m # <<>>
  PROVE  Append(l, Head(m)) \o Tail(m) = l \o m
<1>1. Head(m) \in S /\ Tail(m) \in Seq(S) /\ <<Head(m)>> \in Seq(S)
  OBVIOUS
<1>2. Append(l, Head(m)) = l \o <<Head(m)>>
  BY <1>1, AppendIsConcat
<1>3. (l \o <<Head(m)>>) \o Tail(m) = l \o (<<Head(m)>> \o Tail(m))
  BY <1>1, ConcatAssociative
<1>4. <<Head(m)>> \o Tail(m) = m
  OBVIOUS
<1> QED
  BY <1>2, <1>3, <1>4

\* An end without its first is the end one later.
LEMMA EndTail ==
  ASSUME NEW S, NEW l \in Seq(S), NEW n \in Nat, n < Len(l)
  PROVE  /\ Tail(SubSeq(l, n + 1, Len(l))) = SubSeq(l, n + 2, Len(l))
         /\ Len(SubSeq(l, n + 1, Len(l))) = Len(l) - n
OBVIOUS

\* What streams have received stays the same while they receive nothing.
LEMMA ReceivedSame ==
  ASSUME TypeOK, \A s \in Streams : stream'[s].got = stream[s].got, Received \in Nat
  PROVE  Received' = Received
<1>1. CASE Streams = {}
  <2>1. Sums(stream)[Streams] = 0 /\ Sums(stream')[Streams] = 0
    BY <1>1, SumZero
  <2> QED
    BY <2>1 DEF Received
<1>2. CASE Streams # {}
  <2>1. PICK s \in Streams : TRUE
    BY <1>2
  <2>2. \A r \in Streams : Len(stream[r].got) \in Nat
    BY DEF TypeOK, Stream
  <2>3. \A r \in Streams : Len(stream'[r].got) = Len(stream[r].got) + IF r = s THEN 0 ELSE 0
    BY <2>2
  <2>4. PICK st, st2, d : st = stream /\ st2 = stream' /\ d = 0
    OBVIOUS
  <2>5. Longer(st, st2, s, d)
    BY <2>2, <2>3, <2>4 DEF Longer
  <2>6. s \in Streams /\ d \in Nat
    BY <2>1, <2>4
  <2>7. Sums(st)[Streams] \in Nat /\ Sums(st2)[Streams] = Sums(st)[Streams] + d
    BY ONLY <2>5, <2>6, SumMoved
  <2> QED
    BY <2>4, <2>7 DEF Received
<1> QED
  BY <1>1, <1>2

\* Every step keeps both.
LEMMA EventsKept ==
  ASSUME TypeOK, TypeOK', Buffered, Alone, [Next]_vars
  PROVE  Buffered' /\ Alone'
<1>1. CASE UNCHANGED <<items, pushed>> /\ \A s \in Streams : stream'[s].got = stream[s].got
  <2>1. Received' = Received
    BY <1>1, ReceivedSame DEF Buffered
  <2>2. Buffered'
    BY <1>1, <2>1 DEF Buffered
  <2>3. Alone'
    BY <1>1 DEF Alone
  <2> QED
    BY <2>2, <2>3
<1>2. ASSUME NEW i \in Turns, NEW kind \in {"chunk", "answer_end", "error"},
             Push(Ev(kind, i)), stream' = stream
      PROVE  Buffered' /\ Alone'
  <2>1. PICK e : e = Ev(kind, i)
    OBVIOUS
  <2>2. e \in Event
    BY <2>1 DEF Ev, Event
  <2>3. items' = Append(items, e) /\ pushed' = Append(pushed, e)
    BY <1>2, <2>1 DEF Push
  <2>4. items \in Seq(Event) /\ pushed \in Seq(Event)
    BY DEF TypeOK
  <2>5. Received' = Received /\ Received \in Nat
    BY <1>2 DEF Received, Buffered
  <2>6. Buffered'
    <3>1. Received <= Len(pushed)
      BY <2>4 DEF Buffered
    <3>2. items' = SubSeq(pushed', Received + 1, Len(pushed'))
      BY <2>2, <2>3, <2>4, <2>5, <3>1, EndAppend DEF Buffered
    <3>3. Len(pushed') = Received + Len(items')
      BY <2>2, <2>3, <2>4, <2>5 DEF Buffered
    <3> QED
      BY <2>5, <3>2, <3>3 DEF Buffered
  <2>7. Alone'
    <3> SUFFICES ASSUME NEW s \in Streams, \A r \in Streams \ {s} : stream[r].got = <<>>
                 PROVE  stream[s].got \o items' = pushed'
      BY <1>2 DEF Alone
    <3>1. stream[s].got \in Seq(Event) /\ stream[s].got \o items = pushed
      BY DEF TypeOK, Stream, Alone
    <3>2. stream[s].got \o Append(items, e) = Append(stream[s].got \o items, e)
      <4>1. PICK g : g = stream[s].got
        OBVIOUS
      <4>2. g \in Seq(Event)
        BY <3>1, <4>1
      <4>3. g \o Append(items, e) = Append(g \o items, e)
        BY ONLY <2>2, <2>4, <4>2, AppendRight
      <4> QED
        BY <4>1, <4>3
    <3> QED
      BY <2>3, <3>1, <3>2
  <2> QED
    BY <2>6, <2>7
<1>3. ASSUME NEW s \in Streams, items # <<>>, items' = Tail(items), pushed' = pushed,
             stream' = [stream EXCEPT ![s].got = Append(@, Head(items))]
      PROVE  Buffered' /\ Alone'
  <2>1. items \in Seq(Event) /\ pushed \in Seq(Event) /\ Head(items) \in Event
    BY <1>3 DEF TypeOK
  <2>2. \A r \in Streams : stream[r].got \in Seq(Event)
    BY DEF TypeOK, Stream
  <2>3. \A r \in Streams :
          stream'[r].got = IF r = s THEN Append(stream[s].got, Head(items)) ELSE stream[r].got
    BY <1>3 DEF TypeOK, Stream
  <2>4. PICK st, st2 : st = stream /\ st2 = stream'
    OBVIOUS
  <2>8. \A r \in Streams : Len(stream[r].got) \in Nat
    BY <2>2
  <2>9. ASSUME NEW r \in Streams
        PROVE  Len(stream'[r].got) = Len(stream[r].got) + IF r = s THEN 1 ELSE 0
    <3>1. CASE r = s
      <4>1. Len(Append(stream[s].got, Head(items))) = Len(stream[s].got) + 1
        BY <2>1, <2>2
      <4> QED
        BY <2>3, <3>1, <4>1
    <3>2. CASE r # s
      BY <2>3, <2>8, <3>2
    <3> QED
      BY <3>1, <3>2
  <2>10. Longer(st, st2, s, 1)
    BY <2>4, <2>8, <2>9 DEF Longer
  <2>5. Received' = Received + 1 /\ Received \in Nat
    <3>1. s \in Streams /\ 1 \in Nat
      OBVIOUS
    <3>2. Sums(st2)[Streams] = Sums(st)[Streams] + 1
      BY ONLY <2>10, <3>1, SumMoved
    <3> QED
      BY <2>4, <3>2 DEF Received, Buffered
  <2>6. Buffered'
    <3>1. Len(items) \in Nat /\ Len(items) > 0 /\ Len(pushed) \in Nat /\ Len(items') = Len(items) - 1
      BY <1>3, <2>1
    <3>2. Received < Len(pushed)
      BY <2>5, <3>1 DEF Buffered
    <3>3. items' = SubSeq(pushed, Received + 2, Len(pushed))
      BY <1>3, <2>1, <2>5, <3>2, EndTail DEF Buffered
    <3>4. Received' + 1 = Received + 2 /\ Received' \in Nat
      BY <2>5
    <3>5. Len(pushed) = Received + Len(items) /\ pushed' = pushed
      BY <1>3 DEF Buffered
    <3>6. Len(pushed') = Received' + Len(items')
      BY <2>5, <3>1, <3>5
    <3> QED
      BY <1>3, <3>3, <3>4, <3>6 DEF Buffered
  <2>7. Alone'
    <3> SUFFICES ASSUME NEW r \in Streams, \A q \in Streams \ {r} : stream'[q].got = <<>>
                 PROVE  stream'[r].got \o items' = pushed'
      BY DEF Alone
    <3>1. r = s
      <4>1. Append(stream[s].got, Head(items)) # <<>>
        BY <2>1, <2>2, AppendProperties
      <4>2. stream'[s].got # <<>>
        BY <2>3, <4>1
      <4> QED
        BY <4>2
    <3>2. stream[s].got \o items = pushed
      BY <2>3, <3>1 DEF Alone
    <3>3. Append(stream[s].got, Head(items)) \o Tail(items) = stream[s].got \o items
      BY <1>3, <2>1, <2>2, HeadMoved
    <3> QED
      BY <1>3, <2>3, <3>1, <3>2, <3>3
  <2> QED
    BY <2>6, <2>7
<1>4. ASSUME NEW i \in Turns, SendMessage(i) \/ TurnStep(i) PROVE Buffered' /\ Alone'
  <2>1. stream' = stream
    BY <1>4 DEF SendMessage, TurnStep, PushChunk, PushAnswer, FailTurn,
           ReplaceHistory, CloseBuffer
  <2>2. \/ UNCHANGED <<items, pushed>>
        \/ \E kind \in {"chunk", "answer_end", "error"} : Push(Ev(kind, i))
    BY <1>4 DEF SendMessage, TurnStep, PushChunk, PushAnswer, FailTurn,
           ReplaceHistory, CloseBuffer
  <2> QED
    BY <1>1, <1>2, <2>1, <2>2
<1>5. ASSUME NEW s \in Streams, OpenStream(s) \/ CheckDone(s) PROVE Buffered' /\ Alone'
  <2>1. PICK pc : stream' = [stream EXCEPT ![s].pc = pc]
    BY <1>5 DEF OpenStream, CheckDone
  <2>2. \A r \in Streams : stream'[r].got = stream[r].got
    BY <2>1 DEF TypeOK, Stream
  <2>3. UNCHANGED <<items, pushed>>
    BY <1>5 DEF OpenStream, CheckDone
  <2> QED
    BY <1>1, <2>2, <2>3
<1>6. ASSUME NEW s \in Streams, Pop(s) PROVE Buffered' /\ Alone'
  <2>1. CASE items = <<>>
    <3>1. UNCHANGED <<items, pushed>> /\ stream' = [stream EXCEPT ![s].pc = "empty"]
      BY <1>6, <2>1 DEF Pop
    <3>2. \A r \in Streams : stream'[r].got = stream[r].got
      BY <3>1 DEF TypeOK, Stream
    <3> QED
      BY <1>1, <3>1, <3>2
  <2>2. CASE items # <<>>
    BY <1>3, <1>6, <2>2 DEF Pop
  <2> QED
    BY <2>1, <2>2
<1> QED
  BY <1>1, <1>4, <1>5, <1>6 DEF Next, StreamStep, vars

\* Nothing is pushed and nothing received at first.
LEMMA NoEvents ==
  Init => Buffered /\ Alone
<1> SUFFICES ASSUME Init PROVE Buffered /\ Alone
  OBVIOUS
<1>1. \A s \in Streams : stream[s].got = <<>>
  BY DEF Init
<1>2. Received = 0
  BY <1>1, SumZero DEF Received
<1>3. items = <<>> /\ pushed = <<>>
  BY DEF Init
<1>4. Buffered
  BY <1>2, <1>3 DEF Buffered
<1>5. <<>> \o <<>> = <<>>
  OBVIOUS
<1> QED
  BY <1>1, <1>3, <1>4, <1>5 DEF Alone

-----------------------------------------------------------------------------
(* The theorems.                                                           *)

\* Types, for any turns and streams.
THEOREM TypeCorrect == Spec => []TypeOK
<1>1. IInv => TypeOK
  BY DEF IInv
<1> QED
  BY <1>1, Begins, Kept, PTL DEF Spec

\* No stream ends before some turn has; without an overlap, not before the
\* first one nor with an event of it left.
THEOREM FirstStreamed == Spec => []FirstTurnStreamed
<1>1. IInv => FirstTurnStreamed
  BY DEF IInv, Closed, FirstTurnStreamed
<1> QED
  BY <1>1, Begins, Kept, PTL DEF Spec

\* Without an overlap no message of any turn is out of order or lost, but to a
\* summary.
THEOREM HistoryWhole == Spec => []HistoryComplete
<1>1. IInv => HistoryComplete
  BY DEF IInv, Complete, HistoryComplete, Settled, Ended
<1> QED
  BY <1>1, Begins, Kept, PTL DEF Spec

\* No event is lost, handed out twice or out of order, however many streams
\* take events while turns push them.
THEOREM EventsOnce == Spec => []ExactlyOnce
<1>1. Init => IInv /\ Buffered /\ Alone
  BY Begins, NoEvents
<1>2. IInv /\ Buffered /\ Alone /\ [Next]_vars => (IInv /\ Buffered /\ Alone)'
  BY Kept, EventsKept DEF IInv
<1>3. Buffered /\ Alone => ExactlyOnce
  BY FoldIs DEF Buffered, Alone, ExactlyOnce
<1> QED
  BY <1>1, <1>2, <1>3, PTL DEF Spec
=============================================================================
