--------------------------- MODULE AgentLoopProofs ---------------------------
(***************************************************************************)
(* The bounds and the single outcome of a turn of the single-agent graph,  *)
(* for any max_steps, any tool calls and any number of turns.              *)
(***************************************************************************)
EXTENDS AgentLoop, TLAPS

Busy == {"guard_in", "agent", "llm", "tools"}

\* the count of the checkpoint is ahead of the turn's own, and a turn whose
\* model may still be asked is below the limit
StepsCounted ==
  /\ past.asked <= state.iteration
  /\ past.asked <= MaxSteps
  /\ pc \in Busy => past.asked < MaxSteps

\* no_progress_streak lags behind the rounds of the same calls by at most
\* one, and tools run only below the limit
RoundsCounted ==
  /\ past.same <= 3
  /\ past.same <= state.streak + 1
  /\ pc = "tools" => past.same <= state.streak /\ state.streak <= 2

\* after a round that ran in spite of a cancel, the agent node is next
LateRound ==
  /\ past.late <= 1
  /\ past.late = 1 => cancel /\ pc \in {"agent", "guard_out", "idle"}

\* who has told the client what, at each node
Told ==
  /\ pc \in Busy => told = 0
  /\ pc = "guard_in" /\ past.start = "blank" => state.terminated = None
  /\ pc = "guard_out" /\ told = 1 => state.terminated # "max_steps"
  /\ pc = "guard_out" /\ past.start = "blank" /\ state.terminated # "max_steps" => told = 1

IInv == TypeOK /\ StepsCounted /\ RoundsCounted /\ LateRound /\ OneOutcome /\ Told

\* Before the first turn nothing is counted.
LEMMA InitInv == Init => IInv
<1> SUFFICES ASSUME Init PROVE IInv
  OBVIOUS
<1> USE LoopAssumption DEF Init
<1>1. state \in GraphState
  BY DEF Blank, GraphState, None
<1>2. past \in Past
  BY DEF Past
<1>3. cancel \in BOOLEAN
  OBVIOUS
<1>4. TypeOK
  BY <1>1, <1>2, <1>3 DEF TypeOK
<1>5. StepsCounted /\ RoundsCounted /\ LateRound
  BY DEF StepsCounted, RoundsCounted, LateRound, Blank, Busy
<1>6. OneOutcome /\ Told
  BY DEF OneOutcome, Told, Busy
<1> QED
  BY <1>4, <1>5, <1>6 DEF IInv

\* What is counted when the model answers keeps the type.
LEMMA AskedTyped == ASSUME TypeOK, NEW c PROVE Asked(c) \in Past
<1>1. UpTo(past.asked + 1, MaxSteps + 1) \in 0..(MaxSteps + 1)
  BY LoopAssumption DEF TypeOK, Past, UpTo
<1>2. CASE c = state.prev
  <2>1. Asked(c) = [past EXCEPT !.asked = UpTo(past.asked + 1, MaxSteps + 1)]
    BY <1>2 DEF Asked, TypeOK, Past
  <2> QED BY <1>1, <2>1 DEF TypeOK, Past
<1>3. CASE c # state.prev
  <2> DEFINE counted == [past EXCEPT !.asked = UpTo(past.asked + 1, MaxSteps + 1)]
  <2>1. Asked(c) = [counted EXCEPT !.same = 0]
    BY <1>3 DEF Asked, TypeOK, Past
  <2>2. counted \in Past
    BY <1>1 DEF TypeOK, Past
  <2>3. 0 \in 0..4
    OBVIOUS
  <2> HIDE DEF counted
  <2> QED BY <2>1, <2>2, <2>3 DEF Past
<1> QED BY <1>2, <1>3

\* Every step keeps the types.
LEMMA StepTyped == ASSUME TypeOK, [Next]_vars PROVE TypeOK'
<1> USE LoopAssumption DEF TypeOK, GraphState, Past, None
<1>1. ASSUME NEW start \in {"blank", "checkpoint"}, StartTurn(start) PROVE TypeOK'
  <2>1. state' \in GraphState
    BY <1>1 DEF StartTurn, Blank
  <2>2. past' \in Past
    BY <1>1 DEF StartTurn
  <2>3. cancel' \in BOOLEAN
    BY <1>1 DEF StartTurn
  <2>4. pc' = "guard_in" /\ turns' \in 0..MaxTurns /\ told' \in 0..2
    BY <1>1 DEF StartTurn
  <2> QED BY <2>1, <2>2, <2>3, <2>4
<1>2. CASE GuardIn
  BY <1>2 DEF GuardIn, Tell, UpTo
<1>3. CASE CheckCancel
  BY <1>3 DEF CheckCancel, Tell, UpTo
<1>4. CASE Answer
  <2>1. state' \in GraphState
    <3>1. state.iteration + 1 \in Nat /\ state \in GraphState
      OBVIOUS
    <3> QED BY <1>4, <3>1 DEF Answer, Counted
  <2>2. past' \in Past
    BY <1>4, AskedTyped DEF Answer
  <2> QED BY <1>4, <2>1, <2>2 DEF Answer, Tell, UpTo
<1>5. ASSUME NEW c \in Calls, RequestTools(c) PROVE TypeOK'
  <2>1. state' \in GraphState
    BY <1>5 DEF RequestTools, Counted, Streak
  <2>2. past' \in Past
    BY <1>5, AskedTyped DEF RequestTools
  <2> QED BY <1>5, <2>1, <2>2 DEF RequestTools
<1>6. CASE Raise
  BY <1>6 DEF Raise, Tell, UpTo
<1>7. CASE Tools
  <2>1. state' \in GraphState
    BY <1>7 DEF Tools
  <2>2. past' \in Past
    <3>1. past \in Past /\ UpTo(past.late + 1, 2) \in 0..2 /\ UpTo(past.same + 1, 4) \in 0..4
      BY DEF UpTo
    <3> QED BY <1>7, <3>1 DEF Tools
  <2> QED BY <1>7, <2>1, <2>2 DEF Tools
<1>8. CASE GuardOut
  BY <1>8 DEF GuardOut, Tell, UpTo
<1>9. CASE CancelTurn
  BY <1>9 DEF CancelTurn
<1>10. CASE UNCHANGED vars
  BY <1>10 DEF vars
<1> QED
  BY <1>1, <1>2, <1>3, <1>4, <1>5, <1>6, <1>7, <1>8, <1>9, <1>10 DEF Next, Step

\* Every step keeps the invariant.
LEMMA StepInv == ASSUME IInv, [Next]_vars PROVE IInv'
<1>t. TypeOK /\ TypeOK'
  BY StepTyped DEF IInv
<1> USE LoopAssumption, <1>t DEF IInv, TypeOK, GraphState, Past, None, Busy,
    StepsCounted, RoundsCounted, LateRound, OneOutcome, Told
<1>1. ASSUME NEW start \in {"blank", "checkpoint"}, StartTurn(start) PROVE IInv'
  BY <1>1 DEF StartTurn, Blank
<1>2. CASE GuardIn
  BY <1>2 DEF GuardIn, Tell, UpTo
<1>3. CASE CheckCancel
  BY <1>3 DEF CheckCancel, Tell, UpTo
<1>4. CASE Answer
  BY <1>4 DEF Answer, Tell, UpTo, Counted, Asked
<1>5. ASSUME NEW c \in Calls, RequestTools(c) PROVE IInv'
  <2> DEFINE break == Streak(c) >= 3 \/ OutOfSteps(state.iteration + 1)
  <2>1. pc = "llm" /\ past' = Asked(c) /\ UNCHANGED <<cancel, turns, told>>
    BY <1>5 DEF RequestTools
  <2>2. state'.iteration = state.iteration + 1 /\ state'.streak = Streak(c)
    BY <1>5 DEF RequestTools, Counted
  <2>3. IF break THEN pc' = "guard_out" /\ state'.terminated = "max_steps"
                 ELSE pc' = "tools" /\ state'.terminated = None
    BY <1>5 DEF RequestTools
  <2>4. StepsCounted'
    BY <2>1, <2>2, <2>3 DEF Asked, UpTo, OutOfSteps
  <2>5. RoundsCounted'
    BY <2>1, <2>2, <2>3 DEF Asked, Streak
  <2>6. LateRound' /\ OneOutcome' /\ Told'
    BY <2>1, <2>3 DEF Asked
  <2> QED BY <2>4, <2>5, <2>6
<1>6. CASE Raise
  BY <1>6 DEF Raise, Tell, UpTo
<1>7. CASE Tools
  BY <1>7 DEF Tools, UpTo
<1>8. CASE GuardOut
  BY <1>8 DEF GuardOut, Tell, UpTo
<1>9. CASE CancelTurn
  BY <1>9 DEF CancelTurn
<1>10. CASE UNCHANGED vars
  BY <1>10 DEF vars
<1> QED
  BY <1>1, <1>2, <1>3, <1>4, <1>5, <1>6, <1>7, <1>8, <1>9, <1>10 DEF Next, Step

\* The invariant holds throughout.
LEMMA Invariant == Spec => []IInv
  BY InitInv, StepInv, PTL DEF Spec

\* Every variable keeps its type, the counters of a turn among them.
THEOREM TypeCorrect == Spec => []TypeOK
<1>1. IInv => TypeOK
  BY DEF IInv
<1> QED
  BY <1>1, Invariant, PTL

\* A turn asks the model at most max_steps times, whatever checkpoint it
\* starts from.
THEOREM Bounded == Spec => []StepsBounded
<1>1. IInv => StepsBounded
  BY DEF IInv, StepsCounted, StepsBounded
<1> QED
  BY <1>1, Invariant, PTL

\* The same tool calls never run a fourth time in a row.
THEOREM LoopsBrokenOff == Spec => []NoFourthRound
<1>1. IInv => NoFourthRound
  BY DEF IInv, RoundsCounted, NoFourthRound
<1> QED
  BY <1>1, Invariant, PTL

\* After a cancel, at most one round of tools runs.
THEOREM CancelWorks == Spec => []CancelHeeded
<1>1. IInv => CancelHeeded
  BY DEF IInv, LateRound, CancelHeeded
<1> QED
  BY <1>1, Invariant, PTL

\* The client hears of a turn's end at most once, and once if it started
\* blank.
THEOREM ToldOnce == Spec => []OneOutcome
<1>1. IInv => OneOutcome
  BY DEF IInv
<1> QED
  BY <1>1, Invariant, PTL
=============================================================================
