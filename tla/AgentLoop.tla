------------------------------ MODULE AgentLoop ------------------------------
(***************************************************************************)
(* The single-agent graph (GSagent/core/orchestration/graph.py, nodes.py): *)
(* guard_in, agent, tools, guard_out and the edges between them, over the  *)
(* turns of one conversation.  A node and the conditional edge behind it   *)
(* are one superstep, so one action; the agent node is two, since a cancel *)
(* may arrive while the model is answering.                                *)
(*                                                                         *)
(* A list of tool calls is one of a few values, compared as _same_tool_    *)
(* calls compares names and arguments.  Message texts, summaries, usage    *)
(* and audit records are left out; whether tool calls pause for approval   *)
(* is the business of the tools and not of the loop.                       *)
(*                                                                         *)
(* The input a turn starts from is built in a module that is not in the    *)
(* repository.  Either the channels below start blank, or they are what    *)
(* the checkpoint of the previous turn holds: both are allowed.            *)
(***************************************************************************)
EXTENDS Naturals

CONSTANTS
  Calls,      \* lists of tool calls the model may ask for
  NoCalls,    \* the empty list
  MaxSteps,   \* loop.max_steps
  MaxTurns    \* bound: turns of the conversation

ASSUME LoopAssumption ==
  /\ NoCalls \notin Calls
  /\ MaxSteps \in Nat \ {0}
  /\ MaxTurns \in Nat

VARIABLES
  pc,         \* the node that runs next
  state,      \* GraphState
  cancel,     \* cancel_event is set
  turns,      \* turns started
  told,       \* history: ANSWER_END and ERROR events of this turn
  past        \* history of this turn, for the properties

vars == <<pc, state, cancel, turns, told, past>>

None == "none"

GraphState == [iteration : Nat,
               last : Calls \cup {NoCalls},       \* last_tool_calls
               prev : Calls \cup {NoCalls},       \* prev_tool_calls
               streak : Nat,                      \* no_progress_streak
               terminated : {None, "max_steps", "cancelled", "blocked"}]

Blank == [iteration |-> 0, last |-> NoCalls, prev |-> NoCalls, streak |-> 0,
          terminated |-> None]

Past == [start : {"blank", "checkpoint"},   \* what the turn started from
         asked : 0..(MaxSteps + 1),         \* responses of the model
         late : 0..2,                       \* tool rounds since the cancel
         same : 0..4]                       \* rounds of the same calls in a row

TypeOK ==
  /\ pc \in {"idle", "guard_in", "agent", "llm", "tools", "guard_out"}
  /\ state \in GraphState
  /\ cancel \in BOOLEAN
  /\ turns \in 0..MaxTurns
  /\ told \in 0..2
  /\ past \in Past

Init ==
  /\ pc = "idle"
  /\ state = Blank
  /\ cancel = FALSE
  /\ turns = 0
  /\ told = 0
  /\ past = [start |-> "blank", asked |-> 0, late |-> 0, same |-> 0]

\* history counters stop one past what the properties allow
UpTo(n, max) == IF n > max THEN max ELSE n

Tell == told' = UpTo(told + 1, 2)

StartTurn(start) ==
  /\ pc = "idle" /\ turns < MaxTurns
  /\ pc' = "guard_in"
  /\ turns' = turns + 1
  /\ state' = IF start = "blank" THEN Blank ELSE state
  /\ cancel' = FALSE
  /\ told' = 0
  /\ past' = [start |-> start, asked |-> 0, late |-> 0,
              same |-> IF start = "blank" THEN 0 ELSE past.same]

\* route_after_guard_in looks at terminated, whoever set it
GuardIn ==
  /\ pc = "guard_in"
  /\ \E blocked \in BOOLEAN :
       IF blocked
       THEN state' = [state EXCEPT !.terminated = "blocked"] /\ Tell
       ELSE UNCHANGED <<state, told>>
  /\ pc' = IF state'.terminated = None THEN "agent" ELSE "guard_out"
  /\ UNCHANGED <<cancel, turns, past>>

CheckCancelIgnored ==                 \* mutant: cancel_event is not looked at
  /\ pc = "agent"
  /\ pc' = "llm"
  /\ UNCHANGED <<state, cancel, turns, told, past>>

CheckCancel ==
  /\ pc = "agent"
  /\ IF cancel
     THEN /\ state' = [state EXCEPT !.terminated = "cancelled"]
          /\ Tell
          /\ pc' = "guard_out"
     ELSE pc' = "llm" /\ UNCHANGED <<state, told>>
  /\ UNCHANGED <<cancel, turns, past>>

\* no_progress_streak after the model asked for calls c
StreakNeverGrows(c) == 0              \* mutant: the comparison is lost

Streak(c) == IF c = state.prev THEN state.streak + 1 ELSE 0

BreakLate(n) == n > MaxSteps          \* mutant: off by one

OutOfSteps(n) == n >= MaxSteps

CountedNot == state.iteration         \* mutant: iteration is never written back

Counted == state.iteration + 1

Asked(c) == [past EXCEPT !.asked = UpTo(@ + 1, MaxSteps + 1),
                         !.same = IF c = state.prev THEN @ ELSE 0]

\* no tool calls: this is the answer
Answer ==
  /\ pc = "llm"
  /\ Tell
  /\ state' = [state EXCEPT !.iteration = Counted, !.last = NoCalls, !.prev = NoCalls,
                            !.terminated = None]
  /\ past' = [Asked(NoCalls) EXCEPT !.same = 0]
  /\ pc' = "guard_out"
  /\ UNCHANGED <<cancel, turns>>

RequestTools(c) ==
  /\ pc = "llm"
  /\ LET break == Streak(c) >= 3 \/ OutOfSteps(state.iteration + 1)
     IN  /\ state' = [iteration |-> Counted, last |-> c, prev |-> c,
                      streak |-> Streak(c),
                      terminated |-> IF break THEN "max_steps" ELSE None]
         /\ pc' = IF break THEN "guard_out" ELSE "tools"
  /\ past' = Asked(c)
  /\ UNCHANGED <<cancel, turns, told>>

\* The provider or a tool raises: the stream raises, the checkpoint stays as
\* it was, and the caller reports.
Raise ==
  /\ pc \in {"llm", "tools"}
  /\ pc' = "idle"
  /\ Tell
  /\ UNCHANGED <<state, cancel, turns, past>>

ToolsForget ==                        \* mutant: the list is set to None, not to []
  /\ pc = "tools"
  /\ state' = [state EXCEPT !.last = None]
  /\ pc' = "agent"
  /\ UNCHANGED <<cancel, turns, told, past>>

Tools ==
  /\ pc = "tools"
  /\ state' = [state EXCEPT !.last = NoCalls]
  /\ past' = [past EXCEPT !.late = IF cancel THEN UpTo(@ + 1, 2) ELSE @,
                          !.same = UpTo(@ + 1, 4)]
  /\ pc' = "agent"
  /\ UNCHANGED <<cancel, turns, told>>

GuardOutSilent ==                     \* mutant: the broken-off turn says nothing
  /\ pc = "guard_out"
  /\ pc' = "idle"
  /\ UNCHANGED <<state, cancel, turns, told, past>>

\* A turn that was broken off ends with the last content as its answer, or
\* with an error when there is none.
GuardOut ==
  /\ pc = "guard_out"
  /\ IF state.terminated = "max_steps" THEN Tell ELSE UNCHANGED told
  /\ pc' = "idle"
  /\ UNCHANGED <<state, cancel, turns, past>>

CancelTurn ==
  /\ pc # "idle" /\ ~cancel
  /\ cancel' = TRUE
  /\ UNCHANGED <<pc, state, turns, told, past>>

Step ==
  \/ GuardIn \/ CheckCancel \/ Answer \/ Raise \/ Tools \/ GuardOut
  \/ \E c \in Calls : RequestTools(c)

Next == Step \/ CancelTurn \/ \E start \in {"blank", "checkpoint"} : StartTurn(start)

\* A running graph runs on; users need not start or cancel turns.
Spec == Init /\ [][Next]_vars /\ WF_vars(Step)

-----------------------------------------------------------------------------
(* Properties.                                                             *)

\* A turn asks the model at most max_steps times, whatever the checkpoint
\* it started from counts (nodes.py:153 and 274).
StepsBounded == past.asked <= MaxSteps

\* The model cannot have the same tool calls run more than three times in a
\* row, also when a turn continues a checkpoint whose turn was cut short
\* (no_progress_streak, nodes.py:266-273).
NoFourthRound == past.same <= 3

\* After a cancel, tools run at most once more: a round the model had
\* already asked for or was asking for (nodes.py:155-158).
CancelHeeded == past.late <= 1

\* The client hears exactly one ANSWER_END or ERROR of a turn that started
\* blank, however it ended, and never two of any turn.  (A turn that takes
\* over terminated = "cancelled" from a checkpoint says nothing.)
OneOutcome ==
  /\ told <= 1
  /\ pc = "idle" /\ turns > 0 /\ past.start = "blank" => told = 1

\* Every turn ends, however long the model goes on asking for tools.
TurnEnds == (pc # "idle") ~> (pc = "idle")
=============================================================================
