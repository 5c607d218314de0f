------------------------------ MODULE Approval ------------------------------
(***************************************************************************)
(* Tool calls that ask a human (GSagent/core/tools/approval.py), from the  *)
(* round of calls the model asks for, through the validation of a shell    *)
(* command (plugins/toolsets/bash/validation.py) and the command guard, to *)
(* the prompts of the command line (main.py, _run_turn).                   *)
(*                                                                         *)
(* The calls of a round run in threads of their own.  An approval is an    *)
(* interrupt of LangGraph: the calls in flight come to rest, the first     *)
(* paused one is shown to the user, and the whole node runs again from its *)
(* start.  All calls of a node share one list of answers, and the n-th     *)
(* interrupt of a run of the node takes the n-th answer, whichever call    *)
(* raises it.  (LangGraph is a library: this much is modelled from its     *)
(* documented behaviour, and marked external.)                             *)
(*                                                                         *)
(* A command is what validate_command tells apart: its segments with the   *)
(* prefixes that match each of them, its form, its arguments, and the      *)
(* prefixes the model suggests.  A tool that runs no shell command is a    *)
(* call without segments.  No caller of the registry registers a static    *)
(* rule or an approval_check, so the mode alone decides the first prompt.  *)
(***************************************************************************)
EXTENDS Integers, Sequences

CONSTANTS
  Prefixes,     \* command prefixes
  Under,        \* Under[p]: the prefixes that match the text p, p included
  AllowList,    \* allow_list of the configuration
  UnsafeAsks,   \* AGENT_BASH_UNSAFE_ARGS_MODE = "approval"
  Commands,     \* commands the model may ask for
  Modes,        \* values hitl_policy.mode may have
  MaxCalls,     \* bound: calls of a round
  MaxIssued     \* bound: calls of all rounds

HitlModes == {"auto", "always", "never"}

Segment == [matches : SUBSET Prefixes,  \* the prefixes that match it
            barred : BOOLEAN]           \* hardcoded block, sensitive path, deny list

\* The raw text of an unparsable command stands as its one segment, which no
\* prefix matches; its arguments are not looked at.
Command == [segments : SUBSET Segment,
            form : {"plain", "compound", "unparsable"},
            args : {"safe", "dynamic", "unsafe"},
            suggested : SUBSET Prefixes,
            present : BOOLEAN,          \* the suggested prefixes occur in it
            guarded : BOOLEAN]          \* CommandGuard blocks it

ASSUME ApprovalAssumption ==
  /\ Under \in [Prefixes -> SUBSET Prefixes]
  /\ \A p \in Prefixes : p \in Under[p]
  /\ AllowList \subseteq Prefixes
  /\ UnsafeAsks \in BOOLEAN
  /\ Commands \subseteq Command
  /\ \A c \in Commands : \A s \in c.segments : \A p \in s.matches : Under[p] \subseteq s.matches
  /\ \A c \in Commands : c.form = "unparsable" =>
       c.args = "safe" /\ \A s \in c.segments : s.matches = {}
  /\ MaxCalls \in Nat \ {0}
  /\ Modes \subseteq HitlModes
  /\ MaxIssued \in Nat

VARIABLES
  mode,       \* hitl_policy.mode
  canPrompt,  \* can_prompt: stdin is a terminal
  approved,   \* registry.approved_prefixes
  saved,      \* the file of approved prefixes
  node,       \* "tools" while a round is under way
  calls,      \* the calls of the round
  pc,         \* where each call is
  offer,      \* prefixes_to_save of each call
  answers,    \* answers given in this round, in order
  counter,    \* interrupts raised in this run of the node
  issued,     \* calls the model has asked for
  past        \* history, for the properties

vars == <<mode, canPrompt, approved, saved, node, calls, pc, offer, answers, counter,
          issued, past>>

Slots == 1..MaxCalls
Rounds == UNION {[1..n -> Commands] : n \in Slots}
Ended == {"done", "paused"}
Places == {"start", "invoke", "ask", "again"} \cup Ended

Past == [shown : SUBSET Prefixes,    \* prefixes the user said yes to
         ran : SUBSET Slots,         \* calls of this round that executed
         yes : SUBSET Slots,         \* calls the user was shown and approved
         no : SUBSET Slots,          \* calls the user was shown and refused
         askers : SUBSET Slots,      \* calls of this round that raised an interrupt
         crowded : BOOLEAN]          \* two calls of one round did, now or before

TypeOK ==
  /\ mode \in Modes
  /\ canPrompt \in BOOLEAN
  /\ approved \subseteq Prefixes /\ saved \subseteq Prefixes
  /\ node \in {"idle", "tools"}
  /\ calls \in Seq(Commands) /\ Len(calls) <= MaxCalls
  /\ pc \in [DOMAIN calls -> Places]
  /\ offer \in [DOMAIN calls -> SUBSET Prefixes]
  /\ answers \in Seq(BOOLEAN)
  /\ counter \in Nat
  /\ issued \in 0..MaxIssued
  /\ past \in Past

Init ==
  /\ mode \in Modes
  /\ canPrompt \in BOOLEAN
  /\ approved = {} /\ saved = {}
  /\ node = "idle"
  /\ calls = <<>> /\ pc = <<>> /\ offer = <<>> /\ answers = <<>>
  /\ counter = 0 /\ issued = 0
  /\ past = [shown |-> {}, ran |-> {}, yes |-> {}, no |-> {}, askers |-> {},
             crowded |-> FALSE]

-----------------------------------------------------------------------------
(* validate_command.                                                       *)

SegmentAllowFirst(s, allow) ==        \* mutant: the allow list is read first
  IF s.matches \cap allow # {} THEN "allowed" ELSE IF s.barred THEN "denied" ELSE "ask"

SegmentVerdict(s, allow) ==
  IF s.barred THEN "denied" ELSE IF s.matches \cap allow # {} THEN "allowed" ELSE "ask"

\* approvals of these are one-time only, says validation.py:575-576
OneTime(c) == c.form # "plain" \/ c.args # "safe"

Verdict(c, allow) ==
  LET said == {SegmentVerdict(s, allow) : s \in c.segments}
      denied == \/ ~c.present
                \/ "denied" \in said
                \/ c.args = "unsafe" /\ ~UnsafeAsks
  IN  IF denied THEN "denied"
      ELSE IF OneTime(c) \/ "ask" \in said THEN "ask" ELSE "allowed"

\* prefixes_needing_approval or, when there are none, suggested_prefixes
ToSaveNone(c, allow) == {}            \* mutant: the approval records nothing

ToSave(c, allow) ==
  LET needing == {p \in c.suggested : Under[p] \cap allow = {}}
  IN  IF OneTime(c) \/ needing = {} THEN c.suggested ELSE needing

EffectiveAllow == AllowList \cup approved

-----------------------------------------------------------------------------
(* A round of tool calls.                                                  *)

StartRoundKeepsOffers(cs) ==          \* mutant: a missing reset
  /\ node = "idle" /\ issued + Len(cs) <= MaxIssued
  /\ node' = "tools"
  /\ issued' = issued + Len(cs)
  /\ calls' = cs
  /\ pc' = [i \in DOMAIN cs |-> "start"]
  /\ answers' = <<>>
  /\ counter' = 0
  /\ past' = [past EXCEPT !.ran = {}, !.yes = {}, !.no = {}, !.askers = {}]
  /\ UNCHANGED <<mode, canPrompt, approved, saved, offer>>

StartRound(cs) ==
  /\ node = "idle" /\ issued + Len(cs) <= MaxIssued
  /\ node' = "tools"
  /\ issued' = issued + Len(cs)
  /\ calls' = cs
  /\ pc' = [i \in DOMAIN cs |-> "start"]
  /\ offer' = [i \in DOMAIN cs |-> {}]
  /\ answers' = <<>>
  /\ counter' = 0
  /\ past' = [past EXCEPT !.ran = {}, !.yes = {}, !.no = {}, !.askers = {}]
  /\ UNCHANGED <<mode, canPrompt, approved, saved>>

At(i, at) == node = "tools" /\ i \in DOMAIN calls /\ pc[i] = at
Goto(i, to) == pc' = [pc EXCEPT ![i] = to]

\* interrupt(): the next answer if there is one, or the call pauses
Interrupt(i, granted) ==
  /\ counter' = counter + 1
  /\ Goto(i, IF counter >= Len(answers) THEN "paused"
             ELSE IF answers[counter + 1] THEN granted ELSE "done")
  /\ LET askers == past.askers \cup {i}
     IN  past' = [past EXCEPT !.askers = askers,
                              !.crowded = @ \/ askers # {i}]

NeedsNoRule(i) ==
  /\ At(i, "start") /\ mode # "always"
  /\ Goto(i, "invoke")
  /\ UNCHANGED <<mode, canPrompt, approved, saved, node, calls, offer, answers, counter,
                 issued, past>>

AskRule(i) ==
  /\ At(i, "start") /\ mode = "always"
  /\ Interrupt(i, "invoke")
  /\ UNCHANGED <<mode, canPrompt, approved, saved, node, calls, offer, answers, issued>>

\* The command runs, or an error text is its result.
Execute(i) == Goto(i, "done") /\ past' = [past EXCEPT !.ran = @ \cup {i}]
Report(i) == Goto(i, "done") /\ UNCHANGED past

\* The tool under its guard: wrap_with_guards, then validate_command.
Outcome(i) ==
  IF calls[i].guarded THEN "denied" ELSE Verdict(calls[i], EffectiveAllow)

Invoke(i) ==
  /\ At(i, "invoke")
  /\ \/ Outcome(i) = "denied" /\ Report(i) /\ UNCHANGED offer
     \/ Outcome(i) = "allowed" /\ Execute(i) /\ UNCHANGED offer
     \/ /\ Outcome(i) = "ask"
        /\ Goto(i, "ask")
        /\ offer' = [offer EXCEPT ![i] = ToSave(calls[i], EffectiveAllow)]
        /\ UNCHANGED past
  /\ UNCHANGED <<mode, canPrompt, approved, saved, node, calls, answers, counter, issued>>

RecordEarly(i) == approved \cup offer[i]      \* mutant: recorded before the answer

Recorded(i) ==
  IF counter < Len(answers) /\ answers[counter + 1] THEN approved \cup offer[i] ELSE approved

AskCommand(i) ==
  /\ At(i, "ask")
  /\ Interrupt(i, "again")
  /\ approved' = Recorded(i)
  /\ UNCHANGED <<mode, canPrompt, saved, node, calls, offer, answers, issued>>

InvokeAgain(i) ==
  /\ At(i, "again")
  /\ IF Outcome(i) = "allowed" THEN Execute(i) ELSE Report(i)
  /\ UNCHANGED <<mode, canPrompt, approved, saved, node, calls, offer, answers, counter,
                 issued>>

FinishRound ==
  /\ node = "tools" /\ \A i \in DOMAIN calls : pc[i] = "done"
  /\ node' = "idle"
  /\ UNCHANGED <<mode, canPrompt, approved, saved, calls, pc, offer, answers, counter,
                 issued, past>>

-----------------------------------------------------------------------------
(* The prompt, and the run of the node that resumes with its answer.       *)

Surfaced(i) ==
  /\ node = "tools" /\ \A j \in DOMAIN calls : pc[j] \in Ended
  /\ i \in DOMAIN calls /\ pc[i] = "paused"
  /\ \A j \in 1..(i - 1) : pc[j] # "paused"

\* mutant: without a terminal the node is resumed with no answer at all
AnsweredIfAsked(yes) == IF canPrompt THEN Append(answers, yes) ELSE answers

Answered(yes) == Append(answers, yes)

Remembered(i) == saved \cup offer[i]

Prompt(i, yes, remember) ==
  /\ Surfaced(i)
  /\ yes => canPrompt
  /\ remember => yes /\ offer[i] # {}
  /\ saved' = IF remember THEN Remembered(i) ELSE saved
  /\ past' = IF yes
             THEN [past EXCEPT !.yes = @ \cup {i}, !.shown = @ \cup offer[i]]
             ELSE [past EXCEPT !.no = @ \cup {i}]
  /\ answers' = Answered(yes)
  /\ pc' = [j \in DOMAIN calls |-> "start"]
  /\ offer' = [j \in DOMAIN calls |-> {}]
  /\ counter' = 0
  /\ UNCHANGED <<mode, canPrompt, approved, node, calls, issued>>

CallStep(i) ==
  NeedsNoRule(i) \/ AskRule(i) \/ Invoke(i) \/ AskCommand(i) \/ InvokeAgain(i)

PromptStep == \E i \in Slots, yes, remember \in BOOLEAN : Prompt(i, yes, remember)

Step == (\E i \in Slots : CallStep(i)) \/ FinishRound \/ PromptStep

Next == Step \/ \E cs \in Rounds : StartRound(cs)

\* Threads run on, and whoever is asked answers; the model need not ask for
\* another round.
Spec == Init /\ [][Next]_vars /\ WF_vars(Step)

-----------------------------------------------------------------------------
(* Properties.                                                             *)

\* A denial is absolute: whatever was approved, in whatever mode and however
\* many calls ask at once, no command with a barred segment or a fabricated
\* prefix, and none the guard blocks, executes (validation.py:416, 557-572).
BarredNeverRuns ==
  \A i \in past.ran :
    /\ calls[i].present /\ ~calls[i].guarded
    /\ \A s \in calls[i].segments : ~s.barred

\* Every prefix a command may run under was in the allow list or was shown to
\* the user, who said yes; what is saved for later sessions always was.
\* (When two calls of a round ask, one of them may take the other's answer
\* and record its own prefixes: approval.py:108 under one list of answers.)
GrantsAsked ==
  /\ saved \subseteq past.shown
  /\ ~past.crowded => approved \subseteq past.shown

\* The model suggested a prefix for every segment, and nothing but the
\* prefixes stands against the command.
Approvable(c) ==
  /\ c.present /\ ~c.guarded /\ ~OneTime(c)
  /\ \A s \in c.segments : ~s.barred /\ s.matches \cap c.suggested # {}

\* While one call asks at a time, the answer counts: a call the user refused
\* never executes, and a plain command whose every prompt was answered yes
\* has executed when the round is over (approval.py:100-116).
AnswerHeeded ==
  ~past.crowded =>
    /\ past.no \cap past.ran = {}
    /\ node = "idle" =>
         \A i \in past.yes \ past.no : Approvable(calls[i]) => i \in past.ran

\* The same of every command that is not denied.  "Recorded; runs again, and
\* validate_command lets it pass", says the comment of approval.py:109.
\* A compound command is asked about whatever is allowed, so it never runs.
ApprovedPasses ==
  ~past.crowded /\ node = "idle" =>
    \A i \in past.yes \ past.no :
      Verdict(calls[i], Prefixes) # "denied" /\ ~calls[i].guarded
      /\ (\A s \in calls[i].segments : s.matches \cap calls[i].suggested # {})
        => i \in past.ran

\* Every round comes to its end, also when nobody can be asked: no call can
\* keep the node asking for ever (main.py:335-370).
RoundEnds == (node = "tools") ~> (node = "idle")
======================================================================================================================================================
