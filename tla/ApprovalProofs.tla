--------------------------- MODULE ApprovalProofs ---------------------------
(***************************************************************************)
(* Proofs about Approval, for any commands, prefixes, lists and modes, any *)
(* number of calls in a round, and any answers.                            *)
(***************************************************************************)
EXTENDS Approval, SequenceTheorems, TLAPS

USE DEF vars

-----------------------------------------------------------------------------
(* Types.                                                                  *)

\* What is offered to be saved are prefixes.
LEMMA ToSaveType ==
  ASSUME NEW c \in Commands, NEW allow
  PROVE  ToSave(c, allow) \subseteq Prefixes
<1>1. c \in Command
  BY ApprovalAssumption
<1>2. c.suggested \subseteq Prefixes
  BY <1>1 DEF Command
<1> QED
  BY <1>2 DEF ToSave

\* A round is a sequence of at most MaxCalls commands.
LEMMA RoundType ==
  ASSUME NEW cs \in Rounds
  PROVE  cs \in Seq(Commands) /\ Len(cs) <= MaxCalls /\ Len(cs) \in Nat
<1>1. PICK n \in Slots : cs \in [1..n -> Commands]
  BY DEF Rounds
<1>2. n \in Nat /\ n <= MaxCalls
  BY ApprovalAssumption DEF Slots
<1>3. cs \in Seq(Commands) /\ Len(cs) = n
  BY <1>1, <1>2
<1> QED
  BY <1>2, <1>3

LEMMA TypeInit ==
  Init => TypeOK
<1> SUFFICES ASSUME Init PROVE TypeOK
  OBVIOUS
<1>1. calls \in Seq(Commands) /\ Len(calls) = 0 /\ DOMAIN calls = {}
  BY DEF Init
<1>2. /\ pc \in [DOMAIN calls -> Places]
      /\ offer \in [DOMAIN calls -> SUBSET Prefixes]
  BY <1>1 DEF Init
<1>3. past \in Past
  BY DEF Init, Past
<1> QED
  BY <1>1, <1>2, <1>3, ApprovalAssumption DEF Init, TypeOK

-----------------------------------------------------------------------------
(* Denials.                                                                *)

\* A command that may run is not barred: no list of allowed prefixes makes
\* up for a barred segment (validation.py:436-485, 554-572).
LEMMA AllowedIsNotBarred ==
  ASSUME NEW c, NEW allow, Verdict(c, allow) = "allowed"
  PROVE  c.present /\ \A s \in c.segments : ~s.barred
<1>1. c.present /\ "denied" \notin {SegmentVerdict(s, allow) : s \in c.segments}
  BY DEF Verdict
<1> QED
  BY <1>1 DEF SegmentVerdict

\* So a call that executes is none of those (registry.py:143-156).
LEMMA ExecutesUnbarred ==
  ASSUME NEW i, Outcome(i) = "allowed"
  PROVE  /\ calls[i].present /\ ~calls[i].guarded
         /\ \A s \in calls[i].segments : ~s.barred
<1>1. ~calls[i].guarded /\ Verdict(calls[i], EffectiveAllow) = "allowed"
  BY DEF Outcome
<1> QED
  BY <1>1, AllowedIsNotBarred

-----------------------------------------------------------------------------
(* The inductive invariant, step by step.                                  *)

IInv == TypeOK /\ BarredNeverRuns /\ saved \subseteq past.shown

LEMMA InvInit ==
  Init => IInv
<1> SUFFICES ASSUME Init PROVE IInv
  OBVIOUS
<1>1. TypeOK
  BY TypeInit
<1>2. BarredNeverRuns /\ saved \subseteq past.shown
  BY DEF Init, BarredNeverRuns
<1> QED
  BY <1>1, <1>2 DEF IInv

LEMMA StartRoundStep ==
  ASSUME IInv, NEW cs \in Rounds, StartRound(cs)
  PROVE  IInv'
<1> USE DEF IInv
<1>1. cs \in Seq(Commands) /\ Len(cs) <= MaxCalls /\ Len(cs) \in Nat
  BY RoundType
<1>2. past' \in Past /\ past'.ran = {} /\ past'.shown = past.shown
  BY DEF StartRound, TypeOK, Past
<1>3. issued' \in 0..MaxIssued
  BY <1>1, ApprovalAssumption DEF StartRound, TypeOK
<1>4. /\ calls' = cs /\ answers' = <<>> /\ counter' = 0
      /\ pc' \in [DOMAIN cs -> Places]
      /\ offer' \in [DOMAIN cs -> SUBSET Prefixes]
  BY DEF StartRound, Places
<1>5. TypeOK'
  BY <1>1, <1>2, <1>3, <1>4 DEF StartRound, TypeOK
<1> QED
  BY <1>2, <1>5 DEF StartRound, BarredNeverRuns

\* What the steps of a call have in common: they leave the round alone.
LEMMA CallFrame ==
  ASSUME IInv, NEW i \in Slots, i \in DOMAIN calls,
         NEW to \in Places, Goto(i, to),
         UNCHANGED <<mode, canPrompt, saved, node, calls, answers, issued>>,
         approved' \subseteq Prefixes,
         offer' \in [DOMAIN calls -> SUBSET Prefixes],
         counter' \in Nat,
         past' \in Past, past'.shown = past.shown,
         \/ past'.ran = past.ran
         \/ past'.ran = past.ran \cup {i} /\ Outcome(i) = "allowed"
  PROVE  IInv'
<1> USE DEF IInv
<1>1. pc' \in [DOMAIN calls -> Places]
  BY DEF Goto, TypeOK
<1>2. TypeOK'
  BY <1>1 DEF TypeOK
<1>3. BarredNeverRuns'
  BY ExecutesUnbarred DEF BarredNeverRuns
<1> QED
  BY <1>2, <1>3

LEMMA InterruptFrame ==
  ASSUME IInv, NEW i \in Slots, NEW to \in {"invoke", "again"}, Interrupt(i, to)
  PROVE  /\ counter' \in Nat /\ past' \in Past
         /\ past'.shown = past.shown /\ past'.ran = past.ran
         /\ \E at \in Places : Goto(i, at)
<1>1. counter' \in Nat
  BY DEF IInv, TypeOK, Interrupt
<1>2. past' \in Past /\ past'.shown = past.shown /\ past'.ran = past.ran
  BY DEF IInv, TypeOK, Interrupt, Past
<1>3. \E at \in Places : Goto(i, at)
  BY DEF Interrupt, Places, Ended
<1> QED
  BY <1>1, <1>2, <1>3

LEMMA ExecuteFrame ==
  ASSUME IInv, NEW i \in Slots, Execute(i)
  PROVE  /\ past' \in Past /\ past'.shown = past.shown
         /\ past'.ran = past.ran \cup {i}
         /\ Goto(i, "done")
BY DEF IInv, TypeOK, Execute, Past

LEMMA CallStepInv ==
  ASSUME IInv, NEW i \in Slots, CallStep(i)
  PROVE  IInv'
<1>0. i \in DOMAIN calls
  BY DEF CallStep, NeedsNoRule, AskRule, Invoke, AskCommand, InvokeAgain, At
<1>t. /\ approved \subseteq Prefixes /\ counter \in Nat /\ past \in Past
      /\ offer \in [DOMAIN calls -> SUBSET Prefixes] /\ calls[i] \in Commands
  BY <1>0 DEF IInv, TypeOK
<1>p. "invoke" \in Places /\ "ask" \in Places /\ "done" \in Places
  BY DEF Places, Ended
<1>1. CASE NeedsNoRule(i)
  <2>1. Goto(i, "invoke") /\ UNCHANGED <<approved, offer, counter, past>>
    BY <1>1 DEF NeedsNoRule
  <2>2. UNCHANGED <<mode, canPrompt, saved, node, calls, answers, issued>>
    BY <1>1 DEF NeedsNoRule
  <2> QED
    BY <1>0, <1>t, <1>p, <2>1, <2>2, CallFrame
<1>2. CASE AskRule(i)
  <2>1. Interrupt(i, "invoke") /\ UNCHANGED <<approved, offer>>
    BY <1>2 DEF AskRule
  <2>2. UNCHANGED <<mode, canPrompt, saved, node, calls, answers, issued>>
    BY <1>2 DEF AskRule
  <2>3. PICK at \in Places : Goto(i, at)
    BY <2>1, InterruptFrame
  <2>4. counter' \in Nat /\ past' \in Past /\ past'.shown = past.shown /\ past'.ran = past.ran
    BY <2>1, InterruptFrame
  <2> QED
    BY <1>0, <1>t, <2>1, <2>2, <2>3, <2>4, CallFrame
<1>3. CASE Invoke(i)
  <2>0. UNCHANGED <<mode, canPrompt, saved, node, calls, answers, issued>>
        /\ UNCHANGED <<approved, counter>>
    BY <1>3 DEF Invoke
  <2>1. CASE Report(i) /\ UNCHANGED offer
    <3>1. Goto(i, "done") /\ UNCHANGED past
      BY <2>1 DEF Report
    <3> QED
      BY <1>0, <1>t, <1>p, <2>0, <2>1, <3>1, CallFrame
  <2>2. CASE Outcome(i) = "allowed" /\ Execute(i) /\ UNCHANGED offer
    <3>1. /\ past' \in Past /\ past'.shown = past.shown
          /\ past'.ran = past.ran \cup {i} /\ Goto(i, "done")
      BY <2>2, ExecuteFrame
    <3> QED
      BY <1>0, <1>t, <1>p, <2>0, <2>2, <3>1, CallFrame
  <2>3. CASE /\ Goto(i, "ask")
             /\ offer' = [offer EXCEPT ![i] = ToSave(calls[i], EffectiveAllow)]
             /\ UNCHANGED past
    <3>1. offer' \in [DOMAIN calls -> SUBSET Prefixes]
      BY <1>t, <2>3, ToSaveType
    <3> QED
      BY <1>0, <1>t, <1>p, <2>0, <2>3, <3>1, CallFrame
  <2> QED
    BY <1>3, <2>1, <2>2, <2>3 DEF Invoke
<1>4. CASE AskCommand(i)
  <2>1. Interrupt(i, "again") /\ UNCHANGED offer
    BY <1>4 DEF AskCommand
  <2>2. UNCHANGED <<mode, canPrompt, saved, node, calls, answers, issued>>
    BY <1>4 DEF AskCommand
  <2>3. PICK at \in Places : Goto(i, at)
    BY <2>1, InterruptFrame
  <2>4. counter' \in Nat /\ past' \in Past /\ past'.shown = past.shown /\ past'.ran = past.ran
    BY <2>1, InterruptFrame
  <2>5. approved' \subseteq Prefixes
    BY <1>0, <1>4, <1>t DEF AskCommand, Recorded
  <2> QED
    BY <1>0, <1>t, <2>1, <2>2, <2>3, <2>4, <2>5, CallFrame
<1>5. CASE InvokeAgain(i)
  <2>0. UNCHANGED <<mode, canPrompt, saved, node, calls, answers, issued>>
        /\ UNCHANGED <<approved, offer, counter>>
    BY <1>5 DEF InvokeAgain
  <2>1. CASE Outcome(i) = "allowed" /\ Execute(i)
    <3>1. /\ past' \in Past /\ past'.shown = past.shown
          /\ past'.ran = past.ran \cup {i} /\ Goto(i, "done")
      BY <2>1, ExecuteFrame
    <3> QED
      BY <1>0, <1>t, <1>p, <2>0, <2>1, <3>1, CallFrame
  <2>2. CASE Report(i)
    <3>1. Goto(i, "done") /\ UNCHANGED past
      BY <2>2 DEF Report
    <3> QED
      BY <1>0, <1>t, <1>p, <2>0, <3>1, CallFrame
  <2> QED
    BY <1>5, <2>1, <2>2 DEF InvokeAgain
<1> QED
  BY <1>1, <1>2, <1>3, <1>4, <1>5 DEF CallStep

\* Only the prompt saves prefixes, and it saves what it shows.
LEMMA PromptInv ==
  ASSUME IInv, NEW i \in Slots, NEW yes \in BOOLEAN, NEW remember \in BOOLEAN,
         Prompt(i, yes, remember)
  PROVE  IInv'
<1> USE DEF IInv
<1>1. i \in DOMAIN calls
  BY DEF Prompt, Surfaced
<1>2. offer[i] \subseteq Prefixes
  BY <1>1 DEF TypeOK
<1>3. /\ past' \in Past /\ past'.ran = past.ran
      /\ past'.shown = IF yes THEN past.shown \cup offer[i] ELSE past.shown
  BY <1>2 DEF Prompt, TypeOK, Past
<1>4. /\ pc' \in [DOMAIN calls -> Places]
      /\ offer' \in [DOMAIN calls -> SUBSET Prefixes]
      /\ answers' \in Seq(BOOLEAN)
      /\ saved' \subseteq Prefixes
      /\ saved' \subseteq past'.shown
  BY <1>2, <1>3 DEF Prompt, TypeOK, Answered, Remembered, Places
<1>5. TypeOK'
  BY <1>3, <1>4 DEF Prompt, TypeOK
<1> QED
  BY <1>3, <1>4, <1>5 DEF Prompt, BarredNeverRuns

LEMMA InvStep ==
  IInv /\ [Next]_vars => IInv'
<1> SUFFICES ASSUME IInv, [Next]_vars PROVE IInv'
  OBVIOUS
<1>1. CASE \E cs \in Rounds : StartRound(cs)
  BY <1>1, StartRoundStep
<1>2. CASE \E i \in Slots : CallStep(i)
  BY <1>2, CallStepInv
<1>3. CASE FinishRound
  BY <1>3 DEF FinishRound, IInv, TypeOK, BarredNeverRuns
<1>4. CASE PromptStep
  BY <1>4, PromptInv DEF PromptStep
<1>5. CASE UNCHANGED vars
  BY <1>5 DEF IInv, TypeOK, BarredNeverRuns
<1> QED
  BY <1>1, <1>2, <1>3, <1>4, <1>5 DEF Next, Step

-----------------------------------------------------------------------------
(* One call that asks.                                                     *)

\* the prompts before the one of the command
Rules == IF mode = "always" THEN 1 ELSE 0

AllYes == \A n \in DOMAIN answers : answers[n]

Needed(i) == ToSave(calls[i], EffectiveAllow)

\* who has paused or been answered has asked
AskersKnown ==
  /\ past.askers \subseteq DOMAIN calls
  /\ past.yes \cup past.no \subseteq past.askers
  /\ \A i \in DOMAIN calls : pc[i] \in {"paused", "again"} => i \in past.askers
  /\ node = "idle" => \A i \in DOMAIN calls : pc[i] = "done"

\* The answers are i's own, to the prompt of the rule and to that of the
\* command, and the list ends with the first no.
OwnAnswers(i) ==
  /\ i \notin past.askers =>
       /\ counter = 0 /\ answers = <<>>
       /\ pc[i] \in {"invoke", "ask", "done"} => Rules = 0
  /\ Len(answers) <= Rules + 1
  /\ \A n \in 1..(Len(answers) - 1) : answers[n]
  /\ i \in past.no <=> ~AllYes

\* where i is and what the interrupts of this run of the node have come to
Counted(i) ==
  /\ pc[i] = "start" => counter = 0
  /\ pc[i] \in {"invoke", "ask"} =>
       /\ counter = Rules /\ Rules <= Len(answers)
       /\ Rules = 1 => answers[1]
  /\ pc[i] = "paused" => AllYes /\ counter = Len(answers) + 1 /\ counter <= Rules + 1
  /\ pc[i] = "again" => AllYes

\* what was approved of is what is recorded
OwnOffer(i) ==
  /\ pc[i] = "ask" \/ (pc[i] = "paused" /\ counter = Rules + 1) =>
       Outcome(i) = "ask" /\ offer[i] = Needed(i)
  /\ pc[i] \in {"start", "invoke", "ask"} /\ Len(answers) = Rules + 1 =>
       /\ Outcome(i) = "ask"
       /\ answers[Rules + 1] => Needed(i) \subseteq past.shown
  /\ pc[i] = "again" /\ Approvable(calls[i]) => Outcome(i) = "allowed"

\* i has run if every prompt was answered yes, and only then
RunsIfYes(i) ==
  /\ i \in past.ran => pc[i] = "done" /\ AllYes
  /\ pc[i] = "done" /\ i \in past.askers /\ Approvable(calls[i]) /\ AllYes => i \in past.ran

Alone(i) == OwnAnswers(i) /\ Counted(i) /\ OwnOffer(i) /\ RunsIfYes(i)

AloneInv ==
  ~past.crowded =>
    /\ approved \subseteq past.shown
    /\ \A i \in DOMAIN calls : past.askers \subseteq {i} => Alone(i)
    /\ \A i, j \in past.askers : i = j

AInv == IInv /\ AskersKnown /\ AloneInv

\* What another call does without asking does not touch i.
LEMMA OtherCall ==
  ASSUME NEW i, Alone(i), pc'[i] = pc[i], offer'[i] = offer[i],
         UNCHANGED <<mode, approved, calls, answers, counter>>,
         past'.askers = past.askers, past'.no = past.no, past'.shown = past.shown,
         i \in past'.ran <=> i \in past.ran
  PROVE  Alone(i)'
BY DEF Alone, OwnAnswers, Counted, OwnOffer, RunsIfYes, AllYes, Rules, Needed, Outcome,
       EffectiveAllow

\* So a step of a call that does not ask need only be followed for itself.
LEMMA QuietStep ==
  ASSUME AInv, NEW i \in DOMAIN calls,
         pc' \in [DOMAIN calls -> Places], offer' \in [DOMAIN calls -> SUBSET Prefixes],
         \A j \in DOMAIN calls \ {i} : pc'[j] = pc[j] /\ offer'[j] = offer[j],
         UNCHANGED <<mode, approved, calls, answers, counter, node>>, node = "tools",
         past'.askers = past.askers, past'.no = past.no, past'.yes = past.yes,
         past'.shown = past.shown, past'.crowded = past.crowded,
         past'.ran \ {i} = past.ran \ {i},
         pc'[i] \notin {"paused", "again"},
         past.askers \subseteq {i} /\ Alone(i) => Alone(i)'
  PROVE  AskersKnown' /\ AloneInv'
<1>1. AskersKnown'
  BY DEF AInv, AskersKnown
<1>2. ASSUME ~past'.crowded, NEW j \in DOMAIN calls, past.askers \subseteq {j} PROVE Alone(j)'
  <2>1. Alone(j)
    BY <1>2 DEF AInv, AloneInv
  <2>2. CASE j = i
    BY <1>2, <2>1, <2>2
  <2>3. CASE j # i
    <3>1. j \in past'.ran <=> j \in past.ran
      BY <2>3
    <3> QED
      BY <1>2, <2>1, <2>3, <3>1, OtherCall
  <2> QED
    BY <2>2, <2>3
<1>3. AloneInv'
  BY <1>2 DEF AInv, AloneInv
<1> QED
  BY <1>1, <1>3

\* A call that asks while it is the only one to do so.
LEMMA LoudStep ==
  ASSUME AInv, NEW i \in DOMAIN calls, NEW granted \in {"invoke", "again"}, 
         Interrupt(i, granted), node = "tools",
         UNCHANGED <<mode, calls, offer, answers, node>>,
         past.askers \subseteq {i} /\ Alone(i) /\ ~past.crowded =>
            approved' \subseteq past.shown /\ Alone(i)'
  PROVE  AskersKnown' /\ AloneInv'
<1>1. /\ past'.askers = past.askers \cup {i} /\ past'.shown = past.shown
      /\ past'.yes = past.yes /\ past'.no = past.no
      /\ past'.crowded = (past.crowded \/ past.askers \cup {i} # {i})
  BY DEF AInv, IInv, TypeOK, Past, Interrupt
<1>2. \A j \in DOMAIN calls : j # i => pc'[j] = pc[j]
  BY DEF AInv, IInv, TypeOK, Interrupt, Goto
<1>3. AskersKnown'
  BY <1>1, <1>2 DEF AInv, AskersKnown
<1>4. ASSUME ~past'.crowded PROVE past.askers \subseteq {i} /\ ~past.crowded
  BY <1>1, <1>4
<1>5. ASSUME ~past'.crowded PROVE approved' \subseteq past'.shown /\ Alone(i)' /\ past'.askers = {i}
  BY <1>1, <1>4, <1>5 DEF AInv, AloneInv
<1>6. AloneInv'
  BY <1>5 DEF AloneInv
<1> QED
  BY <1>3, <1>6

\* No list of allowed prefixes denies what only asks for a prefix.
LEMMA ApprovableNotDenied ==
  ASSUME NEW c, NEW allow, Approvable(c)
  PROVE  Verdict(c, allow) # "denied"
<1>1. "denied" \notin {SegmentVerdict(s, allow) : s \in c.segments}
  BY DEF Approvable, SegmentVerdict
<1> QED
  BY <1>1 DEF Approvable, OneTime, Verdict

\* What the user approves of is enough for the command to pass.
LEMMA GrantSuffices ==
  ASSUME NEW c \in Commands, NEW allow, NEW more, Approvable(c),
         allow \subseteq more, ToSave(c, allow) \subseteq more
  PROVE  Verdict(c, more) = "allowed"
<1>1. ASSUME NEW s \in c.segments PROVE SegmentVerdict(s, more) = "allowed"
  <2>1. PICK p \in s.matches : p \in c.suggested
    BY DEF Approvable
  <2>2. CASE p \in ToSave(c, allow)
    BY <2>1, <2>2 DEF Approvable, SegmentVerdict
  <2>3. CASE p \notin ToSave(c, allow)
    <3>1. PICK q \in Under[p] : q \in allow
      BY <2>1, <2>3 DEF ToSave
    <3>2. q \in s.matches
      BY <2>1, <3>1, ApprovalAssumption
    <3> QED
      BY <3>1, <3>2 DEF Approvable, SegmentVerdict
  <2> QED
    BY <2>2, <2>3
<1>2. \A said \in {SegmentVerdict(s, more) : s \in c.segments} : said = "allowed"
  BY <1>1
<1> QED
  BY <1>2 DEF Approvable, OneTime, Verdict

\* What the steps below know of a call.
LEMMA CallFacts ==
  ASSUME AInv, NEW i \in DOMAIN calls
  PROVE  /\ calls[i] \in Commands /\ pc[i] \in Places /\ past \in Past
         /\ Len(answers) \in Nat /\ DOMAIN answers = 1..Len(answers) /\ counter \in Nat
         /\ \A n \in 1..Len(answers) : answers[n] \in BOOLEAN
         /\ Rules \in {0, 1} /\ (Rules = 1 <=> mode = "always")
         /\ Outcome(i) \in {"denied", "allowed", "ask"}
<1>1. Outcome(i) \in {"denied", "allowed", "ask"}
  BY DEF Outcome, Verdict
<1> QED
  BY <1>1 DEF AInv, IInv, TypeOK, Rules

\* NeedsNoRule keeps what is known of calls that ask alone.
LEMMA NoRuleAlone ==
  ASSUME AInv, NEW i \in Slots, NeedsNoRule(i)
  PROVE  AskersKnown' /\ AloneInv'
<1>1. i \in DOMAIN calls /\ node = "tools" /\ pc[i] = "start" /\ mode # "always"
  BY DEF NeedsNoRule, At
<1>2. /\ pc' = [pc EXCEPT ![i] = "invoke"]
      /\ UNCHANGED <<mode, approved, node, calls, offer, answers, counter, past>>
  BY DEF NeedsNoRule, Goto
<1>3. ASSUME Alone(i) PROVE Alone(i)'
  <2>1. Rules = 0 /\ Rules' = 0 /\ counter = 0 /\ pc'[i] = "invoke" /\ 0 <= Len(answers)
    BY <1>1, <1>2, <1>3, CallFacts DEF Rules, Alone, Counted, AInv, IInv, TypeOK
  <2>2. OwnAnswers(i)' /\ Counted(i)'
    BY <1>2, <1>3, <2>1 DEF Alone, OwnAnswers, Counted, AllYes
  <2>3. OwnOffer(i)' /\ RunsIfYes(i)'
    BY <1>1, <1>2, <1>3, <2>1 DEF Alone, OwnOffer, RunsIfYes, AllYes, Needed, Outcome, EffectiveAllow
  <2> QED
    BY <2>2, <2>3 DEF Alone
<1>4. /\ pc' \in [DOMAIN calls -> Places] /\ offer' \in [DOMAIN calls -> SUBSET Prefixes]
      /\ pc'[i] = "invoke" /\ \A j \in DOMAIN calls \ {i} : pc'[j] = pc[j] /\ offer'[j] = offer[j]
  BY <1>1, <1>2 DEF AInv, IInv, TypeOK, Places
<1> QED
  BY <1>1, <1>2, <1>3, <1>4, QuietStep

\* Invoke does.
LEMMA InvokeAlone ==
  ASSUME AInv, NEW i \in Slots, Invoke(i)
  PROVE  AskersKnown' /\ AloneInv'
<1>1. i \in DOMAIN calls /\ node = "tools" /\ pc[i] = "invoke"
  BY DEF Invoke, At
<1>2. UNCHANGED <<mode, approved, node, calls, answers, counter>>
  BY DEF Invoke
<1>3. \/ /\ Outcome(i) = "denied" /\ pc' = [pc EXCEPT ![i] = "done"] /\ UNCHANGED <<offer, past>>
      \/ /\ Outcome(i) = "allowed" /\ pc' = [pc EXCEPT ![i] = "done"] /\ UNCHANGED offer
         /\ past' = [past EXCEPT !.ran = @ \cup {i}]
      \/ /\ Outcome(i) = "ask" /\ pc' = [pc EXCEPT ![i] = "ask"]
         /\ offer' = [offer EXCEPT ![i] = Needed(i)] /\ UNCHANGED past
  BY DEF Invoke, Report, Execute, Goto, Needed
<1>4. /\ pc' \in [DOMAIN calls -> Places] /\ offer' \in [DOMAIN calls -> SUBSET Prefixes]
      /\ \A j \in DOMAIN calls \ {i} : pc'[j] = pc[j] /\ offer'[j] = offer[j]
      /\ pc'[i] \in {"ask", "done"}
  <2>1. Needed(i) \subseteq Prefixes
    BY <1>1, CallFacts, ToSaveType DEF Needed
  <2> QED
    BY <1>1, <1>3, <2>1 DEF AInv, IInv, TypeOK, Places, Ended
<1>5. /\ past'.askers = past.askers /\ past'.no = past.no /\ past'.yes = past.yes
      /\ past'.shown = past.shown /\ past'.crowded = past.crowded
      /\ past'.ran = past.ran \/ past'.ran = past.ran \cup {i}
  BY <1>1, <1>3, CallFacts DEF Past
<1>6. ASSUME Alone(i) PROVE Alone(i)'
  <2>1. /\ counter = Rules /\ Rules <= Len(answers) /\ (Rules = 1 => answers[1])
        /\ i \notin past.ran
    BY <1>1, <1>6 DEF Alone, Counted, RunsIfYes
  <2>2. OwnAnswers(i)'
    BY <1>1, <1>2, <1>4, <1>5, <1>6 DEF Alone, OwnAnswers, Rules, AllYes
  <2>3. Counted(i)'
    BY <1>2, <1>4, <2>1 DEF Counted, Rules
  <2>4. CASE Outcome(i) = "ask"
    <3>1. pc'[i] = "ask" /\ offer'[i] = Needed(i) /\ UNCHANGED past
      BY <1>1, <1>3, <2>4 DEF AInv, IInv, TypeOK
    <3>2. OwnOffer(i)'
      BY <1>1, <1>2, <1>6, <2>4, <3>1 DEF Alone, OwnOffer, Needed, Outcome, EffectiveAllow, Rules
    <3>3. RunsIfYes(i)'
      BY <2>1, <3>1 DEF RunsIfYes
    <3> QED
      BY <2>2, <2>3, <3>2, <3>3 DEF Alone
  <2>5. CASE Outcome(i) # "ask"
    <3>1. pc'[i] = "done"
      BY <1>1, <1>3, <2>5 DEF AInv, IInv, TypeOK
    <3>2. OwnOffer(i)'
      BY <3>1 DEF OwnOffer
    <3>3. Len(answers) # Rules + 1 /\ Len(answers) <= Rules + 1
      BY <1>1, <1>6, <2>5 DEF Alone, OwnOffer, OwnAnswers
    <3>4. AllYes /\ AllYes'
      <4>1. Len(answers) = Rules
        BY <1>1, <2>1, <3>3, CallFacts
      <4> QED
        BY <1>1, <1>2, <2>1, <4>1, CallFacts DEF AllYes
    <3>5. Outcome(i) = "denied" => ~Approvable(calls[i])
      BY ApprovableNotDenied DEF Outcome, Approvable
    <3>6. Outcome(i) = "allowed" => i \in past'.ran
      BY <1>1, <1>3, CallFacts DEF Past
    <3>7. RunsIfYes(i)'
      BY <1>1, <1>2, <2>5, <3>1, <3>4, <3>5, <3>6, CallFacts DEF RunsIfYes
    <3> QED
      BY <2>2, <2>3, <3>2, <3>7 DEF Alone
  <2> QED
    BY <2>4, <2>5
<1>7. past'.ran \ {i} = past.ran \ {i}
  BY <1>5
<1> QED
  BY <1>1, <1>2, <1>4, <1>5, <1>6, <1>7, QuietStep

\* InvokeAgain does.
LEMMA AgainAlone ==
  ASSUME AInv, NEW i \in Slots, InvokeAgain(i)
  PROVE  AskersKnown' /\ AloneInv'
<1>1. i \in DOMAIN calls /\ node = "tools" /\ pc[i] = "again"
  BY DEF InvokeAgain, At
<1>2. UNCHANGED <<mode, approved, node, calls, offer, answers, counter>>
  BY DEF InvokeAgain
<1>3. /\ pc' = [pc EXCEPT ![i] = "done"]
      /\ \/ Outcome(i) # "allowed" /\ UNCHANGED past
         \/ past' = [past EXCEPT !.ran = @ \cup {i}]
  BY DEF InvokeAgain, Report, Execute, Goto
<1>4. /\ pc' \in [DOMAIN calls -> Places] /\ offer' \in [DOMAIN calls -> SUBSET Prefixes]
      /\ \A j \in DOMAIN calls \ {i} : pc'[j] = pc[j] /\ offer'[j] = offer[j]
      /\ pc'[i] = "done"
  BY <1>1, <1>2, <1>3 DEF AInv, IInv, TypeOK, Places, Ended
<1>5. /\ past'.askers = past.askers /\ past'.no = past.no /\ past'.yes = past.yes
      /\ past'.shown = past.shown /\ past'.crowded = past.crowded
      /\ past'.ran = past.ran \/ past'.ran = past.ran \cup {i}
      /\ Outcome(i) = "allowed" => i \in past'.ran
  BY <1>1, <1>3, CallFacts DEF Past
<1>6. ASSUME Alone(i) PROVE Alone(i)'
  <2>1. AllYes /\ AllYes' /\ i \in past.askers
    BY <1>1, <1>2, <1>6 DEF Alone, Counted, AllYes, AInv, AskersKnown
  <2>2. OwnAnswers(i)' /\ Counted(i)' /\ OwnOffer(i)'
    BY <1>2, <1>4, <1>5, <1>6, <2>1 DEF Alone, OwnAnswers, Counted, OwnOffer, Rules, AllYes
  <2>3. Approvable(calls[i]) => Outcome(i) = "allowed"
    BY <1>1, <1>6 DEF Alone, OwnOffer
  <2>4. RunsIfYes(i)'
    BY <1>2, <1>4, <1>5, <2>1, <2>3 DEF RunsIfYes
  <2> QED
    BY <2>2, <2>4 DEF Alone
<1>7. past'.ran \ {i} = past.ran \ {i}
  BY <1>5
<1> QED
  BY <1>1, <1>2, <1>4, <1>5, <1>6, <1>7, QuietStep

\* What an interrupt does to the call that raises it.
LEMMA InterruptFacts ==
  ASSUME AInv, NEW i \in DOMAIN calls, NEW granted \in {"invoke", "again"}, Interrupt(i, granted)
  PROVE  /\ counter' = counter + 1 /\ past'.askers = past.askers \cup {i}
         /\ past'.shown = past.shown /\ past'.no = past.no /\ past'.ran = past.ran
         /\ \/ counter >= Len(answers) /\ pc'[i] = "paused"
            \/ /\ counter < Len(answers) /\ counter + 1 \in 1..Len(answers)
               /\ \/ answers[counter + 1] /\ pc'[i] = granted
                  \/ ~answers[counter + 1] /\ pc'[i] = "done"
BY CallFacts DEF AInv, IInv, TypeOK, Past, Interrupt, Goto

\* AskRule does.
LEMMA AskRuleAlone ==
  ASSUME AInv, NEW i \in Slots, AskRule(i)
  PROVE  AskersKnown' /\ AloneInv'
<1>1. /\ i \in DOMAIN calls /\ node = "tools" /\ pc[i] = "start" /\ Interrupt(i, "invoke")
      /\ UNCHANGED <<mode, approved, calls, offer, answers, node>> /\ mode = "always"
  BY DEF AskRule, At
<1>2. ASSUME Alone(i) PROVE Alone(i)'
  <2>1. counter = 0 /\ Rules = 1 /\ Rules' = 1 /\ i \notin past.ran
    BY <1>1, <1>2 DEF Alone, Counted, RunsIfYes, Rules
  <2>2. AllYes' = AllYes /\ Needed(i)' = Needed(i) /\ Outcome(i)' = Outcome(i)
    BY <1>1 DEF AllYes, Needed, Outcome, EffectiveAllow
  <2>3. i \in past'.askers /\ i \notin past'.ran /\ counter' = 1
    BY <1>1, <2>1, InterruptFacts
  <2>4. OwnAnswers(i)'
    BY <1>1, <1>2, <2>1, <2>2, <2>3, InterruptFacts DEF Alone, OwnAnswers
  <2>5. CASE pc'[i] = "paused"
    <3>1. 0 >= Len(answers)
      BY <1>1, <2>1, <2>5, InterruptFacts
    <3>2. Len(answers) = 0 /\ AllYes
      BY <1>1, <3>1, CallFacts DEF AllYes
    <3> QED
      BY <1>1, <2>1, <2>2, <2>3, <2>4, <2>5, <3>2 DEF Alone, Counted, OwnOffer, RunsIfYes
  <2>6. CASE pc'[i] = "invoke" /\ answers[1] /\ 1 <= Len(answers)
    <3>1. Counted(i)'
      BY <1>1, <2>1, <2>3, <2>6 DEF Counted
    <3>2. OwnOffer(i)'
      BY <1>1, <1>2, <2>1, <2>2, <2>6, InterruptFacts DEF Alone, OwnOffer
    <3>3. RunsIfYes(i)'
      BY <2>3, <2>6 DEF RunsIfYes
    <3> QED
      BY <2>4, <3>1, <3>2, <3>3 DEF Alone
  <2>7. CASE pc'[i] = "done" /\ ~answers[1] /\ 1 <= Len(answers)
    <3>1. ~AllYes
      BY <1>1, <2>7, CallFacts DEF AllYes
    <3> QED
      BY <2>2, <2>3, <2>4, <2>7, <3>1 DEF Alone, Counted, OwnOffer, RunsIfYes
  <2>8. \/ pc'[i] = "paused"
        \/ pc'[i] = "invoke" /\ answers[1] /\ 1 <= Len(answers)
        \/ pc'[i] = "done" /\ ~answers[1] /\ 1 <= Len(answers)
    BY <1>1, <2>1, InterruptFacts
  <2> QED
    BY <2>5, <2>6, <2>7, <2>8
<1>3. ~past.crowded => approved' \subseteq past.shown
  BY <1>1 DEF AInv, AloneInv
<1> QED
  BY <1>1, <1>2, <1>3, LoudStep

\* AskCommand does: what it records is what was shown.
LEMMA AskCommandAlone ==
  ASSUME AInv, NEW i \in Slots, AskCommand(i)
  PROVE  AskersKnown' /\ AloneInv'
<1>1. /\ i \in DOMAIN calls /\ node = "tools" /\ pc[i] = "ask" /\ Interrupt(i, "again")
      /\ UNCHANGED <<mode, calls, offer, answers, node>> /\ approved' = Recorded(i)
  BY DEF AskCommand, At
<1>2. ASSUME Alone(i), past.askers \subseteq {i}, ~past.crowded
      PROVE  approved' \subseteq past.shown /\ Alone(i)'
  <2>1. /\ counter = Rules /\ Rules' = Rules /\ Rules <= Len(answers) /\ Rules \in {0, 1}
        /\ Rules = 1 => answers[1]
        /\ i \notin past.ran /\ Len(answers) <= Rules + 1
    BY <1>1, <1>2, CallFacts DEF Alone, OwnAnswers, Counted, RunsIfYes, Rules
  <2>2. AllYes' = AllYes
    BY <1>1 DEF AllYes
  <2>3. i \in past'.askers /\ i \notin past'.ran /\ counter' = Rules + 1
    BY <1>1, <2>1, InterruptFacts
  <2>4. OwnAnswers(i)'
    BY <1>1, <1>2, <2>1, <2>2, <2>3, InterruptFacts DEF Alone, OwnAnswers
  <2>5. Outcome(i) = "ask" /\ offer[i] = Needed(i) /\ approved \subseteq past.shown
    <3>1. Outcome(i) = "ask" /\ offer[i] = Needed(i)
      BY <1>1, <1>2 DEF Alone, OwnOffer
    <3>2. approved \subseteq past.shown
      BY <1>2 DEF AInv, AloneInv
    <3> QED
      BY <3>1, <3>2
  <2>6. CASE pc'[i] = "paused" /\ Len(answers) = Rules
    <3>1. approved' = approved
      BY <1>1, <2>1, <2>6 DEF Recorded
    <3>2. Needed(i)' = Needed(i) /\ Outcome(i)' = Outcome(i)
      BY <1>1, <3>1 DEF Needed, Outcome, EffectiveAllow
    <3>3. AllYes
      BY <1>1, <2>1, <2>6, CallFacts DEF AllYes
    <3> QED
      BY <1>1, <2>1, <2>2, <2>3, <2>4, <2>5, <2>6, <3>1, <3>2, <3>3
      DEF Alone, Counted, OwnOffer, RunsIfYes
  <2>7. CASE pc'[i] = "again" /\ answers[Rules + 1] /\ Len(answers) = Rules + 1
    <3>1. approved' = approved \cup Needed(i)
      BY <1>1, <2>1, <2>5, <2>7 DEF Recorded
    <3>2. Needed(i) \subseteq past.shown
      BY <1>1, <1>2, <2>7 DEF Alone, OwnOffer
    <3>3. AllYes
      <4>1. \A n \in 1..Len(answers) : n = Rules + 1 \/ (Rules = 1 /\ n = 1)
        BY <2>1, <2>7
      <4> QED
        BY <1>1, <2>1, <2>7, <4>1, CallFacts DEF AllYes
    <3>4. Approvable(calls[i]) => Outcome(i)' = "allowed"
      <4> SUFFICES ASSUME Approvable(calls[i]) PROVE Outcome(i)' = "allowed"
        OBVIOUS
      <4>1. EffectiveAllow \subseteq EffectiveAllow' /\ Needed(i) \subseteq EffectiveAllow'
        BY <3>1 DEF EffectiveAllow
      <4>2. Verdict(calls[i], EffectiveAllow') = "allowed"
        BY <1>1, <4>1, CallFacts, GrantSuffices DEF Needed
      <4> QED
        BY <1>1, <4>2 DEF Outcome, Approvable
    <3> QED
      BY <1>1, <2>1, <2>2, <2>3, <2>4, <2>5, <2>7, <3>1, <3>2, <3>3, <3>4
      DEF Alone, Counted, OwnOffer, RunsIfYes
  <2>8. CASE pc'[i] = "done" /\ ~answers[Rules + 1] /\ Len(answers) = Rules + 1
    <3>1. ~AllYes
      BY <1>1, <2>1, <2>8, CallFacts DEF AllYes
    <3>2. approved' = approved
      BY <1>1, <2>1, <2>8 DEF Recorded
    <3> QED
      BY <2>2, <2>3, <2>4, <2>5, <2>8, <3>1, <3>2 DEF Alone, Counted, OwnOffer, RunsIfYes
  <2>9. \/ pc'[i] = "paused" /\ Len(answers) = Rules
        \/ pc'[i] = "again" /\ answers[Rules + 1] /\ Len(answers) = Rules + 1
        \/ pc'[i] = "done" /\ ~answers[Rules + 1] /\ Len(answers) = Rules + 1
    BY <1>1, <2>1, InterruptFacts, CallFacts
  <2> QED
    BY <2>6, <2>7, <2>8, <2>9
<1> QED
  BY <1>1, <1>2, LoudStep

\* A prompt does: its answer belongs to the one call that asks.
LEMMA PromptAlone ==
  ASSUME AInv, NEW i \in Slots, NEW yes \in BOOLEAN, NEW remember \in BOOLEAN,
         Prompt(i, yes, remember)
  PROVE  AskersKnown' /\ AloneInv'
<1>1. /\ i \in DOMAIN calls /\ node = "tools" /\ pc[i] = "paused"
      /\ answers' = Append(answers, yes) /\ counter' = 0
      /\ pc' = [j \in DOMAIN calls |-> "start"]
      /\ UNCHANGED <<mode, approved, node, calls>>
  BY DEF Prompt, Surfaced, Answered
<1>2. /\ past'.askers = past.askers /\ past'.ran = past.ran /\ past'.crowded = past.crowded
      /\ past'.yes \cup past'.no = past.yes \cup past.no \cup {i}
      /\ past'.no = IF yes THEN past.no ELSE past.no \cup {i}
      /\ past'.shown = IF yes THEN past.shown \cup offer[i] ELSE past.shown
  BY <1>1, CallFacts DEF Prompt, Past
<1>3. i \in past.askers
  BY <1>1 DEF AInv, AskersKnown
<1>4. AskersKnown'
  BY <1>1, <1>2, <1>3 DEF AInv, AskersKnown
<1>5. ASSUME Alone(i) PROVE Alone(i)'
  <2>1. /\ AllYes /\ counter = Len(answers) + 1 /\ counter <= Rules + 1 /\ i \notin past.no
        /\ i \notin past.ran /\ Rules' = Rules /\ pc'[i] = "start"
        /\ Needed(i)' = Needed(i) /\ Outcome(i)' = Outcome(i)
    BY <1>1, <1>5 DEF Alone, OwnAnswers, Counted, RunsIfYes, Rules, Needed, Outcome, EffectiveAllow
  <2>2. answers \in Seq(BOOLEAN)
    BY DEF AInv, IInv, TypeOK
  <2>3. /\ Len(answers') = Len(answers) + 1 /\ DOMAIN answers' = 1..(Len(answers) + 1)
        /\ \A n \in 1..Len(answers) : answers'[n] = answers[n]
        /\ answers'[Len(answers) + 1] = yes
    BY <1>1, <2>2
  <2>4. Len(answers) \in Nat /\ Rules \in Nat /\ DOMAIN answers = 1..Len(answers)
    BY <1>1, CallFacts
  <2>5. Len(answers') <= Rules + 1 /\ \A n \in 1..(Len(answers') - 1) : answers'[n]
    <3>1. Len(answers') <= Rules + 1 /\ Len(answers') - 1 = Len(answers)
      BY <2>1, <2>3, <2>4
    <3>2. \A n \in 1..Len(answers) : answers'[n]
      BY <2>1, <2>3, <2>4 DEF AllYes
    <3> QED
      BY <3>1, <3>2
  <2>6. AllYes' <=> yes
    <3>1. Len(answers) + 1 \in DOMAIN answers'
      BY <2>3, <2>4
    <3>2. \A n \in DOMAIN answers' : n \in 1..Len(answers) \/ n = Len(answers) + 1
      BY <2>3, <2>4
    <3>3. ASSUME AllYes' PROVE yes
      BY <2>3, <3>1, <3>3 DEF AllYes
    <3>4. ASSUME yes, NEW n \in DOMAIN answers' PROVE answers'[n]
      <4>1. CASE n \in 1..Len(answers)
        BY <2>1, <2>3, <2>4, <4>1 DEF AllYes
      <4>2. CASE n = Len(answers) + 1
        BY <2>3, <3>4, <4>2
      <4> QED
        BY <3>2, <4>1, <4>2
    <3> QED
      BY <3>3, <3>4 DEF AllYes
  <2>7. i \in past'.no <=> ~yes
    BY <1>2, <2>1
  <2>8. OwnAnswers(i)'
    BY <1>2, <1>3, <2>1, <2>5, <2>6, <2>7 DEF OwnAnswers
  <2>9. Counted(i)' /\ RunsIfYes(i)'
    BY <1>1, <1>2, <2>1 DEF Counted, RunsIfYes
  <2>10. ASSUME Len(answers') = Rules + 1
         PROVE  Outcome(i) = "ask" /\ (answers'[Rules + 1] => Needed(i) \subseteq past'.shown)
    <3>1. counter = Rules + 1 /\ answers'[Rules + 1] = yes
      BY <2>1, <2>3, <2>4, <2>10
    <3>2. Outcome(i) = "ask" /\ offer[i] = Needed(i)
      BY <1>1, <1>5, <3>1 DEF Alone, OwnOffer
    <3> QED
      BY <1>2, <3>1, <3>2
  <2>11. OwnOffer(i)'
    BY <2>1, <2>10 DEF OwnOffer
  <2> QED
    BY <2>8, <2>9, <2>11 DEF Alone
<1>6. AloneInv'
  <2> SUFFICES ASSUME ~past.crowded
               PROVE  /\ approved \subseteq past'.shown
                      /\ \A j \in DOMAIN calls : past.askers \subseteq {j} => Alone(j)'
                      /\ \A j, k \in past.askers : j = k
    BY <1>1, <1>2 DEF AloneInv
  <2>1. approved \subseteq past'.shown /\ \A j, k \in past.askers : j = k
    BY <1>2 DEF AInv, AloneInv
  <2>2. ASSUME NEW j \in DOMAIN calls, past.askers \subseteq {j} PROVE Alone(j)'
    <3>1. j = i
      BY <1>3, <2>2
    <3>2. Alone(i)
      BY <1>1, <2>2, <3>1 DEF AInv, AloneInv
    <3> QED
      BY <1>5, <3>1, <3>2
  <2> QED
    BY <2>1, <2>2
<1> QED
  BY <1>4, <1>6

\* A round that begins, and one that ends, does.
LEMMA RoundAlone ==
  ASSUME AInv, FinishRound \/ \E cs \in Rounds : StartRound(cs)
  PROVE  AskersKnown' /\ AloneInv'
<1>1. CASE FinishRound
  <2>1. /\ UNCHANGED <<mode, approved, calls, pc, offer, answers, counter, past>>
        /\ \A i \in DOMAIN calls : pc[i] = "done"
    BY <1>1 DEF FinishRound
  <2>2. AskersKnown'
    BY <2>1 DEF AInv, AskersKnown
  <2>3. \A i \in DOMAIN calls : Alone(i)' <=> Alone(i)
    BY <2>1 DEF Alone, OwnAnswers, Counted, OwnOffer, RunsIfYes, AllYes, Rules, Needed, Outcome,
                EffectiveAllow
  <2> QED
    BY <2>1, <2>2, <2>3 DEF AInv, AloneInv
<1>2. ASSUME NEW cs \in Rounds, StartRound(cs) PROVE AskersKnown' /\ AloneInv'
  <2>1. /\ calls' = cs /\ pc' = [i \in DOMAIN cs |-> "start"] /\ answers' = <<>> /\ counter' = 0
        /\ node' = "tools" /\ UNCHANGED <<mode, approved>>
    BY <1>2 DEF StartRound
  <2>2. /\ past'.ran = {} /\ past'.yes = {} /\ past'.no = {} /\ past'.askers = {}
        /\ past'.shown = past.shown /\ past'.crowded = past.crowded
    BY <1>2 DEF StartRound, AInv, IInv, TypeOK, Past
  <2>3. AskersKnown'
    BY <2>1, <2>2 DEF AskersKnown
  <2>4. Len(answers') = 0 /\ DOMAIN answers' = {} /\ (Rules' = 0 \/ Rules' = 1)
    BY <2>1 DEF Rules
  <2>5. ASSUME NEW i \in DOMAIN cs PROVE Alone(i)'
    <3>1. AllYes' /\ pc'[i] = "start"
      BY <2>1, <2>4 DEF AllYes
    <3>2. Len(answers') <= Rules' + 1 /\ Len(answers') # Rules' + 1
      BY <2>4
    <3>4. \A n \in 1..(Len(answers') - 1) : FALSE
      BY <2>4
    <3>5. OwnAnswers(i)'
      BY <2>1, <2>2, <3>1, <3>2, <3>4 DEF OwnAnswers
    <3>6. Counted(i)'
      BY <2>1, <3>1 DEF Counted
    <3>3. OwnOffer(i)' /\ RunsIfYes(i)'
      BY <2>1, <2>2, <3>1, <3>2 DEF OwnOffer, RunsIfYes
    <3> QED
      BY <3>3, <3>5, <3>6 DEF Alone
  <2> QED
    BY <2>1, <2>2, <2>3, <2>5 DEF AInv, AloneInv
<1> QED
  BY <1>1, <1>2

-----------------------------------------------------------------------------
(* Theorems.                                                               *)

LEMMA Invariance ==
  Spec => []AInv
<1>1. Init => AInv
  <2> SUFFICES ASSUME Init PROVE AskersKnown /\ AloneInv
    BY InvInit DEF AInv
  <2>1. DOMAIN calls = {} /\ approved = {} /\ past.askers = {} /\ past.yes = {} /\ past.no = {}
    BY DEF Init
  <2> QED
    BY <2>1 DEF AskersKnown, AloneInv
<1>2. AInv /\ [Next]_vars => AInv'
  <2> SUFFICES ASSUME AInv, [Next]_vars PROVE AskersKnown' /\ AloneInv'
    BY InvStep DEF AInv
  <2>1. ASSUME NEW i \in Slots, CallStep(i) PROVE AskersKnown' /\ AloneInv'
    BY <2>1, NoRuleAlone, AskRuleAlone, InvokeAlone, AskCommandAlone, AgainAlone DEF CallStep
  <2>2. CASE PromptStep
    BY <2>2, PromptAlone DEF PromptStep
  <2>3. CASE FinishRound \/ \E cs \in Rounds : StartRound(cs)
    BY <2>3, RoundAlone
  <2>4. CASE UNCHANGED vars
    <3>1. \A i \in DOMAIN calls : Alone(i)' <=> Alone(i)
      BY <2>4 DEF Alone, OwnAnswers, Counted, OwnOffer, RunsIfYes, AllYes, Rules, Needed, Outcome,
                  EffectiveAllow
    <3> QED
      BY <2>4, <3>1 DEF AInv, AskersKnown, AloneInv
  <2> QED
    BY <2>1, <2>2, <2>3, <2>4 DEF Next, Step
<1> QED
  BY <1>1, <1>2, PTL DEF Spec

\* The registry, the calls of a round and the answers keep their types.
THEOREM TypeCorrect ==
  Spec => []TypeOK
<1>1. AInv => TypeOK
  BY DEF AInv, IInv
<1> QED
  BY <1>1, Invariance, PTL

\* A denial is absolute: no approval, mode or interleaving of calls lets a
\* barred or guarded command execute (validation.py:416, registry.py:143-156).
THEOREM DenialAbsolute ==
  Spec => []BarredNeverRuns
<1>1. AInv => BarredNeverRuns
  BY DEF AInv, IInv
<1> QED
  BY <1>1, Invariance, PTL

\* What is saved for later sessions was shown to the user, who said yes to
\* it, whoever takes which answer (main.py:356-365).
THEOREM SavedWasShown ==
  Spec => [](saved \subseteq past.shown)
<1>1. AInv => saved \subseteq past.shown
  BY DEF AInv, IInv
<1> QED
  BY <1>1, Invariance, PTL

\* While one call asks at a time, every prefix a command may run under was in
\* the allow list or was shown to the user, who said yes (approval.py:100-116).
THEOREM GrantsWereAsked ==
  Spec => []GrantsAsked
<1>1. AInv => GrantsAsked
  BY DEF AInv, IInv, AloneInv, GrantsAsked
<1> QED
  BY <1>1, Invariance, PTL

\* While one call asks at a time, no means no, and a plain command that was
\* answered yes throughout has run when the round is over, in either mode.
THEOREM AnswersHeeded ==
  Spec => []AnswerHeeded
<1>1. ASSUME AInv, ~past.crowded, NEW i \in past.yes \cup past.no
      PROVE  i \in DOMAIN calls /\ i \in past.askers /\ Alone(i)
  BY <1>1 DEF AInv, AskersKnown, AloneInv
<1>2. ASSUME AInv, ~past.crowded PROVE past.no \cap past.ran = {}
  BY <1>1, <1>2 DEF Alone, OwnAnswers, RunsIfYes
<1>3. ASSUME AInv, ~past.crowded, node = "idle", NEW i \in past.yes \ past.no,
             Approvable(calls[i])
      PROVE  i \in past.ran
  BY <1>1, <1>3 DEF Alone, OwnAnswers, RunsIfYes, AInv, AskersKnown
<1>4. AInv => AnswerHeeded
  BY <1>2, <1>3 DEF AnswerHeeded
<1> QED
  BY <1>4, Invariance, PTL
=============================================================================
