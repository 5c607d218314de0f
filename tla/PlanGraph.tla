------------------------------ MODULE PlanGraph ------------------------------
(***************************************************************************)
(* A turn of the Plan-and-Execute graph (GSagent/core/orchestration/       *)
(* plan.py, core/plan/planner.py): the planner's tasks are split into      *)
(* batches, a batch is sent to workers that run in parallel, the results   *)
(* are collected from the messages the workers leave behind, and the last  *)
(* batch is followed by the report.                                        *)
(*                                                                         *)
(* Tasks are numbered in the order the planner lists them, which is also   *)
(* the order of a batch and of its messages.  A description is one of a    *)
(* few values, since only whether two are equal matters.  A worker is a    *)
(* create_agent subgraph: it leaves its input, perhaps a message that asks *)
(* for tools, and its answer.  When it raises, the whole graph does.  The  *)
(* turn starts on a thread without messages of earlier turns.              *)
(***************************************************************************)
EXTENDS Naturals, FiniteSets, Sequences, SequencesExt

CONSTANTS
  MaxTasks,   \* bound: tasks of a plan
  Texts       \* descriptions, and what the user may have written

ASSUME PlanAssumption == MaxTasks \in Nat /\ Texts # {}

VARIABLES
  pc,         \* the node that runs next, or how the turn ended
  plan,       \* plan_tasks: for each task its description and depends_on
  batches,    \* as sets; batch_index counts from zero
  batchIndex,
  sent,       \* tasks of this batch: sent to run_one and to skip_task
  left,       \* messages each worker of this batch has left
  messages,
  results,    \* what is reported for a task
  failed,
  runs        \* history: how often each task was run

vars == <<pc, plan, batches, batchIndex, sent, left, messages, results, failed, runs>>

Tasks == DOMAIN plan
Ids == 1..MaxTasks

Human(d) == [type |-> "human", text |-> d]
AI(t, last) == [type |-> "ai", by |-> t, last |-> last]

Ended == {"answered", "refused", "raised"}

Report == [status : {"completed", "skipped"}, by : Ids, last : BOOLEAN]

Plans == UNION {[1..n -> [description : Texts, depends_on : SUBSET (1..n)]] : n \in Ids}

TypeOK ==
  /\ pc \in {"plan", "dispatch", "run", "finalize"} \cup Ended
  /\ plan = <<>> \/ plan \in Plans
  /\ batches \in Seq(SUBSET Tasks)
  /\ batchIndex \in 0..Len(batches)
  /\ sent \in [run : SUBSET Tasks, skip : SUBSET Tasks]
  /\ DOMAIN left \subseteq sent.run
  /\ DOMAIN results \subseteq Tasks /\ \A t \in DOMAIN results : results[t] \in Report
  /\ failed \subseteq Tasks
  /\ runs \in [Ids -> 0..2]

Nothing == [run |-> {}, skip |-> {}]

Init ==
  /\ pc = "plan"
  /\ plan = <<>> /\ batches = <<>> /\ batchIndex = 0
  /\ sent = Nothing /\ left = <<>>
  /\ \E text \in Texts : messages = <<Human(text)>>
  /\ results = <<>> /\ failed = {}
  /\ runs = [t \in Ids |-> 0]

-----------------------------------------------------------------------------
(* compute_batches                                                         *)

ReadySelfish(p, remaining) ==  \* mutant: only the task itself is looked for
  {t \in remaining : t \notin p[t].depends_on}

Ready(p, remaining) == {t \in remaining : p[t].depends_on \cap remaining = {}}

\* the batches peeled off what remains, before no task is left or none is ready
Peeling(p) ==
  LET peel[remaining \in SUBSET DOMAIN p] ==
        LET ready == Ready(p, remaining)
        IN  IF ready = {} THEN <<>> ELSE <<ready>> \o peel[remaining \ ready]
  IN  peel

Peel(p) == Peeling(p)[DOMAIN p]

Stuck(p) == UNION Range(Peel(p)) # DOMAIN p

-----------------------------------------------------------------------------
\* The planner fails, or plans nothing: an error is streamed, and there are
\* no batches.
PlanRefused ==
  /\ pc = "plan"
  /\ pc' = "dispatch"
  /\ UNCHANGED <<plan, batches, batchIndex, sent, left, messages, results, failed, runs>>

\* compute_batches is called behind the try: what it raises ends the graph.
\* Here, when two tasks have the same id or a dependency is no task.
PlanRaises ==
  /\ pc = "plan"
  /\ pc' = "raised"
  /\ UNCHANGED <<plan, batches, batchIndex, sent, left, messages, results, failed, runs>>

MakePlan ==
  /\ pc = "plan"
  /\ plan' \in Plans
  /\ IF Stuck(plan')
     THEN pc' = "raised" /\ UNCHANGED batches
     ELSE pc' = "dispatch" /\ batches' = Peel(plan')
  /\ UNCHANGED <<batchIndex, sent, left, messages, results, failed, runs>>

\* nothing is sent, so the graph has nowhere to go
NothingToDispatch ==
  /\ pc = "dispatch" /\ batchIndex >= Len(batches)
  /\ pc' = "refused"
  /\ UNCHANGED <<plan, batches, batchIndex, sent, left, messages, results, failed, runs>>

Dispatch ==
  /\ pc = "dispatch" /\ batchIndex < Len(batches)
  /\ LET batch == batches[batchIndex + 1]
         skip == {t \in batch : plan[t].depends_on \cap failed # {}}
     IN  sent' = [run |-> batch \ skip, skip |-> skip]
  /\ pc' = "run"
  /\ UNCHANGED <<plan, batches, batchIndex, left, messages, results, failed, runs>>

Awaited == sent.run \ DOMAIN left

UpTo2(n) == IF n > 2 THEN 2 ELSE n     \* the history stops at "twice"

Answers(t, tools) ==
  <<Human(plan[t].description)>>
    \o (IF tools THEN <<AI(t, FALSE)>> ELSE <<>>) \o <<AI(t, TRUE)>>

RunOne(t, tools) ==
  /\ pc = "run" /\ t \in Awaited
  /\ left' = [s \in DOMAIN left \cup {t} |-> IF s = t THEN Answers(t, tools) ELSE left[s]]
  /\ runs' = [runs EXCEPT ![t] = UpTo2(@ + 1)]
  /\ UNCHANGED <<pc, plan, batches, batchIndex, sent, messages, results, failed>>

WorkerRaises(t) ==
  /\ pc = "run" /\ t \in Awaited
  /\ pc' = "raised"
  /\ runs' = [runs EXCEPT ![t] = UpTo2(@ + 1)]
  /\ UNCHANGED <<plan, batches, batchIndex, sent, left, messages, results, failed>>

-----------------------------------------------------------------------------
(* collect                                                                 *)

\* desc_to_tid: the last task with a description takes it
Described(d) == {t \in Tasks : plan[t].description = d}
DescToTid(d) == CHOOSE t \in Described(d) : \A s \in Described(d) : s <= t

Opens(m) == m.type = "human" /\ Described(m.text) # {}

\* In the scan of messages ms, is the AI message i taken for the task that
\* message h opens?
TakenLate(ms, h, i) ==         \* mutant: a task once open stays open
  /\ Opens(ms[h]) /\ ms[i].type = "ai"
  /\ \A k \in (h + 1)..(i - 1) : ms[k].type # "ai"

Taken(ms, h, i) ==
  /\ Opens(ms[h]) /\ ms[i].type = "ai"
  /\ \A k \in (h + 1)..(i - 1) : ~Opens(ms[k]) /\ ms[k].type # "ai"

\* the messages taken for task t
TakenFor(ms, t) ==
  {i \in DOMAIN ms :
     \E h \in 1..(i - 1) : Taken(ms, h, i) /\ DescToTid(ms[h].text) = t}

\* results with what the scan finds; a result once there is not replaced
Scanned(ms, before) ==
  LET found == {t \in Tasks : TakenFor(ms, t) # {}}
  IN  [t \in DOMAIN before \cup found |->
         IF t \in DOMAIN before THEN before[t]
         ELSE LET m == ms[Min(TakenFor(ms, t))]
              IN  [status |-> "completed", by |-> m.by, last |-> m.last]]

\* results before the scan: skip_task has written those of this batch
WithSkipped ==
  [t \in DOMAIN results \cup sent.skip |->
     IF t \in sent.skip THEN [status |-> "skipped", by |-> t, last |-> TRUE] ELSE results[t]]

\* batch_index after collect
SameBatch == batchIndex               \* mutant: the index is not written back

NextBatchButOne == batchIndex + 2     \* mutant: it is advanced twice

NextBatch == batchIndex + 1

Collect ==
  /\ pc = "run" /\ Awaited = {}
  /\ messages' = messages \o FlattenSeq([t \in Ids |-> IF t \in sent.run THEN left[t] ELSE <<>>])
  /\ results' = Scanned(messages', WithSkipped)
  /\ failed' = failed \cup {t \in batches[batchIndex + 1] \cap DOMAIN results' :
                              results'[t].status = "failed"}
  /\ batchIndex' = NextBatch
  /\ pc' = IF batchIndex' < Len(batches) THEN "dispatch" ELSE "finalize"
  /\ sent' = Nothing /\ left' = <<>>
  /\ UNCHANGED <<plan, batches, runs>>

Finalize ==
  /\ pc = "finalize"
  /\ pc' = "answered"
  /\ UNCHANGED <<plan, batches, batchIndex, sent, left, messages, results, failed, runs>>

Next ==
  \/ PlanRefused \/ PlanRaises \/ MakePlan \/ NothingToDispatch \/ Dispatch
  \/ Collect \/ Finalize
  \/ \E t \in Ids : WorkerRaises(t) \/ \E tools \in BOOLEAN : RunOne(t, tools)

Spec == Init /\ [][Next]_vars

-----------------------------------------------------------------------------
(* Properties.                                                             *)

\* The split into batches fails just when some tasks wait for each other;
\* otherwise every task is in one batch, the first one after all its
\* dependencies (compute_batches, planner.py:87-117).
BatchesSound ==
  LET BatchOf(t) == {i \in DOMAIN batches : t \in batches[i]}
      Cycle(S) == S # {} /\ \A t \in S : plan[t].depends_on \cap S # {}
  IN  plan # <<>> =>
      IF \E S \in SUBSET Tasks : Cycle(S)
      THEN pc = "raised"
      ELSE \A t \in Tasks : \E i \in DOMAIN batches :
             /\ BatchOf(t) = {i}
             /\ \A d \in plan[t].depends_on : \E j \in 1..(i - 1) : d \in batches[j]
             /\ i = 1 \/ plan[t].depends_on \cap batches[i - 1] # {}

\* A worker finishes only after the workers of all its dependencies have,
\* whose results are collected, and no task is run twice (plan.py:10-12).
DependenciesFirst ==
  [][\A t \in Tasks : runs'[t] # runs[t] =>
       /\ runs[t] = 0
       /\ \A d \in plan[t].depends_on : runs[d] = 1 /\ d \notin DOMAIN left]_vars

DistinctDescriptions ==
  \A s, t \in Tasks : plan[s].description = plan[t].description => s = t

\* The report names a result for every task of the plan, and it is from the
\* task's own worker, if no two tasks have one description (plan.py:148-163).
EveryTaskReported ==
  pc = "answered" /\ DistinctDescriptions =>
    /\ DOMAIN results = Tasks
    /\ \A t \in Tasks : results[t].by = t

-----------------------------------------------------------------------------
(* What the documents say and the code does not do.                        *)

\* docs/requirements.md:135: a failure is located at its task, the tasks
\* that depend on it are marked skipped, and the result is reported.
FailureReported ==
  plan # <<>> /\ batches # <<>> => pc # "raised"

\* docs/requirements.md:135, workers.py:28-29: what is reported of a task
\* is what its worker answered, not what it said before using a tool.
AnswerReported ==
  pc = "answered" => \A t \in DOMAIN results : results[t].last
=============================================================================
