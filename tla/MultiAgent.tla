----------------------------- MODULE MultiAgent -----------------------------
(***************************************************************************)
(* Turns of the multi-agent graph (GSagent/core/orchestration/multi.py):   *)
(* a request is cut into subtasks, each is sent to a worker of its kind,   *)
(* the workers run in parallel, and their answers are matched with the     *)
(* subtasks by position.                                                   *)
(*                                                                         *)
(* A worker is a create_agent subgraph.  It leaves its input and its AI    *)
(* messages in the order of the subtasks; of an AI message only its author *)
(* and whether it has a content matter.  A command worker may ask for      *)
(* tools, and a tool may pause the graph until the user has answered.      *)
(*                                                                         *)
(* What a turn starts from is built in a file that is not in the           *)
(* repository: a new channel, the channel of the checkpoint, or the        *)
(* messages of the last ANSWER_END are all allowed.                        *)
(***************************************************************************)
EXTENDS Naturals, FiniteSets, Sequences, SequencesExt

CONSTANTS
  Requests,      \* what a user may write
  Parts,         \* texts of subtasks
  Split,         \* the parts decompose_heuristic cuts a request into
  Commands,      \* texts that begin with one of SHELL_COMMAND_PREFIXES
  LlmPlans,      \* what plan_with_llm may return, <<>> when it failed
  MaxCalls,      \* bound: rounds of tools of a worker
  MaxTurns       \* bound: turns of the conversation

ASSUME MultiAssumption ==
  /\ Split \in [Requests -> Seq(Parts)]
  /\ LlmPlans \subseteq Seq([kind : {"command", "business"}, text : Parts])
  /\ MaxCalls \in Nat /\ MaxTurns \in Nat

VARIABLES
  node,       \* the node that runs next; "idle" between turns
  turns,      \* turns started
  request,    \* history: what the user wrote in this turn
  channel,    \* messages
  subtasks,
  at,         \* where the worker of a subtask is
  said,       \* what it will leave
  records,    \* for each subtask the author of the result it is given
  told        \* how the turn ended, and the task named in MULTI_AGENT_DONE

multiVars == <<node, turns, request, channel, subtasks, at, said, records, told>>

Subtask == [kind : {"command", "business"}, text : Requests \cup Parts]

User(text) == [type |-> "human", text |-> text]
Said(author, content) == [type |-> "ai", by |-> author, content |-> content]

NoAuthor == <<0, 0>>                         \* "(无结果)"
Author(i) == <<turns, i>>                    \* i = 0: the final answer
Authors == (0..MaxTurns) \X Nat

Message == [type : {"human"}, text : Requests \cup Parts]
             \cup [type : {"ai"}, by : Authors, content : BOOLEAN]

Untold == [end |-> "none", task |-> "none"]

MultiTypeOK ==
  /\ node \in {"idle", "decompose", "workers", "finalize"}
  /\ turns \in 0..MaxTurns
  /\ channel \in Seq(Message)
  /\ subtasks \in Seq(Subtask)
  /\ DOMAIN at = DOMAIN said /\ DOMAIN at \subseteq DOMAIN subtasks
  /\ \A i \in DOMAIN at :
       /\ at[i] \in {"model", "tools", "paused", "done"}
       /\ said[i] \in Seq(Message)
  /\ records \in Seq(Authors)
  /\ told.end \in {"none", "answered", "raised"}
  /\ told.task \in {"none"} \cup Requests \cup Parts

MultiInit ==
  /\ node = "idle" /\ turns = 0 /\ request = "none"
  /\ channel = <<>> /\ subtasks = <<>> /\ at = <<>> /\ said = <<>>
  /\ records = <<>> /\ told = Untold

-----------------------------------------------------------------------------
StartTurn(r, start) ==
  /\ node = "idle" /\ turns < MaxTurns
  /\ start = "history" => told.end = "answered"
  /\ turns' = turns + 1
  /\ request' = r
  /\ channel' = CASE start = "blank"      -> <<User(r)>>
                  [] start = "checkpoint" -> Append(channel, User(r))
                  [] start = "history"    ->
                       channel \o <<Said(Author(0), TRUE), User(r)>>
  /\ node' = "decompose"
  /\ told' = Untold /\ records' = <<>> /\ at' = <<>> /\ said' = <<>>
  /\ UNCHANGED subtasks

\* the text of the last human message; there is always one
LastHuman(ms) ==
  LET humans == {i \in DOMAIN ms : ms[i].type = "human"}
  IN  ms[CHOOSE i \in humans : \A j \in humans : j <= i].text

Heuristic(text) ==
  [i \in DOMAIN Split[text] |->
     [kind |-> IF Split[text][i] \in Commands THEN "command" ELSE "business",
      text |-> Split[text][i]]]

Decomposed(plan, text) ==
  IF plan # <<>> THEN plan
  ELSE IF Heuristic(text) # <<>> THEN Heuristic(text)
  ELSE <<[kind |-> "business", text |-> text]>>

\* decompose and dispatch: every subtask is sent, all at once
Decompose ==
  /\ node = "decompose"
  /\ \E plan \in LlmPlans : subtasks' = Decomposed(plan, LastHuman(channel))
  /\ at' = [i \in DOMAIN subtasks' |-> "model"]
  /\ said' = [i \in DOMAIN subtasks' |-> <<User(subtasks'[i].text)>>]
  /\ node' = "workers"
  /\ UNCHANGED <<turns, request, channel, records, told>>

-----------------------------------------------------------------------------
(* The workers.                                                            *)

WorkerMoves(i, from, to) ==
  /\ node = "workers" /\ i \in DOMAIN at /\ at[i] = from
  /\ at' = [at EXCEPT ![i] = to]
  /\ UNCHANGED <<node, turns, request, channel, subtasks, records, told>>

WorkerAsks(i, content) ==
  /\ WorkerMoves(i, "model", "tools")
  /\ subtasks[i].kind = "command" /\ Len(said[i]) <= MaxCalls
  /\ said' = [said EXCEPT ![i] = Append(@, Said(Author(i), content))]

ToolsReturn(i) == WorkerMoves(i, "tools", "model") /\ UNCHANGED said

ToolPauses(i) == WorkerMoves(i, "tools", "paused") /\ UNCHANGED said

\* The run stops once no worker can go on.  The answer resumes it: one
\* paused worker takes it, those that are done are not run again.
Resume(i) ==
  /\ \A j \in DOMAIN at : at[j] \in {"paused", "done"}
  /\ WorkerMoves(i, "paused", "tools") /\ UNCHANGED said

WorkerAnswers(i, content) ==
  /\ WorkerMoves(i, "model", "done")
  /\ said' = [said EXCEPT ![i] = Append(@, Said(Author(i), content))]

\* what a worker raises ends the graph, and the superstep writes nothing
MultiWorkerRaises(i) ==
  /\ node = "workers" /\ i \in DOMAIN at /\ at[i] \in {"model", "tools"}
  /\ node' = "idle" /\ told' = [Untold EXCEPT !.end = "raised"]
  /\ UNCHANGED <<turns, request, channel, subtasks, at, said, records>>

WorkerStep(i) ==
  \/ ToolsReturn(i) \/ ToolPauses(i) \/ Resume(i) \/ MultiWorkerRaises(i)
  \/ \E content \in BOOLEAN : WorkerAsks(i, content) \/ WorkerAnswers(i, content)

-----------------------------------------------------------------------------
IsResult(m) == m.type = "ai" /\ m.content

\* where the i-th of the messages that count is found
Place(counts, i) == {j \in counts : Cardinality({k \in counts : k <= j}) = i}

Placed(ms, counts) ==
  [i \in DOMAIN subtasks |->
     IF Place(counts, i) = {} THEN NoAuthor ELSE ms[CHOOSE j \in Place(counts, i) : TRUE].by]

MatchedAny(ms) ==                      \* mutant: empty messages count as well
  Placed(ms, {j \in DOMAIN ms : ms[j].type = "ai"})

ResultsIn(ms) == {j \in DOMAIN ms : IsResult(ms[j])}

\* the i-th result in the channel goes to the i-th subtask
Matched(ms) == Placed(ms, ResultsIn(ms))

\* the end of the workers' superstep, and gather
Gather ==
  /\ node = "workers" /\ \A i \in DOMAIN at : at[i] = "done"
  /\ channel' = channel \o FlattenSeq(said)
  /\ records' = Matched(channel')
  /\ node' = "finalize"
  /\ UNCHANGED <<turns, request, subtasks, at, said, told>>

FinalizeMulti ==
  /\ node = "finalize"
  /\ records' = Matched(channel)
  /\ told' = [end |-> "answered", task |-> LastHuman(channel)]
  /\ node' = "idle"
  /\ UNCHANGED <<turns, request, channel, subtasks, at, said>>

MultiNext ==
  \/ \E r \in Requests, start \in {"blank", "checkpoint", "history"} : StartTurn(r, start)
  \/ Decompose \/ Gather \/ FinalizeMulti
  \/ \E i \in DOMAIN at : WorkerStep(i)

MultiSpec == MultiInit /\ [][MultiNext]_multiVars

-----------------------------------------------------------------------------
(* Properties.                                                             *)

FreshChannel == \A j \in ResultsIn(channel) : channel[j].by[1] = turns

\* In a conversation's first turn, or one that starts blank, the results
\* up to the first worker that left none or several are given to their own
\* subtasks (gather and finalize, multi.py:165-183 and :207-214).
EachToItsSubtask ==
  records # <<>> /\ FreshChannel =>
    \A i \in DOMAIN subtasks :
      (\A j \in 1..i : Cardinality(ResultsIn(said[j])) = 1) => records[i] = <<turns, i>>

-----------------------------------------------------------------------------
(* What the code says of itself and does not do.                           *)

\* multi.py:222 gives the model what it calls the original task, and
\* MULTI_AGENT_DONE names it: the text the user wrote.
TaskKept ==
  told.end = "answered" => told.task = request
=============================================================================
