# A TLA+ verification of GSAgent

GSAgent is a Python agent: language-model graphs (LangGraph) that call tools
under a user's approval, a command line, and an HTTP service (`agent serve`)
with conversation threads, event streams and a durable queue of background
tasks. This directory holds TLA+ models of the parts in which order, sharing and
failure matter, the TLC configurations that check them, and proofs for TLAPS.
`PROJECT.json` maps every definition to the lines it models, and lists hazards,
runs and theorems. Paths below are relative to `src/GSagent/`.

## 1. Inventory

| component | state | operations | what makes it correct |
|---|---|---|---|
| **Task queue** `core/runtime/tasks.py` | one SQLite table, shared by processes | create, claim_next, heartbeat, complete, fail, cancel, requeue_expired | one worker per claim; a late attempt decides nothing; final states are final; a good lease is left alone |
| **Runtime API: tasks** `core/runtime/server.py` | per process: known scopes, a worker thread; the table | POST /tasks, cancel, worker loop, lifespan | no task run twice; a cancel wins; no task forgotten |
| **Runtime API: threads** `core/runtime/server.py` | per thread: message list, event buffer with an end mark | POST /messages (a Python thread per turn), GET /events (a generator per client) | no event lost or doubled, streams end, the history tells the whole conversation |
| **Single-agent graph** `core/orchestration/nodes.py`, `graph.py`, `state.py` | GraphState in a checkpoint | guard_in, agent, tools, guard_out; cancel | turns are bounded, repeated calls broken off, one outcome told |
| **Plan graph** `core/orchestration/plan.py`, `core/plan/planner.py` | plan, batches, results, failed, messages | plan, dispatch, run_one/skip_task in parallel, collect, finalize | dependencies first, each task once, each result under its task, failures reported |
| **Multi-agent graph** `core/orchestration/multi.py` | subtasks, messages, results | decompose, dispatch, workers in parallel, gather by position, finalize | each result under its subtask |
| **Tool approval** `core/tools/approval.py`, `registry.py` | approved prefixes, audit log, the paused graph | wrapped invoke, interrupt, resume, record | nothing runs unapproved; what is approved runs once |
| **Bash validation** `plugins/toolsets/bash/` | prefix file | validate_command, save prefixes | deny beats allow; only what was asked is remembered |
| **Policy** `core/policy/` | append-only audit log | record, tail; checks on strings | a record that was made can be read |
| **Long-term memory** `core/memory/langgraph_store.py` | a store of namespaces | remember, forget, list, prune | the limit is kept, what was just remembered is there |
| **Session memory** `core/memory/session.py` | two files per session | save, load, list, remove, purge | meta and history agree; a save that succeeded loads |
| **Snapshots, history** `core/history/` | files | write, list, restore, rolling purge; append, read | the newest of a kind survives |
| **Skill library** `core/skills/library.py` | files, a loaded list | load, add, remove | a readable skill is listed |
| **Evaluation** `core/eval/` | dataset, baseline file | run, judge, save and compare a baseline | a regression is told, and only that |
| **Configuration** `config.py`, start of `main.py` | defaults, file, environment, options | Config, overrides, run, chat, serve | the closest layer wins |
| **Command line** `main.py` | conversation, paused turn | _run_turn: stream, pause, ask, resume; chat loop | every pause is answered, every turn ends |
| **Agent runtime** `core/agents/` | - | run_graph_session, _single_graph_input | (its file is not in the repository) |
| **Context truncation** `core/truncation/` | - | maybe_summarize | (its file is not in the repository) |
| **Prompts, models, adapters** | none of their own | text and conversions | - |
| **Observability** | sinks of events | sums | - |
| **Other tool sets** | none | I/O | - |

*How they interact.* The command line and the service both start a graph session
with a `session_scope` and consume its events. The service runs it on a Python
thread per message (history and buffer shared with the request handlers) or on
the worker thread of the process (the table shared with all processes, the known
scopes with the handlers). Graph nodes communicate through the checkpoint; tools
reach approval through LangGraph's interrupt, and a resume runs the tools node
again from its start. Approval reads the validator and writes the prefix file.
What the commands keep lies in files and one small database under the user's
directory; commands of several terminals share them without locks, and the user
edits some of them by hand.

*What is hard.* Several processes on a table, with clock readings taken before
the lock is waited for; a worker that comes back after its lease; a crash or a
database error between a claim and its result; a check and the act it decides in
different statements; a turn that ends between a generator's `pop()` and
`done()`; shared lists replaced by copies; an end mark that outlives its turn;
channels of a checkpoint that outlive their turn; results matched to tasks by
text and by position; nodes run again on resume; files read, merged and written
without a lock, emptied before they are filled, or removed between a listing and
a look; two files that belong together and are written one after the other. The hazards of
`PROJECT.json` say where each bites and which property is there for it.

## 2. Modules

| module | models | used by |
|---|---|---|
| `TaskTable` | the table: each SQL statement as a relation on `rows` | TaskQueue, TaskServer |
| `TaskLifecycle` | **abstract specification**: what a client may rely on of a task | refined by both |
| `TaskQueue` | the queue under workers, clients and a janitor | `MCTaskQueue`, `TaskQueueProofs` |
| `TaskServer` | `agent serve` on the table, with faults | `MCTaskServer`, `TaskServerProofs` |
| `ThreadTurns` | one conversation thread and its streams | checked directly, `ThreadTurnsProofs` |
| `AgentLoop` | turns of the single-agent graph | checked directly, `AgentLoopProofs` |
| `PlanGraph` | one turn of the plan graph | `MCGraphs`, and directly; `GraphsProofs` |
| `MultiAgent` | turns of the multi-agent graph | `MCGraphs`, `GraphsProofs` |
| `Approval` | a round of tool calls: validation, guard, interrupts, prompts | `MCApproval`, `ApprovalProofs` |
| `LongTermMemory` | the memory adapter over its store | `MCLocal`, `LocalProofs` |
| `ChatSession` | the chat loop, its two files, a purge | `MCLocal`, `LocalProofs` |
| `Snapshots` | rolling snapshots around runs | `MCLocal`, `LocalProofs` |
| `Journal` | the append-only files and their readers | `MCLocal`, `LocalProofs` |
| `Launch` | settings, and how a command starts | `MCLocal`, `LocalProofs` |
| `Skills` | the skill library | `MCLocal`, `LocalProofs` |
| `Evaluation` | datasets, verdicts, baselines | `MCLocal`, `LocalProofs` |
| `TaskTableProofs` | lemmas on the table's statements | the two proofs below it |

### TaskTable, TaskLifecycle
`rows[t]` is the row of task `t`: `state`, `lease_owner`, `lease_until` and `created_at`
(absent before `create`). Payload, result text and timestamps nobody compares are left
out. `clock` counts the milliseconds that `_iso` writes: equal strings are equal instants,
and strings are ordered as instants are. Every statement runs under SQLite's write lock
(`BEGIN IMMEDIATE` in `claim_next`), so it is one step; but its *time* argument is read
before the lock is waited for, so it is a parameter `now`, any earlier reading of the
clock. `Oldest` breaks ties nondeterministically, for `ORDER BY created_at` does.

`TaskLifecycle` knows a task's status and how often it was handed out. A task
goes from queued to running by being handed out, goes back only by a requeue,
ends in completed, failed or canceled, and a result comes only from the attempt
that is current. Both detailed modules instantiate it (`Life`) with
`status <- rows[t].state`.

### TaskQueue
A worker is `idle`, `claiming` or `renewing` (it has read the clock and waits for
the lock) or `running`; it remembers the task and the attempt it was handed.
`Die` forgets a worker, its row stays. `Janitor` calls `requeue_expired` as its
docstring says it is to be called; workers call `heartbeat`. Neither has a caller
in the repository: `TaskQueue` is the queue as an interface, `TaskServer` is what
the program does with it. `DistinctIds` (different workers, different
`worker_id`s) is the interface's precondition. With equal ids, the ownership
check cannot tell two attempts apart; so it is a hypothesis of the theorems that
need it and not of the others.

### TaskServer
`thread[p].pc` walks through `_worker_loop` and `_run_one_task`: `poll`,
`scopes`, `claim`, `check`, `run`, then `finish`, `complete` or `excepted`,
`fail`. `is_canceled` and the statement it decides are separate steps.
`CreateTask` and `AddScope` are the two statements of the handler. The turn is
one step that ends or raises; the worker answers a pause with a rejection at
once and the turn goes on. `DbErrorInTry` and `DbErrorOutside` are a failed
statement inside and outside the `try`; `Crash` is the end of the process (also
a shutdown with a busy worker, which `lifespan` joins for two seconds only);
`Restart` runs `create_app` again. All processes may have one `worker_id`, the
default "worker-1".

### ThreadTurns
`history` is `app.state.threads[id]`; `items` and `eof` the `_EventBuffer`;
`turn[i]` the i-th `run_turn` thread with its `final_msgs`; `stream[s]` a
generator, which is in `empty` between a `pop()` that found nothing and
`done()`. POST /messages and the generators run on one event loop, and `gen()`
awaits nothing between the two calls: while a stream is in `empty` only turns move
(`LoopFree`). Turns may overlap: nothing in the code prevents it.

ANSWER_END carries the messages the model was called with, and `maybe_summarize`
may have made one of the old ones (`nodes.py:160-174`, `234`, `253`): `PushAnswer`
appends the answer to the turn's list with any number of its first messages summarized.
A message therefore says the *parts* of turns it stands for. The two statements of
`finally` are two steps, `ReplaceHistory` and `CloseBuffer`. A client that goes away
after a `pop()` takes the event with it; it is not modelled.

### AgentLoop
`pc` is the node to run next and `state` is GraphState. The agent node is two
steps, `CheckCancel` and the model's answer, since a cancel may arrive while the
model is thinking. A turn starts blank or on the last checkpoint: which one,
`_single_graph_input` decides, whose file is missing, so both are possible every
time. `past` and `told` are history variables. What a tool does, and its
approval, is not here.

### PlanGraph
`MakePlan` takes any plan of up to `MaxTasks` tasks: any dependencies, cycles
included, any descriptions, equal ones included. `Ready`, `Peel`, `Stuck` are
`compute_batches`; the recursion of `Peel` is the function `Peeling` on the tasks that
remain. `RunOne` leaves the messages of a worker, with or without a
tool call; `Collect` is the superstep's end, with the scan of `collect` stated as
"the AI message `i` is taken for the task message `h` opens". A worker that
raises ends the graph. Messages of a batch come in the order of the batch
(LangGraph applies the writes of a superstep by task order).

### MultiAgent
`node` is the node to run next. `Decompose` takes what the model may plan or, when
it fails, the heuristic's split, which may be empty. `at[i]` is where the worker of
subtask `i` is: a command worker may ask for tools, a tool may pause the graph,
and a worker that raises ends the turn. Workers finish in any order; what they leave
is put into the channel in the order of the subtasks, and `gather` pairs the i-th AI
message that has a content with the i-th subtask: `ResultsIn` are the positions of
those messages, and `Place` counts which of them one is. Of a message only its author and
whether it has a content are kept. How a turn starts (a blank channel, the
checkpoint's, the messages of the last answer) is left open, for the code that
decides it is missing.

### Approval
One session of the command line. A round is the list of tool calls the model
asked for; each has a thread, and `pc[i]` walks through `_approved` of
`wrap_with_approval`: `start` (rule level), `invoke`, `ask` (dynamic level),
`again` (the call repeated), `done` or `paused`. `Verdict` is
`validate_command`: a command is the set of its segments, each with the prefixes
that match it and whether a hardcoded block, a sensitive path or the deny list
bars it; its form, its arguments and the suggested prefixes. How a text is
parsed into that is left to the parser and the argument rules. `Outcome` puts
CommandGuard before it, as `wrap_with_guards` does. `Prompt` is `_run_turn`: it
asks, perhaps saves prefixes, and resumes; the whole node then runs again, so
every call starts over, while `approved` (a field of the registry) stays.

LangGraph is external. The model takes from it that the interrupts of one node
share one list of answers, that the n-th interrupt of a run takes the n-th
answer, and that the first paused call in the order of the round is shown. With
one call asking per round nothing depends on this. With two, the answer to one
may be taken by the other: then a refused call may run, and prefixes may be
recorded that nobody was shown. `past.crowded` marks the histories in which that
could have happened, and `GrantsAsked` and `AnswerHeeded` say what holds outside
them; `BarredNeverRuns` and `RoundEnds` hold in all.

The mode "never" makes `approval_requirement` answer None, as "auto" does when no
static rule is registered (nothing registers one); the prompt of
`validate_command` comes in every mode. So the runs have "auto" and "always".

### LongTermMemory
The store (SQLite behind langgraph's interface, external) is atomic call by call;
`remember` is a get, a put and, over the limit, a search and one delete for each
entry that goes, so callers interleave between them and may break off anywhere.
Contents are numbers in the order of their hashes, which is how `prune` breaks ties.
A search takes a namespace as a prefix, and SqliteStore matches it by text, so a
listing of /proj has the entries of /proj2 as well: `Under` gives for each namespace those
whose text begins with its own, and `Listed` reads all of them. (That is langgraph's
behaviour, known from the library and not from this repository; with `Under[ns] = {ns}`
the model is that of a store that compares whole names, and the theorems cover both.)
The deletes go to the caller's own namespace under the keys that were listed.
`DbOf` says which database the slash command and the tools open; the run gives them
one, as a configuration that names both paths alike does (see section 5 for the
default).

### ChatSession
`chatAt` walks through `_chat_loop` and, in a save, through `mkdir`, the merge with
the old meta, and the opening (which empties) and filling of each of the two files;
every one may fail, and the process may die. A purge in another process reads the
meta, scans the directory and unlinks file by file, as `rmtree` does.
`history` is told apart by the turn that changed it last and its length. A turn ends with
any list: unchanged, one question longer, or ANSWER_END's, which may be shorter than what
the turn began with, for the reason given for ThreadTurns. `shrunk` remembers a turn that
shortened the list since the meta file was last filled.

### Snapshots
A run with `--snapshot` takes one before and one after its turn. Each write is
followed by the purge in steps of its own: the directory listing, the `stat` of
every file (which fails if another run has unlinked one), the unlinks. A writer may
leave a torn file. Snapshot ids of different writes differ.

### Journal
Both JSONL files are appended in the same way, so one module stands for both. A
record is one line, written at once or in two pieces; a writer that breaks off leaves
the line open, and the next record is glued to it. The readers (`tail` with a limit
over all sessions or one, the sums of `history usage`) are operators, and say at which
lines of the file stands what they return. `Undecodable` is a file that
ends a piece inside a character: reading it raises.

### Launch
One setting stands for each way `config.py` treats one; a value is usable, "bad",
empty, or a YAML null. `Load` merges the file and the environment into a copy
of the defaults, and several Configs may be made in one process, for the defaults are a
shared object. An environment boolean that is none counts as off (`EnvValue`), although
`_env_bool` speaks of the current value: `Misread` names the case.
`Override` and the start of `run`, `chat` and `serve` follow `main.py` with their checks
of the mode.

### Skills, Evaluation
A skill is a name and a text in a file. Loading lists the directory and reads file by
file, while others add (open and fill), remove (look and unlink) and edit by hand.
An evaluation case is its set of tags and a reply is what `judge_actual` tells apart
of it; rates are pairs of integers, so that their comparison with the tolerance of
0.001 is exact. The baseline's file is emptied before it is filled, and read by others.

### MCGraphs, MCLocal
Models that share no state are checked side by side: a behaviour chooses one at
the start and moves only that. So the number of states is the sum, not the product.

## 3. Runs

| run | configuration | shows |
|---|---|---|
| `queue` | 2 workers, 2 tasks of one scope, lease 1, clock to 3, 2 attempts | types; only the current attempt owns or settles; no early requeue; refinement of the life cycle |
| `server` | 2 processes with one id, 2 tasks in 2 scopes, one fault of either kind, clock to 1 | one worker per task, refinement; every queued task is settled, unless a fault orphans it or a restart forgets its scope |
| `server_crash` | 1 process, a crash | **violation**: a running task of a crashed worker stays running |
| `threads` | 2 turns, 2 streams, one extra event | nothing lost or doubled; without overlap, the first turn fully streamed and every part of the conversation told by the history; streams end |
| `threads_eof` | the same | **violation**: a stream ends in the middle of the second turn |
| `threads_summary` | 2 turns, 1 stream | **violation**: a turn takes an earlier turn's message out of the history |
| `agent_loop` | 2 lists of calls, `max_steps` 6, 3 turns | bounds, loops broken off, cancel heeded, one outcome, turns end |
| `graphs` | all plans of up to 3 tasks over 3 descriptions; 2 multi-agent turns over 2 requests, plans of up to 2 subtasks, one round of tools | batches, dependencies, the report; each result under its subtask |
| `plan_failure` | plans of up to 2 tasks | **violation**: a failing worker is not reported |
| `approval` | 11 commands over 3 prefixes, rounds of up to 2 calls, 3 calls in all, two modes, with and without a terminal | denials absolute, grants were asked for, answers heeded, rounds end |
| `approval_compound` | one round of one call, a compound command or a plain one | **violation**: an approved compound command never runs |
| `local` | each local part with 2 processes (below) | the memory limit, the memory just made, the two files of a session, the surviving snapshots, the readable records, the closest setting, the listed skills, the told regressions |

*Bounds.* Two workers and two attempts are what it takes for a late worker to meet its
successor; a lease of 1 and a clock to 3 let a lease run out, be renewed from a stale
reading and run out again. Ties of `created_at` need two tasks of one scope; polling needs
two scopes, one of them not the default. One fault suffices for each way a task can be
stranded, and a second only adds combinations. Two turns are the smallest history with an
overlap and the smallest with a stale end mark; two streams the smallest that share a
buffer. Six steps leave room for a streak of three to be built, broken and built again
before `max_steps`, and three turns for both counters to be carried over twice. Three
tasks have every shape of chain, fork, join and cycle that the peeling tells apart; the
third description gives the user's own message one to coincide with. Two calls are what it
takes for an answer to go to the wrong one or for one call's approval to cover the other,
and a third call in a second round for a grant to outlive its round; the commands have one
of each kind `validate_command` tells apart, and one prefix that is the beginning of
another. In `local`: one entry is the smallest limit that two contents exceed, and ties of
the clock need no more; a second namespace lies under the first, and the constraint
`SmallSibling` lets it hold one content, remembered once, which is enough for a listing of
the first to have a foreign entry, of the same content or another (the two callers are
alike, which `Symmetry` uses: no liveness is checked there, and no definition tells one
caller from the other); four messages are the system prompt, a question, an answer and the
question of a second turn, which may shorten them; two days let a session grow old while
it is saved; `Keep` 1 with four ids lets two runs write twice each, so that a purge acts
on a listing in which another's has already taken the newest; three records let one be
torn, one be glued to it and one be read; two Configs are a second use of the shared
defaults; two files and one name let a skill be in its own file and in another; datasets
of at most two cases tell the three rates apart (the tolerance of 0.001 matters only
beyond a thousand). `AgentLoop`'s counters `asked`, `late` and `same` stop one past the
value the properties allow, as does `runs` in `PlanGraph`.

*Deadlock* is checked in no run whose system may stop: a conversation, a plan, a session
or a command that is over (`AgentLoop`, `MCGraphs`, `ThreadTurns`, `Approval`, `MCLocal`).
It is checked in the task modules, where a worker can always poll.

*Fairness.* `TaskServer`: the worker loop (`while not stop`, every exception is
caught), a service that is started again, the second statement of a handler that
began, and time. `ThreadTurns`: the turn threads and the generators, both loops
without an external wait. `AgentLoop`: the graph. Turns are taken to end, since
their steps are bounded and a provider call either returns or raises. `Approval`: the
threads of a round, and whoever is asked (without a terminal the answer is no at
once). Users owe
nothing anywhere: posting, cancelling, opening a stream are never fair.
`TaskQueue`, the orchestration graphs and the local parts state safety only and assume no
fairness: what they do ends with the command, or when the process is killed.

## 4. Proofs

All theorems are for every value of the constants under the named assumptions
of the modules (`TableAssumption`, `QueueAssumption`, `ServerAssumption`,
`LoopAssumption`, `PlanAssumption`, `MultiAssumption`, `ApprovalAssumption`,
`ThreadAssumption`, `MemoryAssumption`, `ChatAssumption`, `SnapshotAssumption`,
`JournalAssumption`, `LaunchAssumption`, `SkillsAssumption`, `EvaluationAssumption`),
which TLC evaluates in the runs. Every invariant and every action property of a
passing run is a theorem.

- **TaskQueueProofs.** The inductive invariant is `TypeOK` with
  `OwnerIsCurrentAttempt`: a worker that would find its id in a row holds that
  row's latest attempt. It is inductive because `ClaimNext` writes the claiming
  worker's id in the step that counts the attempt, and a requeue erases the
  owner. `TypeOK` alone is not enough for `OnlyCurrentAttemptSettles` or the
  refinement: a worker running an old attempt is well typed. From it follow
  `TypeCorrect`, `OwnerCurrent`, `CurrentAttemptSettles` and `Refinement`
  (each step of the queue is a step of `TaskLifecycle` or a stutter).
  `NoLeaseCutShort` and `CanceledStays` hold without `DistinctIds`: the first
  because a stale reading of the clock can only make a lease look *longer*, the
  second because every UPDATE excludes or cannot select a canceled row.
- **TaskServerProofs.** `IInv` joins `TypeOK` with `WorkersHoldTasks` (a thread in a task
  has one), `Exclusive` (no two have the same), `OwnsWhatItRuns` (the task of a thread is
  in state running or canceled, with that thread's id as its owner), `ClaimsCounted` (a
  task that is absent or queued was never claimed, and any other at most once) and
  `FaultFreeRunning`. No hypothesis on ids is needed, although they coincide: without
  requeues a task is claimed once in its life, so whoever works on it is its only worker
  ever. `OneAttempt` (no task is handed out twice), `OneWorker` and `Refinement` follow.
  The same argument shows what would break if a requeue were wired in with the default id.
- **ThreadTurnsProofs.** `IInv` is `TypeOK` with `Numbered` (turns are posted in order and
  events are of posted turns), `Closed` (the end mark implies a turn that is done, and an
  ended stream the end mark and, without an overlap, that the first turn is done and left
  no event behind), `LastTurn` (without an overlap only the last turn is active, and its
  private copy of the list tells every part) and `Complete` (the same of the history, when
  turns are done). A part is told by a message of its own or by a summary, and a summary
  of a list tells what the list told, in its order. The copy is why `HistoryComplete` is
  not inductive alone: what becomes the history at a turn's end was copied when it began.
  `FirstStreamed` and `HistoryWhole` follow, for any number of turns and streams. Both
  speak of histories without an overlap; with one, the turn that closes first ends the
  streams of the other, and only that some turn has ended remains. `EventsOnce`
  (`ExactlyOnce`) rests on `Buffered` (the buffer is the end of what was pushed, behind as
  many events as all streams have received) and `Alone` (a stream that takes events alone
  has them in order). The number received is a sum over the set of streams; `SumMoved`
  says that it grows by one when one stream does, from an induction on sets (the sets it
  fails for would have no smallest).
- **AgentLoopProofs.** `IInv` ties the history to the counters the code keeps:
  `StepsCounted` (the turn asked the model at most `iteration` times, and fewer
  than `max_steps` times while the model may still be asked), `RoundsCounted` (repeated
  rounds against `no_progress_streak` and `prev_tool_calls`), `LateRound`,
  `OneOutcome` and `Told` (who has told the client what, at each node).
  `TypeCorrect`, `Bounded`, `LoopsBrokenOff`, `CancelWorks` and `ToldOnce` follow, from any
  sequence of blank starts and checkpoints.
- **GraphsProofs.** The batches of a plan are what a recursive function peels off its
  tasks. That the function exists, and that each batch holds the tasks whose
  dependencies are in earlier ones, is proved by induction on the set of remaining
  tasks (`PeelExists`, `PeelingSound`); a cycle is what is left when nothing can be
  peeled, hence `SplitRight` for plans of any size. `PlanIInv` says of the batch at
  `batch_index` who has run (`BatchRuns`), that an AI message follows one or the
  description of its own task (`AnswersFollow`), and that what is done has a result of
  its own (`ResultsOwn`); `RunInOrder` and `ReportComplete` follow. The latter needs what
  `collect` finds by its scan: `FlattenPieces` says where in the joined messages of a
  superstep each worker's are, and `ScanTakes` that the scan stops at the right one.
  `MultiIInv` says whose each result in the channel is (`Authored`); `gather` counts
  from the turn's start in the code's way, and `InPlace` shows that up to the first worker
  that left no result, or several, the i-th result is the i-th worker's (`ResultsPlaced`).
- **ApprovalProofs.** `IInv` is `TypeOK` with `BarredNeverRuns` and the fact that what is
  saved was shown. `DenialAbsolute` rests on the order of checks in `validate_segment`
  (the allow list is read last) and on both invocations of a call going through the guard
  and the validation again: whichever call takes which answer, an approval only adds
  prefixes, and no prefix makes a barred segment allowed. `GrantsWereAsked` and
  `AnswersHeeded` need `AInv`, which adds what holds while one call of a round asks at a
  time: the answers are that call's own (`OwnAnswers`), the counter of interrupts stands
  where its program does (`Counted`), what it offers when it takes an answer is what it
  offered when the answer was given (`OwnOffer`), and it runs if and only if all were yes
  (`RunsIfYes`). `OwnOffer` is the heart of it: the node runs again from its start, so
  validation decides a second time, and nothing in between may have changed the allow
  list.
- **LocalProofs**, one inductive invariant for each part, and `LocalIInv` for all.
  *Memory* (`LimitHeld`, `RememberWorks`): the number of entries exceeds the limit in the
  midst of every `remember`, so `LimitInv` counts what no call is about to delete, and
  excepts the namespaces some call has yet to look at or was broken off in; `AloneInv` says
  what a `remember` finds at each of its steps when no other call runs. The memory just
  made is the newest, and only ties of the clock can put others before it (`FirstShown`).
  `RememberWorks` says nothing of a call that dropped entries while its listing held one
  content in two scopes: there `prune` may delete the key of the memory just made for the
  sake of its namesake, and `alone` becomes FALSE.
  *Chat* (`CountBehind`, `SaveKept`): what the save in progress has written
  (`MergedCounts`, `HistoryFirst`, `SaveProgress`), that no meta counts more than the loop
  has unless a turn has shortened it (`MetaBehind`), and what a save that returned True
  left (`SavedHolds`). The order of the two files is what it rests on: with the meta
  written first it fails, and after a turn that shortened the history it fails with the
  code's order.
  *Snapshots* (`Retention`): `Outnumbered` says that every snapshot that is not *safe* (in
  the directory and in no run's hands to unlink) has `Keep` newer safe ones. A listing may
  be old when its purge acts, so what a purge keeps may itself be doomed by another; but
  the newest of those that would break the invariant has only safe ones above it
  (`HasNewest`), and that contradicts it.
  *Journals* (`NewestRead`): `LossBounded` says that each record written in pieces has
  spoiled at most one other, and none while the line it left open is. With `Rising`
  (records stand in the file in the order they were begun) that bounds what a reader with
  a limit can miss.
  *Settings* (`ClosestHeeded`): the shared defaults are never changed, and the loaded
  value comes from the closest layer before options are looked at; a misread boolean is
  the exception the theorem names.
  *Skills* (`LibraryWhole`): `ReadingHolds` says that a load in progress has read, or has
  still in its listing, every file that could be read all along.
  *Evaluation* (`RegressionsTold`): the rates of both sides are of whole lists of verdicts
  (`VerdictsWhole`). Its hypothesis is a dataset of fewer than 1000 cases:
  `compare_baseline` takes a difference of up to 0.001 for none, so with a thousand cases
  one case that got worse is not told.
- **TaskTableProofs** has the lemmas on the table's statements both task proofs use.

What the proofs changed in the models: two arms of the `CASE` that reads an environment
variable overlapped, so that TLC's choice was not the only one (`Launch`); the results of
workers and the readers of a journal are stated by positions, and the peeling as a
function, for `SelectSeq` and a recursive operator are opaque to the provers.

*Only model-checked:* `EventuallySettled`, `StreamsEnd`, `TurnEnds` and `RoundEnds`:
liveness under fairness is out of the prover's reach. What the code does not do as
documented (section 5) is shown by TLC's counterexamples.

## 5. What the code does not do as documented

1. `core/runtime/server.py:23` says a crashed worker's task is requeued when its
   lease expires. `requeue_expired` has no caller, so it stays running
   (`server_crash`).
2. The buffer's end mark is never reset, so streams of later turns of a thread
   end early (`threads_eof`).
3. `docs/requirements.md:135` wants a failed task located and its dependents
   skipped. No code writes the status "failed"; a worker that raises ends the
   graph without a report (`plan_failure`).
4. `core/tools/approval.py:109` says the call repeated after an approval passes the
   validation. For a compound command it does not, so an approved one ends with
   "approval re-required after approval" (`approval_compound`).
5. The repository's `README.md:26` and `core/orchestration/nodes.py:160` say that
   summarizing old messages shortens the input of the model only. The shortened list goes
   out with ANSWER_END and becomes the history of the thread, and of a chat
   (`threads_summary`).

Stated in the modules and in no run: each is violated by a few steps of one actor, or
for a reason that has one of the forms above.

- `AnswerReported` (`PlanGraph`): `docs/requirements.md:135` wants results reported as
  they are; `collect` takes a worker's first AI message, which is its request when it
  uses a tool.
- `TaskKept` (`MultiAgent`): `multi.py:222` calls the original task what may be the text of
  a subtask, for `finalize` takes the last human message.
- `OneMemory` (`LongTermMemory`): `core/memory/store.py:77` speaks of a single source for
  the path; with nothing configured `/remember` writes `memory.db` and the agent's tools
  `memory_store.db`.
- `ScopesApart` (`LongTermMemory`): `langgraph_store.py:5` has namespaces keep users and
  scopes apart by themselves; a prune of /proj counts and drops for the entries of /proj2.
- `ServesNever` (`Launch`): `core/runtime/server.py:24` says a server runs in mode never
  unless told otherwise. `main.py:952` reads the mode from a configuration whose default
  is "auto", so its own default is never reached.
- `IllegalKeepsCurrent` (`Launch`): `config.py:168` has an illegal boolean of the
  environment leave the current value; it counts as off.
- `DamageSkipped` (`Journal`): `audit.py:110` has a damaged line skipped; one torn inside
  a character makes the whole reading raise.
- `SameNameOverwritten` (`Skills`): `library.py:122` has `add` overwrite the skill of the
  name; one that another file holds stays, and may be the one that is found.
- `ExpectedPasses` (`Evaluation`): `runner.py:7` lets a reply that holds what is expected
  pass; `eval/datasets/customs.yaml:90-93` expects a refusal, which is judged first.

Seen on the way, and in no run: calls of a round that had run are run again when
another call of the round pauses and the node is resumed; prefixes of a one-time
approval are recorded all the same (`lc_tools.py:55` falls back to the suggested
ones, against the comment of `validation.py:575`); the file of saved prefixes is
never read back; in mode "always" the user is asked before CommandGuard blocks;
in mode "never" `validate_command` still asks; answers of a round in which two
calls ask may change places, though `approval.py:9-10` has each matched by id.

Of the local parts: removing a skill held in a file of another name says there is none,
and of two removals at once one raises; a chat's `/skill` lists the library of its first
use; `match` and `format_skills_block` have no caller. A baseline does not say which model
made it, and a torn one reads as none. The default of `multi_agent.sandbox` always hides a
user's `sandbox:` section (`config.py:333-341` against `:220`); an empty YAML section with
an environment variable for it raises. `--snapshot` without a configured directory makes
none; a run whose second snapshot fails prints that and exits with 0; `agent snapshot
restore` of a workspace without `--workspace` raises. `max_subagents` is never read;
`_runtime_kwargs` builds a second `HitlPolicy`; a chat turn in plan mode raises NameError
(`main.py:538`); `set_hitl_mode` is defined nowhere. `tail` says newest first and returns
oldest first; ties of a memory search come oldest first; `HistoryStore` has no writer.

## 6. Not modelled, and the plan

Out of scope for good: prompts, models, observability and I/O tools (no state or order to
get wrong), the shell parsing of bash validation and the patterns of the guards (text in,
verdict out: the verdict is data here), terminal output, `init` and `doctor`, and two
files that are imported but absent: `core/agents/runtime.py`, by `config.py`, `main.py`
and `server.py`, and `core/truncation/summarizer.py`, by `nodes.py`, whose
`maybe_summarize` the models take as its callers use it. `PlanGraph` is one turn on a
fresh thread, `AgentLoop` leaves the messages out and `MultiAgent` leaves the start of a
turn open, all for that reason. The scripts under `.specify/` are tooling of the
development process, not of the agent.

Three hazards of the list have no property: the results of an earlier plan
(`plan.py:88`) and the messages of a turn broken off (`nodes.py:272`) matter in a next turn
that the missing file starts; and the file of approved prefixes (`cli_prefixes.py:86`) is
never read back.

Next, in this order:

1. An abstract specification of an event stream (a queue that hands out each event once,
   in order), with `ThreadTurns` proved to implement it, as `TaskLifecycle` is for the
   tasks.
2. `TaskServer` over the `ThreadTurns` of its process: the two share only the process, so
   this waits until a turn run by the worker may write a thread's history.

## 7. Running

    tlc -workers 2 -config MCTaskQueue.cfg MCTaskQueue
    tlapm TaskQueueProofs.tla

The runs `server` and `local` take three to four minutes, the others less than one or
two; `LocalProofs` takes about seven, each other proof module at most a few.
