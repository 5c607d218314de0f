----------------------------- MODULE ThreadTurns -----------------------------
(***************************************************************************)
(* One conversation thread of the Runtime API (GSagent/core/runtime/       *)
(* server.py): its history, its event buffer, the turns that POST          *)
(* /messages starts in threads of their own, and the server-sent event     *)
(* streams that GET /events opens.  Threads share nothing, so one is       *)
(* enough.                                                                 *)
(*                                                                         *)
(* A message is the user's or the agent's part of a turn; the system       *)
(* prompt and tool messages inside a turn are left out.  The agent session *)
(* is run_graph_session, which is not in the repository: it yields some    *)
(* events, may yield ANSWER_END carrying its messages, and ends or raises. *)
(* These are the ones the model was last called with, which                *)
(* maybe_summarize may have shortened (nodes.py:160-174 and 234).          *)
(* An approval pause is rejected and the session resumed in the same turn, *)
(* with no effect on the state kept here.                                  *)
(*                                                                         *)
(* POST /messages and the generators run on one event loop and await       *)
(* nothing inside; the turns are threads.                                  *)
(***************************************************************************)
EXTENDS Naturals, Sequences, FiniteSets, FiniteSetsExt

CONSTANTS
  MaxTurns,    \* bound: POST /messages calls
  Streams,     \* GET /events calls
  MaxChunks    \* bound: events other than answers and errors, of all turns

ASSUME ThreadAssumption ==
  /\ MaxTurns \in Nat \ {0}
  /\ MaxChunks \in Nat
  /\ IsFiniteSet(Streams)

VARIABLES
  history,     \* app.state.threads[thread_id]
  items, eof,  \* the _EventBuffer
  turn,        \* the run_turn threads, by number
  posted,      \* turns started so far
  stream,      \* the SSE generators
  pushed,      \* history: every event ever pushed, in order
  overlapped   \* history: was a turn posted while another one was running?

vars == <<history, items, eof, turn, posted, stream, pushed, overlapped>>

Turns == 1..MaxTurns

Part == [from : {"user", "agent"}, turn : Turns]

\* A message says one part of a turn, or it is the summary of several.
Message == [parts : SUBSET Part, summary : BOOLEAN]
Event == [kind : {"chunk", "answer_end", "error"}, turn : Turns]

UserPart(i) == [from |-> "user", turn |-> i]
AgentPart(i) == [from |-> "agent", turn |-> i]
User(i) == [parts |-> {UserPart(i)}, summary |-> FALSE]
Agent(i) == [parts |-> {AgentPart(i)}, summary |-> FALSE]
Ev(k, i) == [kind |-> k, turn |-> i]

\* "replaced" lies between the two statements of the turn's finally block
Turn == [pc : {"unposted", "session", "answered", "failed", "replaced", "done"},
         final : Seq(Message)]          \* final_msgs, until the history is it

\* "empty" lies between pop() returning None and the call of done()
Stream == [pc : {"closed", "open", "empty", "ended"},
           got : Seq(Event)]            \* what the client has received

TypeOK ==
  /\ history \in Seq(Message)
  /\ items \in Seq(Event)
  /\ eof \in BOOLEAN
  /\ turn \in [Turns -> Turn]
  /\ posted \in 0..MaxTurns
  /\ stream \in [Streams -> Stream]
  /\ pushed \in Seq(Event)
  /\ overlapped \in BOOLEAN

Active(i) == turn[i].pc \in {"session", "answered", "failed", "replaced"}
Ended(i) == turn[i].pc = "done"

\* The event loop is not inside a generator, between pop() and done().
LoopFree == \A s \in Streams : stream[s].pc # "empty"

Init ==
  /\ history = <<>>
  /\ items = <<>> /\ eof = FALSE
  /\ turn = [i \in Turns |-> [pc |-> "unposted", final |-> <<>>]]
  /\ posted = 0
  /\ stream = [s \in Streams |-> [pc |-> "closed", got |-> <<>>]]
  /\ pushed = <<>>
  /\ overlapped = FALSE

-----------------------------------------------------------------------------
(* Turns.                                                                  *)

Push(e) ==
  /\ items' = Append(items, e)
  /\ pushed' = Append(pushed, e)

\* The user message goes into the list object that is the history now, and
\* the session starts from a copy of it (history[:-1] plus the message).
SendMessage(i) ==
  /\ LoopFree
  /\ i = posted + 1
  /\ posted' = i
  /\ history' = Append(history, User(i))
  /\ turn' = [turn EXCEPT ![i] = [pc |-> "session", final |-> history']]
  /\ overlapped' = (overlapped \/ \E j \in Turns : Active(j))
  /\ UNCHANGED <<items, eof, stream, pushed>>

PushChunk(i) ==
  /\ turn[i].pc = "session"
  /\ Quantify(DOMAIN pushed, LAMBDA k : pushed[k].kind = "chunk") < MaxChunks
  /\ Push(Ev("chunk", i))
  /\ UNCHANGED <<history, eof, turn, posted, stream, overlapped>>

\* The list l with its first n messages summarized into one (maybe_summarize,
\* which is not in the repository: by its callers and src/README.md:26 the old
\* messages of a list that is too long become one system message; when tool
\* results follow it, the question of the turn may be among them).
Summarize(l, n) ==
  IF n = 0 THEN l
  ELSE <<[parts |-> UNION {l[k].parts : k \in 1..n}, summary |-> TRUE]>>
         \o SubSeq(l, n + 1, Len(l))

PushAnswerForgetful(i) ==             \* mutant: its messages are not taken
  /\ turn[i].pc = "session"
  /\ Push(Ev("answer_end", i))
  /\ turn' = [turn EXCEPT ![i].pc = "answered"]
  /\ UNCHANGED <<history, eof, posted, stream, overlapped>>

PushAnswerChunk(i) ==                 \* mutant: keeps the chunk, not its messages
  /\ turn[i].pc = "session"
  /\ Push(Ev("answer_end", i))
  /\ turn' = [turn EXCEPT ![i].pc = "answered", ![i].final = Append(@, Ev("answer_end", i))]
  /\ UNCHANGED <<history, eof, posted, stream, overlapped>>

\* ANSWER_END carries the messages the model has been called with, the
\* answer appended.
PushAnswer(i) ==
  /\ turn[i].pc = "session"
  /\ Push(Ev("answer_end", i))
  /\ \E n \in 0..Len(turn[i].final) :
       turn' = [turn EXCEPT ![i].pc = "answered",
                            ![i].final = Append(Summarize(@, n), Agent(i))]
  /\ UNCHANGED <<history, eof, posted, stream, overlapped>>

\* an exception of the session, before or after its answer
FailTurn(i) ==
  /\ turn[i].pc \in {"session", "answered"}
  /\ Push(Ev("error", i))
  /\ turn' = [turn EXCEPT ![i].pc = "failed"]
  /\ UNCHANGED <<history, eof, posted, stream, overlapped>>

\* The session has ended: with an answer, with an exception, or with
\* neither (input blocked, turn canceled).  finally: the list is replaced ...
ReplaceHistory(i) ==
  /\ turn[i].pc \in {"session", "answered", "failed"}
  /\ turn' = [turn EXCEPT ![i] = [pc |-> "replaced", final |-> <<>>]]
  /\ history' = turn[i].final
  /\ UNCHANGED <<items, eof, posted, stream, pushed, overlapped>>

CloseBufferNever(i) ==                \* mutant: set_eof is not called
  /\ turn[i].pc = "replaced"
  /\ turn' = [turn EXCEPT ![i].pc = "done"]
  /\ UNCHANGED <<history, items, eof, posted, stream, pushed, overlapped>>

\* ... and the buffer closed.
CloseBuffer(i) ==
  /\ turn[i].pc = "replaced"
  /\ turn' = [turn EXCEPT ![i].pc = "done"]
  /\ eof' = TRUE
  /\ UNCHANGED <<history, items, posted, stream, pushed, overlapped>>

TurnStep(i) ==
  PushChunk(i) \/ PushAnswer(i) \/ FailTurn(i) \/ ReplaceHistory(i) \/ CloseBuffer(i)

-----------------------------------------------------------------------------
(* Streams.                                                                *)

OpenStream(s) ==
  /\ LoopFree
  /\ stream[s].pc = "closed"
  /\ stream' = [stream EXCEPT ![s].pc = "open"]
  /\ UNCHANGED <<history, items, eof, turn, posted, pushed, overlapped>>

PopKeeps(s) ==                        \* mutant: reads the first item, leaves it
  /\ LoopFree
  /\ stream[s].pc = "open"
  /\ IF items # <<>>
     THEN stream' = [stream EXCEPT ![s].got = Append(@, Head(items))]
     ELSE stream' = [stream EXCEPT ![s].pc = "empty"]
  /\ UNCHANGED <<history, items, eof, turn, posted, pushed, overlapped>>

Pop(s) ==
  /\ LoopFree
  /\ stream[s].pc = "open"
  /\ \/ /\ items # <<>>
        /\ items' = Tail(items)
        /\ stream' = [stream EXCEPT ![s].got = Append(@, Head(items))]
     \/ /\ items = <<>>
        /\ stream' = [stream EXCEPT ![s].pc = "empty"]
        /\ UNCHANGED items
  /\ UNCHANGED <<history, eof, turn, posted, pushed, overlapped>>

DoneOnEof == eof                      \* mutant: items are not looked at

Done == eof /\ items = <<>>

\* Turns may have pushed and closed since pop() found nothing.
CheckDone(s) ==
  /\ stream[s].pc = "empty"
  /\ stream' = [stream EXCEPT ![s].pc = IF Done THEN "ended" ELSE "open"]
  /\ UNCHANGED <<history, items, eof, turn, posted, pushed, overlapped>>

StreamStep(s) == Pop(s) \/ CheckDone(s)

Next ==
  \/ \E i \in Turns : SendMessage(i) \/ TurnStep(i)
  \/ \E s \in Streams : OpenStream(s) \/ StreamStep(s)

\* Turn threads and generators run on; clients need not do anything.
Fairness ==
  /\ \A i \in Turns : WF_vars(TurnStep(i))
  /\ \A s \in Streams : WF_vars(StreamStep(s))

Spec == Init /\ [][Next]_vars /\ Fairness

-----------------------------------------------------------------------------
(* Properties.                                                             *)

\* However many streams read the buffer while turns write it, every event
\* is either still buffered or was received once; what is buffered is the
\* newest part, and a client that is alone receives all events in order
\* (_EventBuffer and gen(), server.py:67-91 and 225-233).
ExactlyOnce ==
  LET out == MapThenSumSet(LAMBDA s : Len(stream[s].got), Streams)
  IN  /\ Len(pushed) = out + Len(items)
      /\ items = SubSeq(pushed, out + 1, Len(pushed))
      /\ \A s \in Streams :
           (\A r \in Streams \ {s} : stream[r].got = <<>>)
             => stream[s].got \o items = pushed

\* No stream ends before some turn has; as long as turns do not overlap,
\* not before the first turn has, nor with an event of it left in the
\* buffer, though it may push and close between pop() and done()
\* (server.py:227-231).  When they overlap, the second may close the buffer
\* while the first runs (server.py:214).
FirstTurnStreamed ==
  \A s \in Streams : stream[s].pc = "ended" =>
    /\ \E i \in Turns : Ended(i)
    /\ ~overlapped => Ended(1) /\ \A k \in DOMAIN items : items[k].turn # 1

Answered(i) == \E k \in DOMAIN pushed : pushed[k] = Ev("answer_end", i)

\* The list l says p, itself or in a summary.
Tells(l, p) == \E k \in DOMAIN l : p \in l[k].parts

Rank(p) == 2 * p.turn + (IF p.from = "agent" THEN 1 ELSE 0)

Ordered(l) ==
  \A j, k \in DOMAIN l : j < k =>
    \A p \in l[j].parts, q \in l[k].parts : Rank(p) < Rank(q)

\* As long as turns do not overlap, the history tells every user message
\* and the answer of every turn that gave one, in order, itself or in a
\* summary, whichever turns fail.  Overlapping turns overwrite each other's
\* messages: each replaces the list by its own copy (server.py:169-170 and
\* 213).
HistoryComplete ==
  ~overlapped =>
    /\ \A i \in 1..posted :
         /\ Tells(history, UserPart(i))
         /\ Ended(i) /\ Answered(i) => Tells(history, AgentPart(i))
    /\ Ordered(history)

\* src/README.md:26: summarizing old messages affects the input of the model
\* only, the whole history is kept (and nodes.py:160).  So a turn would
\* leave the messages of earlier turns where they are.  ANSWER_END carries
\* the shortened list, and it becomes the history (server.py:203 and 213).
SummaryForModelOnly ==
  [][\A i \in Turns :
       i < posted /\ ~overlapped /\ (\E k \in DOMAIN history : history[k] = User(i))
         => \E k \in DOMAIN history' : history'[k] = User(i)]_vars

\* A client that waits on a thread some message was posted to is let go.
StreamsEnd ==
  \A s \in Streams :
    (stream[s].pc = "open" /\ posted > 0) ~> stream[s].pc = "ended"

\* server.py:18-19: the events of a turn run in the background are pushed
\* to the SSE generator of /events.  So no stream would end while a turn is
\* running that has not overlapped another.  The buffer's _eof is never
\* reset: once the first turn has closed it, any stream ends as soon as it
\* finds the buffer empty, be it in the middle of the second turn.
NoStreamEndsMidTurn ==
  [][\A s \in Streams :
       stream[s].pc # "ended" /\ stream'[s].pc = "ended" /\ ~overlapped
         => \A i \in Turns : ~Active(i)]_vars
=============================================================================
