----------------------------- MODULE ChatSession -----------------------------
(***************************************************************************)
(* The chat command's session memory: _chat_loop (GSagent/main.py) saves   *)
(* session_history after every turn with SessionMemoryStore.save           *)
(* (GSagent/core/memory/session.py), while another process may purge.      *)
(*                                                                         *)
(* A session id is drawn for each chat, so one directory is enough.  A     *)
(* history is told apart by the turn that last changed it and its length,  *)
(* which a turn may shorten: ANSWER_END carries the messages the model was *)
(* last called with, and maybe_summarize makes one of the old ones         *)
(* (nodes.py:160-174 and 234, main.py:326).  A file is written by opening, *)
(* which empties it, and by filling it.                                    *)
(***************************************************************************)
EXTENDS Integers

CONSTANTS
  MaxMessages,   \* bound of session_history
  MaxChatTurns,  \* bound: turns that change it
  MaxDay         \* bound of the clock

ASSUME ChatAssumption ==
  MaxMessages \in Nat /\ MaxChatTurns \in Nat /\ MaxDay \in Nat

VARIABLES
  chatAt,     \* where the loop is
  planMode,   \* ctx.plan_mode
  history,    \* session_history
  shrunk,     \* history: has a turn shortened it since meta.json was filled?
  leaving,    \* the chat is over once this save is
  merged,     \* the meta save is about to write
  dir,        \* the session directory exists
  disk,       \* session_history.json and meta.json
  saved,      \* a save since the last turn returned True
  alone,      \* history: no purge has removed since that save began
  purging,    \* what a purge is doing
  doomed,     \* the files its rmtree has still to unlink
  clock

chatVars ==
  <<chatAt, planMode, history, shrunk, leaving, merged, dir, disk, saved, alone, purging, doomed,
    clock>>

Missing == -1
Torn == -2
Lengths == 0..MaxMessages
Histories == [turn : 0..MaxChatTurns, count : Lengths]
NoHistory == [turn |-> 0, count |-> Missing]
TornHistory == [turn |-> 0, count |-> Torn]
Times == 0..MaxDay
Meta == [count : Lengths, created : Times, updated : Times]
NoMeta == [count |-> Missing, created |-> 0, updated |-> 0]
TornMeta == [NoMeta EXCEPT !.count = Torn]

Readable(f) == f.count \in Nat               \* the file is there, and whole

InSave == {"mkdir", "merge", "open_history", "fill_history", "open_meta", "fill_meta"}

ChatTypeOK ==
  /\ chatAt \in {"prompt", "turn", "over"} \cup InSave
  /\ planMode \in BOOLEAN /\ leaving \in BOOLEAN /\ dir \in BOOLEAN
  /\ history \in Histories /\ shrunk \in BOOLEAN
  /\ merged \in Meta \cup {NoMeta}
  /\ disk.history \in Histories \cup {NoHistory, TornHistory}
  /\ disk.meta \in Meta \cup {NoMeta, TornMeta}
  /\ saved \in BOOLEAN /\ alone \in BOOLEAN
  /\ purging \in {"no", "listed", "removing"} /\ doomed \subseteq {"history", "meta"}
  /\ clock \in Times

ChatInit ==
  /\ chatAt = "prompt" /\ planMode \in BOOLEAN /\ leaving = FALSE
  /\ history = [turn |-> 0, count |-> 0] /\ shrunk = FALSE
  /\ merged = NoMeta /\ dir = FALSE
  /\ disk = [history |-> NoHistory, meta |-> NoMeta]
  /\ saved = FALSE /\ alone = TRUE /\ purging = "no" /\ doomed = {} /\ clock = 0

UnchangedDisk == UNCHANGED <<dir, disk>>
UnchangedOthers == UNCHANGED <<planMode, purging, doomed, clock>>

-----------------------------------------------------------------------------
(* The loop.                                                               *)

\* An empty line and a slash command that does not leave change nothing
\* here, nor does a turn in plan mode, which fails (main.py:538).
Ask ==
  /\ chatAt = "prompt" /\ ~planMode /\ chatAt' = "turn"
  /\ UNCHANGED <<history, shrunk, leaving, merged, saved, alone>>
  /\ UnchangedDisk /\ UnchangedOthers

\* what the question makes of the history: with the first comes the system
\* prompt (messages.py:88-96)
Asked == IF history.count = 0 THEN 2 ELSE history.count + 1

\* The end of _run_turn.  A question that is not the first goes into the list
\* itself, so it stays even when the turn raises or is interrupted.
EndTurn(count) ==
  /\ chatAt = "turn" /\ chatAt' = "mkdir"
  /\ \/ count = 0 /\ history.count = 0 /\ history' = history
     \/ /\ \/ count = Asked           \* no answer
           \/ count >= 2              \* with its tool messages, or summarized
        /\ history.turn < MaxChatTurns
        /\ history' = [turn |-> history.turn + 1, count |-> count]
  /\ shrunk' = (shrunk \/ count < history.count)
  /\ saved' = FALSE
  /\ UNCHANGED <<leaving, merged, alone>>
  /\ UnchangedDisk /\ UnchangedOthers

\* /exit, the end of the input, or an interrupt at the prompt
Leave ==
  /\ chatAt = "prompt" /\ chatAt' = "mkdir" /\ leaving' = TRUE
  /\ UNCHANGED <<history, shrunk, merged, saved, alone>>
  /\ UnchangedDisk /\ UnchangedOthers

-----------------------------------------------------------------------------
(* save.                                                                   *)

Saving(from, to) ==
  /\ chatAt = from /\ chatAt' = to
  /\ UNCHANGED <<history, leaving>> /\ UnchangedOthers

Returned == IF leaving THEN "over" ELSE "prompt"

MakeDir ==
  /\ Saving("mkdir", "merge")
  /\ dir' = TRUE /\ saved' = FALSE /\ alone' = (purging # "removing")
  /\ UNCHANGED <<shrunk, merged, disk>>

MergeMeta ==
  /\ Saving("merge", "open_history")
  /\ merged' = [count |-> history.count, updated |-> clock,
                created |-> IF Readable(disk.meta) THEN disk.meta.created ELSE clock]
  /\ UNCHANGED <<shrunk, saved, alone>> /\ UnchangedDisk

OpenHistory ==
  /\ dir /\ Saving("open_history", "fill_history")
  /\ disk' = [disk EXCEPT !.history = TornHistory]
  /\ UNCHANGED <<shrunk, merged, dir, saved, alone>>

\* a file removed since it was opened is filled where nobody finds it
FillHistory ==
  /\ Saving("fill_history", "open_meta")
  /\ disk' = IF disk.history = NoHistory THEN disk ELSE [disk EXCEPT !.history = history]
  /\ UNCHANGED <<shrunk, merged, dir, saved, alone>>

OpenMeta ==
  /\ dir /\ Saving("open_meta", "fill_meta")
  /\ disk' = [disk EXCEPT !.meta = TornMeta]
  /\ UNCHANGED <<shrunk, merged, dir, saved, alone>>

FillMeta ==
  /\ Saving("fill_meta", Returned)
  /\ disk' = IF disk.meta = NoMeta THEN disk ELSE [disk EXCEPT !.meta = merged]
  /\ saved' = TRUE /\ shrunk' = FALSE
  /\ UNCHANGED <<merged, dir, alone>>

WriteFailsUnseen ==                    \* mutant: the OSError is swallowed
  /\ \E from \in InSave \ {"merge"} : Saving(from, Returned)
  /\ saved' = TRUE
  /\ UNCHANGED <<shrunk, merged, alone>> /\ UnchangedDisk

WriteFailsGoesOn ==                    \* mutant: meta.json is written all the same
  /\ \/ Saving("open_history", "open_meta")
     \/ \E from \in InSave \ {"merge"} : Saving(from, Returned)
  /\ saved' = FALSE
  /\ UNCHANGED <<shrunk, merged, alone>> /\ UnchangedDisk

\* an OSError in mkdir or in either write is a warning, and False
WriteFails ==
  /\ \E from \in InSave \ {"merge"} : Saving(from, Returned)
  /\ saved' = FALSE
  /\ UNCHANGED <<shrunk, merged, alone>> /\ UnchangedDisk

Save ==
  \/ MakeDir \/ MergeMeta \/ OpenHistory \/ FillHistory \/ OpenMeta \/ FillMeta
  \/ WriteFails

\* the process dies
ChatDies ==
  /\ chatAt # "over" /\ chatAt' = "over"
  /\ UNCHANGED <<history, shrunk, leaving, merged, saved, alone>>
  /\ UnchangedDisk /\ UnchangedOthers

-----------------------------------------------------------------------------
(* purge and remove, in another process.                                   *)

PurgeStep ==
  UNCHANGED <<chatAt, planMode, history, shrunk, leaving, merged, saved, clock>>

\* list_sessions finds the session, too old
PurgeLists ==
  /\ purging = "no" /\ Readable(disk.meta) /\ disk.meta.updated < clock
  /\ purging' = "listed"
  /\ UNCHANGED <<doomed, alone>> /\ UnchangedDisk /\ PurgeStep

Present == {f \in {"history", "meta"} :
              IF f = "history" THEN disk.history # NoHistory ELSE disk.meta # NoMeta}

\* rmtree looks once at what the directory holds
RmtreeScans ==
  /\ purging = "listed" /\ purging' = "removing"
  /\ doomed' = Present /\ alone' = FALSE
  /\ UnchangedDisk /\ PurgeStep

RmtreeUnlinks ==
  /\ purging = "removing" /\ purging' = purging
  /\ \E f \in doomed :
       /\ doomed' = doomed \ {f}
       /\ disk' = IF f = "history" THEN [disk EXCEPT !.history = NoHistory]
                                   ELSE [disk EXCEPT !.meta = NoMeta]
  /\ UNCHANGED <<dir, alone>> /\ PurgeStep

\* a directory that is no longer empty stays, and remove returns False
RmtreeEnds ==
  /\ purging = "removing" /\ doomed = {} /\ purging' = "no"
  /\ dir' = (Present # {})
  /\ UNCHANGED <<doomed, disk, alone>> /\ PurgeStep

Purge == PurgeLists \/ RmtreeScans \/ RmtreeUnlinks \/ RmtreeEnds

DayPasses ==
  /\ clock < MaxDay /\ clock' = clock + 1
  /\ UNCHANGED <<chatAt, planMode, history, shrunk, leaving, merged, saved, alone, purging,
                 doomed>>
  /\ UnchangedDisk

ChatNext ==
  \/ Ask \/ Leave \/ Save \/ ChatDies \/ Purge \/ DayPasses
  \/ \E count \in Lengths : EndTurn(count)

ChatSpec == ChatInit /\ [][ChatNext]_chatVars

-----------------------------------------------------------------------------
(* Properties.                                                             *)

\* Whenever both files of a session can be read, in the middle of a save,
\* after one that failed or a process that died, the meta file counts no
\* more messages than the history has (session.py:117-127), unless a turn
\* has shortened it meanwhile: save writes the history first, so one that
\* breaks off between its files then leaves a meta file that counts more.
CountNeverAhead ==
  Readable(disk.meta) /\ Readable(disk.history) /\ ~shrunk =>
    disk.meta.count <= disk.history.count

\* After a save that returned True, and that no removal has overlapped or
\* followed, the session loads with the very messages the chat has and the
\* right count (save and load, session.py:86-147).
SavedLoads ==
  chatAt \notin InSave /\ saved /\ alone =>
    disk.history = history /\ disk.meta.count = history.count
=============================================================================
