------------------------------- MODULE Journal -------------------------------
(***************************************************************************)
(* The append-only JSONL files: AuditLog (GSagent/core/policy/audit.py),   *)
(* written by the nodes and the registry of every process and read by      *)
(* `agent history usage`, and HistoryStore (GSagent/core/history/store.py),*)
(* which is written and read the same way.                                 *)
(*                                                                         *)
(* A record is one line; of its content only the session it is filtered by *)
(* matters.  A record within the buffer is written at once.  A longer one  *)
(* is written in two pieces, and a writer may break off between them: the  *)
(* line it leaves open is continued by whoever writes next.  A piece may   *)
(* end inside a character, for the files are UTF-8 with ensure_ascii=False.*)
(***************************************************************************)
EXTENDS Naturals, Sequences, FiniteSets, SequencesExt

CONSTANTS
  Writers,
  Sessions,
  MaxRecords     \* bound: records that are begun

ASSUME JournalAssumption == MaxRecords \in Nat

VARIABLES
  lines,      \* the file
  open,       \* its last line has no end yet
  writing,    \* the record each writer has half written, 0 for none
  sessionOf,  \* the session of each record begun, in the order they were
  returned,   \* history: records whose call has returned
  pieced      \* history: records left half written, or written in pieces

journalVars == <<lines, open, writing, sessionOf, returned, pieced>>

Records == 1..MaxRecords
Broken == 0
\* a record that can be read, the beginning of one, or text that is no record;
\* split: it holds the half of a character
Line == [rec : Records \cup {Broken}, whole : BOOLEAN, split : BOOLEAN]

JournalTypeOK ==
  /\ lines \in Seq(Line)
  /\ open \in BOOLEAN
  /\ writing \in [Writers -> Records \cup {0}]
  /\ sessionOf \in Seq(Sessions) /\ Len(sessionOf) <= MaxRecords
  /\ returned \subseteq Records /\ pieced \subseteq Records

JournalInit ==
  /\ lines = <<>> /\ open = FALSE
  /\ writing = [w \in Writers |-> 0]
  /\ sessionOf = <<>> /\ returned = {} /\ pieced = {}

\* what is written goes to the end of the file, glued to an open line
Written(line) ==
  IF open
  THEN [lines EXCEPT ![Len(lines)] =
          [rec |-> Broken, whole |-> FALSE, split |-> @.split \/ line.split]]
  ELSE Append(lines, line)

Begun(s) ==
  /\ Len(sessionOf) < MaxRecords
  /\ sessionOf' = Append(sessionOf, s)

-----------------------------------------------------------------------------
(* record, and append of the history.                                      *)

WriteRecord(w, s) ==
  /\ writing[w] = 0 /\ Begun(s)
  /\ lines' = Written([rec |-> Len(sessionOf'), whole |-> TRUE, split |-> FALSE])
  /\ open' = FALSE
  /\ returned' = returned \cup {Len(sessionOf')}
  /\ UNCHANGED <<writing, pieced>>

WritePiece(w, s, split) ==
  /\ writing[w] = 0 /\ Begun(s)
  /\ lines' = Written([rec |-> Len(sessionOf'), whole |-> FALSE, split |-> split])
  /\ open' = TRUE
  /\ writing' = [writing EXCEPT ![w] = Len(sessionOf')]
  /\ pieced' = pieced \cup {Len(sessionOf')}
  /\ UNCHANGED returned

OwnLine(w) == open /\ Last(lines).rec = writing[w]

\* the rest completes the record only if nobody has written in between
WriteRest(w, split) ==
  /\ writing[w] # 0
  /\ lines' = IF OwnLine(w)
              THEN [lines EXCEPT ![Len(lines)] = [@ EXCEPT !.whole = TRUE, !.split = FALSE]]
              ELSE Written([rec |-> Broken, whole |-> FALSE, split |-> split])
  /\ open' = FALSE
  /\ returned' = returned \cup {writing[w]}
  /\ writing' = [writing EXCEPT ![w] = 0]
  /\ UNCHANGED <<sessionOf, pieced>>

\* the process dies or the disk is full; at best only the end of the line
\* is missing, and the record can still be read
WriterBreaksOff(w, whole) ==
  /\ writing[w] # 0
  /\ writing' = [writing EXCEPT ![w] = 0]
  /\ lines' = IF OwnLine(w) /\ whole
              THEN [lines EXCEPT ![Len(lines)] = [@ EXCEPT !.whole = TRUE, !.split = FALSE]]
              ELSE lines
  /\ UNCHANGED <<open, sessionOf, returned, pieced>>

JournalNext ==
  \E w \in Writers :
    \/ \E b \in BOOLEAN : WriteRest(w, b) \/ WriterBreaksOff(w, b)
    \/ \E s \in Sessions :
         WriteRecord(w, s) \/ \E split \in BOOLEAN : WritePiece(w, s, split)

JournalSpec == JournalInit /\ [][JournalNext]_journalVars

-----------------------------------------------------------------------------
(* The readers.                                                            *)

\* the lines a reader takes for records of the session; one that is no record
\* is skipped
LinesOf(s) == {i \in DOMAIN lines : lines[i].whole /\ sessionOf[lines[i].rec] = s}

\* the last of the lines P, a limit of 0 being none
Ending(limit, P) == {i \in P : limit = 0 \/ Cardinality({j \in P : i <= j}) <= limit}

RecordsIn(P) == {lines[i].rec : i \in P}

FilteredLast(limit, s) ==             \* mutant: the limit first
  RecordsIn(Ending(limit, DOMAIN lines) \cap LinesOf(s))

\* tail and query_session
ReadBack(limit, s) == RecordsIn(Ending(limit, LinesOf(s)))

\* `agent history session`
History(s) == ReadBack(0, s)

\* `agent history usage`, by session or, with none, of all of them: the calls
\* each session is charged with
Usage(limit) ==
  LET calls == Ending(limit, UNION {LinesOf(s) : s \in Sessions})
  IN  [s \in Sessions |-> RecordsIn(calls \cap LinesOf(s))]

UsageOf(limit, s) == ReadBack(limit, s)

Undecodable == \E i \in DOMAIN lines : lines[i].split     \* the reader raises

-----------------------------------------------------------------------------
(* Properties.                                                             *)

\* Of the records a session has written, history tells all and usage the
\* newest: but for two records for each that was torn, itself and one glued
\* to it, none that returned is passed over while there is room or an older
\* one is told (record and tail, audit.py:69-137; store.py:84-148).  The table
\* of all sessions charges none with a call its own table does not have
\* (main.py:1191-1213).
NewestTold ==
  ~Undecodable =>
    /\ \A s \in Sessions, limit \in 1..MaxRecords :
         LET told == UsageOf(limit, s)
             passedOver == {r \in returned \ told :
                              /\ sessionOf[r] = s
                              /\ Cardinality(told) < limit \/ \E t \in told : t < r}
         IN  Cardinality(passedOver) <= 2 * Cardinality(pieced)
    /\ \A s \in Sessions :
         Cardinality({r \in returned : sessionOf[r] = s} \ History(s)) <= 2 * Cardinality(pieced)
    /\ \A s \in Sessions, limit \in 1..MaxRecords :
         Usage(limit)[s] \subseteq UsageOf(limit, s)

-----------------------------------------------------------------------------
(* What the code says of itself and does not do.                           *)

\* audit.py:110: a damaged line is skipped and never stops the reading.
DamageSkipped == ~Undecodable
=============================================================================
