------------------------------ MODULE Snapshots ------------------------------
(***************************************************************************)
(* The rolling snapshots of `agent run --snapshot`: SnapshotManager        *)
(* (GSagent/core/history/snapshot.py) and the run command that calls it    *)
(* before and after its turn (GSagent/main.py), in any number of           *)
(* processes over one directory.                                           *)
(*                                                                         *)
(* What a snapshot holds (a manifest of hashes, the messages) is left out; *)
(* computing it may fail.  A file appears whole, or empty if its writer    *)
(* breaks off.  Of two files with the same mtime the one the directory     *)
(* lists first counts as newer: the lesser id.                             *)
(***************************************************************************)
EXTENDS Integers, FiniteSets

CONSTANTS
  Runs,        \* processes
  Ids,         \* bound: the snapshot ids there are, in directory order
  Keep,        \* SnapshotManager.keep, at least 1
  MaxTime      \* bound of the clock

ASSUME SnapshotAssumption ==
  /\ Ids \subseteq Nat /\ IsFiniteSet(Ids)
  /\ Keep \in Nat \ {0} /\ MaxTime \in Nat

VARIABLES
  run,      \* what each process is doing
  mtime,    \* when each snapshot was written, Unborn before
  files,    \* the snapshots in the directory
  torn,     \* those that cannot be read
  time

snapVars == <<run, mtime, files, torn, time>>

Unborn == -1

Run == [managed : BOOLEAN,           \* snap_mgr is not None
        pc : {"collect", "write", "glob", "stat", "unlink", "turn", "over"},
        pre : BOOLEAN,               \* the turn is still to come
        seen : SUBSET Ids,           \* what glob listed
        stale : SUBSET Ids,          \* what is still to be unlinked
        final : BOOLEAN]             \* the turn has ended with an answer

NewRun(managed) ==
  [managed |-> managed, pc |-> IF managed THEN "collect" ELSE "turn",
   pre |-> TRUE, seen |-> {}, stale |-> {}, final |-> FALSE]

SnapTypeOK ==
  /\ run \in [Runs -> Run]
  /\ mtime \in [Ids -> {Unborn} \cup 0..MaxTime]
  /\ files \subseteq Ids /\ torn \subseteq Ids
  /\ time \in 0..MaxTime

SnapInit ==
  /\ run \in [Runs -> {NewRun(TRUE), NewRun(FALSE)}]
  /\ mtime = [s \in Ids |-> Unborn]
  /\ files = {} /\ torn = {}
  /\ time = 0

\* the order of _purge
NewerSnap(x, y) == mtime[x] > mtime[y] \/ (mtime[x] = mtime[y] /\ x < y)

RunGoes(r, from, to) ==
  /\ run[r].pc = from
  /\ run' = [run EXCEPT ![r].pc = to]

DiskStays == UNCHANGED <<mtime, files, torn, time>>

-----------------------------------------------------------------------------
\* create_workspace_snapshot hashes the files, create_session_snapshot
\* the messages
Collect(r) == RunGoes(r, "collect", "write") /\ DiskStays

\* each snapshot gets an id of its own
NewSnapshot(s) ==
  /\ mtime[s] = Unborn
  /\ mtime' = [mtime EXCEPT ![s] = time]
  /\ files' = files \cup {s}
  /\ UNCHANGED time

\* _write
WriteSnapshot(r) ==
  /\ RunGoes(r, "write", "glob")
  /\ \E s \in Ids : NewSnapshot(s) /\ UNCHANGED torn

\* the disk is full, or the process dies
WriteTorn(r) ==
  /\ RunGoes(r, "write", "over")
  /\ \E s \in Ids : NewSnapshot(s) /\ torn' = torn \cup {s}

Glob(r) ==
  /\ run[r].pc = "glob"
  /\ run' = [run EXCEPT ![r].pc = "stat", ![r].seen = files]
  /\ DiskStays

AllButOldest(seen) ==                  \* mutant: snaps[: -keep]
  {keep \in SUBSET seen :
     /\ Cardinality(keep) = IF Cardinality(seen) < Keep THEN Cardinality(seen) ELSE Keep
     /\ \A x \in keep, y \in seen \ keep : NewerSnap(y, x)}

\* snaps[: keep]
Newest(seen) ==
  {keep \in SUBSET seen :
     /\ Cardinality(keep) = IF Cardinality(seen) < Keep THEN Cardinality(seen) ELSE Keep
     /\ \A x \in keep, y \in seen \ keep : NewerSnap(x, y)}

\* p.stat() of a file another process has unlinked ends the run
Stat(r) ==
  /\ run[r].pc = "stat" /\ run[r].seen \subseteq files
  /\ \E keep \in Newest(run[r].seen) :
       run' = [run EXCEPT ![r].pc = "unlink", ![r].stale = run[r].seen \ keep,
                          ![r].seen = {}]
  /\ DiskStays

\* missing_ok
Unlink(r) ==
  /\ run[r].pc = "unlink"
  /\ \E s \in run[r].stale :
       /\ files' = files \ {s}
       /\ run' = [run EXCEPT ![r].stale = @ \ {s}]
  /\ UNCHANGED <<mtime, torn, time>>

Purged(r) ==
  /\ run[r].stale = {}
  /\ \/ run[r].pre /\ RunGoes(r, "unlink", "turn")
     \/ ~run[r].pre /\ RunGoes(r, "unlink", "over")
  /\ DiskStays

\* _run_turn returns, with or without a final answer
RunTurn(r, answered) ==
  /\ run[r].pc = "turn"
  /\ run' = [run EXCEPT ![r].pc = IF run[r].managed THEN "collect" ELSE "over",
                        ![r].pre = FALSE, ![r].final = answered]
  /\ DiskStays

\* an exception or an interrupt anywhere ends the run
Fails(r) ==
  /\ run[r].pc # "over"
  /\ run' = [run EXCEPT ![r].pc = "over", ![r].seen = {}, ![r].stale = {}]
  /\ DiskStays

Tick == time < MaxTime /\ time' = time + 1 /\ UNCHANGED <<run, mtime, files, torn>>

RunStep(r) ==
  \/ Collect(r) \/ WriteSnapshot(r) \/ WriteTorn(r)
  \/ Glob(r) \/ Stat(r) \/ Unlink(r) \/ Purged(r) \/ Fails(r)
  \/ \E answered \in BOOLEAN : RunTurn(r, answered)

SnapNext == Tick \/ \E r \in Runs : RunStep(r)

SnapSpec == SnapInit /\ [][SnapNext]_snapVars

-----------------------------------------------------------------------------
(* The readers: `agent snapshot list` and `agent snapshot restore`.        *)

\* list_snapshots passes over what it cannot read
ListedSnaps == files \ torn

\* restore raises for one that is not there, and for one it cannot read
Restores(s) == s \in files /\ s \notin torn

-----------------------------------------------------------------------------
(* Properties.                                                             *)

\* However runs overlap or break off, a snapshot that was written whole is
\* listed and can be restored, or Keep newer files are in the directory
\* (list_snapshots, restore and _purge, snapshot.py:107-131, 177-191).
SurvivorsNewest ==
  \A s \in Ids : mtime[s] # Unborn /\ s \notin torn =>
    \/ s \in ListedSnaps /\ Restores(s)
    \/ Cardinality({t \in files : NewerSnap(t, s)}) >= Keep
=============================================================================
