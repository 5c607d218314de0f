------------------------------ MODULE TaskTable ------------------------------
(***************************************************************************)
(* The SQLite table behind DurableTaskManager (GSagent/core/runtime/       *)
(* tasks.py) and the statements that read and write it.                    *)
(*                                                                         *)
(* Each method runs ONE write transaction (a single UPDATE/INSERT, or the  *)
(* SELECT + UPDATE that claim_next brackets with BEGIN IMMEDIATE), so each *)
(* is one atomic step on `rows`.  The clock is read before the method      *)
(* takes its lock, so the instant it works with is a parameter `now` that  *)
(* may lie behind `clock` when the statement finally runs.                 *)
(*                                                                         *)
(* Abstracted: the payload (never read by the queue) and updated_at (never *)
(* read by any statement).  A task's scope never changes after the INSERT, *)
(* so it is the constant ScopeOf.                                          *)
(***************************************************************************)
EXTENDS Naturals

CONSTANTS
  Tasks,      \* ids that create() can draw (uuid4: never drawn twice)
  Scopes,     \* project directories
  ScopeOf,    \* the scope a task is posted to
  Ids,        \* worker_id strings
  NoOwner,    \* SQL NULL in lease_owner
  LeaseSecs,  \* lease length, in ticks
  MaxClock    \* bound: the clock stops here

ASSUME TableAssumption ==
  /\ ScopeOf \in [Tasks -> Scopes]
  /\ NoOwner \notin Ids
  /\ LeaseSecs \in Nat \ {0}
  /\ MaxClock \in Nat

VARIABLES
  rows,       \* the table: one row per task id
  clock       \* wall-clock time

States == {"absent", "queued", "running", "completed", "failed", "canceled"}

Row == [state   : States,
        owner   : Ids \cup {NoOwner},
        lease   : Nat,               \* lease_until
        created : Nat]               \* created_at

AbsentRow == [state |-> "absent", owner |-> NoOwner, lease |-> 0, created |-> 0]

TableTypeOK ==
  /\ rows \in [Tasks -> Row]
  /\ clock \in 0..MaxClock

TableInit ==
  /\ rows = [t \in Tasks |-> AbsentRow]
  /\ clock = 0

Tick ==
  /\ clock < MaxClock
  /\ clock' = clock + 1

-----------------------------------------------------------------------------
(* The methods of DurableTaskManager, as relations on the table.           *)

Create(t, now) ==
  /\ rows[t].state = "absent"
  /\ rows' = [rows EXCEPT ![t] = [state |-> "queued", owner |-> NoOwner,
                                  lease |-> now, created |-> now]]

\* WHERE scope=? AND state='queued' AND lease_until<=now
ClaimableAnyState(s, now) ==          \* mutant: the state test is missing
  {t \in Tasks : ScopeOf[t] = s /\ rows[t].state \in {"queued", "running"}
                                /\ rows[t].lease <= now}

Claimable(s, now) ==
  {t \in Tasks : ScopeOf[t] = s /\ rows[t].state = "queued" /\ rows[t].lease <= now}

\* ORDER BY created_at LIMIT 1: any of the oldest, ties in no promised order
Oldest(S) == {t \in S : \A u \in S : rows[t].created <= rows[u].created}

ClaimNextSwapped(s, id, now, t) ==    \* mutant: two UPDATE parameters swapped
  /\ t \in Oldest(Claimable(s, now))
  /\ rows' = [rows EXCEPT ![t].state = "running", ![t].owner = s,
                          ![t].lease = now + LeaseSecs]

ClaimNext(s, id, now, t) ==
  /\ t \in Oldest(Claimable(s, now))
  /\ rows' = [rows EXCEPT ![t].state = "running", ![t].owner = id,
                          ![t].lease = now + LeaseSecs]

HeartbeatAnyOwner(t, id, now) ==      \* mutant: lease_owner is not compared
  rows' = IF rows[t].state = "running"
          THEN [rows EXCEPT ![t].lease = now + LeaseSecs, ![t].owner = id]
          ELSE rows

Heartbeat(t, id, now) ==
  rows' = IF rows[t].owner = id /\ rows[t].state = "running"
          THEN [rows EXCEPT ![t].lease = now + LeaseSecs]
          ELSE rows

RequeuedRow(r, now) ==
  [r EXCEPT !.state = "queued", !.owner = NoOwner, !.lease = now]

ExpiredEver(S, now) ==                \* mutant: the lease is not compared
  {t \in Tasks : ScopeOf[t] \in S /\ rows[t].state = "running"}

\* The rows requeue_expired rewrites; S is {scope}, or every scope for None.
Expired(S, now) ==
  {t \in Tasks : ScopeOf[t] \in S /\ rows[t].state = "running" /\ rows[t].lease < now}

RequeueExpired(S, now) ==
  rows' = [t \in Tasks |-> IF t \in Expired(S, now)
                           THEN RequeuedRow(rows[t], now) ELSE rows[t]]

TransitionUnguarded(t, id, target) == \* mutant: canceled is not a blocked state
  rows' = IF rows[t].owner = id THEN [rows EXCEPT ![t].state = target] ELSE rows

TransitionAnyOwner(t, id, target) ==  \* mutant: lease_owner is not compared
  rows' = IF rows[t].state \notin {"absent", "canceled"}
          THEN [rows EXCEPT ![t].state = target] ELSE rows

\* complete and fail: blocked only by 'canceled', and only for the lease owner
Transition(t, id, target) ==
  rows' = IF rows[t].owner = id /\ rows[t].state # "canceled"
          THEN [rows EXCEPT ![t].state = target]
          ELSE rows

Cancel(t) ==
  rows' = IF rows[t].state \in {"queued", "running"}
          THEN [rows EXCEPT ![t].state = "canceled"]
          ELSE rows

IsCanceled(t) == rows[t].state = "canceled"
=============================================================================
