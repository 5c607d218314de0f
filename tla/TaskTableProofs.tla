--------------------------- MODULE TaskTableProofs ---------------------------
(***************************************************************************)
(* Facts about the statements of DurableTaskManager that hold for whoever  *)
(* calls them.                                                             *)
(***************************************************************************)
EXTENDS TaskTable, TLAPS

\* A row that some method wrote is still a row.
LEMMA RowsStayTyped ==
  ASSUME TableTypeOK, NEW now \in Nat
  PROVE  /\ \A t \in Tasks : Create(t, now) => rows' \in [Tasks -> Row]
         /\ \A t \in Tasks, s \in Scopes, id \in Ids :
              ClaimNext(s, id, now, t) => rows' \in [Tasks -> Row]
         /\ \A t \in Tasks, id \in Ids :
              Heartbeat(t, id, now) => rows' \in [Tasks -> Row]
         /\ \A S \in SUBSET Scopes : RequeueExpired(S, now) => rows' \in [Tasks -> Row]
         /\ \A t \in Tasks, id \in Ids, target \in {"completed", "failed"} :
              Transition(t, id, target) => rows' \in [Tasks -> Row]
         /\ \A t \in Tasks : Cancel(t) => rows' \in [Tasks -> Row]
  <1> USE DEF TableTypeOK, Row, States
  <1>1. ASSUME NEW t \in Tasks, Create(t, now)
        PROVE  rows' \in [Tasks -> Row]
    BY <1>1 DEF Create
  <1>2. ASSUME NEW t \in Tasks, NEW s \in Scopes, NEW id \in Ids,
               ClaimNext(s, id, now, t)
        PROVE  rows' \in [Tasks -> Row]
    <2> DEFINE new == [rows[t] EXCEPT !.state = "running", !.owner = id,
                                      !.lease = now + LeaseSecs]
    <2>1. now + LeaseSecs \in Nat
      BY TableAssumption
    <2>2. new \in Row
      BY <2>1
    <2>3. rows' = [rows EXCEPT ![t] = new]
      BY <1>2 DEF ClaimNext
    <2> QED BY <2>2, <2>3
  <1>3. ASSUME NEW t \in Tasks, NEW id \in Ids, Heartbeat(t, id, now)
        PROVE  rows' \in [Tasks -> Row]
    BY <1>3, TableAssumption DEF Heartbeat
  <1>4. ASSUME NEW S \in SUBSET Scopes, RequeueExpired(S, now)
        PROVE  rows' \in [Tasks -> Row]
    BY <1>4 DEF RequeueExpired, RequeuedRow
  <1>5. ASSUME NEW t \in Tasks, NEW id \in Ids, NEW target \in {"completed", "failed"},
               Transition(t, id, target)
        PROVE  rows' \in [Tasks -> Row]
    BY <1>5 DEF Transition
  <1>6. ASSUME NEW t \in Tasks, Cancel(t)
        PROVE  rows' \in [Tasks -> Row]
    BY <1>6 DEF Cancel
  <1> QED BY <1>1, <1>2, <1>3, <1>4, <1>5, <1>6
=============================================================================
