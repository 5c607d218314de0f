---------------------------- MODULE MCTaskServer ----------------------------
(* Two serve processes on one database, both with the default worker_id, and *)
(* one task in the default scope, one in a scope learnt from a request.      *)
EXTENDS TaskServer

CONSTANTS t1, t2

MCTasks == {t1, t2}
MCScopeOf == [t \in MCTasks |-> IF t = t1 THEN "(default)" ELSE "proj"]
MCWorkerId == [p \in Procs |-> "worker-1"]
=============================================================================
