----------------------------- MODULE MCTaskQueue -----------------------------
(* Two workers with ids of their own and two tasks in one scope.             *)
EXTENDS TaskQueue

CONSTANTS t1, t2, w1, w2

MCTasks == {t1, t2}
MCWorkers == {w1, w2}
MCScopeOf == [t \in MCTasks |-> "a"]
MCWorkerId == [w \in MCWorkers |-> IF w = w1 THEN "worker-1" ELSE "worker-2"]
=============================================================================
