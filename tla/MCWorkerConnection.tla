------------------------ MODULE MCWorkerConnection ------------------------
(***************************************************************************)
(* Instances of WorkerConnection for TLC: the configurations give the      *)
(* chats as model values, the bounds and the failures to explore.          *)
(***************************************************************************)
EXTENDS WorkerConnection

===========================================================================
