--------------------------- MODULE MCWorkerProcess ---------------------------
(* Two frames of one to four bytes with a limit of three and a session of     *)
(* eight: both may be answered, the second may leave no room for its answer,  *)
(* or have none itself.                                                       *)
EXTENDS WorkerProcess

==============================================================================
