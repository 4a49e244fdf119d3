----------------------------- MODULE MCWorkerPool -----------------------------
(* Three submissions and one waiting place: a worker that is given up, its    *)
(* successor, and a job refused or let in later.                              *)
EXTENDS WorkerPool

==============================================================================
