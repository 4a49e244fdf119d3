--------------------------- MODULE MCJobCoordinator ---------------------------
(* Four submissions against two places in the queue: one job runs, two wait   *)
(* (fewer could not tell first-come-first-served from its reverse), one is    *)
(* refused or, after a place is free, let in.                                 *)
EXTENDS JobCoordinator

==============================================================================
