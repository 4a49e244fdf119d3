------------------------------ MODULE WorkerLease ------------------------------
(* What one WorkerSpawner.run promises the code that calls it: the promise is *)
(* settled once, and a process that outlives its promise has been killed or   *)
(* has its kill scheduled.  It does NOT promise that the process is dead when *)
(* the promise is rejected: a cancelled worker is given time to stop.         *)
EXTENDS Naturals

VARIABLES result,   \* the promise run() returned
          life,     \* the worker process
          doomed    \* a kill was sent or is scheduled

leaseVars == <<result, life, doomed>>

LeaseTypeOK == /\ result \in {"idle", "pending", "resolved", "rejected"}
               /\ life \in {"none", "alive", "dead"}
               /\ doomed \in BOOLEAN

LeaseInit == result = "idle" /\ life = "none" /\ doomed = FALSE

\* The call is refused or the launch fails: there is no process.
Decline == /\ result = "idle"
           /\ result' = "rejected"
           /\ UNCHANGED <<life, doomed>>

Begin == /\ result = "idle"
         /\ result' = "pending"
         /\ life' = "alive"
         /\ UNCHANGED doomed

\* Launched and given up in the same turn.
BeginDoomed == /\ result = "idle"
               /\ result' = "rejected"
               /\ life' = "alive"
               /\ doomed' = TRUE

\* A value is delivered only by a process that has ended.
Deliver == /\ result = "pending"
           /\ life = "dead"
           /\ result' = "resolved"
           /\ UNCHANGED <<life, doomed>>

GiveUp == /\ result = "pending"
          /\ result' = "rejected"
          /\ doomed' = TRUE
          /\ UNCHANGED life

Die == /\ life = "alive"
       /\ life' = "dead"
       /\ UNCHANGED <<result, doomed>>

LeaseNext == Decline \/ Begin \/ BeginDoomed \/ Deliver \/ GiveUp \/ Die

LeaseSafety == LeaseInit /\ [][LeaseNext]_leaseVars

LeaseSpec == /\ LeaseSafety
             /\ WF_leaseVars(Deliver \/ GiveUp)
             /\ WF_leaseVars(doomed /\ Die)

==============================================================================
