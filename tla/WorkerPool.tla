------------------------------ MODULE WorkerPool ------------------------------
(* The coordinator running worker processes: every submission's execute is a  *)
(* call of WorkerSpawner.run with the job's own signal, the use both classes  *)
(* are written for.  Of a run, this module keeps what WorkerLease promises    *)
(* (WorkerSpawn is shown to keep that promise): its promise, its process, and *)
(* whether the process has been killed or has its kill scheduled.             *)
EXTENDS Naturals, Sequences

CONSTANTS Jobs, QueueLimit

VARIABLES queue, active, phase, outcome, aborted, controlled,   \* the coordinator
          result, life, doomed                                  \* each job's run

Coordinator == INSTANCE JobCoordinator

ASSUME PoolAssumption == QueueLimit \in 0..Coordinator!WorkerQueue

coordinator == <<queue, active, phase, outcome, aborted, controlled>>
runs        == <<result, life, doomed>>
vars        == <<coordinator, runs>>

Init == /\ Coordinator!Init
        /\ result = [j \in Jobs |-> "idle"]
        /\ life   = [j \in Jobs |-> "none"]
        /\ doomed = [j \in Jobs |-> FALSE]

------------------------------------------------------------------------------
Submit(j) == (Coordinator!Enqueue(j) \/ Coordinator!Refuse(j)) /\ UNCHANGED runs

\* The listener chain is synchronous: the caller's abort, the job's controller
\* and the run's cancel() are one turn.
Abort(j) ==
    /\ Coordinator!Abort(j)
    /\ IF j \in controlled' /\ result[j] = "pending"
       THEN /\ result' = [result EXCEPT ![j] = "rejected"]
            /\ doomed' = [doomed EXCEPT ![j] = TRUE]
            /\ UNCHANGED life
       ELSE UNCHANGED runs

\* The microtask that calls execute, and with it run(): refused before launch,
\* launched and given up at once because the signal is already aborted, or
\* launched.
StartDeclined(j) ==
    /\ Coordinator!Start(j)
    /\ result' = [result EXCEPT ![j] = "rejected"]
    /\ UNCHANGED <<life, doomed>>

StartAborted(j) ==
    /\ Coordinator!Start(j)
    /\ j \in controlled
    /\ result' = [result EXCEPT ![j] = "rejected"]
    /\ life'   = [life EXCEPT ![j] = "alive"]
    /\ doomed' = [doomed EXCEPT ![j] = TRUE]

\* Mutated: run() only listens for an abort and does not look for a past one.
StartWorker_NoLook(j) ==
    /\ Coordinator!Start(j)
    /\ result' = [result EXCEPT ![j] = "pending"]
    /\ life'   = [life EXCEPT ![j] = "alive"]
    /\ UNCHANGED doomed

StartWorker(j) ==
    /\ Coordinator!Start(j)
    /\ j \notin controlled
    /\ result' = [result EXCEPT ![j] = "pending"]
    /\ life'   = [life EXCEPT ![j] = "alive"]
    /\ UNCHANGED doomed

\* The run's own ends: a complete answer of a process that has ended, or a
\* failure (its deadline, a broken protocol, a bad exit).
Deliver(j) == /\ result[j] = "pending"
              /\ life[j] = "dead"
              /\ result' = [result EXCEPT ![j] = "resolved"]
              /\ UNCHANGED <<coordinator, life, doomed>>

\* Mutated: a failed run does not see to its process.
GiveUp_NoKill(j) ==
    /\ result[j] = "pending"
    /\ result' = [result EXCEPT ![j] = "rejected"]
    /\ UNCHANGED <<coordinator, life, doomed>>

GiveUp(j) == /\ result[j] = "pending"
             /\ result' = [result EXCEPT ![j] = "rejected"]
             /\ doomed' = [doomed EXCEPT ![j] = TRUE]
             /\ UNCHANGED <<coordinator, life>>

Die(j) == /\ life[j] = "alive"
          /\ life' = [life EXCEPT ![j] = "dead"]
          /\ UNCHANGED <<coordinator, result, doomed>>

\* Mutated: the coordinator takes a failed execute for one still running.
Finish_ResolvedOnly(j) == /\ result[j] = "resolved"
                          /\ Coordinator!Finish(j, result[j])
                          /\ UNCHANGED runs

\* The run's promise settles the job's, a microtask later.
Finish(j) == /\ result[j] \in {"resolved", "rejected"}
             /\ Coordinator!Finish(j, result[j])
             /\ UNCHANGED runs

Release(j) == Coordinator!Release(j) /\ UNCHANGED runs

Start(j) == StartDeclined(j) \/ StartAborted(j) \/ StartWorker(j)

Next == \E j \in Jobs : \/ Submit(j) \/ Abort(j)
                        \/ StartDeclined(j) \/ StartAborted(j) \/ StartWorker(j)
                        \/ Deliver(j) \/ GiveUp(j) \/ Die(j)
                        \/ Finish(j) \/ Release(j)

\* Microtasks run; of a worker, what WorkerLease promises and no more.
Fairness == \A j \in Jobs : /\ WF_vars(Start(j))
                            /\ WF_vars(Finish(j))
                            /\ WF_vars(Release(j))
                            /\ WF_vars(Deliver(j) \/ GiveUp(j))
                            /\ WF_vars(doomed[j] /\ Die(j))

SafetySpec == Init /\ [][Next]_vars
Spec == SafetySpec /\ Fairness

------------------------------------------------------------------------------
TypeOK == /\ Coordinator!TypeOK
          /\ result \in [Jobs -> {"idle", "pending", "resolved", "rejected"}]
          /\ life \in [Jobs -> {"none", "alive", "dead"}]
          /\ doomed \in [Jobs -> BOOLEAN]

Alive == {j \in Jobs : life[j] = "alive"}

\* What does hold of "at most one untrusted worker process is active", the
\* comment on the class: of the live processes at most one is still being waited
\* for, it belongs to the job that holds the slot, and every other one has been
\* killed or has its kill scheduled, for its job was not told "resolved".
AtMostOneAwaitedWorker ==
    /\ \A i, j \in Jobs : result[i] = "pending" /\ result[j] = "pending" => i = j
    /\ \A j \in Jobs : result[j] = "pending" => phase[j] = "running" /\ active = 1
    /\ \A j \in Alive : result[j] # "pending" => doomed[j] /\ outcome[j] # "resolved"

\* A job aborted while it still waits may run, but is never reported a success.
AbortBeforeStartIsFinal ==
    \A j \in Jobs :
        [](j \in controlled /\ phase[j] \in {"queued", "claimed"} => [](outcome[j] # "resolved"))

\* Run on leases, the coordinator keeps its own specification, fairness of
\* execute included: what JobCoordinator assumed of it is discharged.
ImplementsCoordinator == Coordinator!Spec

==============================================================================
