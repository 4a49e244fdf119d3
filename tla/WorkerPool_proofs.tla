--------------------------- MODULE WorkerPool_proofs ---------------------------
(* The coordinator running worker processes, for any jobs and any queue: what *)
(* is proved of JobCoordinator holds under it, and with that, what the two    *)
(* promise together about processes.                                          *)
EXTENDS WorkerPool, TLAPS

CoordinatorProofs == INSTANCE JobCoordinator_proofs

\* Each run is a lease of its own.
Lease(j) == INSTANCE WorkerLease WITH result <- result[j], life <- life[j], doomed <- doomed[j]

\* A run is begun when its job starts and its end is its job's; a run that is
\* waited for was not aborted, and one that is not has been seen to.
Run(j) ==
    /\ result[j] = "idle" <=> phase[j] \in {"new", "refused", "queued", "claimed"}
    /\ result[j] = "idle" => life[j] = "none"
    /\ result[j] = "pending" => phase[j] = "running" /\ j \notin controlled
    /\ result[j] = "resolved" => life[j] = "dead"
    /\ life[j] = "alive" /\ result[j] # "pending" => doomed[j]
    /\ outcome[j] = "resolved" => result[j] = "resolved"

Runs == /\ result \in [Jobs -> {"idle", "pending", "resolved", "rejected"}]
        /\ life \in [Jobs -> {"none", "alive", "dead"}]
        /\ doomed \in [Jobs -> BOOLEAN]
        /\ \A j \in Jobs : Run(j)

IInv == Coordinator!IInv /\ Runs

Waiting == {"new", "refused", "queued", "claimed"}

------------------------------------------------------------------------------
LEMMA InitCoordinator == Init => Coordinator!Init
  BY DEF Init

\* Every step of the pool is a turn of the coordinator or none of its business.
LEMMA StepCoordinator == [Next]_vars => [Coordinator!Next]_Coordinator!vars
<1> SUFFICES ASSUME [Next]_vars PROVE Coordinator!Next \/ UNCHANGED coordinator
  BY DEF coordinator, Coordinator!vars
<1>1. ASSUME NEW j \in Jobs, Submit(j) \/ Abort(j) \/ Finish(j) \/ Release(j)
      PROVE  Coordinator!Next
  BY <1>1 DEF Submit, Abort, Finish, Release, Coordinator!Next
<1>2. ASSUME NEW j \in Jobs, StartDeclined(j) \/ StartAborted(j) \/ StartWorker(j)
      PROVE  Coordinator!Next
  BY <1>2 DEF StartDeclined, StartAborted, StartWorker, Coordinator!Next
<1>3. ASSUME NEW j \in Jobs, Deliver(j) \/ GiveUp(j) \/ Die(j)
      PROVE  UNCHANGED coordinator
  BY <1>3 DEF Deliver, GiveUp, Die
<1>4. CASE UNCHANGED vars
  BY <1>4 DEF vars
<1> QED
  BY <1>1, <1>2, <1>3, <1>4 DEF Next

\* The pool implements the coordinator's safety specification.
THEOREM PoolImplementsCoordinator == SafetySpec => Coordinator!SafetySpec
  BY InitCoordinator, StepCoordinator, PTL DEF SafetySpec, Coordinator!SafetySpec

------------------------------------------------------------------------------
(* The coordinator of this pool and that of its proofs are two instances of   *)
(* one module with the same variables: the same formulas under two names.     *)

LEMMA SameInit == Coordinator!Init => CoordinatorProofs!Init
  BY DEF CoordinatorProofs!Init, Coordinator!Init

LEMMA SameNext == [Coordinator!Next]_Coordinator!vars => [CoordinatorProofs!Next]_CoordinatorProofs!vars
  BY DEF CoordinatorProofs!Next, Coordinator!Next, CoordinatorProofs!Refuse, Coordinator!Refuse,
         CoordinatorProofs!Enqueue, Coordinator!Enqueue, CoordinatorProofs!Abort, Coordinator!Abort,
         CoordinatorProofs!Start, Coordinator!Start, CoordinatorProofs!Finish, Coordinator!Finish,
         CoordinatorProofs!Release, Coordinator!Release, CoordinatorProofs!Drain, Coordinator!Drain,
         CoordinatorProofs!Full, Coordinator!Full,
         CoordinatorProofs!Concurrency, Coordinator!Concurrency,
         CoordinatorProofs!vars, Coordinator!vars

LEMMA SameInvariant == CoordinatorProofs!IInv => Coordinator!IInv
  BY DEF CoordinatorProofs!IInv, Coordinator!IInv, CoordinatorProofs!TypeOK, Coordinator!TypeOK,
         CoordinatorProofs!SlotAccounting, Coordinator!SlotAccounting,
         CoordinatorProofs!QueueExact, Coordinator!QueueExact,
         CoordinatorProofs!WorkConserving, Coordinator!WorkConserving,
         CoordinatorProofs!QueueBounded, Coordinator!QueueBounded,
         CoordinatorProofs!AbortReachesJob, Coordinator!AbortReachesJob,
         CoordinatorProofs!AnswerTracksPhase, Coordinator!AnswerTracksPhase,
         CoordinatorProofs!Concurrency, Coordinator!Concurrency,
         CoordinatorProofs!Phases, Coordinator!Phases, CoordinatorProofs!Outcomes,
         Coordinator!Outcomes, CoordinatorProofs!Held, Coordinator!Held

\* What JobCoordinator keeps true on its own, it keeps true in the pool.
LEMMA CoordinatorInvariant == SafetySpec => []Coordinator!IInv
<1>1. CoordinatorProofs!SafetySpec => []CoordinatorProofs!IInv
  BY CoordinatorProofs!Inductive, PoolAssumption DEF Coordinator!WorkerQueue, CoordinatorProofs!WorkerQueue
<1>2. Coordinator!SafetySpec => CoordinatorProofs!SafetySpec
  BY SameInit, SameNext, PTL DEF Coordinator!SafetySpec, CoordinatorProofs!SafetySpec
<1> QED
  BY <1>1, <1>2, SameInvariant, PoolImplementsCoordinator, PTL

------------------------------------------------------------------------------
(* The runs. *)

LEMMA InitRuns == Init => Runs
  BY DEF Init, Coordinator!Init, Runs, Run

\* An enqueue moves jobs that wait, and they wait still.
LEMMA EnqueuePhases ==
    ASSUME Coordinator!IInv, NEW j \in Jobs, Coordinator!Enqueue(j), NEW k \in Jobs
    PROVE  /\ phase[k] \in Waiting <=> phase'[k] \in Waiting
           /\ phase[k] \notin Waiting => phase'[k] = phase[k] /\ k # j
<1>1. /\ queue \in Seq(Jobs) /\ phase \in [Jobs -> Coordinator!Phases]
      /\ \A i \in 1..Len(queue) : phase[queue[i]] = "queued"
      /\ phase[j] = "new"
  BY DEF Coordinator!IInv, Coordinator!TypeOK, Coordinator!QueueExact, Coordinator!Enqueue
<1> DEFINE q == Append(queue, j)
           ph == [phase EXCEPT ![j] = "queued"]
<1>2. Head(q) \in Jobs /\ phase[Head(q)] \in {"new", "queued"}
  <2>1. CASE queue = <<>>
    BY <1>1, <2>1
  <2>2. CASE queue # <<>>
    <3>1. Head(q) = queue[1] /\ 1 \in 1..Len(queue)
      BY <1>1, <2>2
    <3> QED BY <1>1, <3>1
  <2> QED BY <2>1, <2>2
<1>3. \/ phase' = ph
      \/ phase' = [ph EXCEPT ![Head(q)] = "claimed"]
  BY DEF Coordinator!Enqueue, Coordinator!Drain
<1> HIDE DEF q
<1> QED
  BY <1>1, <1>2, <1>3 DEF Waiting

\* A release moves its own job and one that waits.
LEMMA ReleasePhases ==
    ASSUME Coordinator!IInv, NEW j \in Jobs, Coordinator!Release(j), NEW k \in Jobs
    PROVE  /\ phase[k] \in Waiting <=> phase'[k] \in Waiting
           /\ phase[k] \notin Waiting => phase'[k] = phase[k] \/ k = j
           /\ phase[j] = "settled"
<1>1. /\ queue \in Seq(Jobs) /\ phase \in [Jobs -> Coordinator!Phases]
      /\ \A i \in 1..Len(queue) : phase[queue[i]] = "queued"
      /\ phase[j] = "settled"
  BY DEF Coordinator!IInv, Coordinator!TypeOK, Coordinator!QueueExact, Coordinator!Release
<1>2. queue # <<>> => Head(queue) \in Jobs /\ phase[Head(queue)] = "queued"
  <2> SUFFICES ASSUME queue # <<>> PROVE Head(queue) \in Jobs /\ phase[Head(queue)] = "queued"
    OBVIOUS
  <2>1. Head(queue) = queue[1] /\ 1 \in 1..Len(queue)
    BY <1>1
  <2> QED BY <1>1, <2>1
<1>3. \/ phase' = [phase EXCEPT ![j] = "released"]
      \/ queue # <<>> /\ phase' = [[phase EXCEPT ![j] = "released"] EXCEPT ![Head(queue)] = "claimed"]
  BY DEF Coordinator!Release, Coordinator!Drain
<1> QED
  BY <1>1, <1>2, <1>3 DEF Waiting

LEMMA RunsStep == IInv /\ [Next]_vars => Runs'
<1> SUFFICES ASSUME IInv, [Next]_vars PROVE Runs'
  OBVIOUS
<1> USE DEF IInv, Runs, runs, coordinator
<1>0. /\ phase \in [Jobs -> Coordinator!Phases] /\ outcome \in [Jobs -> Coordinator!Outcomes]
      /\ controlled \subseteq Jobs
  BY DEF Coordinator!IInv, Coordinator!TypeOK
<1>1. ASSUME NEW j \in Jobs, Submit(j) PROVE Runs'
  <2>1. UNCHANGED runs
    BY <1>1 DEF Submit
  <2>2. ASSUME NEW k \in Jobs PROVE Run(k)'
    <3>1. CASE Coordinator!Enqueue(j)
      <4>1. /\ phase[k] \in Waiting <=> phase'[k] \in Waiting
            /\ phase[k] \notin Waiting => phase'[k] = phase[k] /\ k # j
        BY <3>1, EnqueuePhases
      <4>2. outcome' = outcome /\ (k # j => (k \in controlled' <=> k \in controlled))
        BY <3>1 DEF Coordinator!Enqueue
      <4> QED BY <2>1, <4>1, <4>2 DEF Run, Waiting
    <3>2. CASE Coordinator!Refuse(j)
      <4>1. /\ phase[j] = "new" /\ phase' = [phase EXCEPT ![j] = "refused"]
            /\ outcome' = [outcome EXCEPT ![j] = "full"] /\ controlled' = controlled
        BY <3>2 DEF Coordinator!Refuse
      <4> QED BY <1>0, <2>1, <4>1 DEF Run
    <3> QED BY <1>1, <3>1, <3>2 DEF Submit
  <2> QED BY <2>1, <2>2
<1>2. ASSUME NEW j \in Jobs, Abort(j) PROVE Runs'
  <2>1. /\ UNCHANGED <<phase, outcome>>
        /\ controlled' = IF phase[j] \in {"new", "refused"} THEN controlled ELSE controlled \cup {j}
    BY <1>2 DEF Abort, Coordinator!Abort
  <2>2. CASE j \in controlled' /\ result[j] = "pending"
    <3>1. /\ result' = [result EXCEPT ![j] = "rejected"]
          /\ doomed' = [doomed EXCEPT ![j] = TRUE] /\ life' = life
      BY <1>2, <2>2 DEF Abort
    <3> QED BY <2>1, <2>2, <3>1 DEF Run
  <2>3. CASE ~(j \in controlled' /\ result[j] = "pending")
    <3>1. UNCHANGED runs
      BY <1>2, <2>3 DEF Abort
    <3> QED BY <2>1, <2>3, <3>1 DEF Run
  <2> QED BY <2>2, <2>3
<1>3. ASSUME NEW j \in Jobs, StartDeclined(j) \/ StartAborted(j) \/ StartWorker(j) PROVE Runs'
  <2>1. /\ phase[j] = "claimed" /\ phase' = [phase EXCEPT ![j] = "running"]
        /\ UNCHANGED <<outcome, controlled>>
    BY <1>3 DEF StartDeclined, StartAborted, StartWorker, Coordinator!Start
  <2>2. result[j] = "idle" /\ life[j] = "none" /\ outcome[j] # "resolved"
    BY <2>1 DEF Run
  <2>3. CASE StartDeclined(j)
    BY <1>0, <2>1, <2>2, <2>3 DEF StartDeclined, Run
  <2>4. CASE StartAborted(j)
    BY <1>0, <2>1, <2>2, <2>4 DEF StartAborted, Run
  <2>5. CASE StartWorker(j)
    BY <1>0, <2>1, <2>2, <2>5 DEF StartWorker, Run
  <2> QED BY <1>3, <2>3, <2>4, <2>5
<1>4. ASSUME NEW j \in Jobs, Deliver(j) PROVE Runs'
  BY <1>4 DEF Deliver, Run
<1>5. ASSUME NEW j \in Jobs, GiveUp(j) PROVE Runs'
  BY <1>5 DEF GiveUp, Run
<1>6. ASSUME NEW j \in Jobs, Die(j) PROVE Runs'
  BY <1>6 DEF Die, Run
<1>7. ASSUME NEW j \in Jobs, Finish(j) PROVE Runs'
  <2>1. /\ result[j] \in {"resolved", "rejected"} /\ UNCHANGED runs
        /\ phase[j] = "running" /\ phase' = [phase EXCEPT ![j] = "settled"]
        /\ outcome' = [outcome EXCEPT ![j] = result[j]] /\ UNCHANGED controlled
    BY <1>7 DEF Finish, Coordinator!Finish
  <2> QED BY <1>0, <2>1 DEF Run
<1>8. ASSUME NEW j \in Jobs, Release(j) PROVE Runs'
  <2>1. UNCHANGED runs /\ UNCHANGED <<outcome, controlled>> /\ Coordinator!Release(j)
    BY <1>8 DEF Release, Coordinator!Release
  <2>2. ASSUME NEW k \in Jobs PROVE Run(k)'
    <3>1. /\ phase[k] \in Waiting <=> phase'[k] \in Waiting
          /\ phase[k] \notin Waiting => phase'[k] = phase[k] \/ k = j
          /\ phase[j] = "settled"
      BY <2>1, ReleasePhases
    <3> QED BY <2>1, <3>1 DEF Run, Waiting
  <2> QED BY <2>1, <2>2
<1>9. CASE UNCHANGED vars
  BY <1>9 DEF vars, Run
<1> QED
  BY <1>1, <1>2, <1>3, <1>4, <1>5, <1>6, <1>7, <1>8, <1>9 DEF Next

\* Every step of the pool is a step of each run's lease or none of its business.
LEMMA StepLease ==
    ASSUME IInv, [Next]_vars, NEW j \in Jobs
    PROVE  [Lease(j)!LeaseNext]_(Lease(j)!leaseVars)
<1> SUFFICES ASSUME ~(UNCHANGED <<result[j], life[j], doomed[j]>>) PROVE Lease(j)!LeaseNext
  BY DEF Lease!leaseVars
<1> USE DEF IInv, Runs, runs, Lease!LeaseNext
<1>1. ASSUME NEW i \in Jobs, Submit(i) \/ Finish(i) \/ Release(i) PROVE FALSE
  BY <1>1 DEF Submit, Finish, Release
<1>2. ASSUME NEW i \in Jobs, Abort(i) PROVE Lease(j)!LeaseNext
  BY <1>2 DEF Abort, Lease!GiveUp
<1>3. ASSUME NEW i \in Jobs, StartDeclined(i) \/ StartAborted(i) \/ StartWorker(i)
      PROVE  Lease(j)!LeaseNext
  <2>1. result[i] = "idle"
    BY <1>3 DEF StartDeclined, StartAborted, StartWorker, Coordinator!Start, Run
  <2>2. CASE StartDeclined(i)
    BY <2>1, <2>2 DEF StartDeclined, Lease!Decline
  <2>3. CASE StartAborted(i)
    BY <2>1, <2>3 DEF StartAborted, Lease!BeginDoomed
  <2>4. CASE StartWorker(i)
    BY <2>1, <2>4 DEF StartWorker, Lease!Begin
  <2> QED BY <1>3, <2>2, <2>3, <2>4
<1>4. ASSUME NEW i \in Jobs, Deliver(i) PROVE Lease(j)!LeaseNext
  BY <1>4 DEF Deliver, Lease!Deliver
<1>5. ASSUME NEW i \in Jobs, GiveUp(i) PROVE Lease(j)!LeaseNext
  BY <1>5 DEF GiveUp, Lease!GiveUp
<1>6. ASSUME NEW i \in Jobs, Die(i) PROVE Lease(j)!LeaseNext
  BY <1>6 DEF Die, Lease!Die
<1>7. ASSUME UNCHANGED vars PROVE FALSE
  BY <1>7 DEF vars
<1> QED
  BY <1>1, <1>2, <1>3, <1>4, <1>5, <1>6, <1>7 DEF Next

------------------------------------------------------------------------------
(* The theorems. *)

\* The invariant the rest follows from: a run is begun with its job and ends
\* before it, is not waited for once aborted, and is seen to when it is not.
THEOREM PoolInvariantHolds == SafetySpec => []IInv
<1>1. Init => Runs
  BY InitRuns
<1>2. IInv /\ [Next]_vars => Runs'
  BY RunsStep
<1> QED
  BY <1>1, <1>2, CoordinatorInvariant, PTL DEF SafetySpec, IInv

\* job-coordinator.ts with worker-spawn.ts, "at most one untrusted worker
\* process is active": one process is waited for, the slot's, and every other
\* live one is being stopped and its job not told "resolved".
THEOREM OneAwaitedWorker == SafetySpec => []AtMostOneAwaitedWorker
<1>1. IInv => AtMostOneAwaitedWorker
  <2> SUFFICES ASSUME IInv PROVE AtMostOneAwaitedWorker
    OBVIOUS
  <2>1. \A j \in Jobs : result[j] = "pending" => phase[j] \in Coordinator!Held /\ phase[j] = "running"
    BY DEF IInv, Runs, Run, Coordinator!Held
  <2>2. \A i, j \in Jobs : result[i] = "pending" /\ result[j] = "pending" => i = j
    BY <2>1 DEF IInv, Coordinator!IInv, Coordinator!SlotAccounting
  <2>3. \A j \in Jobs : result[j] = "pending" => active = 1
    BY <2>1 DEF IInv, Coordinator!IInv, Coordinator!SlotAccounting, Coordinator!TypeOK,
                Coordinator!Concurrency
  <2>4. \A j \in Alive : result[j] # "pending" => doomed[j] /\ outcome[j] # "resolved"
    BY DEF IInv, Runs, Run, Alive
  <2> QED BY <2>1, <2>2, <2>3, <2>4 DEF AtMostOneAwaitedWorker
<1> QED
  BY <1>1, PoolInvariantHolds, PTL

\* WorkerPool keeps of a run what WorkerLease promises, which WorkerSpawn is
\* shown to keep: each job's run behaves as that lease, whatever the others do.
THEOREM RunsAreLeases == \A j \in Jobs : SafetySpec => Lease(j)!LeaseSafety
<1> SUFFICES ASSUME NEW j \in Jobs PROVE SafetySpec => Lease(j)!LeaseSafety
  OBVIOUS
<1>1. Init => Lease(j)!LeaseInit
  BY DEF Init, Lease!LeaseInit
<1>2. IInv /\ [Next]_vars => [Lease(j)!LeaseNext]_(Lease(j)!leaseVars)
  BY StepLease
<1> QED
  BY <1>1, <1>2, PoolInvariantHolds, PTL DEF SafetySpec, Lease!LeaseSafety

\* A job whose signal was aborted, and whose run is not begun or was given up.
GivenUp(j) == j \in controlled /\ result[j] \in {"idle", "rejected"}

LEMMA GivenUpStays == ASSUME IInv, [Next]_vars, NEW j \in Jobs, GivenUp(j) PROVE GivenUp(j)'
<1> USE DEF IInv, Runs, runs, coordinator, GivenUp
<1>1. j \in controlled'
  <2>1. ASSUME NEW i \in Jobs, Coordinator!Enqueue(i) \/ Coordinator!Abort(i)
        PROVE  controlled \subseteq controlled'
    BY <2>1 DEF Coordinator!Enqueue, Coordinator!Abort
  <2>2. ASSUME NEW i \in Jobs,
               \/ Coordinator!Refuse(i) \/ Coordinator!Start(i) \/ Coordinator!Release(i)
               \/ Coordinator!Finish(i, result[i])
        PROVE  controlled' = controlled
    BY <2>2 DEF Coordinator!Refuse, Coordinator!Start, Coordinator!Release, Coordinator!Finish
  <2> QED BY <2>1, <2>2 DEF Next, vars, Submit, Abort, StartDeclined, StartAborted, StartWorker,
                          Deliver, GiveUp, Die, Finish, Release
<1>2. result'[j] \in {"idle", "rejected"}
  BY DEF Next, vars, Submit, Abort, StartDeclined, StartAborted, StartWorker,
         Deliver, GiveUp, Die, Finish, Release
<1> QED
  BY <1>1, <1>2

\* A job aborted before it started stays so: its run is never begun or is given
\* up at once, and its caller is never told of a success.
THEOREM AbortedJobsNeverSucceed == SafetySpec => AbortBeforeStartIsFinal
<1> SUFFICES ASSUME NEW j \in Jobs
             PROVE  SafetySpec => [](j \in controlled /\ phase[j] \in {"queued", "claimed"}
                                     => [](outcome[j] # "resolved"))
  BY DEF AbortBeforeStartIsFinal
<1>1. IInv /\ j \in controlled /\ phase[j] \in {"queued", "claimed"} => GivenUp(j)
  BY DEF IInv, Runs, Run, GivenUp
<1>2. IInv /\ GivenUp(j) /\ [Next]_vars => GivenUp(j)'
  BY GivenUpStays
<1>3. IInv /\ GivenUp(j) => outcome[j] # "resolved"
  BY DEF IInv, Runs, Run, GivenUp
<1> QED
  BY <1>1, <1>2, <1>3, PoolInvariantHolds, PTL DEF SafetySpec

==============================================================================
