---------------------------- MODULE JobCoordinator ----------------------------
(* apps/server/src/job-coordinator.ts: the in-process coordinator that runs   *)
(* one job at a time and keeps at most QueueLimit more waiting.               *)
(*                                                                            *)
(* JavaScript runs one turn at a time, so each action is one turn: a caller's *)
(* call of enqueue with the #drain it makes, or one microtask of the promise  *)
(* chain drain() builds.  The chain has three of them: the job's execute is   *)
(* called (Start), its promise settles and the caller's with it (Finish), and *)
(* only in a LATER microtask does finally() give the slot back (Release): a   *)
(* caller that reacts to its result runs while its slot still counts.         *)
EXTENDS Naturals, Sequences

CONSTANTS Jobs,        \* the submissions callers may make, each once
          QueueLimit   \* options.queue

WorkerQueue == 10      \* WORKER_LIMITS.queue
Concurrency == 1       \* the constructor throws for any other value

ASSUME QueueLimitAssumption == QueueLimit \in 0..WorkerQueue

VARIABLES queue,       \* #queue
          active,      \* #active
          phase,       \* where each submission is
          outcome,     \* what the promise enqueue returned has told the caller
          aborted,     \* submissions whose caller's AbortSignal is aborted
          controlled   \* submissions whose own AbortController is aborted

vars == <<queue, active, phase, outcome, aborted, controlled>>

Phases == {"new", "refused", "queued", "claimed", "running", "settled", "released"}
Held   == {"claimed", "running", "settled"}      \* phases that hold the slot
Outcomes == {"pending", "resolved", "rejected", "full"}

Init == /\ queue = <<>>
        /\ active = 0
        /\ phase = [j \in Jobs |-> "new"]
        /\ outcome = [j \in Jobs |-> "pending"]
        /\ aborted = {}
        /\ controlled = {}

------------------------------------------------------------------------------
\* Two mutated forms of Drain: one that starts the newest waiting job, and one
\* that tests the slot after claiming it.
Drain_Newest(q, a, ph) ==
    IF a >= Concurrency \/ q = <<>>
    THEN queue' = q /\ active' = a /\ phase' = ph
    ELSE /\ queue' = SubSeq(q, 1, Len(q) - 1)
         /\ active' = a + 1
         /\ phase' = [ph EXCEPT ![q[Len(q)]] = "claimed"]

Drain_OffByOne(q, a, ph) ==
    IF a > Concurrency \/ q = <<>>
    THEN queue' = q /\ active' = a /\ phase' = ph
    ELSE /\ queue' = Tail(q)
         /\ active' = a + 1
         /\ phase' = [ph EXCEPT ![Head(q)] = "claimed"]

\* #drain on the queue q, the count a and the phases ph its caller leaves.
Drain(q, a, ph) ==
    IF a >= Concurrency \/ q = <<>>
    THEN queue' = q /\ active' = a /\ phase' = ph
    ELSE /\ queue' = Tail(q)
         /\ active' = a + 1
         /\ phase' = [ph EXCEPT ![Head(q)] = "claimed"]

\* Mutated: one place too many.
Full_OffByOne  == Len(queue) > QueueLimit /\ active >= Concurrency

Full == Len(queue) >= QueueLimit /\ active >= Concurrency

Refuse(j) == /\ phase[j] = "new"
             /\ Full
             /\ phase' = [phase EXCEPT ![j] = "refused"]
             /\ outcome' = [outcome EXCEPT ![j] = "full"]
             /\ UNCHANGED <<queue, active, aborted, controlled>>

\* Mutated: an already aborted signal is given a listener, which never fires.
Enqueue_LateListener(j) ==
    /\ phase[j] = "new"
    /\ ~Full
    /\ Drain(Append(queue, j), active, [phase EXCEPT ![j] = "queued"])
    /\ UNCHANGED <<outcome, aborted, controlled>>

Enqueue(j) ==
    /\ phase[j] = "new"
    /\ ~Full
    /\ controlled' = IF j \in aborted THEN controlled \cup {j} ELSE controlled
    /\ Drain(Append(queue, j), active, [phase EXCEPT ![j] = "queued"])
    /\ UNCHANGED <<outcome, aborted>>

\* The caller aborts its signal, before or after it submits; from enqueue on a
\* listener forwards that to the job's controller.  A waiting job stays queued.
Abort(j) == /\ j \notin aborted
            /\ aborted' = aborted \cup {j}
            /\ controlled' = IF phase[j] \in {"new", "refused"}
                             THEN controlled ELSE controlled \cup {j}
            /\ UNCHANGED <<queue, active, phase, outcome>>

Start(j) == /\ phase[j] = "claimed"
            /\ phase' = [phase EXCEPT ![j] = "running"]
            /\ UNCHANGED <<queue, active, outcome, aborted, controlled>>

Finish(j, result) == /\ phase[j] = "running"
                     /\ phase' = [phase EXCEPT ![j] = "settled"]
                     /\ outcome' = [outcome EXCEPT ![j] = result]
                     /\ UNCHANGED <<queue, active, aborted, controlled>>

\* Mutated: finally() gives the slot back and forgets to drain.
Release_NoDrain(j) ==
    /\ phase[j] = "settled"
    /\ active' = active - 1
    /\ phase' = [phase EXCEPT ![j] = "released"]
    /\ UNCHANGED <<queue, outcome, aborted, controlled>>

Release(j) == /\ phase[j] = "settled"
              /\ Drain(queue, active - 1, [phase EXCEPT ![j] = "released"])
              /\ UNCHANGED <<outcome, aborted, controlled>>

Next == \E j \in Jobs : \/ Refuse(j)
                        \/ Enqueue(j)
                        \/ Abort(j)
                        \/ Start(j)
                        \/ \E result \in {"resolved", "rejected"} : Finish(j, result)
                        \/ Release(j)

\* The event loop runs every microtask it holds (Start, Release); that every
\* execute settles is what WorkerSpawn shows of a worker run.
Fairness == \A j \in Jobs : /\ WF_vars(Start(j))
                            /\ WF_vars(\E r \in {"resolved", "rejected"} : Finish(j, r))
                            /\ WF_vars(Release(j))

SafetySpec == Init /\ [][Next]_vars
Spec == SafetySpec /\ Fairness

------------------------------------------------------------------------------
TypeOK == /\ queue \in Seq(Jobs)
          /\ active \in 0..Concurrency
          /\ phase \in [Jobs -> Phases]
          /\ outcome \in [Jobs -> Outcomes]
          /\ aborted \subseteq Jobs
          /\ controlled \subseteq Jobs

\* #active counts exactly the jobs between #drain's claim and finally(), and
\* two jobs never hold the slot together.
SlotAccounting ==
    /\ active = 0 <=> \A j \in Jobs : phase[j] \notin Held
    /\ \A i, j \in Jobs : phase[i] \in Held /\ phase[j] \in Held => i = j

\* #queue holds each waiting job once and nothing else.
QueueExact ==
    /\ \A i \in 1..Len(queue) : phase[queue[i]] = "queued"
    /\ \A j \in Jobs : phase[j] = "queued" => \E i \in 1..Len(queue) : queue[i] = j
    /\ \A i, k \in 1..Len(queue) : queue[i] = queue[k] => i = k

\* No lost wake-up: a job waits only while the slot is taken, whatever the
\* interleaving of enqueues, aborts and the three microtasks of a chain.
WorkConserving == queue # <<>> => active = Concurrency

\* The admission test, which reads the queue and the count before the push,
\* never lets more than QueueLimit jobs wait.
QueueBounded == Len(queue) <= QueueLimit

\* A job that runs sees its caller's abort however early it came: before the
\* submission, while waiting or while running.
AbortReachesJob == \A j \in aborted : phase[j] \notin {"new", "refused"} => j \in controlled

\* The caller's promise is settled in the turn the job's own is, and not
\* before or after.
AnswerTracksPhase ==
    \A j \in Jobs : outcome[j] = "pending" <=> phase[j] \in {"new", "queued", "claimed", "running"}

\* The coordinator implements the serial service: the room is the job that
\* holds the slot followed by the queue.
Holder == CHOOSE j \in Jobs : phase[j] \in Held
Room == IF active = 0 THEN queue ELSE <<Holder>> \o queue
Service == INSTANCE SerialService
             WITH Customers <- Jobs,
                  Capacity  <- QueueLimit + 1,
                  room      <- Room,
                  answer    <- outcome
ImplementsService == Service!ServiceSpec
ImplementsSafely  == Service!ServiceSafety

\* What makes the invariants above inductive: QueueExact ties the queue to the
\* phases, so that Drain claims a job that was really waiting.
IInv == /\ TypeOK
        /\ SlotAccounting
        /\ QueueExact
        /\ WorkConserving
        /\ QueueBounded
        /\ AbortReachesJob
        /\ AnswerTracksPhase

==============================================================================
