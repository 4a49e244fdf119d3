------------------------- MODULE JobCoordinator_proofs -------------------------
(* The coordinator's invariants, for every set of submissions and every queue *)
(* limit the constructor accepts.                                             *)
EXTENDS JobCoordinator, TLAPS

\* Taking the head off a non-empty sequence: what Drain does to #queue.
LEMMA TailFacts ==
    ASSUME NEW S, NEW s \in Seq(S), s # <<>>
    PROVE  /\ Head(s) \in S
           /\ Head(s) = s[1]
           /\ Len(s) \in Nat \ {0}
           /\ Tail(s) \in Seq(S)
           /\ Len(Tail(s)) = Len(s) - 1
           /\ \A i \in 1..Len(Tail(s)) : Tail(s)[i] = s[i + 1]
  OBVIOUS

\* Pushing at the end: what enqueue does to #queue.
LEMMA AppendFacts ==
    ASSUME NEW S, NEW s \in Seq(S), NEW e \in S
    PROVE  /\ Append(s, e) \in Seq(S)
           /\ Append(s, e) # <<>>
           /\ Len(s) \in Nat
           /\ Len(Append(s, e)) = Len(s) + 1
           /\ \A i \in 1..Len(s) : Append(s, e)[i] = s[i]
           /\ Append(s, e)[Len(s) + 1] = e
  OBVIOUS

\* What is true of a queue, a count and the phases #drain may be called with:
\* everything the invariant says of them but the wake-up, which #drain restores.
Drainable(q, a, ph) ==
    /\ q \in Seq(Jobs)
    /\ a \in 0..Concurrency
    /\ ph \in [Jobs -> Phases]
    /\ a = 0 <=> \A j \in Jobs : ph[j] \notin Held
    /\ \A i, j \in Jobs : ph[i] \in Held /\ ph[j] \in Held => i = j
    /\ \A i \in 1..Len(q) : ph[q[i]] = "queued"
    /\ \A j \in Jobs : ph[j] = "queued" => \E i \in 1..Len(q) : q[i] = j
    /\ \A i, k \in 1..Len(q) : q[i] = q[k] => i = k

\* #drain keeps all of that and leaves no job waiting beside a free slot; it
\* shortens the queue exactly when the slot was free.
LEMMA DrainCorrect ==
    ASSUME NEW q, NEW a, NEW ph, Drainable(q, a, ph), Drain(q, a, ph)
    PROVE  /\ Drainable(queue', active', phase')
           /\ (queue' # <<>> => active' = Concurrency)
           /\ Len(queue') <= Len(q)
           /\ (a = 0 /\ q # <<>> => Len(queue') = Len(q) - 1)
           /\ \A j \in Jobs : IF ph[j] = "queued" THEN phase'[j] \in {"queued", "claimed"}
                                                ELSE phase'[j] = ph[j]
<1> USE DEF Concurrency
<1>1. CASE a >= Concurrency \/ q = <<>>
  <2>1. queue' = q /\ active' = a /\ phase' = ph
    BY <1>1 DEF Drain
  <2>2. Len(q) \in Nat
    BY DEF Drainable
  <2> QED
    BY <1>1, <2>1, <2>2 DEF Drainable
<1>2. CASE ~(a >= Concurrency \/ q = <<>>)
  <2>1. /\ queue' = Tail(q)
        /\ active' = a + 1
        /\ phase' = [ph EXCEPT ![Head(q)] = "claimed"]
    BY <1>2 DEF Drain
  <2>2. a = 0 /\ q # <<>> /\ q \in Seq(Jobs)
    BY <1>2 DEF Drainable
  <2>3. /\ Head(q) \in Jobs
        /\ Head(q) = q[1]
        /\ Len(q) \in Nat \ {0}
        /\ Tail(q) \in Seq(Jobs)
        /\ Len(Tail(q)) = Len(q) - 1
        /\ \A i \in 1..Len(Tail(q)) : Tail(q)[i] = q[i + 1]
    BY <2>2, TailFacts
  <2>4. /\ \A i \in 1..Len(q) : ph[q[i]] = "queued"
        /\ \A j \in Jobs : ph[j] = "queued" => \E i \in 1..Len(q) : q[i] = j
        /\ \A i, k \in 1..Len(q) : q[i] = q[k] => i = k
        /\ \A j \in Jobs : ph[j] \notin Held
        /\ ph \in [Jobs -> Phases]
    BY <2>2 DEF Drainable
  <2>5. phase' \in [Jobs -> Phases]
    BY <2>1, <2>3, <2>4 DEF Phases
  <2>6. /\ phase'[Head(q)] = "claimed"
        /\ \A j \in Jobs : j # Head(q) => phase'[j] = ph[j]
    BY <2>1, <2>3, <2>4
  <2>7. active' = 1 /\ active' \in 0..1
    BY <2>1, <2>2
  <2>8. ~(\A j \in Jobs : phase'[j] \notin Held)
    BY <2>3, <2>6 DEF Held
  <2>9. \A i, j \in Jobs : phase'[i] \in Held /\ phase'[j] \in Held => i = j
    BY <2>4, <2>6
  <2>10. \A i \in 1..Len(queue') : phase'[queue'[i]] = "queued"
    <3> SUFFICES ASSUME NEW i \in 1..Len(queue')
                 PROVE  phase'[queue'[i]] = "queued"
      OBVIOUS
    <3>1. i + 1 \in 1..Len(q) /\ 1 \in 1..Len(q) /\ i + 1 # 1
      BY <2>1, <2>3
    <3>2. queue'[i] = q[i + 1]
      BY <2>1, <2>3
    <3>3. q[i + 1] # Head(q)
      BY <2>3, <2>4, <3>1
    <3>4. q[i + 1] \in Jobs
      BY <2>2, <3>1
    <3> QED
      BY <2>4, <2>6, <3>1, <3>2, <3>3, <3>4
  <2>11. \A j \in Jobs : phase'[j] = "queued" => \E i \in 1..Len(queue') : queue'[i] = j
    <3> SUFFICES ASSUME NEW j \in Jobs, phase'[j] = "queued"
                 PROVE  \E i \in 1..Len(queue') : queue'[i] = j
      OBVIOUS
    <3>1. j # Head(q) /\ ph[j] = "queued"
      BY <2>6
    <3>2. PICK i \in 1..Len(q) : q[i] = j
      BY <2>4, <3>1
    <3>3. i # 1
      BY <2>3, <3>1, <3>2
    <3>4. i - 1 \in 1..Len(Tail(q)) /\ (i - 1) + 1 = i
      BY <2>3, <3>2, <3>3
    <3>5. Tail(q)[i - 1] = j
      BY <2>3, <3>2, <3>4
    <3> QED
      BY <2>1, <3>4, <3>5
  <2>12. \A i, k \in 1..Len(queue') : queue'[i] = queue'[k] => i = k
    <3> SUFFICES ASSUME NEW i \in 1..Len(queue'), NEW k \in 1..Len(queue'), queue'[i] = queue'[k]
                 PROVE  i = k
      OBVIOUS
    <3>1. i + 1 \in 1..Len(q) /\ k + 1 \in 1..Len(q)
      BY <2>1, <2>3
    <3>2. q[i + 1] = q[k + 1]
      BY <2>1, <2>3
    <3>3. i + 1 = k + 1
      BY <2>4, <3>1, <3>2
    <3> QED
      BY <3>3
  <2>13. \A j \in Jobs : IF ph[j] = "queued" THEN phase'[j] \in {"queued", "claimed"}
                                               ELSE phase'[j] = ph[j]
    <3>1. ph[Head(q)] = "queued"
      BY <2>3, <2>4
    <3> QED
      BY <2>6, <3>1
  <2>14. Drainable(queue', active', phase')
    BY <2>1, <2>3, <2>5, <2>7, <2>8, <2>9, <2>10, <2>11, <2>12 DEF Drainable
  <2>15. Len(queue') <= Len(q) /\ Len(queue') = Len(q) - 1
    BY <2>1, <2>3
  <2> QED
    BY <2>7, <2>13, <2>14, <2>15
<1> QED
  BY <1>1, <1>2

------------------------------------------------------------------------------
LEMMA InitIInv == Init => IInv
  BY QueueLimitAssumption
     DEF Init, IInv, TypeOK, SlotAccounting, QueueExact, WorkConserving, QueueBounded,
         AbortReachesJob, AnswerTracksPhase, Phases, Held, Outcomes, Concurrency, WorkerQueue

LEMMA NextIInv == IInv /\ [Next]_vars => IInv'
<1> SUFFICES ASSUME IInv, [Next]_vars
             PROVE  IInv'
  OBVIOUS
<1> USE QueueLimitAssumption DEF Concurrency, WorkerQueue
<1>0. Drainable(queue, active, phase) /\ Len(queue) \in Nat
  BY DEF Drainable, IInv, TypeOK, SlotAccounting, QueueExact
<1>1. ASSUME NEW j \in Jobs, Refuse(j)
      PROVE  IInv'
  <2>1. /\ phase[j] = "new"
        /\ phase' = [phase EXCEPT ![j] = "refused"]
        /\ outcome' = [outcome EXCEPT ![j] = "full"]
        /\ UNCHANGED <<queue, active, aborted, controlled>>
    BY <1>1 DEF Refuse
  <2>2. /\ phase' \in [Jobs -> Phases]
        /\ \A k \in Jobs : k # j => phase'[k] = phase[k]
        /\ phase'[j] = "refused"
    BY <2>1 DEF IInv, TypeOK, Phases
  <2>3. TypeOK'
    BY <2>1, <2>2 DEF IInv, TypeOK, Outcomes
  <2>4. SlotAccounting'
    BY <2>1, <2>2 DEF IInv, SlotAccounting, Held
  <2>5. QueueExact'
    <3>1. \A i \in 1..Len(queue) : queue[i] \in Jobs /\ queue[i] # j
      BY <2>1 DEF IInv, TypeOK, QueueExact
    <3> QED
      BY <2>1, <2>2, <3>1 DEF IInv, QueueExact
  <2>6. WorkConserving' /\ QueueBounded'
    BY <2>1 DEF IInv, WorkConserving, QueueBounded
  <2>7. AbortReachesJob'
    BY <2>1, <2>2 DEF IInv, TypeOK, AbortReachesJob
  <2>8. AnswerTracksPhase'
    BY <2>1, <2>2 DEF IInv, TypeOK, AnswerTracksPhase
  <2> QED
    BY <2>3, <2>4, <2>5, <2>6, <2>7, <2>8 DEF IInv
<1>2. ASSUME NEW j \in Jobs, Enqueue(j)
      PROVE  IInv'
  <2> DEFINE q  == Append(queue, j)
             ph == [phase EXCEPT ![j] = "queued"]
  <2>1. /\ phase[j] = "new"
        /\ ~Full
        /\ Drain(q, active, ph)
        /\ controlled' = IF j \in aborted THEN controlled \cup {j} ELSE controlled
        /\ UNCHANGED <<outcome, aborted>>
    BY <1>2 DEF Enqueue
  <2>2. /\ q \in Seq(Jobs)
        /\ q # <<>>
        /\ Len(q) = Len(queue) + 1
        /\ \A i \in 1..Len(queue) : q[i] = queue[i]
        /\ q[Len(queue) + 1] = j
    BY AppendFacts DEF IInv, TypeOK
  <2>3. /\ ph \in [Jobs -> Phases]
        /\ \A k \in Jobs : k # j => ph[k] = phase[k]
        /\ ph[j] = "queued"
    BY DEF IInv, TypeOK, Phases
  <2>4. \A i \in 1..Len(queue) : queue[i] \in Jobs /\ queue[i] # j
    BY <2>1 DEF IInv, TypeOK, QueueExact
  <2>5. Drainable(q, active, ph)
    <3> HIDE DEF q, ph
    <3>1. active = 0 <=> \A k \in Jobs : ph[k] \notin Held
      BY <2>1, <2>3 DEF IInv, SlotAccounting, Held
    <3>2. \A i, k \in Jobs : ph[i] \in Held /\ ph[k] \in Held => i = k
      BY <2>1, <2>3 DEF IInv, SlotAccounting, Held
    <3>3. \A i \in 1..Len(q) : ph[q[i]] = "queued"
      BY <1>0, <2>2, <2>3, <2>4 DEF IInv, QueueExact
    <3>4. \A k \in Jobs : ph[k] = "queued" => \E i \in 1..Len(q) : q[i] = k
      <4> SUFFICES ASSUME NEW k \in Jobs, ph[k] = "queued"
                   PROVE  \E i \in 1..Len(q) : q[i] = k
        OBVIOUS
      <4>1. CASE k = j
        BY <1>0, <2>2, <4>1
      <4>2. CASE k # j
        <5>1. PICK i \in 1..Len(queue) : queue[i] = k
          BY <2>3, <4>2 DEF IInv, QueueExact
        <5> QED
          BY <1>0, <2>2, <5>1
      <4> QED
        BY <4>1, <4>2
    <3>5. \A i, k \in 1..Len(q) : q[i] = q[k] => i = k
      <4> SUFFICES ASSUME NEW i \in 1..Len(q), NEW k \in 1..Len(q), q[i] = q[k]
                   PROVE  i = k
        OBVIOUS
      <4>1. CASE i \in 1..Len(queue) /\ k \in 1..Len(queue)
        BY <2>2, <4>1 DEF IInv, QueueExact
      <4>2. CASE ~(i \in 1..Len(queue) /\ k \in 1..Len(queue))
        BY <1>0, <2>2, <2>4, <4>2
      <4> QED
        BY <4>1, <4>2
    <3> QED
      BY <2>2, <2>3, <3>1, <3>2, <3>3, <3>4, <3>5 DEF Drainable, IInv, TypeOK
  <2>6. /\ Drainable(queue', active', phase')
        /\ queue' # <<>> => active' = Concurrency
        /\ Len(queue') <= Len(q)
        /\ active = 0 /\ q # <<>> => Len(queue') = Len(q) - 1
        /\ \A k \in Jobs : IF ph[k] = "queued" THEN phase'[k] \in {"queued", "claimed"}
                                                ELSE phase'[k] = ph[k]
    <3> HIDE DEF q, ph
    <3>1. Drain(q, active, ph)
      BY <2>1
    <3> QED BY <2>5, <3>1, DrainCorrect
  <2> HIDE DEF q, ph
  <2>7. TypeOK'
    BY <2>1, <2>6 DEF Drainable, IInv, TypeOK
  <2>8. SlotAccounting' /\ QueueExact' /\ WorkConserving'
    BY <2>6 DEF Drainable, SlotAccounting, QueueExact, WorkConserving
  <2>9. QueueBounded'
    <3>0. Len(queue') \in Nat
      BY <2>7 DEF TypeOK
    <3>1. CASE active = 0
      <4>1. Len(queue) = 0
        BY <1>0, <3>1 DEF IInv, TypeOK, WorkConserving
      <4> QED
        BY <2>2, <2>6, <3>0, <3>1, <4>1 DEF QueueBounded
    <3>2. CASE active # 0
      <4>1. Len(queue) < QueueLimit
        BY <1>0, <2>1, <3>2 DEF Full, IInv, TypeOK
      <4> QED
        BY <1>0, <2>2, <2>6, <3>0, <4>1 DEF QueueBounded
    <3> QED
      BY <3>1, <3>2
  <2>10. AbortReachesJob'
    BY <2>1, <2>3, <2>6 DEF IInv, TypeOK, AbortReachesJob
  <2>11. AnswerTracksPhase'
    BY <2>1, <2>3, <2>6 DEF IInv, AnswerTracksPhase
  <2> QED
    BY <2>7, <2>8, <2>9, <2>10, <2>11 DEF IInv
<1>3. ASSUME NEW j \in Jobs, Abort(j)
      PROVE  IInv'
  BY <1>3 DEF Abort, IInv, TypeOK, SlotAccounting, QueueExact, WorkConserving, QueueBounded,
              AbortReachesJob, AnswerTracksPhase
<1>4. ASSUME NEW j \in Jobs, NEW new \in {"running", "settled"},
             phase[j] \in {"claimed", "running"}, phase' = [phase EXCEPT ![j] = new],
             UNCHANGED <<queue, active, aborted, controlled>>, outcome' \in [Jobs -> Outcomes],
             AnswerTracksPhase'
      PROVE  IInv'
  <2>1. phase[j] \in Held /\ new \in Held /\ new \in Phases
    BY <1>4 DEF Held, Phases
  <2>2. /\ phase' \in [Jobs -> Phases]
        /\ \A k \in Jobs : k # j => phase'[k] = phase[k]
        /\ phase'[j] = new
    BY <1>4, <2>1 DEF IInv, TypeOK
  <2>3. TypeOK'
    BY <1>4, <2>2 DEF IInv, TypeOK
  <2>4. \A k \in Jobs : /\ phase'[k] \in Held <=> phase[k] \in Held
                        /\ phase'[k] = "queued" <=> phase[k] = "queued"
                        /\ phase'[k] \in {"new", "refused"} <=> phase[k] \in {"new", "refused"}
    BY <1>4, <2>1, <2>2 DEF Held
  <2>5. SlotAccounting'
    BY <1>4, <2>4 DEF IInv, SlotAccounting
  <2>6. QueueExact'
    <3>1. \A i \in 1..Len(queue) : queue[i] \in Jobs
      BY DEF IInv, TypeOK
    <3> QED
      BY <1>4, <2>4, <3>1 DEF IInv, QueueExact
  <2>7. WorkConserving' /\ QueueBounded' /\ AbortReachesJob'
    BY <1>4, <2>4 DEF IInv, TypeOK, WorkConserving, QueueBounded, AbortReachesJob
  <2> QED
    BY <1>4, <2>3, <2>5, <2>6, <2>7 DEF IInv
<1>5. ASSUME NEW j \in Jobs, Start(j)
      PROVE  IInv'
  <2>1. AnswerTracksPhase'
    BY <1>5 DEF Start, IInv, TypeOK, AnswerTracksPhase
  <2> QED
    BY <1>4, <1>5, <2>1 DEF Start, IInv, TypeOK
<1>6. ASSUME NEW j \in Jobs, NEW result \in {"resolved", "rejected"}, Finish(j, result)
      PROVE  IInv'
  <2>1. outcome' \in [Jobs -> Outcomes]
    BY <1>6 DEF Finish, IInv, TypeOK, Outcomes
  <2>2. /\ phase[j] = "running"
        /\ phase' = [phase EXCEPT ![j] = "settled"]
        /\ UNCHANGED <<queue, active, aborted, controlled>>
    BY <1>6 DEF Finish
  <2>3. AnswerTracksPhase'
    BY <1>6 DEF Finish, IInv, TypeOK, AnswerTracksPhase
  <2> QED
    BY <1>4, <2>1, <2>2, <2>3
<1>7. ASSUME NEW j \in Jobs, Release(j)
      PROVE  IInv'
  <2> DEFINE ph == [phase EXCEPT ![j] = "released"]
  <2>1. /\ phase[j] = "settled"
        /\ Drain(queue, active - 1, ph)
        /\ UNCHANGED <<outcome, aborted, controlled>>
    BY <1>7 DEF Release
  <2>2. /\ ph \in [Jobs -> Phases]
        /\ \A k \in Jobs : k # j => ph[k] = phase[k]
        /\ ph[j] = "released"
    BY DEF IInv, TypeOK, Phases
  <2>3. active = 1
    BY <2>1 DEF IInv, TypeOK, SlotAccounting, Held
  <2>4. Drainable(queue, active - 1, ph)
    <3> HIDE DEF ph
    <3>1. active - 1 = 0 /\ active - 1 \in 0..Concurrency
      BY <2>3
    <3>2. \A k \in Jobs : ph[k] \notin Held
      BY <2>1, <2>2 DEF IInv, SlotAccounting, Held
    <3>3. \A i \in 1..Len(queue) : queue[i] \in Jobs /\ queue[i] # j
      BY <2>1 DEF IInv, TypeOK, QueueExact
    <3>4. \A i \in 1..Len(queue) : ph[queue[i]] = "queued"
      BY <2>2, <3>3 DEF IInv, QueueExact
    <3>5. \A k \in Jobs : ph[k] = "queued" => \E i \in 1..Len(queue) : queue[i] = k
      BY <2>2 DEF IInv, QueueExact
    <3> QED
      BY <2>2, <3>1, <3>2, <3>4, <3>5 DEF Drainable, IInv, TypeOK, QueueExact
  <2>5. /\ Drainable(queue', active', phase')
        /\ queue' # <<>> => active' = Concurrency
        /\ Len(queue') <= Len(queue)
        /\ \A k \in Jobs : IF ph[k] = "queued" THEN phase'[k] \in {"queued", "claimed"}
                                                ELSE phase'[k] = ph[k]
    <3> HIDE DEF ph
    <3>1. Drain(queue, active - 1, ph)
      BY <2>1
    <3> QED BY <2>4, <3>1, DrainCorrect
  <2> HIDE DEF ph
  <2>6. TypeOK'
    BY <2>1, <2>5 DEF Drainable, IInv, TypeOK
  <2>7. SlotAccounting' /\ QueueExact' /\ WorkConserving'
    BY <2>5 DEF Drainable, SlotAccounting, QueueExact, WorkConserving
  <2>8. QueueBounded'
    BY <1>0, <2>5, <2>6 DEF IInv, TypeOK, QueueBounded
  <2>9. AbortReachesJob'
    BY <2>1, <2>2, <2>5 DEF IInv, TypeOK, AbortReachesJob
  <2>10. AnswerTracksPhase'
    BY <2>1, <2>2, <2>5 DEF IInv, AnswerTracksPhase
  <2> QED
    BY <2>6, <2>7, <2>8, <2>9, <2>10 DEF IInv
<1>8. CASE UNCHANGED vars
  BY <1>8 DEF vars, IInv, TypeOK, SlotAccounting, QueueExact, WorkConserving, QueueBounded,
              AbortReachesJob, AnswerTracksPhase
<1> QED
  BY <1>1, <1>2, <1>3, <1>5, <1>6, <1>7, <1>8 DEF Next

THEOREM Inductive == SafetySpec => []IInv
<1> QED
  BY InitIInv, NextIInv, PTL DEF SafetySpec

\* The types and ranges of the coordinator's state.
THEOREM TypeCorrect == SafetySpec => []TypeOK
  BY Inductive, PTL DEF IInv

\* #active is the number of jobs between #drain and finally(): never two.
THEOREM SlotAccounted == SafetySpec => []SlotAccounting
  BY Inductive, PTL DEF IInv

\* No enqueue, abort or microtask leaves a job waiting beside a free slot.
THEOREM NoLostWakeUp == SafetySpec => []WorkConserving
  BY Inductive, PTL DEF IInv

\* The admission test bounds the queue for every limit from 0 to 10.
THEOREM QueueNeverOverflows == SafetySpec => []QueueBounded
  BY Inductive, PTL DEF IInv

\* A job sees its caller's abort whenever it came.
THEOREM AbortsReachJobs == SafetySpec => []AbortReachesJob
  BY Inductive, PTL DEF IInv

------------------------------------------------------------------------------
LEMMA HolderIs ==
    ASSUME IInv, NEW j \in Jobs, phase[j] \in Held
    PROVE  Holder = j /\ active = 1
<1>1. \A i \in Jobs : phase[i] \in Held => i = j
  BY DEF IInv, SlotAccounting
<1>2. Holder = j
  BY <1>1 DEF Holder
<1>3. active # 0
  BY DEF IInv, SlotAccounting
<1> QED
  BY <1>2, <1>3 DEF IInv, TypeOK, Concurrency

LEMMA HolderExists ==
    ASSUME IInv, active # 0
    PROVE  Holder \in Jobs /\ phase[Holder] \in Held /\ active = 1
<1>1. PICK j \in Jobs : phase[j] \in Held
  BY DEF IInv, SlotAccounting
<1> QED
  BY <1>1, HolderIs

\* The room is a sequence of distinct admitted jobs, the holder first.
LEMMA RoomFacts ==
    ASSUME IInv
    PROVE  /\ Room \in Seq(Jobs)
           /\ Len(Room) = active + Len(queue)
           /\ active = 1 => Head(Room) = Holder /\ Room # <<>> /\ Tail(Room) = queue
           /\ \A i \in 1..Len(Room) : phase[Room[i]] \in Held \cup {"queued"}
<1>0. queue \in Seq(Jobs) /\ active \in 0..1 /\ Len(queue) \in Nat
  BY DEF IInv, TypeOK, Concurrency
<1>1. CASE active = 0
  BY <1>0, <1>1 DEF Room, IInv, QueueExact
<1>2. CASE active # 0
  <2>1. Holder \in Jobs /\ phase[Holder] \in Held /\ active = 1
    BY <1>2, HolderExists
  <2>2. Room = <<Holder>> \o queue
    BY <1>2 DEF Room
  <2> HIDE DEF Holder
  <2>3. /\ Room \in Seq(Jobs)
        /\ Len(Room) = 1 + Len(queue)
        /\ Head(Room) = Holder
        /\ Room # <<>>
        /\ Tail(Room) = queue
        /\ Room[1] = Holder
        /\ \A i \in 2..Len(Room) : i - 1 \in 1..Len(queue) /\ Room[i] = queue[i - 1]
    BY <1>0, <2>1, <2>2
  <2>4. \A i \in 1..Len(Room) : phase[Room[i]] \in Held \cup {"queued"}
    BY <1>0, <2>1, <2>3 DEF IInv, QueueExact
  <2> QED
    BY <2>1, <2>3, <2>4
<1> QED
  BY <1>1, <1>2

LEMMA InitRefines == Init => Service!ServiceInit
  BY DEF Init, Room, Service!ServiceInit

\* Every turn of the coordinator is a step of the serial service or invisible.
LEMMA NextRefines == IInv /\ IInv' /\ [Next]_vars => [Service!ServiceNext]_Service!serviceVars
<1> SUFFICES ASSUME IInv, IInv', [Next]_vars
             PROVE  Service!ServiceNext \/ UNCHANGED <<Room, outcome>>
  BY DEF Service!serviceVars
<1> USE QueueLimitAssumption DEF Concurrency
<1>0. /\ queue \in Seq(Jobs) /\ active \in 0..1 /\ Len(queue) \in Nat /\ QueueLimit \in Nat
      /\ phase \in [Jobs -> Phases] /\ outcome \in [Jobs -> Outcomes]
  BY DEF IInv, TypeOK, WorkerQueue
<1>1. ASSUME NEW j \in Jobs, phase[j] = "new"
      PROVE  /\ ~Service!Inside(j)
             /\ outcome[j] = "pending"
  <2>1. outcome[j] = "pending"
    BY <1>1 DEF IInv, AnswerTracksPhase
  <2>2. ~Service!Inside(j)
    BY <1>1, RoomFacts DEF Service!Inside, Held
  <2> QED
    BY <2>1, <2>2
<1>2. ASSUME NEW j \in Jobs, Refuse(j)
      PROVE  Service!TurnAway(j)
  <2>1. /\ phase[j] = "new" /\ Full
        /\ phase' = [phase EXCEPT ![j] = "refused"]
        /\ outcome' = [outcome EXCEPT ![j] = "full"]
        /\ UNCHANGED <<queue, active>>
    BY <1>2 DEF Refuse
  <2>2. active = 1 /\ Len(queue) = QueueLimit
    BY <1>0, <2>1 DEF Full, IInv, QueueBounded
  <2>3. Len(Room) = QueueLimit + 1
    BY <1>0, <2>2, RoomFacts
  <2>4. Holder' = Holder
    <3>1. Holder \in Jobs /\ phase[Holder] \in Held
      BY <2>2, HolderExists
    <3>2. \A k \in Jobs : phase'[k] \in Held <=> phase[k] \in Held
      BY <1>0, <2>1 DEF Held
    <3> QED
      BY <3>2 DEF Holder
  <2>5. Room' = Room
    BY <2>1, <2>4 DEF Room
  <2> QED
    BY <1>1, <2>1, <2>3, <2>5 DEF Service!TurnAway
<1>3. ASSUME NEW j \in Jobs, Enqueue(j)
      PROVE  Service!Admit(j)
  <2>1. /\ phase[j] = "new" /\ ~Full
        /\ Drain(Append(queue, j), active, [phase EXCEPT ![j] = "queued"])
        /\ outcome' = outcome
    BY <1>3 DEF Enqueue
  <2>2. /\ Append(queue, j) \in Seq(Jobs) /\ Append(queue, j) # <<>>
        /\ Len(Append(queue, j)) = Len(queue) + 1
    BY <1>0, AppendFacts
  <2>3. Len(Room) < QueueLimit + 1
    BY <1>0, <2>1, RoomFacts DEF Full, IInv, WorkConserving
  <2>4. CASE active = 0
    <3>1. queue = <<>>
      BY <1>0, <2>4 DEF IInv, WorkConserving
    <3>2. /\ Append(queue, j) = <<j>>
          /\ Head(Append(queue, j)) = j
          /\ Tail(Append(queue, j)) = <<>>
      BY <3>1
    <3>3. queue' = <<>> /\ active' = 1 /\ phase'[j] = "claimed"
      BY <1>0, <2>1, <2>2, <2>4, <3>2 DEF Drain
    <3>4. (Holder = j)'
      <4>1. \A i \in Jobs : phase'[i] \in Held => i = j
        BY <3>3 DEF IInv, SlotAccounting, Held
      <4> QED
        BY <3>3, <4>1 DEF Holder, Held
    <3>5. Room = <<>> /\ Room' = <<j>> \o <<>>
      BY <2>4, <3>1, <3>3, <3>4 DEF Room
    <3> QED
      BY <1>1, <2>1, <2>3, <3>5 DEF Service!Admit
  <2>5. CASE active # 0
    <3>1. /\ queue' = Append(queue, j) /\ active' = active
          /\ phase' = [phase EXCEPT ![j] = "queued"]
      BY <1>0, <2>1, <2>5 DEF Drain
    <3>2. Holder \in Jobs /\ phase[Holder] \in Held
      BY <2>5, HolderExists
    <3>3. Holder' = Holder
      <4>1. \A k \in Jobs : phase'[k] \in Held <=> phase[k] \in Held
        BY <1>0, <2>1, <3>1 DEF Held
      <4> QED
        BY <4>1 DEF Holder
    <3>4. Room = <<Holder>> \o queue /\ Room' = <<Holder>> \o Append(queue, j)
      BY <2>5, <3>1, <3>3 DEF Room
    <3>5. <<Holder>> \o Append(queue, j) = Append(<<Holder>> \o queue, j)
      <4> HIDE DEF Holder
      <4> QED
        BY <1>0, <3>2
    <3> QED
      BY <1>1, <2>1, <2>3, <3>4, <3>5 DEF Service!Admit
  <2> QED
    BY <2>4, <2>5
<1>4. ASSUME NEW j \in Jobs, Abort(j)
      PROVE  UNCHANGED <<Room, outcome>>
  BY <1>4 DEF Abort, Room, Holder
<1>5. ASSUME NEW j \in Jobs, Start(j)
      PROVE  UNCHANGED <<Room, outcome>>
  <2>1. /\ phase[j] = "claimed" /\ phase' = [phase EXCEPT ![j] = "running"]
        /\ UNCHANGED <<queue, active, outcome>>
    BY <1>5 DEF Start
  <2>2. \A k \in Jobs : phase'[k] \in Held <=> phase[k] \in Held
    BY <1>0, <2>1 DEF Held
  <2>3. Holder' = Holder
    BY <2>2 DEF Holder
  <2> QED
    BY <2>1, <2>3 DEF Room
<1>6. ASSUME NEW j \in Jobs, NEW result \in {"resolved", "rejected"}, Finish(j, result)
      PROVE  Service!Answer
  <2>1. /\ phase[j] = "running" /\ phase' = [phase EXCEPT ![j] = "settled"]
        /\ outcome' = [outcome EXCEPT ![j] = result]
        /\ UNCHANGED <<queue, active>>
    BY <1>6 DEF Finish
  <2>2. Holder = j /\ active = 1
    BY <2>1, HolderIs DEF Held
  <2>3. Room # <<>> /\ Head(Room) = j
    BY <2>2, RoomFacts
  <2>4. \A k \in Jobs : phase'[k] \in Held <=> phase[k] \in Held
    BY <1>0, <2>1 DEF Held
  <2>5. Holder' = Holder
    BY <2>4 DEF Holder
  <2>6. Room' = Room
    BY <2>1, <2>5 DEF Room
  <2>7. outcome[j] = "pending"
    BY <2>1 DEF IInv, AnswerTracksPhase
  <2> QED
    BY <2>1, <2>3, <2>6, <2>7 DEF Service!Answer
<1>7. ASSUME NEW j \in Jobs, Release(j)
      PROVE  Service!Leave
  <2>1. /\ phase[j] = "settled"
        /\ Drain(queue, active - 1, [phase EXCEPT ![j] = "released"])
        /\ outcome' = outcome
    BY <1>7 DEF Release
  <2>2. Holder = j /\ active = 1
    BY <2>1, HolderIs DEF Held
  <2>3. Room # <<>> /\ Head(Room) = j /\ Tail(Room) = queue
    BY <2>2, RoomFacts
  <2>4. outcome[j] # "pending"
    BY <2>1 DEF IInv, AnswerTracksPhase
  <2>5. Room' = queue
    <3>1. CASE queue = <<>>
      BY <1>0, <2>1, <2>2, <3>1 DEF Drain, Room
    <3>2. CASE queue # <<>>
      <4>1. /\ queue' = Tail(queue) /\ active' = 1
            /\ phase' = [[phase EXCEPT ![j] = "released"] EXCEPT ![Head(queue)] = "claimed"]
        BY <1>0, <2>1, <2>2, <3>2 DEF Drain
      <4>2. Head(queue) \in Jobs /\ <<Head(queue)>> \o Tail(queue) = queue
        BY <1>0, <3>2
      <4>3. phase'[Head(queue)] = "claimed"
        BY <1>0, <4>1, <4>2
      <4>4. \A i \in Jobs : phase'[i] \in Held => i = Head(queue)
        BY <4>2, <4>3 DEF IInv, SlotAccounting, Held
      <4>5. Holder' = Head(queue)
        BY <4>2, <4>3, <4>4 DEF Holder, Held
      <4> QED
        BY <4>1, <4>2, <4>5 DEF Room
    <3> QED
      BY <3>1, <3>2
  <2> QED
    BY <2>1, <2>3, <2>4, <2>5 DEF Service!Leave
<1>8. CASE UNCHANGED vars
  BY <1>8 DEF vars, Room, Holder
<1> QED
  BY <1>2, <1>3, <1>4, <1>5, <1>6, <1>7, <1>8 DEF Next, Service!ServiceNext

\* The coordinator serves its callers as the serial service does: one at a
\* time, in the order they were let in, turning one away only when the room is
\* full and answering each once.
THEOREM RefinesSerialService == SafetySpec => ImplementsSafely
<1>1. SafetySpec => []IInv
  BY Inductive
<1> QED
  BY <1>1, InitRefines, NextRefines, PTL DEF SafetySpec, ImplementsSafely, Service!ServiceSafety

==============================================================================
