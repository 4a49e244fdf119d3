-------------------------- MODULE Inspector_proofs ---------------------------
(* The process tree and the session of WorkerProcess, for every set of ids,   *)
(* every limit and every number of frames, and the walk of ClosureClassifier, *)
(* for every catalog.                                                         *)
EXTENDS WorkerProcess, ClosureClassifier, SumLemmas

\* How far the launcher has come tells what the inspector and its job are; no
\* process is killed before the launcher has gone.
Stage ==
    /\ helper \in {"parsing", "creating"} => primary = "none" /\ job = "none"
    /\ helper \in {"created", "configuring", "assigning", "resuming"} => primary = "suspended"
    /\ helper = "created" => job = "none"
    /\ helper = "configuring" => job = "open"
    /\ helper \in {"assigning", "resuming", "waiting", "grace"} => job = "armed"
    /\ helper \in {"resuming", "waiting", "grace"} => "primary" \in members
    /\ helper \in {"waiting", "grace"} => primary \in {"running", "dead"}
    /\ helper \notin Gone => doomed = {} /\ status = -1

\* Whatever ever ran is in the job, and is being killed once the launcher has
\* gone; a process that was suspended is left only by a launcher that was killed
\* or whose TerminateProcess failed.
Tree ==
    /\ members # {} /\ helper \notin Gone => job = "armed"
    /\ primary = "running" => "primary" \in members
    /\ child # "none" => "child" \in members /\ primary \in {"running", "dead"}
    /\ helper \in Gone => members \subseteq doomed
    /\ helper = "ended" /\ primary = "suspended" => "primary" \in doomed \/ spared

\* The answers so far are those of the first frames written, and an inspector
\* that has not ended has answered all it has read.
Conversation ==
    /\ stdin \in Seq(Frames) /\ fed \in Seq(Frames) /\ answers \in Seq(Ids)
    /\ ids \subseteq Ids /\ eof \in BOOLEAN
    /\ Len(answers) <= Len(fed)
    /\ \A i \in 1..Len(answers) : fed[i].good /\ fed[i].id = answers[i] /\ answers[i] \in ids
    /\ \A i, j \in 1..Len(answers) : answers[i] = answers[j] => i = j
    /\ primary # "dead" => /\ Len(fed) = Len(answers) + Len(stdin)
                           /\ \A i \in 1..Len(stdin) : stdin[i] = fed[Len(answers) + i]

\* A clean exit, and a status of zero, are what they seem.
Honest ==
    /\ code \in Nat
    /\ primary = "dead" /\ code = 0 => eof /\ stdin = <<>> /\ Len(fed) = Len(answers)
    /\ status = 0 => primary = "dead" /\ code % 256 = 0

IInv == TypeOK /\ Stage /\ Tree /\ Conversation /\ Honest

\* Reading the head of a pipe, and writing at its end.
LEMMA ReadFacts ==
    ASSUME NEW S, NEW s \in Seq(S), s # <<>>
    PROVE  /\ Head(s) \in S /\ Head(s) = s[1]
           /\ Len(s) \in Nat /\ Len(s) > 0
           /\ Tail(s) \in Seq(S) /\ Len(Tail(s)) = Len(s) - 1
           /\ \A i \in 1..Len(Tail(s)) : Tail(s)[i] = s[i + 1]
  OBVIOUS

LEMMA WriteFacts ==
    ASSUME NEW S, NEW s \in Seq(S), NEW e \in S
    PROVE  /\ Append(s, e) \in Seq(S)
           /\ Len(s) \in Nat /\ Len(Append(s, e)) = Len(s) + 1
           /\ \A i \in 1..Len(s) : Append(s, e)[i] = s[i]
           /\ Append(s, e)[Len(s) + 1] = e
  OBVIOUS

LEMMA InitIInv == Init => IInv
<1> SUFFICES ASSUME Init PROVE IInv
  OBVIOUS
<1> USE ProcessAssumption DEF Init
<1>1. TypeOK
  <2>1. spared \in BOOLEAN
    OBVIOUS
  <2> QED BY <2>1 DEF TypeOK, Gone
<1>2. Stage /\ Tree /\ Honest
  BY DEF Stage, Tree, Honest, Gone
<1>3. /\ stdin \in Seq(Frames) /\ fed \in Seq(Frames) /\ answers \in Seq(Ids)
      /\ Len(stdin) = 0 /\ Len(fed) = 0 /\ Len(answers) = 0
      /\ ids \subseteq Ids /\ eof \in BOOLEAN
  BY <<>> \in Seq(Frames), <<>> \in Seq(Ids)
<1>4. \A i \in 1..0 : FALSE
  OBVIOUS
<1>5. Conversation
  BY <1>3, <1>4 DEF Conversation
<1> QED
  BY <1>1, <1>2, <1>5 DEF IInv

\* What the launcher does it does to itself, to the job and, before it has
\* resumed the inspector, to its state: the conversation goes on as it was.
LEMMA LauncherKeepsConversation ==
    ASSUME Conversation, UNCHANGED <<pipe, session>>,
           primary' = "dead" => primary = "dead",
           primary = "dead" => primary' = "dead"
    PROVE  Conversation'
  BY DEF Conversation, pipe, session

\* The launcher returns, at a point where a suspended inspector is terminated,
\* spared, or a member of the armed job.
LEMMA LauncherReturns ==
    ASSUME IInv, helper \notin Gone, Inspector,
           NEW s \in 0..255, NEW also \in SUBSET {"primary"},
           helper' = "ended", status' = s, CloseJob(also), spared' \in BOOLEAN,
           primary = "suspended" => "primary" \in also \/ "primary" \in members \/ spared',
           members # {} => job = "armed",
           s = 0 => primary = "dead" /\ code % 256 = 0
    PROVE  IInv'
<1> USE DEF IInv
<1>0. members # {} => job = "armed"
  OBVIOUS
<1>1. /\ helper' = "ended" /\ status' = s /\ CloseJob(also)
      /\ UNCHANGED <<primary, code, child, stdin, eof, fed, total, ids, answers>>
  BY DEF Inspector, pipe, session
<1>2. \A p : p \in doomed' <=> p \in doomed \/ p \in also \/ (job = "armed" /\ p \in members)
  <2>1. CASE job = "armed"
    <3>1. doomed' = doomed \cup also \cup members
      BY <1>1, <2>1 DEF CloseJob
    <3> QED BY <2>1, <3>1
  <2>2. CASE job # "armed"
    <3>1. doomed' = doomed \cup also
      BY <1>1, <2>2 DEF CloseJob
    <3> QED BY <2>2, <3>1
  <2> QED BY <2>1, <2>2
<1>8. members' = members /\ job' \in {"none", "closed"}
  BY <1>1 DEF CloseJob
<1>3. TypeOK'
  <2>1. doomed' \subseteq {"primary", "child"} /\ members' \subseteq {"primary", "child"}
    BY <1>2, <1>8 DEF TypeOK
  <2> QED BY <1>1, <1>8, <2>1 DEF TypeOK, Gone
<1>4. Stage'
  BY <1>1 DEF Stage, Gone
<1>5. Tree'
  <2>1. members' \subseteq doomed'
    BY <1>0, <1>2, <1>8
  <2>2. primary = "suspended" => "primary" \in doomed' \/ spared'
    BY <1>0, <1>2
  <2> QED BY <1>1, <1>8, <2>1, <2>2 DEF Tree, Gone
<1>6. Conversation'
  BY <1>1 DEF Conversation
<1>7. Honest'
  BY <1>1 DEF Honest
<1> QED
  BY <1>3, <1>4, <1>5, <1>6, <1>7

LEMMA LauncherEnds ==
    ASSUME IInv, helper \notin Gone, Inspector,
           NEW s \in 0..255, Exit(s, {}),
           primary = "suspended" => "primary" \in members,
           members # {} => job = "armed",
           s = 0 => primary = "dead" /\ code % 256 = 0
    PROVE  IInv'
<1>1. helper' = "ended" /\ status' = s /\ CloseJob({}) /\ spared' \in BOOLEAN
  BY DEF Exit, IInv, TypeOK
<1> QED
  BY <1>1, LauncherReturns

\* Before the inspector is in its job, a refusal terminates or spares it.
LEMMA LauncherAbandons ==
    ASSUME IInv, helper \notin Gone, Inspector, Abandon, members # {} => job = "armed"
    PROVE  IInv'
<1>1. helper' = "ended" /\ status' = 124 /\ 124 \in 0..255
  BY DEF Abandon, Refused
<1>2. CASE CloseJob({"primary"}) /\ UNCHANGED spared
  <2>1. spared' \in BOOLEAN
    BY <1>2 DEF IInv, TypeOK
  <2> QED BY <1>1, <1>2, <2>1, LauncherReturns
<1>3. CASE CloseJob({}) /\ spared' = TRUE
  BY <1>1, <1>3, LauncherReturns
<1> QED
  BY <1>2, <1>3 DEF Abandon

LEMMA LauncherStep == IInv /\ (Helper \/ KillHelper) => IInv'
<1> SUFFICES ASSUME IInv, Helper \/ KillHelper PROVE IInv'
  OBVIOUS
<1> USE DEF IInv, Inspector, pipe, session, jobVars
<1>0. members # {} /\ helper \notin Gone => job = "armed"
  BY DEF Tree
<1>1. CASE Parse
  <2>1. CASE Exit(2, {})
    <3>1. helper \notin Gone /\ Inspector
      BY <1>1, <2>1 DEF Parse, Gone, Stage, Exit
    <3>2. primary = "suspended" => "primary" \in members
      BY <1>1 DEF Parse, Stage
    <3> QED BY <2>1, <3>1, <3>2, <1>0, LauncherEnds
  <2>2. CASE helper' = "creating" /\ UNCHANGED <<status, jobVars>>
    <3>1. TypeOK' /\ Stage' /\ Honest'
      BY <1>1, <2>2 DEF Parse, TypeOK, Stage, Honest, Gone
    <3>2. Tree'
      BY <1>1, <2>2 DEF Parse, TypeOK, Stage, Tree, Gone
    <3>3. Conversation'
      BY <1>1, <2>2, LauncherKeepsConversation DEF Parse, Stage
    <3> QED BY <3>1, <3>2, <3>3
  <2> QED BY <1>1, <2>1, <2>2 DEF Parse
<1>2. CASE CreateProcess
  <2>1. CASE Exit(Refused, {})
    <3>1. helper \notin Gone /\ Inspector
      BY <1>2, <2>1 DEF CreateProcess, Gone, Stage, Exit
    <3>2. primary = "suspended" => "primary" \in members
      BY <1>2 DEF CreateProcess, Stage
    <3> QED BY <2>1, <3>1, <3>2, <1>0, LauncherEnds DEF Refused
  <2>2. CASE primary' = "suspended" /\ helper' = "created" /\ UNCHANGED <<status, jobVars>>
    <3>1. TypeOK' /\ Stage' /\ Honest'
      BY <1>2, <2>2 DEF CreateProcess, TypeOK, Stage, Honest, Gone
    <3>2. Tree'
      BY <1>2, <2>2 DEF CreateProcess, TypeOK, Stage, Tree, Gone
    <3>3. Conversation'
      BY <1>2, <2>2, LauncherKeepsConversation DEF CreateProcess, Stage
    <3> QED BY <3>1, <3>2, <3>3
  <2> QED BY <1>2, <2>1, <2>2 DEF CreateProcess
<1>3. CASE CreateJob
  <2>1. CASE Abandon
    <3>1. helper \notin Gone /\ Inspector
      BY <1>3 DEF CreateJob, Gone
    <3> QED BY <2>1, <3>1, <1>0, LauncherAbandons
  <2>2. CASE job' = "open" /\ helper' = "configuring" /\ UNCHANGED <<status, members, doomed, spared>>
    <3>1. TypeOK' /\ Stage' /\ Honest'
      BY <1>3, <2>2 DEF CreateJob, TypeOK, Stage, Honest, Gone
    <3>2. Tree'
      BY <1>3, <2>2 DEF CreateJob, TypeOK, Stage, Tree, Gone
    <3>3. Conversation'
      BY <1>3, <2>2, LauncherKeepsConversation DEF CreateJob, Stage
    <3> QED BY <3>1, <3>2, <3>3
  <2> QED BY <1>3, <2>1, <2>2 DEF CreateJob
<1>4. CASE LimitJob
  <2>1. CASE Abandon
    <3>1. helper \notin Gone /\ Inspector
      BY <1>4 DEF LimitJob, Gone
    <3> QED BY <2>1, <3>1, <1>0, LauncherAbandons
  <2>2. CASE job' = "armed" /\ helper' = "assigning" /\ UNCHANGED <<status, members, doomed, spared>>
    <3>1. TypeOK' /\ Stage' /\ Honest'
      BY <1>4, <2>2 DEF LimitJob, TypeOK, Stage, Honest, Gone
    <3>2. Tree'
      BY <1>4, <2>2 DEF LimitJob, TypeOK, Stage, Tree, Gone
    <3>3. Conversation'
      BY <1>4, <2>2, LauncherKeepsConversation DEF LimitJob, Stage
    <3> QED BY <3>1, <3>2, <3>3
  <2> QED BY <1>4, <2>1, <2>2 DEF LimitJob
<1>5. CASE Assign
  <2>1. CASE Abandon
    <3>1. helper \notin Gone /\ Inspector
      BY <1>5 DEF Assign, Gone
    <3> QED BY <2>1, <3>1, <1>0, LauncherAbandons
  <2>2. CASE members' = {"primary"} /\ helper' = "resuming" /\ UNCHANGED <<status, job, doomed, spared>>
    <3>1. TypeOK' /\ Stage' /\ Honest'
      BY <1>5, <2>2 DEF Assign, TypeOK, Stage, Honest, Gone
    <3>2. Tree'
      <4>1. /\ primary = "suspended" /\ job = "armed" /\ helper' = "resuming"
            /\ UNCHANGED <<primary, child, job, doomed, spared>>
        BY <1>5, <2>2 DEF Assign, Stage
      <4>2. child = "none"
        BY <4>1 DEF Tree
      <4>3. \A p : p \in members' <=> p = "primary"
        BY <2>2
      <4> QED BY <4>1, <4>2, <4>3 DEF Tree, Gone
    <3>3. Conversation'
      BY <1>5, <2>2, LauncherKeepsConversation DEF Assign, Stage
    <3> QED BY <3>1, <3>2, <3>3
  <2> QED BY <1>5, <2>1, <2>2 DEF Assign
<1>6. CASE Resume
  <2>1. CASE Exit(Refused, {})
    <3>1. helper \notin Gone /\ Inspector
      BY <1>6, <2>1 DEF Resume, Gone, Stage, Exit
    <3>2. primary = "suspended" => "primary" \in members
      BY <1>6 DEF Resume, Stage
    <3> QED BY <2>1, <3>1, <3>2, <1>0, LauncherEnds DEF Refused
  <2>2. CASE primary' = "running" /\ helper' = "waiting" /\ UNCHANGED <<status, jobVars>>
    <3>1. TypeOK' /\ Stage' /\ Honest'
      BY <1>6, <2>2 DEF Resume, TypeOK, Stage, Honest, Gone
    <3>2. Tree'
      BY <1>6, <2>2 DEF Resume, TypeOK, Stage, Tree, Gone
    <3>3. Conversation'
      BY <1>6, <2>2, LauncherKeepsConversation DEF Resume, Stage
    <3> QED BY <3>1, <3>2, <3>3
  <2> QED BY <1>6, <2>1, <2>2 DEF Resume
<1>7. CASE Waited
  <2>1. code \in Nat /\ code % 256 \in 0..255 /\ primary # "suspended" /\ helper \notin Gone
    BY <1>7 DEF Honest, Waited, Stage, Gone
  <2>2. CASE primary = "dead" /\ Exit(code % 256, {})
    BY <1>7, <2>1, <2>2, <1>0, LauncherEnds DEF Waited
  <2>3. CASE Exit(Refused, {})
    BY <1>7, <2>1, <2>3, <1>0, LauncherEnds DEF Waited, Refused
  <2> QED BY <1>7, <2>2, <2>3 DEF Waited
<1>8. CASE Timeout
  <2>1. TypeOK' /\ Stage' /\ Tree' /\ Honest'
    BY <1>8 DEF Timeout, TypeOK, Stage, Tree, Honest, Gone
  <2>2. Conversation'
    BY <1>8, LauncherKeepsConversation DEF Timeout
  <2> QED BY <2>1, <2>2
<1>9. CASE GraceEnds
  <2>1. primary # "suspended" /\ helper \notin Gone
    BY <1>9 DEF GraceEnds, Stage, Gone
  <2> QED BY <1>9, <2>1, <1>0, LauncherEnds DEF GraceEnds, Refused
<1>10. CASE KillHelper
  <2>1. /\ helper \notin Gone /\ helper' = "killed"
        /\ UNCHANGED <<status, spared, primary, code, child, stdin, eof, fed, total, ids, answers>>
    BY <1>10 DEF KillHelper
  <2>6. members' = members /\ job' \in {"none", "closed"}
    BY <1>10 DEF KillHelper, CloseJob
  <2>2. \A p : p \in doomed' <=> p \in doomed \/ (job = "armed" /\ p \in members)
    <3>1. CASE job = "armed"
      <4>1. doomed' = doomed \cup {} \cup members
        BY <1>10, <3>1 DEF KillHelper, CloseJob
      <4> QED BY <3>1, <4>1
    <3>2. CASE job # "armed"
      <4>1. doomed' = doomed
        BY <1>10, <3>2 DEF KillHelper, CloseJob
      <4> QED BY <3>2, <4>1
    <3> QED BY <3>1, <3>2
  <2>3. TypeOK' /\ Stage' /\ Honest'
    BY <2>1, <2>2, <2>6 DEF TypeOK, Stage, Honest, Gone
  <2>4. Tree'
    BY <1>0, <2>1, <2>2, <2>6 DEF Tree, Gone
  <2>5. Conversation'
    BY <2>1 DEF Conversation
  <2> QED BY <2>3, <2>4, <2>5
<1> QED
  BY <1>1, <1>2, <1>3, <1>4, <1>5, <1>6, <1>7, <1>8, <1>9, <1>10 DEF Helper

\* A frame is served: its answer takes the next place, or the inspector ends.
LEMMA ServeStep == IInv /\ Serve => IInv'
<1> SUFFICES ASSUME IInv, Serve PROVE IInv'
  OBVIOUS
<1> USE ProcessAssumption DEF IInv
<1> DEFINE f     == Head(stdin)
           asked == total + f.bytes + 1
           told  == asked + AnswerBytes + 1
<1>0. /\ primary = "running" /\ stdin \in Seq(Frames) /\ fed \in Seq(Frames)
      /\ answers \in Seq(Ids) /\ stdin # <<>>
      /\ UNCHANGED <<child, eof, fed, helper, status, job, members, doomed, spared>>
      /\ stdin' = Tail(stdin) /\ total \in 0..MaxTotal
  BY DEF Serve, Conversation, Outside, helperVars, jobVars, TypeOK
<1>1. /\ f \in Frames /\ f = stdin[1]
      /\ Len(stdin) \in Nat /\ Len(stdin) > 0
      /\ Tail(stdin) \in Seq(Frames) /\ Len(Tail(stdin)) = Len(stdin) - 1
      /\ \A i \in 1..Len(Tail(stdin)) : Tail(stdin)[i] = stdin[i + 1]
  BY <1>0, ReadFacts
<1>2. f.id \in Ids /\ f.good \in BOOLEAN /\ f.bytes \in 1..(MaxFrame + 1)
  BY <1>1 DEF Frames
<1>3. /\ Len(answers) \in Nat /\ Len(fed) \in Nat
      /\ Len(fed) = Len(answers) + Len(stdin)
      /\ f = fed[Len(answers) + 1]
  BY <1>0, <1>1 DEF Conversation
<1> HIDE DEF f
<1>4. CASE primary' = "dead" /\ code' = 2 /\ UNCHANGED answers
           /\ ids \subseteq ids' /\ ids' \subseteq Ids /\ total' \in 0..MaxTotal
  <2>1. TypeOK' /\ Stage' /\ Tree' /\ Honest'
    BY <1>0, <1>4 DEF TypeOK, Stage, Tree, Honest, Gone
  <2>2. Conversation'
    BY <1>0, <1>1, <1>4 DEF Conversation
  <2> QED BY <2>1, <2>2
<1>5. CASE /\ Acceptable(f) /\ told <= MaxTotal /\ total' = told
           /\ ids' = ids \cup {f.id} /\ answers' = Append(answers, f.id)
           /\ UNCHANGED <<primary, code>>
  <2>1. /\ answers' \in Seq(Ids)
        /\ Len(answers') = Len(answers) + 1
        /\ \A i \in 1..Len(answers) : answers'[i] = answers[i]
        /\ answers'[Len(answers) + 1] = f.id
    BY <1>0, <1>2, <1>5, WriteFacts
  <2>2. told \in 0..MaxTotal
    BY <1>0, <1>2, <1>5
  <2>3. TypeOK' /\ Stage' /\ Tree' /\ Honest'
    BY <1>0, <1>5, <2>2 DEF TypeOK, Stage, Tree, Honest, Gone
  <2>4. f.good /\ f.id \notin ids
    BY <1>5 DEF Acceptable
  <2>5. /\ \A i \in 1..Len(answers) : fed[i].good /\ fed[i].id = answers[i] /\ answers[i] \in ids
        /\ \A i, j \in 1..Len(answers) : answers[i] = answers[j] => i = j
        /\ \A i \in 1..Len(stdin) : stdin[i] = fed[Len(answers) + i]
        /\ ids \subseteq Ids /\ eof \in BOOLEAN
    BY <1>0 DEF Conversation
  <2>6. \A i \in 1..Len(answers') : fed[i].good /\ fed[i].id = answers'[i] /\ answers'[i] \in ids'
    <3> SUFFICES ASSUME NEW i \in 1..Len(answers')
                 PROVE  fed[i].good /\ fed[i].id = answers'[i] /\ answers'[i] \in ids'
      OBVIOUS
    <3>1. CASE i = Len(answers) + 1
      BY <3>1, <1>3, <1>5, <2>1, <2>4
    <3>2. CASE i \in 1..Len(answers)
      BY <3>2, <1>5, <2>1, <2>5
    <3> QED BY <3>1, <3>2, <2>1, <1>3
  <2>7. \A i, j \in 1..Len(answers') : answers'[i] = answers'[j] => i = j
    <3> SUFFICES ASSUME NEW i \in 1..Len(answers'), NEW j \in 1..Len(answers'),
                        answers'[i] = answers'[j]
                 PROVE  i = j
      OBVIOUS
    <3>1. \A k \in 1..Len(answers) : answers'[k] \in ids
      BY <2>1, <2>5
    <3>2. \A k \in 1..Len(answers') : k \in 1..Len(answers) \/ k = Len(answers) + 1
      BY <2>1, <1>3
    <3> QED BY <3>1, <3>2, <2>1, <2>4, <2>5
  <2>8. \A i \in 1..Len(stdin') : stdin'[i] = fed[Len(answers') + i]
    <3> SUFFICES ASSUME NEW i \in 1..Len(stdin')
                 PROVE  stdin'[i] = fed[Len(answers') + i]
      OBVIOUS
    <3>1. i + 1 \in 1..Len(stdin) /\ Len(answers') + i = Len(answers) + (i + 1)
      BY <1>0, <1>1, <1>3, <2>1
    <3>2. stdin'[i] = stdin[i + 1]
      BY <1>0, <1>1
    <3> QED BY <3>1, <3>2, <2>5
  <2>9. Conversation'
    <3>1. /\ Len(answers') <= Len(fed')
          /\ Len(fed') = Len(answers') + Len(stdin')
      BY <1>0, <1>1, <1>3, <2>1
    <3>2. ids' \subseteq Ids /\ eof' \in BOOLEAN /\ stdin' \in Seq(Frames) /\ fed' \in Seq(Frames)
      BY <1>0, <1>1, <1>2, <1>5, <2>5
    <3>3. fed' = fed
      BY <1>0
    <3> QED BY <2>1, <2>6, <2>7, <2>8, <3>1, <3>2, <3>3 DEF Conversation
  <2> QED BY <2>3, <2>9
<1>6. ids \subseteq Ids /\ ids \cup {f.id} \subseteq Ids
  BY <1>2 DEF Conversation
<1>7. asked \in Nat /\ (Acceptable(f) => asked \in 0..MaxTotal)
  BY <1>0, <1>2 DEF Acceptable
<1> QED
  BY <1>0, <1>4, <1>5, <1>6, <1>7 DEF Serve, ExitWith, session, f

\* Everything else the inspector, its child and the writer do.
LEMMA OutsideStep == IInv /\ (EndOfInput \/ Crash \/ Fork \/ Die \/ Feed \/ CloseInput) => IInv'
<1> SUFFICES ASSUME IInv, EndOfInput \/ Crash \/ Fork \/ Die \/ Feed \/ CloseInput PROVE IInv'
  OBVIOUS
<1> USE ProcessAssumption DEF IInv
<1> USE DEF Outside, pipe, session, jobVars, helperVars, ExitWith, Gone
<1>1. CASE EndOfInput
  <2>1. Len(fed) = Len(answers)
    BY <1>1 DEF EndOfInput, Conversation
  <2>2. TypeOK' /\ Stage' /\ Tree' /\ Honest'
    BY <1>1, <2>1 DEF EndOfInput, TypeOK, Stage, Tree, Honest
  <2>3. Conversation'
    BY <1>1 DEF EndOfInput, Conversation
  <2> QED BY <2>2, <2>3
<1>2. CASE Crash
  <2>1. TypeOK' /\ Stage' /\ Tree' /\ Honest'
    BY <1>2 DEF Crash, TypeOK, Stage, Tree, Honest
  <2>2. Conversation'
    BY <1>2 DEF Crash, Conversation
  <2> QED BY <2>1, <2>2
<1>3. CASE Fork
  <2>1. TypeOK' /\ Stage' /\ Tree' /\ Honest'
    BY <1>3 DEF Fork, TypeOK, Stage, Tree, Honest
  <2>2. Conversation'
    BY <1>3, LauncherKeepsConversation DEF Fork
  <2> QED BY <2>1, <2>2
<1>4. CASE Die
  <2>1. TypeOK' /\ Stage' /\ Tree' /\ Honest'
    BY <1>4 DEF Die, TypeOK, Stage, Tree, Honest
  <2>2. Conversation'
    BY <1>4 DEF Die, Conversation
  <2> QED BY <2>1, <2>2
<1>5. CASE Feed
  <2>1. PICK f \in Frames : stdin' = Append(stdin, f) /\ fed' = Append(fed, f)
    BY <1>5 DEF Feed
  <2>2. /\ stdin \in Seq(Frames) /\ fed \in Seq(Frames) /\ answers \in Seq(Ids)
        /\ Len(answers) \in Nat /\ Len(answers) <= Len(fed)
    BY DEF Conversation
  <2>3. /\ stdin' \in Seq(Frames) /\ Len(stdin') = Len(stdin) + 1 /\ Len(stdin) \in Nat
        /\ \A i \in 1..Len(stdin) : stdin'[i] = stdin[i]
        /\ stdin'[Len(stdin) + 1] = f
    BY <2>1, <2>2, WriteFacts
  <2>4. /\ fed' \in Seq(Frames) /\ Len(fed') = Len(fed) + 1 /\ Len(fed) \in Nat
        /\ \A i \in 1..Len(fed) : fed'[i] = fed[i]
        /\ fed'[Len(fed) + 1] = f
    BY <2>1, <2>2, WriteFacts
  <2>5. TypeOK' /\ Stage' /\ Tree'
    BY <1>5 DEF Feed, TypeOK, Stage, Tree
  <2>6. Honest'
    BY <1>5 DEF Feed, Honest
  <2>7. \A i \in 1..Len(answers) : fed'[i] = fed[i]
    BY <2>2, <2>4
  <2>8. ASSUME primary # "dead"
        PROVE  /\ Len(fed') = Len(answers) + Len(stdin')
               /\ \A i \in 1..Len(stdin') : stdin'[i] = fed'[Len(answers) + i]
    <3>1. /\ Len(fed) = Len(answers) + Len(stdin)
          /\ \A i \in 1..Len(stdin) : stdin[i] = fed[Len(answers) + i]
      BY <2>8 DEF Conversation
    <3>2. ASSUME NEW i \in 1..Len(stdin') PROVE stdin'[i] = fed'[Len(answers) + i]
      <4>1. CASE i = Len(stdin) + 1
        BY <4>1, <2>2, <2>3, <2>4, <3>1
      <4>2. CASE i \in 1..Len(stdin)
        <5>1. Len(answers) + i \in 1..Len(fed)
          BY <4>2, <2>2, <2>3, <3>1
        <5> QED BY <4>2, <5>1, <2>3, <2>4, <3>1
      <4> QED BY <4>1, <4>2, <2>3
    <3> QED BY <3>1, <3>2, <2>2, <2>3, <2>4
  <2>9. Conversation'
    <3>1. /\ UNCHANGED <<primary, total, ids, answers>>
          /\ eof' \in BOOLEAN
      BY <1>5 DEF Feed, Frames
    <3>2. /\ \A i \in 1..Len(answers) : /\ fed[i].good /\ fed[i].id = answers[i]
                                        /\ answers[i] \in ids
          /\ \A i, j \in 1..Len(answers) : answers[i] = answers[j] => i = j
          /\ ids \subseteq Ids
      BY DEF Conversation
    <3>3. Len(answers) <= Len(fed')
      BY <2>2, <2>4
    <3> QED BY <2>2, <2>3, <2>4, <2>7, <2>8, <3>1, <3>2, <3>3 DEF Conversation
  <2> QED BY <2>5, <2>6, <2>9
<1>6. CASE CloseInput
  <2>1. TypeOK' /\ Stage' /\ Tree' /\ Honest'
    BY <1>6 DEF CloseInput, TypeOK, Stage, Tree, Honest
  <2>2. Conversation'
    BY <1>6 DEF CloseInput, Conversation
  <2> QED BY <2>1, <2>2
<1> QED
  BY <1>1, <1>2, <1>3, <1>4, <1>5, <1>6

\* The invariant is inductive.
LEMMA NextIInv == IInv /\ [Next]_vars => IInv'
<1>1. IInv /\ UNCHANGED vars => IInv'
  BY DEF IInv, TypeOK, Stage, Tree, Conversation, Honest, vars, helperVars, jobVars, pipe,
         session, Gone
<1> QED
  BY <1>1, LauncherStep, ServeStep, OutsideStep DEF Next

\* The process tree and the session are as IInv says, whatever helper,
\* inspector, child and writer do, and in whatever order.
THEOREM InvariantHolds == Spec => []IInv
  BY InitIInv, NextIInv, PTL DEF Spec

\* Every variable the launcher and the inspector keep stays in its range; in
\* particular the session's total never passes MAX_TOTAL_BYTES.
THEOREM TypeCorrect == Spec => []TypeOK
<1>1. IInv => TypeOK
  BY DEF IInv
<1> QED
  BY <1>1, InvariantHolds, PTL

\* Whatever of the tree is alive is being killed, is in the armed job, or was
\* never resumed; and a launcher that is gone leaves nothing that ever ran.
THEOREM TreeStays == Spec => []TreeStaysInItsJob
<1>1. \A p \in Alive : \/ p = "primary" /\ primary \in {"suspended", "running"}
                       \/ p = "child" /\ child = "running"
  BY DEF Alive
<1>2. IInv => NothingRunsOutsideTheJob
  BY <1>1 DEF IInv, TypeOK, Stage, Tree, NothingRunsOutsideTheJob, Gone
<1>3. IInv => NoSurvivor
  BY <1>1 DEF IInv, TypeOK, Stage, Tree, NoSurvivor, Gone
<1> QED
  BY <1>2, <1>3, InvariantHolds, PTL DEF TreeStaysInItsJob

\* A status of zero is that of an inspector that ended, and if its code was
\* zero, every frame ever written to it was answered, each once and in order.
THEOREM SuccessIsHonest == Spec => []SuccessMeansAnswered
<1>1. IInv => SuccessMeansAnswered
  <2> SUFFICES ASSUME IInv, status = 0, code = 0
               PROVE  answers = [i \in DOMAIN fed |-> fed[i].id] /\ stdin = <<>>
    BY DEF IInv, Honest, SuccessMeansAnswered
  <2>1. stdin = <<>> /\ Len(fed) = Len(answers)
    BY DEF IInv, Honest
  <2>2. /\ fed \in Seq(Frames) /\ answers \in Seq(Ids)
        /\ \A i \in 1..Len(answers) : fed[i].id = answers[i]
    BY DEF IInv, Conversation
  <2> QED BY <2>1, <2>2
<1> QED
  BY <1>1, InvariantHolds, PTL

\* The answers are those of the first frames written, in order and without
\* repetition, and the session's total is kept.
THEOREM AnswersFollowRequests == Spec => []AnswersInOrder
<1>1. IInv => AnswersInOrder
  <2> SUFFICES ASSUME IInv PROVE AnswersInOrder
    OBVIOUS
  <2>1. DOMAIN answers = 1..Len(answers) /\ total <= MaxTotal
    BY ProcessAssumption DEF IInv, Conversation, TypeOK
  <2> QED BY <2>1 DEF IInv, Conversation, AnswersInOrder
<1> QED
  BY <1>1, InvariantHolds, PTL

------------------------------------------------------------------------------
(* The walk over queries.  What has been visited is closed and without a      *)
(* reason, and for each of its queries a part without it is closed too: so    *)
(* none of them lies below itself.                                            *)

Queries == ToSet(catalog.queries)
Handled(vis, d) == IF d.kind = "query" THEN Key[d.id] \in vis ELSE TableFailure(catalog.tables, d) = "none"
Closed(C) == \A m \in C : DependsOn(m) \subseteq C

Settled(vis) ==
    /\ vis \subseteq Keys
    /\ \A k \in vis : /\ \E q \in Queries : /\ Key[q.id] = k /\ q.fault = "none"
                                            /\ \A m \in DOMAIN q.dependencies : Handled(vis, q.dependencies[m])
                      /\ \E C \in SUBSET (vis \ {k}) : DependsOn(k) \subseteq C /\ Closed(C)

KeyAt(p, i) == Key[p[i].query.id]

\* The call goes on with what its query depends on under the key k.
Awaits(call, k) == /\ call.next \in DOMAIN call.query.dependencies
                   /\ call.query.dependencies[call.next].kind = "query"
                   /\ Key[call.query.dependencies[call.next].id] = k

\* The calls of the walk, each from the dependency in turn of the one before.
Calls(p, vis) ==
    /\ p \in Seq([query : Queries, next : Nat \ {0}])
    /\ \A i \in DOMAIN p : /\ p[i].query.fault = "none" /\ KeyAt(p, i) \in Reach \ vis
                           /\ p[i].next <= Len(p[i].query.dependencies) + 1
                           /\ \A m \in 1..(p[i].next - 1) : Handled(vis, p[i].query.dependencies[m])
    /\ \A i, j \in DOMAIN p : i < j => KeyAt(p, j) \in Below(KeyAt(p, i)) /\ KeyAt(p, j) # KeyAt(p, i)
    /\ \A i \in DOMAIN p : i < Len(p) => Awaits(p[i], KeyAt(p, i + 1))
    /\ p # <<>> => KeyAt(p, 1) = Key[Root]

Clean == /\ ~Duplicated(catalog.queries) /\ ~Duplicated(catalog.tables)
         /\ ~(options.queryResult /\ OrderFailure(options.orderBy) # "none")

WalkIInv ==
    /\ catalog \in Catalogs
    /\ reason = "unread" => path = <<>> /\ visited = {}
    /\ reason = "walking" => Clean /\ Settled(visited) /\ Calls(path, visited) /\ path # <<>>
    /\ reason = "none" => Clean /\ Settled(visited) /\ Key[Root] \in visited
    /\ reason \notin {"unread", "walking", "none"} => ClosureIsSound

LEMMA QueryFacts ==
    ASSUME catalog \in Catalogs, NEW q \in Queries
    PROVE  /\ q.id \in DOMAIN Key /\ Key[q.id] \in Keys /\ q.fault \notin {"unread", "walking"}
           /\ Len(q.dependencies) \in Nat /\ DOMAIN q.dependencies = 1..Len(q.dependencies)
           /\ \A m \in DOMAIN q.dependencies : /\ q.dependencies[m].id \in DOMAIN Key
                                               /\ Key[q.dependencies[m].id] \in Keys
<1> DEFINE D == [kind : STRING, id : DOMAIN Key]
<1>1. PICK n \in DOMAIN catalog.queries : q = catalog.queries[n]
  BY DEF Queries, ToSet
<1>2. q.id \in DOMAIN Key /\ q.dependencies \in Seq(D) /\ q.fault \notin {"unread", "walking"}
  BY <1>1, ClosureAssumption
<1>3. \A d \in D : d.id \in DOMAIN Key
  OBVIOUS
<1> HIDE DEF D
<1>4. /\ Len(q.dependencies) \in Nat /\ DOMAIN q.dependencies = 1..Len(q.dependencies)
      /\ \A m \in DOMAIN q.dependencies : q.dependencies[m] \in D
  BY <1>2
<1> QED BY <1>2, <1>3, <1>4 DEF Keys

\* A key names at most one query.
LEMMA OnlyQuery ==
    ASSUME ~Duplicated(catalog.queries), NEW q \in Queries, NEW r \in Queries, Key[q.id] = Key[r.id]
    PROVE  q = r
  BY DEF Duplicated, Queries, ToSet

LEMMA DependsOnFacts ==
    ASSUME catalog \in Catalogs
    PROVE  /\ \A k : DependsOn(k) \subseteq Keys
           /\ \A q \in Queries : \A m \in DOMAIN q.dependencies :
                  q.dependencies[m].kind = "query" => Key[q.dependencies[m].id] \in DependsOn(Key[q.id])
           /\ ~Duplicated(catalog.queries) =>
                  \A q \in Queries : \A k \in DependsOn(Key[q.id]) :
                      \E m \in DOMAIN q.dependencies : q.dependencies[m].kind = "query" /\ Key[q.dependencies[m].id] = k
<1>1. ASSUME NEW k, NEW n \in DependsOn(k)
      PROVE  \E q \in Queries : /\ Key[q.id] = k
                                /\ \E m \in DOMAIN q.dependencies :
                                       q.dependencies[m].kind = "query" /\ Key[q.dependencies[m].id] = n
  BY <1>1 DEF DependsOn, Queries, ToSet
<1>2. \A k : DependsOn(k) \subseteq Keys
  BY <1>1, QueryFacts
<1>3. ASSUME NEW q \in Queries, NEW m \in DOMAIN q.dependencies, q.dependencies[m].kind = "query"
      PROVE  Key[q.dependencies[m].id] \in DependsOn(Key[q.id])
  BY <1>3 DEF DependsOn, Queries, ToSet
<1>4. ASSUME ~Duplicated(catalog.queries), NEW q \in Queries, NEW k \in DependsOn(Key[q.id])
      PROVE  \E m \in DOMAIN q.dependencies : q.dependencies[m].kind = "query" /\ Key[q.dependencies[m].id] = k
  BY <1>1, <1>4, OnlyQuery
<1> QED BY <1>2, <1>3, <1>4

LEMMA BelowFacts ==
    ASSUME catalog \in Catalogs, NEW k
    PROVE  /\ Below(k) \subseteq Keys
           /\ \A m \in Below(k) \cup {k} : DependsOn(m) \subseteq Below(k)
           /\ \A m \in Below(k) : Below(m) \subseteq Below(k)
           /\ \A C \in SUBSET Keys : Closed(C) /\ DependsOn(k) \subseteq C => Below(k) \subseteq C
<1>1. Below(k) \subseteq Keys
  BY DEF Below
<1>2. \A m \in Below(k) \cup {k} : DependsOn(m) \subseteq Below(k)
  <2> SUFFICES ASSUME NEW m \in Below(k) \cup {k}, NEW n \in DependsOn(m) PROVE n \in Below(k)
    OBVIOUS
  <2>1. n \in Keys
    BY DependsOnFacts
  <2>2. \A C \in SUBSET Keys : (\A j \in C \cup {k} : DependsOn(j) \subseteq C) => n \in C
    BY DEF Below
  <2> QED BY <2>1, <2>2 DEF Below
<1>3. \A m : \A C \in SUBSET Keys : Closed(C) /\ DependsOn(m) \subseteq C => Below(m) \subseteq C
  BY DEF Below, Closed
<1>4. \A m \in Below(k) : Below(m) \subseteq Below(k)
  BY <1>1, <1>2, <1>3 DEF Closed
<1> QED BY <1>1, <1>2, <1>3, <1>4

\* The reference reads the catalog and the options, which stay.
LEMMA CatalogStays ==
    ASSUME catalog' = catalog, options' = options
    PROVE  /\ Reasons' = Reasons /\ (Clean' <=> Clean)
           /\ \A vis : Settled(vis)' <=> Settled(vis)
           /\ \A p, vis : Calls(p, vis)' <=> Calls(p, vis)
<1>1. \A k : DependsOn(k)' = DependsOn(k)
  BY DEF DependsOn
<1>2. \A k : Below(k)' = Below(k)
  BY <1>1 DEF Below
<1>3. Reach' = Reach /\ Queries' = Queries
  BY <1>2 DEF Reach, Queries
<1>4. Reasons' = Reasons
  BY <1>2, <1>3 DEF Reasons
<1>5. Clean' <=> Clean
  BY DEF Clean
<1>6. \A vis, d : Handled(vis, d)' <=> Handled(vis, d)
  BY DEF Handled
<1>7. \A C : Closed(C)' <=> Closed(C)
  BY <1>1 DEF Closed
<1>8. \A vis : Settled(vis)' <=> Settled(vis)
  BY <1>1, <1>3, <1>6, <1>7 DEF Settled
<1>9. \A p, vis : Calls(p, vis)' <=> Calls(p, vis)
  BY <1>2, <1>3, <1>6 DEF Calls
<1> QED BY <1>4, <1>5, <1>8, <1>9

LEMMA RefusalIsRight ==
    ASSUME catalog \in Catalogs, Clean, catalog' = catalog, options' = options,
           NEW why \in Reasons, why \notin {"unread", "walking", "none"}, Refuse(why)
    PROVE  WalkIInv'
<1>1. reason' = why /\ Reasons' = Reasons /\ Clean'
  BY CatalogStays DEF Refuse
<1>2. ClosureIsSound'
  BY <1>1 DEF ClosureIsSound, Clean
<1> QED
  BY <1>1, <1>2 DEF WalkIInv

\* The reasons a query in reach gives.
LEMMA ReasonFacts ==
    /\ \A q \in Queries : Key[q.id] \in Reach =>
           /\ q.fault # "none" => q.fault \in Reasons
           /\ \A m \in DOMAIN q.dependencies :
                  LET d == q.dependencies[m]
                  IN  d.kind # "query" /\ TableFailure(catalog.tables, d) # "none" => TableFailure(catalog.tables, d) \in Reasons
    /\ \A k \in Reach : /\ (\A q \in Queries : Key[q.id] # k) => "UNRESOLVED_REFERENCE" \in Reasons
                        /\ k \in Below(k) => "DEPENDENCY_CYCLE" \in Reasons
<1> DEFINE here == {q \in Queries : Key[q.id] \in Reach}
           uses == {d \in UNION {ToSet(q.dependencies) : q \in here} : d.kind # "query"}
<1>0. Reasons = (({q.fault : q \in here} \cup {TableFailure(catalog.tables, d) : d \in uses}) \ {"none"})
                 \cup {"UNRESOLVED_REFERENCE" : k \in Reach \ {Key[q.id] : q \in here}}
                 \cup {"DEPENDENCY_CYCLE" : k \in {n \in Reach : n \in Below(n)}}
  BY DEF Reasons, Queries
<1>1. ASSUME NEW q \in Queries, Key[q.id] \in Reach, q.fault # "none" PROVE q.fault \in Reasons
  BY <1>0, <1>1
<1>2. ASSUME NEW q \in Queries, Key[q.id] \in Reach, NEW m \in DOMAIN q.dependencies,
             q.dependencies[m].kind # "query", TableFailure(catalog.tables, q.dependencies[m]) # "none"
      PROVE  TableFailure(catalog.tables, q.dependencies[m]) \in Reasons
  <2>1. q \in here /\ q.dependencies[m] \in uses
    BY <1>2 DEF ToSet
  <2> HIDE DEF here, uses
  <2> QED BY <1>0, <1>2, <2>1
<1>3. ASSUME NEW k \in Reach, \A q \in Queries : Key[q.id] # k PROVE "UNRESOLVED_REFERENCE" \in Reasons
  <2>1. k \in Reach \ {Key[q.id] : q \in here}
    BY <1>3
  <2> HIDE DEF here, uses
  <2> QED BY <1>0, <2>1
<1>4. ASSUME NEW k \in Reach, k \in Below(k) PROVE "DEPENDENCY_CYCLE" \in Reasons
  BY <1>0, <1>4
<1> QED BY <1>1, <1>2, <1>3, <1>4

LEMMA CallFacts ==
    ASSUME catalog \in Catalogs, NEW p, NEW vis, Calls(p, vis)
    PROVE  /\ Len(p) \in Nat /\ DOMAIN p = 1..Len(p)
           /\ \A i \in DOMAIN p : /\ p[i] \in [query : Queries, next : Nat \ {0}]
                                  /\ p[i].query \in Queries /\ p[i].next \in Nat \ {0}
                                  /\ Len(p[i].query.dependencies) \in Nat
                                  /\ DOMAIN p[i].query.dependencies = 1..Len(p[i].query.dependencies)
                                  /\ KeyAt(p, i) \in Keys
<1> DEFINE F == [query : Queries, next : Nat \ {0}]
<1>1. p \in Seq(F)
  BY DEF Calls
<1>2. \A c \in F : c.query \in Queries /\ c.next \in Nat \ {0}
  OBVIOUS
<1> HIDE DEF F
<1>3. Len(p) \in Nat /\ DOMAIN p = 1..Len(p) /\ \A i \in DOMAIN p : p[i] \in F
  BY <1>1
<1> QED BY <1>2, <1>3, QueryFacts DEF KeyAt, F

\* The call on top has handled the dependency in turn.
LEMMA AdvanceKeeps ==
    ASSUME catalog \in Catalogs, NEW p, NEW vis, Calls(p, vis), p # <<>>,
           p[Len(p)].next \in DOMAIN p[Len(p)].query.dependencies,
           Handled(vis, p[Len(p)].query.dependencies[p[Len(p)].next])
    PROVE  Calls(Advance(p), vis) /\ Advance(p) # <<>>
<1> DEFINE n == Len(p)
           F == [query : Queries, next : Nat \ {0}]
           r == Advance(p)
           call == [p[n] EXCEPT !.next = @ + 1]
<1>1. /\ n \in Nat /\ n \in DOMAIN p /\ n >= 1 /\ DOMAIN p = 1..n
      /\ p[n] \in F /\ p[n].query \in Queries /\ p[n].next \in Nat \ {0}
      /\ Len(p[n].query.dependencies) \in Nat
      /\ DOMAIN p[n].query.dependencies = 1..Len(p[n].query.dependencies)
  <2>1. n \in Nat /\ DOMAIN p = 1..n /\ p \in Seq(F)
    BY CallFacts DEF Calls
  <2>2. n # 0
    BY <2>1
  <2>3. n \in DOMAIN p
    BY <2>1, <2>2
  <2> QED BY <2>1, <2>2, <2>3, CallFacts
<1>2. call \in F /\ call.query = p[n].query /\ call.next = p[n].next + 1
  BY <1>1
<1>3. r = [p EXCEPT ![n] = call]
  BY DEF Advance
<1>4. p \in Seq(F)
  BY DEF Calls
<1> HIDE DEF n, F, call, r
<1>5. r \in Seq(F) /\ Len(r) = n /\ DOMAIN r = 1..n
  BY <1>1, <1>2, <1>3, <1>4 DEF n
<1>6. r[n] = call /\ \A i \in 1..n : i # n => r[i] = p[i]
  BY <1>1, <1>3
<1>7. \A i \in 1..n : KeyAt(r, i) = KeyAt(p, i) /\ r[i].query = p[i].query
  BY <1>2, <1>6 DEF KeyAt
<1>8. ASSUME NEW i \in 1..n
      PROVE  /\ r[i].query.fault = "none" /\ KeyAt(r, i) \in Reach \ vis
             /\ r[i].next <= Len(r[i].query.dependencies) + 1
             /\ \A m \in 1..(r[i].next - 1) : Handled(vis, r[i].query.dependencies[m])
  <2>1. CASE i # n
    BY <1>1, <1>6, <1>7, <2>1 DEF Calls
  <2>2. CASE i = n
    <3>1. call.query.fault = "none" /\ KeyAt(p, n) \in Reach \ vis
      BY <1>1, <1>2 DEF Calls
    <3>2. call.next <= Len(call.query.dependencies) + 1
      BY <1>1, <1>2 DEF n
    <3>3. \A m \in 1..(call.next - 1) : Handled(vis, call.query.dependencies[m])
      <4> SUFFICES ASSUME NEW m \in 1..(call.next - 1) PROVE Handled(vis, call.query.dependencies[m])
        OBVIOUS
      <4>1. m \in 1..(p[n].next - 1) \/ m = p[n].next
        BY <1>1, <1>2
      <4> QED BY <1>1, <1>2, <4>1 DEF Calls, n
    <3> QED BY <1>6, <1>7, <2>2, <3>1, <3>2, <3>3
  <2> QED BY <2>1, <2>2
<1>9. \A i, j \in 1..n : i < j => KeyAt(r, j) \in Below(KeyAt(r, i)) /\ KeyAt(r, j) # KeyAt(r, i)
  BY <1>1, <1>7 DEF Calls
<1>10. \A i \in 1..n : i < n => Awaits(r[i], KeyAt(r, i + 1))
  <2> SUFFICES ASSUME NEW i \in 1..n, i < n PROVE Awaits(r[i], KeyAt(r, i + 1))
    OBVIOUS
  <2>1. i # n /\ i + 1 \in 1..n /\ Awaits(p[i], KeyAt(p, i + 1))
    BY <1>1 DEF Calls, n
  <2> QED BY <1>6, <1>7, <2>1
<1>11. r # <<>> /\ KeyAt(r, 1) = Key[Root]
  BY <1>1, <1>5, <1>7 DEF Calls
<1>12. Calls(r, vis)
  BY <1>5, <1>8, <1>9, <1>10, <1>11 DEF Calls, F
<1> QED BY <1>11, <1>12 DEF r

\* A query is entered from a call that awaits it, or as the first.
LEMMA PushKeeps ==
    ASSUME catalog \in Catalogs, NEW p, NEW vis, Calls(p, vis), NEW q \in Queries, q.fault = "none",
           Key[q.id] \in Reach \ vis,
           \A i \in DOMAIN p : Key[q.id] \in Below(KeyAt(p, i)) /\ Key[q.id] # KeyAt(p, i),
           IF p = <<>> THEN Key[q.id] = Key[Root] ELSE Awaits(p[Len(p)], Key[q.id])
    PROVE  Calls(Append(p, [query |-> q, next |-> 1]), vis) /\ Append(p, [query |-> q, next |-> 1]) # <<>>
<1> DEFINE n == Len(p)
           F == [query : Queries, next : Nat \ {0}]
           call == [query |-> q, next |-> 1]
           r == Append(p, call)
<1>1. n \in Nat /\ DOMAIN p = 1..n /\ p \in Seq(F) /\ call \in F
  BY CallFacts DEF Calls
<1>2. call.query = q /\ call.next = 1 /\ Len(q.dependencies) \in Nat
  BY QueryFacts
<1> HIDE DEF F, call
<1>3. /\ r \in Seq(F) /\ Len(r) = n + 1 /\ DOMAIN r = 1..(n + 1) /\ r # <<>>
      /\ r[n + 1] = call /\ \A i \in 1..n : r[i] = p[i]
  BY <1>1
<1> HIDE DEF n, r
<1>4. KeyAt(r, n + 1) = Key[q.id] /\ \A i \in 1..n : KeyAt(r, i) = KeyAt(p, i)
  BY <1>2, <1>3 DEF KeyAt
<1>5. \A i \in 1..(n + 1) : i \in 1..n \/ i = n + 1
  BY <1>1
<1>6. \A i \in 1..(n + 1) :
         /\ r[i].query.fault = "none" /\ KeyAt(r, i) \in Reach \ vis
         /\ r[i].next <= Len(r[i].query.dependencies) + 1
         /\ \A m \in 1..(r[i].next - 1) : Handled(vis, r[i].query.dependencies[m])
  <2>1. \A i \in 1..n :
           /\ p[i].query.fault = "none" /\ KeyAt(p, i) \in Reach \ vis
           /\ p[i].next <= Len(p[i].query.dependencies) + 1
           /\ \A m \in 1..(p[i].next - 1) : Handled(vis, p[i].query.dependencies[m])
    BY <1>1 DEF Calls
  <2>2. /\ call.query.fault = "none" /\ Key[q.id] \in Reach \ vis
        /\ call.next <= Len(call.query.dependencies) + 1
        /\ \A m \in 1..(call.next - 1) : Handled(vis, call.query.dependencies[m])
    BY <1>2
  <2> QED BY <1>3, <1>4, <1>5, <2>1, <2>2
<1>7. \A i, j \in 1..(n + 1) : i < j => KeyAt(r, j) \in Below(KeyAt(r, i)) /\ KeyAt(r, j) # KeyAt(r, i)
  <2> SUFFICES ASSUME NEW i \in 1..(n + 1), NEW j \in 1..(n + 1), i < j
               PROVE  KeyAt(r, j) \in Below(KeyAt(r, i)) /\ KeyAt(r, j) # KeyAt(r, i)
    OBVIOUS
  <2>1. i \in 1..n
    BY <1>1
  <2> QED BY <1>1, <1>4, <1>5, <2>1 DEF Calls
<1>8. \A i \in 1..(n + 1) : i < n + 1 => Awaits(r[i], KeyAt(r, i + 1))
  <2> SUFFICES ASSUME NEW i \in 1..n PROVE Awaits(r[i], KeyAt(r, i + 1))
    BY <1>1
  <2>1. CASE i = n
    <3>1. p # <<>>
      BY <1>1, <2>1
    <3> QED BY <1>3, <1>4, <2>1, <3>1 DEF n
  <2>2. CASE i < n
    <3>1. i + 1 \in 1..n
      BY <1>1, <2>2
    <3> QED BY <1>1, <1>3, <1>4, <2>2, <3>1 DEF Calls, n
  <2> QED BY <1>1, <2>1, <2>2
<1>9. KeyAt(r, 1) = Key[Root]
  <2>1. CASE p = <<>>
    <3>1. n = 0
      BY <2>1 DEF n
    <3> QED BY <1>4, <2>1, <3>1
  <2>2. CASE p # <<>>
    <3>1. 1 \in 1..n
      BY <1>1, <2>2 DEF n
    <3> QED BY <1>4, <2>2, <3>1 DEF Calls
  <2> QED BY <2>1, <2>2
<1>10. Calls(r, vis)
  BY <1>3, <1>6, <1>7, <1>8, <1>9 DEF Calls, F
<1> QED BY <1>3, <1>10 DEF r, call

LEMMA HandledGrows ==
    ASSUME NEW vis, NEW k, NEW d, Handled(vis, d) PROVE Handled(vis \cup {k}, d)
  BY DEF Handled

\* The call on top returns: its query has been visited.
LEMMA FrontKeeps ==
    ASSUME catalog \in Catalogs, NEW p, NEW vis, Calls(p, vis), Len(p) # 1, p # <<>>
    PROVE  /\ Calls(Front(p), vis \cup {KeyAt(p, Len(p))}) /\ Front(p) # <<>>
           /\ Awaits(Front(p)[Len(Front(p))], KeyAt(p, Len(p)))
<1> DEFINE n == Len(p)
           F == [query : Queries, next : Nat \ {0}]
           r == Front(p)
           now == vis \cup {KeyAt(p, n)}
<1>1. n \in Nat /\ DOMAIN p = 1..n /\ p \in Seq(F) /\ n >= 2
  <2>1. n \in Nat /\ DOMAIN p = 1..n /\ p \in Seq(F)
    BY CallFacts DEF Calls
  <2>2. n # 0
    BY <2>1
  <2> QED BY <2>1, <2>2
<1> HIDE DEF F
<1>2. r = [i \in 1..(n - 1) |-> p[i]]
  BY <1>1 DEF Front
<1>3. r \in Seq(F) /\ Len(r) = n - 1 /\ DOMAIN r = 1..(n - 1)
  <2>1. r \in [1..(n - 1) -> F] /\ n - 1 \in Nat
    BY <1>1, <1>2
  <2> HIDE DEF n, r
  <2> QED BY <2>1
<1> HIDE DEF n, r
<1>4. r # <<>>
  BY <1>1, <1>3
<1>5. \A i \in 1..(n - 1) : i \in 1..n /\ i < n /\ r[i] = p[i] /\ KeyAt(r, i) = KeyAt(p, i)
  BY <1>1, <1>2 DEF KeyAt
<1>6. \A i \in 1..(n - 1) :
         /\ r[i].query.fault = "none" /\ KeyAt(r, i) \in Reach \ now
         /\ r[i].next <= Len(r[i].query.dependencies) + 1
         /\ \A m \in 1..(r[i].next - 1) : Handled(now, r[i].query.dependencies[m])
  <2> SUFFICES ASSUME NEW i \in 1..(n - 1)
               PROVE  /\ p[i].query.fault = "none" /\ KeyAt(p, i) \in Reach \ now
                      /\ p[i].next <= Len(p[i].query.dependencies) + 1
                      /\ \A m \in 1..(p[i].next - 1) : Handled(now, p[i].query.dependencies[m])
    BY <1>5
  <2>1. n \in DOMAIN p /\ i \in DOMAIN p /\ i < n
    BY <1>1, <1>5
  <2>2. KeyAt(p, n) # KeyAt(p, i)
    BY <2>1 DEF Calls
  <2> QED BY <2>1, <2>2, HandledGrows DEF Calls
<1>7. \A i, j \in 1..(n - 1) : i < j => KeyAt(r, j) \in Below(KeyAt(r, i)) /\ KeyAt(r, j) # KeyAt(r, i)
  BY <1>1, <1>5 DEF Calls
<1>8. \A i \in 1..(n - 1) : Awaits(r[i], KeyAt(p, i + 1))
  BY <1>1, <1>5 DEF Calls, n
<1>9. \A i \in 1..(n - 1) : i < n - 1 => Awaits(r[i], KeyAt(r, i + 1))
  <2> SUFFICES ASSUME NEW i \in 1..(n - 1), i < n - 1 PROVE Awaits(r[i], KeyAt(r, i + 1))
    OBVIOUS
  <2>1. i + 1 \in 1..(n - 1)
    BY <1>1
  <2> QED BY <1>5, <1>8, <2>1
<1>10. KeyAt(r, 1) = Key[Root]
  <2>1. 1 \in 1..(n - 1) /\ p # <<>>
    BY <1>1
  <2> QED BY <1>5, <2>1 DEF Calls
<1>11. Calls(r, now)
  BY <1>3, <1>6, <1>7, <1>9, <1>10 DEF Calls, F
<1>12. Awaits(r[Len(r)], KeyAt(p, n))
  <2>1. n - 1 \in 1..(n - 1) /\ (n - 1) + 1 = n
    BY <1>1
  <2>2. Awaits(r[n - 1], KeyAt(p, n))
    BY <1>8, <2>1
  <2> QED BY <1>3, <2>2
<1> QED BY <1>4, <1>11, <1>12 DEF r, n

\* Nothing of what a visited query depends on is left.
LEMMA SettledIsClosed ==
    ASSUME catalog \in Catalogs, ~Duplicated(catalog.queries), NEW vis, Settled(vis) PROVE Closed(vis)
<1> SUFFICES ASSUME NEW k \in vis, NEW n \in DependsOn(k) PROVE n \in vis
  BY DEF Closed
<1>1. PICK q \in Queries : /\ Key[q.id] = k
                           /\ \A m \in DOMAIN q.dependencies : Handled(vis, q.dependencies[m])
  BY DEF Settled
<1>2. PICK m \in DOMAIN q.dependencies : q.dependencies[m].kind = "query" /\ Key[q.dependencies[m].id] = n
  BY <1>1, DependsOnFacts
<1> QED BY <1>1, <1>2 DEF Handled

\* A query all of whose dependencies were handled may be marked as visited.
LEMMA SettledGrows ==
    ASSUME catalog \in Catalogs, ~Duplicated(catalog.queries), NEW vis, Settled(vis),
           NEW q \in Queries, q.fault = "none", Key[q.id] \notin vis,
           \A m \in DOMAIN q.dependencies : Handled(vis, q.dependencies[m])
    PROVE  Settled(vis \cup {Key[q.id]})
<1> DEFINE now == vis \cup {Key[q.id]}
<1>1. now \subseteq Keys
  BY QueryFacts DEF Settled
<1>2. DependsOn(Key[q.id]) \subseteq vis /\ Closed(vis)
  <2>1. \A k \in DependsOn(Key[q.id]) : k \in vis
    <3> SUFFICES ASSUME NEW k \in DependsOn(Key[q.id]) PROVE k \in vis
      OBVIOUS
    <3>1. PICK m \in DOMAIN q.dependencies : q.dependencies[m].kind = "query" /\ Key[q.dependencies[m].id] = k
      BY DependsOnFacts
    <3> QED BY <3>1 DEF Handled
  <2> QED BY <2>1, SettledIsClosed
<1>3. \A k \in now : \E r \in Queries : /\ Key[r.id] = k /\ r.fault = "none"
                                        /\ \A m \in DOMAIN r.dependencies : Handled(now, r.dependencies[m])
  <2> SUFFICES ASSUME NEW k \in now
               PROVE  \E r \in Queries : /\ Key[r.id] = k /\ r.fault = "none"
                                         /\ \A m \in DOMAIN r.dependencies : Handled(now, r.dependencies[m])
    OBVIOUS
  <2>1. CASE k \in vis
    <3>1. PICK r \in Queries : /\ Key[r.id] = k /\ r.fault = "none"
                               /\ \A m \in DOMAIN r.dependencies : Handled(vis, r.dependencies[m])
      BY <2>1 DEF Settled
    <3> QED BY <3>1, HandledGrows
  <2>2. CASE k = Key[q.id]
    BY <2>2, HandledGrows
  <2> QED BY <2>1, <2>2
<1>4. \A k \in now : \E C \in SUBSET (now \ {k}) : DependsOn(k) \subseteq C /\ Closed(C)
  <2> SUFFICES ASSUME NEW k \in now PROVE \E C \in SUBSET (now \ {k}) : DependsOn(k) \subseteq C /\ Closed(C)
    OBVIOUS
  <2>1. CASE k \in vis
    <3>1. PICK C \in SUBSET (vis \ {k}) : DependsOn(k) \subseteq C /\ Closed(C)
      BY <2>1 DEF Settled
    <3> QED BY <3>1
  <2>2. CASE k = Key[q.id]
    <3>1. vis \in SUBSET (now \ {k})
      BY <2>2
    <3> QED BY <1>2, <2>2, <3>1
  <2> QED BY <2>1, <2>2
<1> QED BY <1>1, <1>3, <1>4 DEF Settled

------------------------------------------------------------------------------
\* walk(id), called first or by the call on top.
LEMMA EnterKeeps ==
    ASSUME catalog \in Catalogs, Clean, Settled(visited), Calls(path, visited), reason \in {"unread", "walking"},
           path # <<>> => reason = "walking", path = <<>> => visited = {},
           NEW id \in DOMAIN Key, Key[id] \in Reach, \A i \in DOMAIN path : Key[id] \in Below(KeyAt(path, i)),
           IF path = <<>> THEN id = Root ELSE Awaits(path[Len(path)], Key[id]),
           catalog' = catalog, options' = options, Enter(id)
    PROVE  WalkIInv'
<1>0. \A vis : (Settled(vis)' <=> Settled(vis)) /\ \A p : Calls(p, vis)' <=> Calls(p, vis)
  BY CatalogStays
<1>00. Clean'
  BY CatalogStays
<1>1. CASE Key[id] \in Visiting
  <2>1. PICK i \in DOMAIN path : Key[id] = KeyAt(path, i)
    BY <1>1 DEF Visiting, KeyAt
  <2>2. Key[id] \in Below(Key[id])
    BY <2>1
  <2>3. "DEPENDENCY_CYCLE" \in Reasons
    BY <2>2, ReasonFacts
  <2>4. Refuse("DEPENDENCY_CYCLE")
    BY <1>1 DEF Enter
  <2> QED BY <2>3, <2>4, RefusalIsRight
<1>2. CASE Key[id] \notin Visiting /\ Key[id] \in visited
  <2>1. path' = Advance(path) /\ visited' = visited /\ reason' = reason
    BY <1>2 DEF Enter
  <2>2. path # <<>> /\ Awaits(path[Len(path)], Key[id]) /\ reason = "walking"
    BY <1>2
  <2>3. Handled(visited, path[Len(path)].query.dependencies[path[Len(path)].next])
    BY <1>2, <2>2 DEF Awaits, Handled
  <2>4. Calls(Advance(path), visited) /\ Advance(path) # <<>>
    BY <2>2, <2>3, AdvanceKeeps DEF Awaits
  <2>5. Calls(path, visited)' /\ Settled(visited)' /\ path' # <<>> /\ reason' = "walking"
    BY <1>0, <2>1, <2>2, <2>4
  <2> QED BY <1>00, <2>5 DEF WalkIInv
<1>3. CASE Key[id] \notin Visiting /\ Key[id] \notin visited
  <2>1. Pushed(id)
    BY <1>3 DEF Enter
  <2>2. CASE Named(catalog.queries, id) = {} /\ Refuse("UNRESOLVED_REFERENCE")
    <3>1. \A q \in Queries : Key[q.id] # Key[id]
      BY <2>2 DEF Named, Queries
    <3>2. "UNRESOLVED_REFERENCE" \in Reasons
      BY <3>1, ReasonFacts
    <3> QED BY <2>2, <3>2, RefusalIsRight
  <2>3. ASSUME NEW q \in Named(catalog.queries, id), q.fault # "none", Refuse(q.fault) PROVE WalkIInv'
    <3>1. q \in Queries /\ Key[q.id] = Key[id]
      BY DEF Named, Queries
    <3>2. q.fault \in Reasons /\ q.fault \notin {"unread", "walking", "none"}
      BY <2>3, <3>1, ReasonFacts, QueryFacts
    <3> QED BY <2>3, <3>2, RefusalIsRight
  <2>4. ASSUME NEW q \in Named(catalog.queries, id), q.fault = "none",
               path' = Append(path, [query |-> q, next |-> 1]), reason' = "walking", visited' = visited
        PROVE  WalkIInv'
    <3>1. q \in Queries /\ Key[q.id] = Key[id]
      BY DEF Named, Queries
    <3>2. \A i \in DOMAIN path : Key[id] # KeyAt(path, i)
      BY <1>3 DEF Visiting, KeyAt
    <3>3. Calls(Append(path, [query |-> q, next |-> 1]), visited) /\ Append(path, [query |-> q, next |-> 1]) # <<>>
      BY <1>3, <2>4, <3>1, <3>2, PushKeeps
    <3>4. Calls(path, visited)' /\ Settled(visited)' /\ path' # <<>>
      BY <1>0, <2>4, <3>3
    <3> QED BY <1>00, <2>4, <3>4 DEF WalkIInv
  <2> QED BY <2>1, <2>2, <2>3, <2>4 DEF Pushed
<1> QED BY <1>1, <1>2, <1>3

LEMMA ReturnFromQuery == ASSUME WalkIInv, Return, catalog' = catalog, options' = options PROVE WalkIInv'
<1> DEFINE q == Top.query
           now == visited \cup {Key[q.id]}
<1>0. /\ reason = "walking" /\ catalog \in Catalogs /\ Clean /\ Settled(visited) /\ Calls(path, visited) /\ path # <<>>
      /\ ~Duplicated(catalog.queries) /\ Top.next > Len(q.dependencies) /\ visited' = now
  BY DEF Return, WalkIInv, Clean
<1>1. \A vis : (Settled(vis)' <=> Settled(vis)) /\ \A p : Calls(p, vis)' <=> Calls(p, vis)
  BY CatalogStays
<1>2. Clean'
  BY <1>0, CatalogStays
<1>3. /\ Len(path) \in DOMAIN path /\ q \in Queries /\ Key[q.id] = KeyAt(path, Len(path))
      /\ Len(path) \in Nat /\ Top.next \in Nat
      /\ Len(q.dependencies) \in Nat /\ DOMAIN q.dependencies = 1..Len(q.dependencies)
  <2>1. Len(path) \in Nat /\ DOMAIN path = 1..Len(path) /\ Len(path) # 0
    <3>1. path \in Seq([query : Queries, next : Nat \ {0}])
      BY <1>0 DEF Calls
    <3> QED BY <1>0, <3>1
  <2>2. Len(path) \in DOMAIN path
    BY <2>1
  <2> QED BY <1>0, <2>1, <2>2, CallFacts DEF Top, KeyAt
<1>4. q.fault = "none" /\ Key[q.id] \notin visited
  BY <1>0, <1>3 DEF Calls, Top
<1>5. \A m \in DOMAIN q.dependencies : Handled(visited, q.dependencies[m])
  <2> SUFFICES ASSUME NEW m \in DOMAIN q.dependencies PROVE Handled(visited, q.dependencies[m])
    OBVIOUS
  <2>1. m \in 1..(Top.next - 1)
    <3> HIDE DEF q
    <3> QED BY <1>0, <1>3
  <2> QED BY <1>0, <1>3, <2>1 DEF Calls, Top
<1> HIDE DEF q
<1>6. Settled(now)
  BY <1>0, <1>3, <1>4, <1>5, SettledGrows
<1>7. CASE Len(path) = 1
  <2>1. path' = <<>> /\ reason' = "none"
    BY <1>7 DEF Return
  <2>2. Key[Root] \in now
    BY <1>0, <1>3, <1>7 DEF Calls
  <2>3. Settled(visited)' /\ Key[Root] \in visited'
    BY <1>0, <1>1, <1>6, <2>2
  <2> QED BY <1>0, <1>2, <2>1, <2>3 DEF WalkIInv
<1>8. CASE Len(path) # 1
  <2> DEFINE r == Front(path)
  <2>1. path' = Advance(r) /\ reason' = reason
    BY <1>8 DEF Return
  <2>2. Calls(r, now) /\ r # <<>> /\ Awaits(r[Len(r)], Key[q.id])
    BY <1>0, <1>3, <1>8, FrontKeeps
  <2> HIDE DEF r
  <2>3. /\ r[Len(r)].next \in DOMAIN r[Len(r)].query.dependencies
        /\ Handled(now, r[Len(r)].query.dependencies[r[Len(r)].next])
    BY <2>2 DEF Awaits, Handled
  <2>4. Calls(Advance(r), now) /\ Advance(r) # <<>>
    BY <1>0, <2>2, <2>3, AdvanceKeeps
  <2>5. Settled(visited)' /\ Calls(path, visited)' /\ path' # <<>>
    BY <1>0, <1>1, <1>6, <2>1, <2>4
  <2> QED BY <1>0, <1>2, <2>1, <2>5 DEF WalkIInv
<1> QED BY <1>7, <1>8

LEMMA RootInReach == Key[Root] \in Reach
  BY DEF Reach

LEMMA NextWalkIInv == WalkIInv /\ [WalkNext]_walkVars => WalkIInv'
<1> SUFFICES ASSUME WalkIInv, [WalkNext]_walkVars PROVE WalkIInv'
  OBVIOUS
<1>0. catalog \in Catalogs
  BY DEF WalkIInv
<1>1. CASE Begin /\ UNCHANGED <<catalog, options>>
  <2>0. reason = "unread" /\ path = <<>> /\ visited = {} /\ catalog' = catalog /\ options' = options
    BY <1>1 DEF Begin, WalkIInv
  <2>1. CASE Clean
    <3>1. Enter(Root)
      BY <1>1, <2>1 DEF Begin, Clean
    <3>2. Settled({}) /\ Calls(<<>>, {})
      BY DEF Settled, Calls
    <3>3. DOMAIN path = {} /\ Root \in DOMAIN Key
      BY <2>0, ClosureAssumption
    <3> QED BY <1>0, <2>0, <2>1, <3>1, <3>2, <3>3, RootInReach, EnterKeeps
  <2>2. CASE ~Clean
    <3>1. \/ Duplicated(catalog.queries) /\ reason' = "AMBIGUOUS_QUERY_IDENTIFIER"
          \/ Duplicated(catalog.tables) /\ reason' = "AMBIGUOUS_TABLE_IDENTIFIER"
          \/ /\ ~Duplicated(catalog.queries) /\ ~Duplicated(catalog.tables)
             /\ options.queryResult /\ OrderFailure(options.orderBy) # "none"
             /\ reason' = OrderFailure(options.orderBy)
      BY <1>1, <2>2 DEF Begin, Clean, Refuse
    <3>2. OrderFailure(options.orderBy) \in {"none", "ORDER_REQUIRED", "AMBIGUOUS_ORDER_KEY"}
      BY DEF OrderFailure
    <3>3. ClosureIsSound' /\ reason' \notin {"unread", "walking", "none"}
      BY <2>0, <3>1, <3>2 DEF ClosureIsSound
    <3> QED BY <1>0, <2>0, <3>3 DEF WalkIInv
  <2> QED BY <2>1, <2>2
<1>2. CASE Dependency /\ UNCHANGED <<catalog, options>>
  <2> DEFINE d == Top.query.dependencies[Top.next]
  <2>0. /\ reason = "walking" /\ Clean /\ Settled(visited) /\ Calls(path, visited) /\ path # <<>>
        /\ catalog' = catalog /\ options' = options
    BY <1>2 DEF Dependency, WalkIInv
  <2>1. /\ Len(path) \in DOMAIN path /\ Len(path) \in Nat /\ Top.query \in Queries
        /\ Top.next \in DOMAIN Top.query.dependencies /\ DOMAIN path = 1..Len(path)
    <3>1. Len(path) \in Nat /\ DOMAIN path = 1..Len(path) /\ Len(path) # 0
      <4>1. path \in Seq([query : Queries, next : Nat \ {0}])
        BY <2>0 DEF Calls
      <4> QED BY <2>0, <4>1
    <3>2. Len(path) \in DOMAIN path
      BY <3>1
    <3>3. /\ Top.query \in Queries /\ Top.next \in Nat \ {0} /\ Len(Top.query.dependencies) \in Nat
          /\ DOMAIN Top.query.dependencies = 1..Len(Top.query.dependencies)
      BY <1>0, <2>0, <3>2, CallFacts DEF Top
    <3>4. Top.next <= Len(Top.query.dependencies)
      BY <1>2 DEF Dependency
    <3> QED BY <3>1, <3>2, <3>3, <3>4
  <2>2. Key[Top.query.id] = KeyAt(path, Len(path)) /\ Key[Top.query.id] \in Reach
    BY <2>0, <2>1 DEF Top, KeyAt, Calls
  <2>3. CASE d.kind = "query"
    <3>1. Enter(d.id) /\ d.id \in DOMAIN Key /\ Key[d.id] \in DependsOn(Key[Top.query.id])
      BY <1>0, <1>2, <2>1, <2>3, QueryFacts, DependsOnFacts DEF Dependency
    <3>2. Key[d.id] \in Below(Key[Top.query.id])
      BY <1>0, <3>1, BelowFacts
    <3>3. \A i \in DOMAIN path : Key[d.id] \in Below(KeyAt(path, i))
      <4> SUFFICES ASSUME NEW i \in DOMAIN path PROVE Key[d.id] \in Below(KeyAt(path, i))
        OBVIOUS
      <4>1. CASE i = Len(path)
        BY <2>2, <3>2, <4>1
      <4>2. CASE i # Len(path)
        <5>1. i < Len(path)
          BY <2>1, <4>2
        <5>2. Key[Top.query.id] \in Below(KeyAt(path, i))
          BY <2>0, <2>1, <2>2, <5>1 DEF Calls
        <5> QED BY <1>0, <3>2, <5>2, BelowFacts
      <4> QED BY <4>1, <4>2
    <3>4. Key[d.id] \in Reach
      BY <1>0, <2>2, <3>2, BelowFacts DEF Reach
    <3>5. Awaits(path[Len(path)], Key[d.id])
      BY <2>1, <2>3 DEF Awaits, Top
    <3> HIDE DEF d
    <3> QED BY <1>0, <2>0, <3>1, <3>3, <3>4, <3>5, EnterKeeps
  <2>4. CASE d.kind # "query" /\ TableFailure(catalog.tables, d) # "none"
    <3>1. Refuse(TableFailure(catalog.tables, d))
      BY <1>2, <2>4 DEF Dependency
    <3>2. TableFailure(catalog.tables, d) \in Reasons
      BY <2>1, <2>2, <2>4, ReasonFacts
    <3>3. TableFailure(catalog.tables, d) \notin {"unread", "walking"}
      BY DEF TableFailure
    <3> QED BY <1>0, <2>0, <2>4, <3>1, <3>2, <3>3, RefusalIsRight
  <2>5. CASE d.kind # "query" /\ TableFailure(catalog.tables, d) = "none"
    <3>1. path' = Advance(path) /\ visited' = visited /\ reason' = reason
      BY <1>2, <2>5 DEF Dependency
    <3>2. Handled(visited, d)
      BY <2>5 DEF Handled
    <3>3. Calls(Advance(path), visited) /\ Advance(path) # <<>>
      BY <1>0, <2>0, <2>1, <3>2, AdvanceKeeps DEF Top
    <3>4. \A vis : (Settled(vis)' <=> Settled(vis)) /\ \A p : Calls(p, vis)' <=> Calls(p, vis)
      BY <2>0, CatalogStays
    <3>5. Clean' /\ Settled(visited)' /\ Calls(path, visited)' /\ path' # <<>>
      BY <2>0, <3>1, <3>3, <3>4, CatalogStays
    <3> QED BY <1>0, <2>0, <3>1, <3>5 DEF WalkIInv
  <2> QED BY <2>3, <2>4, <2>5
<1>3. CASE Return /\ UNCHANGED <<catalog, options>>
  BY <1>3, ReturnFromQuery
<1>4. CASE UNCHANGED walkVars
  <2>1. catalog' = catalog /\ options' = options /\ path' = path /\ visited' = visited /\ reason' = reason
    BY <1>4 DEF walkVars
  <2>2. /\ Reasons' = Reasons /\ (Clean' <=> Clean)
        /\ (Settled(visited)' <=> Settled(visited)) /\ (Calls(path, visited)' <=> Calls(path, visited))
    BY <2>1, CatalogStays
  <2>3. ClosureIsSound' <=> ClosureIsSound
    BY <2>1, <2>2 DEF ClosureIsSound
  <2> QED BY <2>1, <2>2, <2>3 DEF WalkIInv
<1> QED
  BY <1>1, <1>2, <1>3, <1>4 DEF WalkNext

\* classifyClosure's walk, turn by turn, over any catalog: what is visited is
\* closed and without a reason, and every refusal so far was for a reason.
THEOREM WalkInvariantHolds == WalkSpec => []WalkIInv
<1>1. WalkInit => WalkIInv
  BY DEF WalkInit, Given, WalkIInv
<1> QED
  BY <1>1, NextWalkIInv, PTL DEF WalkSpec

\* A query classifyClosure supports reaches nothing that gives a reason against
\* it, and the reason of a refusal is one that something in its reach gives.
THEOREM ClassificationIsSound == WalkSpec => []ClosureIsSound
<1>1. WalkIInv => ClosureIsSound
  <2> SUFFICES ASSUME WalkIInv, reason = "none" PROVE ClosureIsSound
    BY DEF WalkIInv, ClosureIsSound
  <2>0. catalog \in Catalogs /\ Clean /\ ~Duplicated(catalog.queries) /\ Settled(visited) /\ Key[Root] \in visited
    BY DEF WalkIInv, Clean
  <2>1. visited \in SUBSET Keys /\ Closed(visited)
    BY <2>0, SettledIsClosed DEF Settled
  <2>2. Reach \subseteq visited
    <3>1. DependsOn(Key[Root]) \subseteq visited
      BY <2>0, <2>1 DEF Closed
    <3> QED BY <2>0, <2>1, <3>1, BelowFacts DEF Reach
  <2>3. \A k \in visited : k \notin Below(k)
    <3> SUFFICES ASSUME NEW k \in visited PROVE k \notin Below(k)
      OBVIOUS
    <3>1. PICK C \in SUBSET (visited \ {k}) : DependsOn(k) \subseteq C /\ Closed(C)
      BY <2>0 DEF Settled
    <3>2. C \in SUBSET Keys
      BY <2>1
    <3> QED BY <2>0, <3>1, <3>2, BelowFacts
  <2>4. \A q \in Queries : Key[q.id] \in Reach =>
            /\ q.fault = "none"
            /\ \A d \in ToSet(q.dependencies) : d.kind # "query" => TableFailure(catalog.tables, d) = "none"
    <3> SUFFICES ASSUME NEW q \in Queries, Key[q.id] \in visited
                 PROVE  /\ q.fault = "none"
                        /\ \A d \in ToSet(q.dependencies) : d.kind # "query" => TableFailure(catalog.tables, d) = "none"
      BY <2>2
    <3>1. PICK r \in Queries : /\ Key[r.id] = Key[q.id] /\ r.fault = "none"
                               /\ \A m \in DOMAIN r.dependencies : Handled(visited, r.dependencies[m])
      BY <2>0 DEF Settled
    <3>2. r = q
      BY <2>0, <3>1, OnlyQuery
    <3> QED BY <3>1, <3>2 DEF ToSet, Handled
  <2>5. \A k \in Reach : \E q \in Queries : Key[q.id] = k
    BY <2>0, <2>2 DEF Settled
  <2>6. Reasons = {}
    <3> DEFINE here == {q \in Queries : Key[q.id] \in Reach}
               uses == {d \in UNION {ToSet(q.dependencies) : q \in here} : d.kind # "query"}
    <3>1. {q.fault : q \in here} \subseteq {"none"}
      BY <2>4
    <3>2. {TableFailure(catalog.tables, d) : d \in uses} \subseteq {"none"}
      BY <2>4
    <3>3. Reach \ {Key[q.id] : q \in here} = {}
      BY <2>5
    <3>4. {n \in Reach : n \in Below(n)} = {}
      BY <2>2, <2>3
    <3>5. Reasons = (({q.fault : q \in here} \cup {TableFailure(catalog.tables, d) : d \in uses}) \ {"none"})
                     \cup {"UNRESOLVED_REFERENCE" : k \in Reach \ {Key[q.id] : q \in here}}
                     \cup {"DEPENDENCY_CYCLE" : k \in {n \in Reach : n \in Below(n)}}
      BY DEF Reasons, Queries
    <3> HIDE DEF here, uses
    <3> QED BY <3>1, <3>2, <3>3, <3>4, <3>5
  <2> QED BY <2>0, <2>6 DEF ClosureIsSound, Clean
<1> QED BY <1>1, WalkInvariantHolds, PTL

==============================================================================
