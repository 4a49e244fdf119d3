---------------------------- MODULE WorkerProcess ----------------------------
(* tools/win-job-launcher/src/main.rs around the office inspector's protocol  *)
(* loop (Main.java, Protocol.java): the helper starts the inspector suspended,*)
(* puts it into a job object, resumes it, waits, and hands on its exit code.  *)
(* The two are processes of their own, and the helper may be killed at any    *)
(* moment; a process that is to be killed may run a little longer.            *)
EXTENDS Integers, Sequences

CONSTANTS Ids,         \* request ids
          MaxFrame,    \* MAX_FRAME_BYTES
          MaxTotal,    \* MAX_TOTAL_BYTES
          AnswerBytes, \* length of an unsupported response
          CrashCodes,  \* exit codes of an inspector that dies otherwise
          MaxFrames    \* bound of the model: frames written to the inspector

ASSUME ProcessAssumption == /\ MaxFrame \in Nat \ {0} /\ MaxTotal \in Nat /\ MaxFrames \in Nat
                            /\ AnswerBytes \in 1..MaxFrame
                            /\ CrashCodes \subseteq Nat \ {0}

VARIABLES helper,    \* where run() of the launcher is
          status,    \* its exit status, once it has one
          job,       \* the job object: "none", "open" (no limits yet), "armed", "closed"
          members,   \* the processes assigned to it
          primary,   \* the inspector: "none", "suspended", "running", "dead"
          code,      \* its exit code
          child,     \* a process it started: "none", "running", "dead"
          doomed,    \* processes that are being killed
          spared,    \* history: TerminateProcess failed on the suspended inspector
          stdin,     \* frames in the inspector's pipe
          eof,       \* the writer has closed it
          fed,       \* history: every frame ever written to it
          total,     \* Session.totalBytes
          ids,       \* Session.requestIds
          answers    \* ids of the responses written

helperVars  == <<helper, status>>
jobVars     == <<job, members, doomed, spared>>
pipe        == <<stdin, eof, fed>>
session     == <<total, ids, answers>>
vars == <<helperVars, jobVars, primary, code, child, pipe, session>>

Refused == 124
Gone    == {"ended", "killed"}
Frames  == [id : Ids, good : BOOLEAN, bytes : 1..(MaxFrame + 1), lf : BOOLEAN]

Init == /\ helper = "parsing" /\ status = -1
        /\ job = "none" /\ members = {} /\ doomed = {} /\ spared = FALSE
        /\ primary = "none" /\ code = 0 /\ child = "none"
        /\ stdin = <<>> /\ eof = FALSE /\ fed = <<>>
        /\ total = 0 /\ ids = {} /\ answers = <<>>

Inspector == UNCHANGED <<primary, code, child, pipe, session>>

\* The helper's process ends, or a drop: the last handle of the job is closed,
\* which kills its members once the limit is set.
CloseJob(also) == /\ job' = IF job = "none" THEN "none" ELSE "closed"
                  /\ doomed' = doomed \cup also \cup (IF job = "armed" THEN members ELSE {})
                  /\ UNCHANGED members

Exit(s, also) == /\ helper' = "ended"
                 /\ status' = s
                 /\ CloseJob(also)
                 /\ UNCHANGED spared

\* A refusal before the inspector is in the job: TerminateProcess, whose result
\* nobody looks at.
Abandon == /\ helper' = "ended"
           /\ status' = Refused
           /\ \/ CloseJob({"primary"}) /\ UNCHANGED spared
              \/ CloseJob({}) /\ spared' = TRUE

------------------------------------------------------------------------------
\* The launcher: parse_arguments, then run().

Parse == /\ helper = "parsing"
         /\ \/ Exit(2, {})
            \/ helper' = "creating" /\ UNCHANGED <<status, jobVars>>
         /\ Inspector

CreateProcess == /\ helper = "creating"
                 /\ \/ Exit(Refused, {}) /\ UNCHANGED primary
                    \/ /\ primary' = "suspended" /\ helper' = "created"
                       /\ UNCHANGED <<status, jobVars>>
                 /\ UNCHANGED <<code, child, pipe, session>>

CreateJob == /\ helper = "created"
             /\ \/ Abandon
                \/ job' = "open" /\ helper' = "configuring" /\ UNCHANGED <<status, members, doomed, spared>>
             /\ Inspector

\* Mutated: the limit is not set.
LimitJob_Unarmed == /\ helper = "configuring"
                    /\ helper' = "assigning"
                    /\ UNCHANGED <<status, jobVars>> /\ Inspector

LimitJob == /\ helper = "configuring"
            /\ \/ Abandon
               \/ job' = "armed" /\ helper' = "assigning" /\ UNCHANGED <<status, members, doomed, spared>>
            /\ Inspector

\* Mutated: a failed assignment is an error like any other.
Assign_NoTerminate == /\ helper = "assigning"
                      /\ \/ Exit(Refused, {})
                         \/ /\ members' = {"primary"} /\ helper' = "resuming"
                            /\ UNCHANGED <<status, job, doomed, spared>>
                      /\ Inspector

Assign == /\ helper = "assigning"
          /\ \/ Abandon
             \/ members' = {"primary"} /\ helper' = "resuming" /\ UNCHANGED <<status, job, doomed, spared>>
          /\ Inspector

Resume == /\ helper = "resuming"
          /\ \/ Exit(Refused, {}) /\ UNCHANGED primary
             \/ /\ primary' = "running" /\ helper' = "waiting"
                /\ UNCHANGED <<status, jobVars>>
          /\ UNCHANGED <<code, child, pipe, session>>

\* WAIT_OBJECT_0 and exit_code, cut to eight bits by main; or a failed call.
Waited == /\ helper = "waiting"
          /\ \/ primary = "dead" /\ Exit(code % 256, {})
             \/ Exit(Refused, {})
          /\ Inspector

\* WAIT_TIMEOUT: CTRL_BREAK, which the inspector may ignore.
Timeout == /\ helper = "waiting"
           /\ primary # "dead"
           /\ helper' = "grace"
           /\ UNCHANGED <<status, jobVars>> /\ Inspector

\* Mutated: a worker that ends within the grace period is a success.
GraceEnds_Forgiving == /\ helper = "grace"
                       /\ Exit(IF primary = "dead" THEN 0 ELSE Refused, {})
                       /\ Inspector

\* The process has ended or the grace period has: the job is closed either way.
GraceEnds == /\ helper = "grace"
             /\ Exit(Refused, {})
             /\ Inspector

\* The spawner kills the helper, whose handles are closed by the system.
KillHelper == /\ helper \notin Gone
              /\ helper' = "killed"
              /\ CloseJob({})
              /\ UNCHANGED <<status, spared>> /\ Inspector

------------------------------------------------------------------------------
\* The inspector and its child.

Outside == UNCHANGED <<helperVars, jobVars>>

ExitWith(c) == primary' = "dead" /\ code' = c

\* Mutated: a request id may come again.
Acceptable_Repeated(f) == /\ f.bytes <= MaxFrame /\ f.lf /\ f.good
                          /\ total + f.bytes + 1 <= MaxTotal

\* readFrame, acceptRequestFrame and its charge.
Acceptable(f) == /\ f.bytes <= MaxFrame /\ f.lf /\ f.good
                 /\ f.id \notin ids
                 /\ total + f.bytes + 1 <= MaxTotal

\* Main's loop, one frame: it is accepted, and its answer charged before it is
\* written.  Any refusal ends the process.
Serve ==
    /\ primary = "running" /\ stdin # <<>>
    /\ stdin' = Tail(stdin)
    /\ LET f     == Head(stdin)
           asked == total + f.bytes + 1
           told  == asked + AnswerBytes + 1
       IN  \/ ~Acceptable(f) /\ ExitWith(2) /\ UNCHANGED session
           \/ /\ Acceptable(f)
              /\ ids' = ids \cup {f.id}
              /\ \/ told > MaxTotal /\ ExitWith(2) /\ total' = asked /\ UNCHANGED answers
                 \/ /\ told <= MaxTotal
                    /\ total' = told
                    /\ answers' = Append(answers, f.id)
                    /\ UNCHANGED <<primary, code>>
    /\ UNCHANGED <<child, eof, fed>> /\ Outside

EndOfInput == /\ primary = "running" /\ stdin = <<>> /\ eof
              /\ ExitWith(0)
              /\ UNCHANGED <<child, pipe, session>> /\ Outside

\* It runs out of memory, obeys CTRL_BREAK, or is ended from outside.
Crash == /\ primary = "running"
         /\ \E c \in CrashCodes : ExitWith(c)
         /\ UNCHANGED <<child, pipe, session>> /\ Outside

\* What a member of a job starts is a member too.
Fork == /\ primary = "running" /\ child = "none"
        /\ child' = "running"
        /\ members' = IF "primary" \in members THEN members \cup {"child"} ELSE members
        /\ doomed' = IF "primary" \in doomed THEN doomed \cup {"child"} ELSE doomed
        /\ UNCHANGED <<helperVars, job, spared, primary, code, pipe, session>>

Die == /\ \/ /\ "primary" \in doomed /\ primary \in {"suspended", "running"}
             /\ ExitWith(1) /\ UNCHANGED child
          \/ /\ "child" \in doomed /\ child = "running"
             /\ child' = "dead" /\ UNCHANGED <<primary, code>>
       /\ UNCHANGED <<pipe, session>> /\ Outside

\* The writer at the other end of the pipe: only its last frame may lack its LF.
Feed == /\ ~eof /\ Len(fed) < MaxFrames
        /\ \E f \in Frames : /\ stdin' = Append(stdin, f)
                             /\ fed' = Append(fed, f)
                             /\ eof' = ~f.lf
        /\ UNCHANGED <<primary, code, child, session>> /\ Outside

CloseInput == /\ ~eof
              /\ eof' = TRUE
              /\ UNCHANGED <<stdin, fed, primary, code, child, session>> /\ Outside

Helper == \/ Parse \/ CreateProcess \/ CreateJob \/ LimitJob \/ Assign \/ Resume
          \/ Waited \/ Timeout \/ GraceEnds

Next == \/ Helper \/ KillHelper
        \/ Serve \/ EndOfInput \/ Crash \/ Fork \/ Die \/ Feed \/ CloseInput

\* The helper is scheduled, its two time-outs end, and what is being killed
\* ends; inspector and writer owe nothing.
Fairness == WF_vars(Helper) /\ WF_vars(Die)

Spec == Init /\ [][Next]_vars /\ Fairness

------------------------------------------------------------------------------
TypeOK == /\ helper \in {"parsing", "creating", "created", "configuring", "assigning",
                         "resuming", "waiting", "grace"} \cup Gone
          /\ job \in {"none", "open", "armed", "closed"}
          /\ primary \in {"none", "suspended", "running", "dead"}
          /\ child \in {"none", "running", "dead"}
          /\ members \subseteq {"primary", "child"} /\ doomed \subseteq {"primary", "child"}
          /\ spared \in BOOLEAN /\ status \in -1..255 /\ total \in 0..MaxTotal

Alive == (IF primary \in {"suspended", "running"} THEN {"primary"} ELSE {}) \cup
         (IF child = "running" THEN {"child"} ELSE {})

\* No process of the tree runs outside an armed job, unless it is being killed:
\* there is no moment between its start and its assignment.  And when the helper is
\* gone, however it went, nothing that runs is left behind; only a helper killed
\* before the assignment, or one whose TerminateProcess failed, leaves the process
\* it had suspended, which never ran.
NothingRunsOutsideTheJob ==
    \A p \in Alive : \/ p \in doomed
                     \/ p \in members /\ job = "armed"
                     \/ p = "primary" /\ primary = "suspended"

NoSurvivor ==
    helper \in Gone => \A p \in Alive : \/ p \in doomed
                                        \/ p = "primary" /\ primary = "suspended" /\ (helper = "killed" \/ spared)
TreeStaysInItsJob == NothingRunsOutsideTheJob /\ NoSurvivor

\* A helper that reports success had an inspector that ended in time; and unless it
\* died with a multiple of 256, it had answered every frame written to it,
\* each once and in order.
SuccessMeansAnswered ==
    status = 0 => /\ primary = "dead" /\ code % 256 = 0
                  /\ code = 0 => /\ answers = [i \in DOMAIN fed |-> fed[i].id]
                                 /\ stdin = <<>>

\* Each answer belongs to the request of its place, none is given twice, and
\* at most the one whose answer no longer fits the session's total goes unanswered.
AnswersInOrder ==
    /\ Len(answers) <= Len(fed)
    /\ \A i \in DOMAIN answers : fed[i].good /\ fed[i].id = answers[i]
    /\ \A i, j \in DOMAIN answers : answers[i] = answers[j] => i = j
    /\ total <= MaxTotal

\* A started helper ends, and once it has, so does every process of its tree that ever ran.
TreeEnds == /\ <>(helper \in Gone)
            /\ helper \in Gone ~> primary # "running" /\ child # "running"

==============================================================================
