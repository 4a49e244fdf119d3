------------------------------ MODULE WorkerSpawn ------------------------------
(* apps/server/src/security/worker-spawn.ts: one call of WorkerSpawner.run,   *)
(* with the frame checks of packages/domain/src/ipc.ts it makes, and the      *)
(* worker process as its adapter shows it: two pipes, an exit and a kill.     *)
(*                                                                            *)
(* Bytes are units: a unit is a whole line the worker may print, or a half of *)
(* a valid answer, so that one line may arrive in two chunks and one chunk    *)
(* may bring two lines.                                                       *)
EXTENDS Naturals, Sequences, SequencesExt

CONSTANTS TotalLimit,   \* limits.totalBytes, in units, the request being one
          FrameLimit,   \* limits.frameBytes, in units
          StderrLimit,  \* limits.stderrBytes, in units
          ChunkBound,   \* bound of the model: units read in one stdout event
          WriteBound    \* bound of the model: units a worker prints on stdout

ASSUME LimitsAssumption == /\ TotalLimit \in Nat /\ TotalLimit >= 1
                           /\ FrameLimit \in Nat /\ FrameLimit >= 1
                           /\ StderrLimit \in Nat
                           /\ ChunkBound \in Nat /\ WriteBound \in Nat

\* An answer to this request within its evidence budget; a line with status
\* "cancelled"; a line that is no response, answers another request or carries
\* too much evidence; the two halves of an answer, "head" without its newline
\* and "tail" with it.
Lines == {"answer", "cancelled", "bad", "tail"}
Units == Lines \cup {"head"}

\* On stderr: a unit of whole characters, and a character cut in two.
ErrUnits == {"text", "lead", "rest"}

Requests == {"valid", "relativeCwd", "oversized", "expired", "malformed"}
Codes == {"none", "Error", "IPC_PROTOCOL_ERROR", "WORKER_EXECUTION_ERROR",
          "WORKER_TIMEOUT", "CANCELLED"}

VARIABLES
  \* the caller
  request,     \* what run() is called with
  signalled,   \* its AbortSignal is aborted
  promise, code,
  \* the closure of run()
  settled,
  timer,       \* the deadline timer
  grace,       \* the kill scheduled by a cooperative fail
  listening,   \* the process and abort listeners are registered
  stdout,      \* { buf, seen, response, bytes }: the frame reader
  stderrBytes,
  stderrOpen,  \* stderrDecoder holds the first half of a character
  exitCode, stdoutEnded, stderrEnded,
  \* the worker process and its pipes
  sent,        \* the request was written to stdin and stdin closed
  proc,        \* "none", "alive", "exited"
  closed,      \* the worker closed its two output pipes
  killed,      \* process.kill() was called
  asked,       \* process.cancel() was called
  pipe,        \* stdout units printed and not yet read
  status,      \* the exit status
  printed,     \* history: every stdout unit the worker printed
  errPrinted   \* and every stderr unit, of which stderrBytes have been read

caller  == <<request, signalled>>
reader  == <<stdout, stderrBytes, stderrOpen, exitCode, stdoutEnded, stderrEnded>>
control == <<promise, code, settled, timer, grace, killed, asked>>
worker  == <<sent, proc, closed, pipe, status, printed, errPrinted>>
vars == <<caller, reader, control, worker, listening>>

NoFrames == [buf |-> <<>>, seen |-> FALSE, response |-> FALSE, bytes |-> 0]

Init == /\ request \in Requests
        /\ signalled = FALSE
        /\ promise = "idle" /\ code = "none"
        /\ settled = FALSE /\ timer = "none" /\ grace = "none" /\ listening = FALSE
        /\ stdout = NoFrames /\ stderrBytes = 0 /\ stderrOpen = FALSE
        /\ exitCode = "none" /\ stdoutEnded = FALSE /\ stderrEnded = FALSE
        /\ sent = FALSE /\ proc = "none" /\ closed = FALSE /\ killed = FALSE /\ asked = FALSE
        /\ pipe = <<>> /\ status = "none" /\ printed = <<>> /\ errPrinted = <<>>

------------------------------------------------------------------------------
\* Mutated: a cooperative fail trusts cancel() and schedules no kill.
Fail_NoGrace(c, cooperative) ==
    /\ settled' = TRUE
    /\ promise' = "rejected"
    /\ code' = c
    /\ timer' = "cleared"
    /\ \/ cooperative /\ asked' = TRUE /\ UNCHANGED <<grace, killed>>
       \/ killed' = TRUE /\ UNCHANGED <<grace, asked>>

\* fail(error, cooperative).  An adapter may have no cancel(), or a cancel()
\* that throws and is followed by kill(): the environment chooses.
Fail(c, cooperative) ==
    /\ settled' = TRUE
    /\ promise' = "rejected"
    /\ code' = c
    /\ timer' = "cleared"
    /\ \/ /\ cooperative
          /\ grace' = "armed"
          /\ \/ asked' = TRUE /\ UNCHANGED killed
             \/ killed' = TRUE /\ UNCHANGED asked
       \/ /\ killed' = TRUE
          /\ UNCHANGED <<grace, asked>>

Succeed == /\ settled' = TRUE
           /\ promise' = "resolved"
           /\ timer' = "cleared"
           /\ UNCHANGED <<code, grace, killed, asked>>

\* Mutated: the bytes after the last newline are not looked at.
Complete_IgnoreTail(exit, outEnded, errEnded) ==
    IF exit = "none" \/ ~outEnded \/ ~errEnded THEN UNCHANGED control
    ELSE IF exit # "zero" THEN Fail("WORKER_EXECUTION_ERROR", FALSE)
    ELSE IF ~stdout.response THEN Fail("IPC_PROTOCOL_ERROR", FALSE)
    ELSE Succeed

\* completeWhenDrained(), on the exit code and EOF flags its caller leaves.
Complete(exit, outEnded, errEnded) ==
    IF exit = "none" \/ ~outEnded \/ ~errEnded THEN UNCHANGED control
    ELSE IF exit # "zero" THEN Fail("WORKER_EXECUTION_ERROR", FALSE)
    ELSE IF stdout.buf # <<>> \/ ~stdout.response THEN Fail("IPC_PROTOCOL_ERROR", FALSE)
    ELSE Succeed

------------------------------------------------------------------------------
\* The checks before the promise's executor, in their order.
Refusal == CASE request = "relativeCwd" -> "Error"
             [] request = "oversized"   -> "IPC_PROTOCOL_ERROR"
             [] request = "expired"     -> "WORKER_TIMEOUT"
             [] request = "malformed"   -> "IPC_PROTOCOL_ERROR"
             [] OTHER                   -> "none"

RefuseRun == /\ promise = "idle"
             /\ Refusal # "none"
             /\ promise' = "rejected"
             /\ code' = Refusal
             /\ UNCHANGED <<caller, reader, worker, settled, timer, grace, killed, asked, listening>>

LaunchFails == /\ promise = "idle"
               /\ Refusal = "none"
               /\ promise' = "rejected"
               /\ code' = "WORKER_EXECUTION_ERROR"
               /\ UNCHANGED <<caller, reader, worker, settled, timer, grace, killed, asked, listening>>

\* Launched for a caller that has already aborted: given up before the
\* listeners exist and before anything is written to the worker.
RunAborted == /\ promise = "idle"
              /\ Refusal = "none"
              /\ signalled
              /\ proc' = "alive"
              /\ Fail("CANCELLED", TRUE)
              /\ UNCHANGED <<caller, reader, listening, sent, closed, pipe, status, printed, errPrinted>>

\* Launched, the timer set, the listeners registered, the request written; or
\* the write throws.
Run == /\ promise = "idle"
       /\ Refusal = "none"
       /\ ~signalled
       /\ proc' = "alive"
       /\ listening' = TRUE
       /\ \/ /\ sent' = TRUE
             /\ promise' = "pending"
             /\ timer' = "armed"
             /\ UNCHANGED <<code, settled, grace, killed, asked>>
          \/ Fail("WORKER_EXECUTION_ERROR", FALSE) /\ UNCHANGED sent
       /\ UNCHANGED <<caller, reader, closed, pipe, status, printed, errPrinted>>

\* The caller aborts; once run() listens, that is cancel().
Abort == /\ ~signalled
         /\ signalled' = TRUE
         /\ IF listening /\ ~settled THEN Fail("CANCELLED", TRUE) ELSE UNCHANGED control
         /\ UNCHANGED <<request, reader, worker, listening>>

Timeout == /\ timer = "armed"
           /\ ~settled
           /\ Fail("WORKER_TIMEOUT", TRUE)
           /\ UNCHANGED <<caller, reader, worker, listening>>

GraceEnds == /\ grace = "armed"
             /\ grace' = "fired"
             /\ killed' = TRUE
             /\ UNCHANGED <<caller, reader, worker, listening, promise, code, settled, timer, asked>>

------------------------------------------------------------------------------
\* Mutated: every chunk is taken for whole lines.
Judge_WholeLinesOnly(line) == IF Len(line) = 1 /\ line[1] # "tail" THEN line[1] ELSE "bad"

\* A line the frame reader cuts off, judged as validateIpcResponse and the
\* protocol session do: what it is, or "bad".
Judge(line) == IF Len(line) > FrameLimit THEN "bad"
               ELSE IF line = <<"head", "tail">> THEN "answer"
               ELSE IF Len(line) = 1 /\ line[1] # "tail" THEN line[1]
               ELSE "bad"

\* One unit into the reader r, whose verdict says how the handler ended.  The
\* evidence of a run is that of its one accepted answer.
ReadUnit(r, unit) ==
    LET line  == Append(r.buf, unit)
        frame == Judge(line)
    IN  IF r.verdict # "none" THEN r
        ELSE IF unit \notin Lines THEN [r EXCEPT !.buf = line]
        ELSE IF frame = "bad" \/ r.seen
             THEN [r EXCEPT !.verdict = "IPC_PROTOCOL_ERROR"]
        ELSE IF frame = "cancelled" THEN [r EXCEPT !.buf = <<>>, !.seen = TRUE, !.verdict = "CANCELLED"]
        ELSE [r EXCEPT !.buf = <<>>, !.seen = TRUE, !.response = TRUE]

\* The whole onStdout handler on one chunk: the total, the lines it ends, the
\* length of what is left.
ReadChunk(chunk) ==
    LET start == [buf |-> stdout.buf, seen |-> stdout.seen, response |-> stdout.response,
                  bytes |-> stdout.bytes + Len(chunk), verdict |-> "none"]
        read  == FoldLeft(ReadUnit, start, chunk)
    IN  IF 1 + start.bytes > TotalLimit THEN [start EXCEPT !.verdict = "IPC_PROTOCOL_ERROR"]
        ELSE IF read.verdict = "none" /\ Len(read.buf) > FrameLimit
             THEN [read EXCEPT !.verdict = "IPC_PROTOCOL_ERROR"]
        ELSE read

Kept(r) == [buf |-> r.buf, seen |-> r.seen, response |-> r.response, bytes |-> r.bytes]

\* A chunk is 1 to ChunkBound of the units waiting in the pipe.
OnStdout == \E n \in 1..Len(pipe) :
    LET read == ReadChunk(SubSeq(pipe, 1, n))
    IN  /\ listening /\ ~settled /\ n <= ChunkBound
        /\ pipe' = SubSeq(pipe, n + 1, Len(pipe))
        /\ stdout' = Kept(read)
        /\ IF read.verdict = "none" THEN UNCHANGED control
           ELSE Fail(read.verdict, read.verdict = "CANCELLED")
        /\ UNCHANGED <<caller, listening, stderrBytes, stderrOpen, exitCode, stdoutEnded,
                       stderrEnded, sent, proc, closed, status, printed, errPrinted>>

\* A unit may be no continuation of what the decoder holds, or go over the limit.
OnStderr == /\ listening /\ ~settled /\ stderrBytes < Len(errPrinted)
            /\ LET unit == errPrinted[stderrBytes + 1]
               IN  /\ stderrBytes' = stderrBytes + 1
                   /\ stderrOpen' = (unit = "lead")
                   /\ IF stderrOpen # (unit = "rest") \/ stderrBytes' > StderrLimit
                      THEN Fail("IPC_PROTOCOL_ERROR", FALSE)
                      ELSE UNCHANGED control
            /\ UNCHANGED <<caller, worker, listening, stdout, exitCode, stdoutEnded, stderrEnded>>

\* EOF of a pipe follows its last byte; the exit may come before or after
\* either EOF.  An output cut short may be cut inside a character, which the
\* decoder's final call refuses at once.
OnStdoutEof == /\ listening /\ closed /\ pipe = <<>> /\ ~stdoutEnded /\ ~settled
               /\ \/ /\ stdout.buf # <<>>
                     /\ Fail("IPC_PROTOCOL_ERROR", FALSE)
                     /\ UNCHANGED stdoutEnded
                  \/ /\ Len(stdout.buf) <= FrameLimit
                     /\ stdoutEnded' = TRUE
                     /\ Complete(exitCode, TRUE, stderrEnded)
               /\ UNCHANGED <<caller, worker, listening, stdout, stderrBytes, stderrOpen, exitCode,
                               stderrEnded>>

\* The same of stderr, whose decoder may be left with half a character.
OnStderrEof == /\ listening /\ closed /\ stderrBytes = Len(errPrinted) /\ ~stderrEnded /\ ~settled
               /\ \/ /\ stderrOpen
                     /\ Fail("IPC_PROTOCOL_ERROR", FALSE)
                     /\ UNCHANGED stderrEnded
                  \/ /\ ~stderrOpen
                     /\ stderrEnded' = TRUE
                     /\ Complete(exitCode, stdoutEnded, TRUE)
               /\ UNCHANGED <<caller, worker, listening, stdout, stderrBytes, stderrOpen, exitCode,
                               stdoutEnded>>

\* Mutated: the exit, not the settlement, clears the deadline timer.
OnExit_ClearsTimer ==
    /\ listening /\ proc = "exited" /\ exitCode = "none" /\ ~settled
    /\ exitCode' = status
    /\ IF stdoutEnded /\ stderrEnded THEN Complete(status, TRUE, TRUE)
       ELSE timer' = "cleared" /\ UNCHANGED <<promise, code, settled, grace, killed, asked>>
    /\ UNCHANGED <<caller, worker, listening, stdout, stderrBytes, stderrOpen, stdoutEnded,
                   stderrEnded>>

OnExit == /\ listening /\ proc = "exited" /\ exitCode = "none" /\ ~settled
          /\ exitCode' = status
          /\ Complete(status, stdoutEnded, stderrEnded)
          /\ UNCHANGED <<caller, worker, listening, stdout, stderrBytes, stderrOpen, stdoutEnded,
                   stderrEnded>>

------------------------------------------------------------------------------
\* The worker, which may print anything, ignore a cancel, and exit at any time
\* with any status ("other" stands for a nonzero code and for the null of a
\* killed process).  What it prints after its run has settled is left out, as
\* is every output event from then on: the handlers return at once.
WriteOut(unit) == /\ proc = "alive" /\ ~closed /\ ~settled
                  /\ Len(printed) < WriteBound
                  /\ printed' = Append(printed, unit)
                  /\ pipe' = Append(pipe, unit)
                  /\ UNCHANGED <<caller, reader, control, listening, sent, proc, closed, status, errPrinted>>

WriteErr(unit) == /\ proc = "alive" /\ ~closed /\ ~settled
                  /\ Len(errPrinted) <= StderrLimit
                  /\ errPrinted' = Append(errPrinted, unit)
                  /\ UNCHANGED <<caller, reader, control, listening, sent, proc, closed, pipe, status, printed>>

CloseOutputs == /\ proc = "alive" /\ ~closed /\ ~settled
                /\ closed' = TRUE
                /\ UNCHANGED <<caller, reader, control, listening, sent, proc, pipe, status,
                               printed, errPrinted>>

Exit(s) == /\ proc = "alive"
           /\ proc' = "exited"
           /\ closed' = TRUE
           /\ status' = s
           /\ UNCHANGED <<caller, reader, control, listening, sent, pipe, printed, errPrinted>>

Statuses == {"zero", "other"}

Next == \/ RefuseRun \/ LaunchFails \/ RunAborted \/ Run \/ Abort \/ Timeout \/ GraceEnds
        \/ OnStdout \/ OnStderr \/ OnStdoutEof \/ OnStderrEof \/ OnExit
        \/ \E unit \in Units : WriteOut(unit)
        \/ \E unit \in ErrUnits : WriteErr(unit)
        \/ CloseOutputs
        \/ \E s \in Statuses : Exit(s)

\* Node's timers fire, and a process that was killed ends; nothing is assumed
\* of a worker that was only asked to stop, nor of one that was left alone.
Fairness == /\ WF_vars(RefuseRun \/ LaunchFails \/ RunAborted \/ Run)
            /\ WF_vars(Timeout)
            /\ WF_vars(GraceEnds)
            /\ WF_vars(killed /\ \E s \in Statuses : Exit(s))

SafetySpec == Init /\ [][Next]_vars
Spec == SafetySpec /\ Fairness

------------------------------------------------------------------------------
\* The types, and the buffer bound: an unsettled run holds at most one frame.
TypeOK == /\ request \in Requests /\ signalled \in BOOLEAN
          /\ promise \in {"idle", "pending", "resolved", "rejected"} /\ code \in Codes
          /\ settled \in BOOLEAN /\ listening \in BOOLEAN
          /\ timer \in {"none", "armed", "cleared"} /\ grace \in {"none", "armed", "fired"}
          /\ stdout \in [buf : Seq(Units), seen : BOOLEAN, response : BOOLEAN, bytes : Nat]
          /\ stderrBytes \in Nat /\ stderrOpen \in BOOLEAN /\ errPrinted \in Seq(ErrUnits)
          /\ {exitCode, status} \subseteq Statuses \cup {"none"}
          /\ stdoutEnded \in BOOLEAN /\ stderrEnded \in BOOLEAN
          /\ sent \in BOOLEAN /\ proc \in {"none", "alive", "exited"} /\ killed \in BOOLEAN /\ asked \in BOOLEAN
          /\ closed \in BOOLEAN /\ pipe \in Seq(Units) /\ printed \in Seq(Units)
          /\ settled \/ Len(stdout.buf) <= FrameLimit

OneAnswer == {<<"answer">>, <<"head", "tail">>}

\* The first n units are text, the last character of which may be cut off.
BeginsText(s, n) == /\ n > 0 => s[1] # "rest"
                    /\ \A i \in 1..(n - 1) : s[i] = "lead" <=> s[i + 1] = "rest"
WholeText(s, n)  == BeginsText(s, n) /\ (n > 0 => s[n] # "lead")

\* A run resolves only on the whole output of a worker that ended well: what
\* it printed from first byte to last is one answer, beside it whole characters
\* within the limit, however all this was cut into chunks and whatever the
\* order of its exit and of the two EOFs.
ResolvedMeansComplete ==
    promise = "resolved" =>
        /\ printed \in OneAnswer /\ pipe = <<>>
        /\ proc = "exited" /\ status = "zero"
        /\ stderrBytes = Len(errPrinted) /\ stderrBytes <= StderrLimit
        /\ WholeText(errPrinted, stderrBytes)

\* A rejection blames what really happened: a worker is accused of breaking
\* the protocol only when its output, as far as it was read, could not become
\* one answer, when its stderr went over its limit, is no text or stops inside a
\* character, or when the request was at fault.
Unread  == Len(pipe)
Read    == SubSeq(printed, 1, Len(printed) - Unread)
ErrRead == closed /\ stderrBytes = Len(errPrinted)
BlameIsTrue ==
    promise = "rejected" =>
        CASE code = "IPC_PROTOCOL_ERROR" ->
                 \/ request \in {"oversized", "malformed"}
                 \/ stderrBytes > StderrLimit
                 \/ ~BeginsText(errPrinted, stderrBytes)
                 \/ ErrRead /\ ~WholeText(errPrinted, stderrBytes)
                 \/ 1 + Len(Read) > TotalLimit
                 \/ Read \notin OneAnswer \cup {<<>>, <<"head">>}
                 \/ closed /\ pipe = <<>> /\ Read \notin OneAnswer
          [] code = "CANCELLED" -> signalled \/ "cancelled" \in {printed[i] : i \in 1..Len(printed)}
          [] code = "WORKER_EXECUTION_ERROR" ->
                 proc = "none" \/ ~sent \/ status = "other"
          [] OTHER -> TRUE

\* No failure path leaves a live worker behind without a kill sent or timed, and
\* nothing is sent to a worker, or left ticking, after its run resolved: whatever
\* order the timers, the caller's abort and the worker's events came in.
NoOrphanWorker == promise = "rejected" /\ proc = "alive" => killed \/ grace = "armed"

QuietAfterSuccess ==
    promise = "resolved" => ~killed /\ ~asked /\ grace = "none" /\ timer = "cleared"
NothingLeftBehind == NoOrphanWorker /\ QuietAfterSuccess

Lease == INSTANCE WorkerLease
           WITH result <- promise,
                life   <- CASE proc = "none" -> "none" [] proc = "alive" -> "alive"
                            [] OTHER -> "dead",
                doomed <- killed \/ grace # "none"
\* The run keeps the lease, its fairness included: a pending run is settled, by
\* its deadline if by nothing else, and a worker given up ends even if it prints
\* nothing and ignores its cancel().
ImplementsLease == Lease!LeaseSpec

==============================================================================
