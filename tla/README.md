# Specifications of the Excel/Access grader

TLA+ models of the program in this repository, the TLC configurations that check
them, and machine-checked proofs that every safety property they check holds for
every size. Every definition is a translation of source code; `PROJECT.json` maps
each to its lines, lists the hazards of the code at the line where each bites, the
runs, the mutated definitions that show each property can fail, the findings and the
theorems.

    tlc -workers 2 -config MCJobCoordinator.cfg MCJobCoordinator     # a run
    tlapm JobCoordinator_proofs.tla                                  # its proofs

## 1. The system

The product grades Excel and Access exercises on the user's own Windows machine.
A **product launcher** (Rust) starts a bundled Node **server** on a loopback port
and opens the **web client** in the browser with a one-time token. The client
uploads an artifact, which **intake** copies into a read-only store and the
**registry** names; the user allocates points to a draft of checks; grading runs
an untrusted **office inspector** (Java) inside a **job launcher** (Rust, a
Windows job object), with the artifact copied into a **private workspace**. The
**coordinator** lets one such job run at a time, the **spawner** talks JSON lines
with the worker, the **grader** turns evidence into points.

At this commit the parts exist but are not all joined: the server answers only
`/health` and `/bootstrap` (every other path is 404, `app.ts:67-68`), nothing in
`src/` calls the registry, the coordinator or the spawner outside the tests, and the
inspector's `Main` answers every request with "unsupported". Compositions below
therefore use each class the way its signature and tests are made for, and say so.

| Component | State it keeps | Operations | What makes it correct |
|---|---|---|---|
| Coordinator `job-coordinator.ts` | queue, active count, a promise chain per job | enqueue, drain, three microtasks, abort forwarding | one job at a time in order, no lost wake-up, bounded queue, every admitted job answered, aborts reach the job |
| Spawner `worker-spawn.ts`, `ipc.ts` | per run: settled flag, frame buffer and counters, EOF/exit flags, deadline and grace timers | run, stdout/stderr/EOF/exit handlers, fail, succeed, cancel | resolves only on a whole answer of a worker that ended well; blames truly; leaves no worker and no timer behind |
| Workspace `job-workspace.ts` | reservation per scratch root (in memory), job directories (on disk) | materialize, clean up, restart | scratch cap, exact reservation, whole inputs |
| Authentication `launcher-auth.ts`, `app.ts`, web `api.ts`, `workflow.ts` | used flag, expiry, sessions; per page: token, address; the browser's cookie | exchange, csrf gate, bootstrap, reload | one session per launch, nothing passes before it, the secret leaves the address |
| Start-up `product-launcher/main.rs`, server `main.ts` | child process, port, pipes | run, wait, drop; read token, listen, announce | browser only sent to the launch's own server, nothing left running |
| Intake `intake.ts`, registry `artifact-registry.ts` | store directory (on disk), map of artifacts, reserved bytes | intake, register, materialize, clean up, restart | what is stored is one version of the source, what a job gets is what was uploaded, exact capacity |
| Job launcher `win-job-launcher/main.rs`, inspector `Main.java`, `Protocol.java` | process, job object, time-out; ids and bytes of the session | start, wait, time-out; read a frame, answer | no process outside the job or after the helper, an honest status, answers in order |
| Web session `main.ts`, `workflow.ts` | artifact, draft, the page's fields and result | upload, edit, save, grade, and their failures | drafts and results belong to the artifact they were made for, what is shown is what is held |
| Grader `grade.ts`, `extract.ts`, `normalization.ts`; domain `scoring.ts`, `results.ts` | none (pure) | save check, grade, wire check | summary agrees with problems, scope and rounding |
| Candidates `draft.ts`; query closure `closure-classifier.mjs`, `ClosureClassifier.java`; compound file reader in `intake.ts` | the marks and counters of one call | emission, classification, chain walk | caps and their diagnostics, soundness of a walk with two kinds of marks, chains without loops |
| Office extraction, gate probes, support matrix, scripts | none | | see section 7 |

Hard behaviour: microtask windows in the coordinator; exit, EOF, data, time-out and
abort racing in a run; a worker outliving its rejected promise; awaits between the
scan, the check and the update of the scratch reservation; lost answers and
reloads around a token that works once; a port that is free only for a moment; an
agreement between three programs on one line of text; a source that changes while it
is copied and a stored file that rots before it is used; a helper that is killed
between the calls that start, confine and resume a process; handlers of one page that
overlap.

## 2. The modules

| Module | Role |
|---|---|
| `SerialService` | abstract: a room of bounded capacity, served one at a time in order |
| `JobCoordinator` | `job-coordinator.ts`; shown to implement `SerialService` |
| `WorkerLease` | abstract: what one worker run promises its caller |
| `WorkerSpawn` | `WorkerSpawner.run`; shown to implement `WorkerLease` |
| `WorkerPool` | `JobCoordinator` composed with one `WorkerLease` per job; shown to implement `JobCoordinator` |
| `JobWorkspace` | `job-workspace.ts` with a disk and restarts |
| `ArtifactStore` | `intake.ts` and `artifact-registry.ts`, composed with `JobWorkspace` |
| `WorkerProcess` | the Windows job launcher around the inspector's protocol loop |
| `LauncherAuth` | `launcher-auth.ts` and `app.ts` against the page side and a browser |
| `ProductLaunch` | `product-launcher/src/main.rs` against the server's `main.ts` |
| `WebSession` | the handlers of web `main.ts` against a server that answers, fails or is silent |
| `Grading` | `grade.ts` and the domain functions it uses |
| `DraftCandidates` | `draft.ts`: the two emission loops under caps, and what the caps mean |
| `ClosureClassifier` | the walk over queries, and the graph it should agree with |
| `CompoundFile` | the reader of a compound file's sector chains, and what a chain is |
| `MC*` | one per checked specification, with its `.cfg` files; `MCFunctions` for the last three |
| `JobCoordinator_proofs`, `WorkerSpawn_proofs`, `WorkerPool_proofs` | theorems about the module each is named for |
| `ArtifactStore_proofs` | those about `ArtifactStore`, `JobWorkspace` and `CompoundFile` |
| `Inspector_proofs` | those about `WorkerProcess` and `ClosureClassifier` |
| `LocalApp_proofs` | those about `LauncherAuth`, `ProductLaunch` and `WebSession` |
| `Domain_proofs` | those about `Grading` and `DraftCandidates` |
| `SumLemmas` | sums over finite sets, and the library facts the proofs share |

A definition named `X_Something` beside `X` is a mutated form of `X`: the bug that
the property named in `PROJECT.json` must catch. No specification uses it.

**One action is one turn.** JavaScript runs a turn to its end, so an action is
everything between two awaits (or a whole handler), never less. Where the code
awaits, the action ends and others may come between.

* `JobCoordinator`: `Enqueue` is the call with the `#drain` it makes. The promise
  chain of line 57 has three later turns: `Start` (execute is called), `Finish` (its
  promise and the caller's settle), `Release` (`finally`: slot back, drain). `phase`
  records where each job is in its chain. Aborts are two sets: callers' signals and
  the controllers the jobs see.
* `WorkerSpawn`: one action per handler. `Fail`, `Succeed`, `Complete` are the
  closures of the same names. Bytes are units: a whole line, or half of an answer, so
  that a frame can be split and a chunk can hold several; on stderr, whole characters or
  half of one, so that a chunk or the output may end inside a character (the decoder then
  holds it, `stderrOpen`). The worker is external: it prints any units on both, closes its
  outputs, exits with any status, or does nothing.
  The adapter's `cancel` may be missing, work, or throw.
* `WorkerPool`: replaces the details of a run by the lease. `Abort` is one turn
  because the listener chain signal, controller, `cancel` is synchronous.
* `JobWorkspace`: `pc` follows `materializePrivateJobInput` from await to await.
  Reading the reservation, comparing and writing it (lines 81 to 83) is one turn,
  `Admit`. `CheckDirectory` is outside both try blocks, as in the code. The copy grows
  byte by byte so that another call's scan can see half of it.
  `copyFile` has no bound of its own, so a copy may pass the size its call was admitted
  for, by up to `MaxGrowth`. Cleaning up may remove nothing, for the code ignores a
  failing `rm`.
* `ArtifactStore`: `place` follows `intakeArtifact`. A byte is the version of the
  source it was read from, and a file's hash is its sequence of bytes, so that a copy
  of mixed versions can be told from a copy of one. Any change of a source changes its
  stamps (mtime, ctime), which is what the code's snapshots rely on too. A stored file
  that rots is gone, keeps its length and not its bytes, or grows, before its size is
  looked at or after. `Materialize` is `Begin` of `JobWorkspace` for a registered handle,
  and every other step is the workspace's own with the copied byte added. A restart
  may come at any await; it forgets map and reservations and leaves the disk.
* `WorkerProcess`: the launcher is taken call by call, each call may fail, `TerminateProcess`
  included, whose result nobody looks at (`Abandon`), and the helper may be killed before or after any of them: its handles close, and the job with them.
  The process it starts is suspended until the last call, a member of the job from
  `Assign` on, and may start a child. A process that is to be killed may run a
  little longer. On the inspector's side one action is one frame: read, checked,
  charged, answered. A frame is an id, a length, whether it ends in LF and whether
  its fields are valid. The status is the exit code modulo 256, as in `main`.
* `WebSession`: an action is a handler up to its first await, or from one await to the
  next; the page redraws within it where the code does. The server's routes for
  uploads, drafts and grades are not in the repository, so `Serve` is external: it applies
  a request and answers, applies it and the answer is lost, or refuses. `upload` sets
  the artifact a whole request before its draft, as `main.ts:48-49` does. Two history
  variables name the circumstances the properties speak of: `calm`, that nothing
  overlapped since the last upload that went well, and `unsaved`. `calm`, and `late` of a
  grade still under way, set aside what section 4 reports of this page: the properties
  say where that failure ends, and would not notice it.
* `LauncherAuth`: a slot is an exchange in flight, `sent` then `answered`; either may
  be lost. Nothing is read before the await of the body, so `ReadBody` is one turn.
  Random values are named by the launch and the page they were made for: equality is
  all the code asks of them. Of answers only the session is kept. A page may reload
  at any time; its request goes on without it.
* `ProductLaunch`: `run()` statement by statement; `Fail` is an error return with the
  drop of `ManagedChild`. Two constants hold the two contracts between the programs,
  so that the sequence can be explored with both sides as they are or as the other
  side expects them.
* `Grading`: the functions are operators, and `Save` and `Grade` take one input
  through them. Points are integers up to `MaxSafe`; a sum beyond it throws. A value is
  an abstract member of `Values`; those in `PathLike` stand for values that redaction
  maps to one text (paths, data URLs, values under sensitive keys). `lacks` says what a
  check comes without, although its type has it: a known capability, a locator, an
  expected value. Saving asks for none of these, grading throws over each (`GradeThrows`).
* `DraftCandidates`, `ClosureClassifier`, `CompoundFile`: one call of a function, one action
  per turn of its loop, and the properties compare what it returns with a definition that
  does not loop: the candidates within the caps, the reasons reachable in the query graph,
  the existence of a chain. The sort of the candidates is the choice of the turn, `Turn`
  taking a first of those that are left; candidates whose keys are all equal may come in
  any order. `walk()` calls itself: `path` is the stack of its calls, each with the
  dependency whose turn it is, so that `visiting` is the queries on the path. Texts and
  identifiers are members of small sets; what a query's own text is refused for is one
  value, its `fault`; a compound file is its table, directory and stream starts.

## 3. The runs

| Run | Bounds | Shows |
|---|---|---|
| `coordinator` | 4 jobs, queue limit 2 | slot accounting, no lost wake-up, bounded queue, aborts, `SerialService` refined with its fairness: every admitted job is answered |
| `spawn` | 4 units in total, frame 2, stderr 1, chunks of 2 | complete results, true blame, no worker and no timer left behind, `WorkerLease` refined with its fairness: every run settles and every worker ends |
| `pool` | 3 jobs, queue limit 1 | one awaited worker, the rest doomed; `JobCoordinator!Spec` refined, so the coordinator's assumption that every job settles is discharged |
| `store` | 2 uploads, 2 job inputs one at a time, sources of 1 to 3 bytes, upload limit 2, store and scratch limit 3, 1 change per source, 1 file that rots or grows by 1 byte (`MaxGrowth`), 1 restart | one version stored, the job's input is the upload, no unexplained file in the store, exact counters, scratch cap but for the growth of one file |
| `workspace_overlap` | 3 inputs of size 1 or 2, limit 3, two at a time, no growth, no restart | violated: the scratch cap |
| `process` | 2 frames of 1 to 4 bytes, frame limit 3, session limit 8, exit codes 1 and 256 | the process tree stays in its job, success means answered, answers in order, the tree ends |
| `auth` | 2 launches, 2 tabs, 2 exchanges, token life 1 tick | one session per launch, gate, page stays let in, fragment gone, exchanges end |
| `launch` | one launch | right server, no server left behind, settles |
| `launch_ready` | one launch, contracts as written | violated: see section 4 |
| `web` | 2 uploads, 2 checks of 0 or 1 points, 5 clicks, 2 handlers at once | draft and result belong to their artifact, what is shown is held, and graded when nothing overlapped |
| `grading` | 2 problems, 2 checks, points 0, 1 and 31, `MaxSafe` 32, 3 values, a check that lacks something, 6 selections | wire contract, agreement of summary and problems, scope, rounding, saved rules can be graded |
| `functions` | one call of: emission for every subset of 10 workbook or 10 database candidates under caps of 1 to 4; the reader for tables of 2 or 3 sectors with any entries and up to 2 streams of up to 3 sectors; the classifier for 3 queries of up to 2 dependencies on queries, tables and others, 5 orders | the cut is the caps', in order; no candidate is dropped without being counted; a file is accepted exactly when directory and streams are chains; a query is supported only when all it reaches is, and refused for a true reason |

Why the bounds are enough to meet the interesting cases. *coordinator*: one running,
two waiting (with one waiting, first-come and last-come service are the same), one
refused or let in later. *spawn*: the total limit, the frame limit and the stderr
limit can each be exceeded on their own; an answer can come whole, in two halves, in
one chunk with a second answer, before or after the exit; a character of stderr can be
whole, split between two reads, cut off at the end, or no character. *store*: two artifacts may or
may not fit, a source may be too large, change before, during or after its copy with
or without its length, and a job meets what an earlier one or a restart left, the overgrown copy of a
file that grew included.
Overlapping jobs are `workspace_overlap`'s: the cap does not hold for them, and the other
properties of the store do not depend on it. *process*: the first answer always fits the
session, the second request or only its answer may not, and an id may repeat. *auth*:
two tabs race for one token, a tab of another launch overwrites the cookie, a token
expires before or after its use. *web*: five clicks are an upload, a save, a second
upload and whatever meets it. *grading*: every pair of checks in one problem or
two, exact and inexact allocations, sums that exceed `MaxSafe` in one problem or
only together, a tie in the percentage (1 of 32 points is 3.125 %), unknown and
repeated ids in a selection, duplicate evidence, a check without something that only
grading asks for. *functions*: candidates of
one source straddle the cap of the whole, and a sheet comes under two names before or
after a cap is met; queries repeat, share and cycle, below the root or through it; a chain
of 3 sectors may loop back to its start, its middle or itself, and a second stream may
run through the first.

`store`, `web` and `grading` use symmetry (uploads, job inputs, checks), which is sound there: they
check invariants only, and none depends on an order of these values.

Deadlock is not checked where the system may stop (all jobs answered, a run over, a
launch over, a grade or a verdict given, the bounded clicks spent); `auth` never stops and
checks it.

### Fairness

* `JobCoordinator`: weak fairness of the microtasks: the event loop runs what it
  holds. `Finish` is fair by assumption there; `WorkerPool` removes the assumption.
* `WorkerSpawn`: `run` is executed, the two timers fire, and a process that was killed
  ends. Nothing is assumed of a worker left alone or only asked to stop, nor of data,
  EOF and exit events: settlement rests on the deadline timer alone.
* `WorkerPool`: microtasks, and the fairness `WorkerLease` was shown to have.
* `LauncherAuth`: the server handles what it has received and answers travel, per
  request; a lost one counts as an end. Clock, pages and users owe nothing.
* `ProductLaunch`: the launcher takes its steps, its 15 second limit passes, and a
  process that was terminated ends. Nothing is assumed of a server left alone.
* `WorkerProcess`: the helper is scheduled, which includes that its two time-outs end, and
  a process that is being killed ends. The inspector, its child and the writer of its
  input owe nothing: the tree ends although none of them cooperates.
* `JobWorkspace`, `ArtifactStore`, `WebSession`, `Grading`, and the three function
  modules: none; safety only.

## 4. What was found

Two disagreements have a run that shows them:

1. **`workspace_overlap`**: overlapping calls can exceed the scratch limit. The scan
   (line 80) is stale when it is compared (82), and each call restores the reservation
   it saw (88, 105, 108) rather than giving back its own part.
2. **`launch_ready`**: the server announces `READY`, the launcher insists on
   `READY <token>`: every start ends in "invalid server readiness message".

Others follow from reading, and the models state what does hold beside them:

* The address carries `#bootstrap=`, the page looks for `token`: it renders
  unauthenticated and leaves the secret in the address.
* "At most one untrusted worker process is active" (`job-coordinator.ts:21`) does not
  hold of processes: a cancelled or timed-out run rejects at once, its process has a grace
  period, and the next worker starts meanwhile. `pool` checks what does: every live worker
  except the awaited one is killed or has its kill scheduled.
* Expected and observed values are compared after redaction (`normalization.ts:41`), so
  two different paths are equal and the check passes. `docs/NEXT_WORK.md` lists
  separating the two as open work.
* The launcher cuts a 32-bit exit code to 8 bits (`main.rs:260`): a worker that dies with
  256 is reported as a success. `SuccessMeansAnswered` excepts just that.
* A helper killed between `CreateProcessW` and the assignment leaves a suspended process
  for ever, and so does one whose `TerminateProcess` fails after another call has: its
  result is ignored (`main.rs:187`, `206`, `211`). It never ran; `TreeStaysInItsJob` excepts
  just that.
* `copyFile` (`job-workspace.ts:95`) has no bound: a stored file that grows after its size
  was checked (line 70, `artifact-registry.ts:77`) is copied whole before line 98 rejects
  it. The scratch directory then passes its cap even when calls come one at a time, and
  stays over it if the copy cannot be removed. `CapButForGrowth` excepts the excess of one
  such copy.
* Saving a draft looks at points only (`draft.ts:137-149`), grading also at the capability
  of every check, a disabled one too (`grade.ts:41`), at the locator of every enabled one
  (line 45), selected or not, and at a value to hash on both sides (`redactEvidence`). A saved
  draft without one of these cannot be graded; `SavedRulesCanBeGraded` lists them.
* Files left by a crash, by a refused registration or by a failed `close` or `unlink` stay in
  the store, uncounted (`DiskIsAccountedFor` lists them). Leftovers in the scratch directory
  are counted and never removed.
* When the draft of a new artifact cannot be loaded, or a save runs meanwhile, the page
  holds the old draft under the new artifact (`main.ts:48-49`) and can save it there; a grade
  of the earlier artifact that is answered late is shown under the new one.
  `DraftGoesToItsArtifact` and `ResultUnderItsArtifact` say when neither can happen, and do
  not catch it.
* A relationship candidate's source and the whole database share the label `database`, so
  two diagnostics of one emission may differ in nothing but their counts (`draft.ts`).
* The two closure classifiers differ: a dependency of kind `external` is
  `UNRESOLVED_REFERENCE` in the probe and `EXTERNAL_OR_LINKED_REFERENCE` in Java, and
  identifiers are compared under NFC in one and NFKC in the other.

## 5. The proofs

Where a run shows a property of one small instance, these theorems state it for every
value of the constants that the module's assumption allows. Each says what the code
guarantees or validates itself, or that a set is finite: queue limits 0 to 10
(`QueueLimitAssumption`, `PoolAssumption`), positive byte limits, exit codes that are
positive, finitely many uploads, calls, problems, checks and candidates (they are summed
over), and the shape of an input where the code has checked it or its type says so. Where
a theorem needs more, its statement says so: four of the store's take
`MaxInFlight = 1`, one of these also `MaxGrowth = 0`, and one of the run's takes `FrameLimit >= 2`.

| Module | Run properties proved | Also proved |
|---|---|---|
| `JobCoordinator_proofs` | `SlotAccounting`, `WorkConserving`, `QueueBounded`, `AbortReachesJob` | `TypeCorrect`, `RefinesSerialService` |
| `WorkerSpawn_proofs` | `ResolvedMeansComplete`, `BlameIsTrue`, `NothingLeftBehind` | `RunTypeCorrect`, `RunIsALease` |
| `WorkerPool_proofs` | `AtMostOneAwaitedWorker`, `AbortBeforeStartIsFinal` | `PoolImplementsCoordinator`, `RunsAreLeases` |
| `ArtifactStore_proofs` | `OneVersionStored`, `JobInputIsTheUpload`, `DiskIsAccountedFor`; `CapButForGrowth` and `CountersExact` one call at a time, `ScratchCap` if moreover no file grows; `ChainsAreReal` | `StoreTypeCorrect`, `RegistryNeverDrifts`, `StoreImplementsWorkspace`, `OneCallAtATime` |
| `Inspector_proofs` | `TreeStaysInItsJob`, `SuccessMeansAnswered`, `AnswersInOrder`; `ClosureIsSound` | `TypeCorrect` |
| `LocalApp_proofs` | `OneSessionPerLaunch`, `MutationsNeedTheExchange`, `ReadyPageStaysLetIn`, `FragmentIsGone`; `BrowserGoesToOurServer`; `DraftGoesToItsArtifact`, `ResultUnderItsArtifact`, `ShownHeldAndGraded` | `TypeCorrect`, `SessionTypeCorrect`, `FailedLaunchEndsItsServer` |
| `Domain_proofs` | `SavedRulesCanBeGraded`, `ScopeIsRespected`, `SummaryIsWireValid`, `FinalFiguresAreTrue`; `EmissionIsTheCut`, `NothingOmittedSilently` | |

Hardly any of these properties is inductive as it stands. For every module `IInv`
(`LaunchIInv`, `SessionIInv`, `ReadIInv`, `WalkIInv`, `EmitIInv`) is the strengthening
that is, one lemma or case per action shows that it is kept, and the theorems follow
from it. Type invariants are part of these and are proved, so no run checks them.

**Coordinator.** `SlotAccounting` says the slot count matches the phases, but a drain
claims the head of the *queue*: unless the queue is known to hold exactly the waiting
jobs, each once (`QueueExact`), a drain might claim a job that already holds the slot.
`WorkConserving` needs the count to be zero or one when a release drains. The refinement
needs to know that only the job at the head of the room can be answered, and only once
(`AnswerTracksPhase`). Two lemmas describe what a drain leaves, once for `Enqueue`, once
for `Release`. `RefinesSerialService` maps the state to a room, which is the holder of the
slot followed by the queue: `Enqueue` is `Admit`, `Refuse` is `TurnAway`, `Finish` is
`Answer`, `Release` is `Leave`, the rest stutters.

**Worker run.** What the spawner decides on is its reader's state; what the properties speak
of is what the worker printed. `Wire` joins them: the pipe holds the last units printed, and
`Frames` says what the reader knows of the others: halves of an answer only, or one whole
answer and what came after it. A chunk holds any number of units, so a read is a fold of `ReadUnit` over the
chunk; `ChunkIsRead` shows that the library's fold is that iteration, and `ChunkVerdict` that
what a chunk leaves is right for its whole length. `Control`, `Begun` and `Ends` tie
promise, timers, kill and the process to one another: without them a late event could settle
a settled run or leave a timer behind. `BlameIsTrue` is false when a frame cannot hold both
halves of an answer, which TLC confirms for `FrameLimit = 1`: there the code rightly refuses
an answer that the model calls whole, for the property tells answers by their units and not
by their length. Hence the hypothesis. `RunIsALease` shows each action to be one of
`WorkerLease`'s or a stutter.

**Pool.** The pool's coordinator is the coordinator: each step of it is a step of
`JobCoordinator` or none of its business (`PoolImplementsCoordinator`), so its invariant
holds here without a new proof, through an instance of `JobCoordinator_proofs`. `Runs` adds
what makes runs and jobs agree: a run is begun when its job starts, is not waited for once
aborted, and leaves a live worker only if it has seen to its end. `AtMostOneAwaitedWorker`
then is the coordinator's one slot.

**Store and workspace.** The key to `OneVersionStored` is that a source's description never comes
back: while source and snapshot still agree, every byte copied so far is of that version
(`Intake`). From publication on `Stored` carries the hash, so that rot is noticed, and `Input`
carries it to the copy a job is given; neither depends on how many jobs overlap. The two
sums do. `ScratchCap` is false of overlapping calls (`workspace_overlap`), so these theorems
assume that calls come one at a time, as the coordinator's single slot makes them: then what
the scan has counted and what it has yet to visit (`Pending`) cover what is on disk, and the
reservation is what the call holds plus what the check outside both try blocks has
stranded (`Serial`). It is also false of a file that grows while it is copied; what `Serial`
keeps is that the size the call was admitted for fits beside everything else on disk, so
that the excess of the one copy under way is all there is over the cap
(`OnlyGrowthOverflows`). If that copy is left behind, later scans count it whole and admit
nothing. Without growth nothing is left of the exception
(`ScratchNeverOverflows`). `StoreImplementsWorkspace` carries this from the workspace to
the store. `MaxInFlight = 1` is also the value of the `store` run.

**Launcher and inspector.** `Stage` says what the inspector and its job are at each call of
`run()`, `Tree` that whatever ever ran is in the job and is being killed once the launcher
has gone, or was suspended when a killed launcher or a failed `TerminateProcess` left it.
`Conversation` describes frames written, read and answered, `Honest` the exit
status. A helper that is killed between any two calls needs every case of `Stage`.

**Authentication.** `Under` is about requests on their way: at most one still names a page, which
waits for it at the address it was sent to, and an answer carries a session its launch
knows. Without it a second answer could reach a page that is already let in. `Held` says
whose token a page holds, `OneSession` what a launch has given out.

**Start-up.** The browser is opened on the port the launcher chose, which anybody may take
meanwhile. `Seen` follows what shows that the server has listened: it serves, so it has
written a line, so the launcher has read one. `FailedLaunchEndsItsServer` adds that a
launcher that ends or fails leaves no server that has not been told to end; that it then
ends is liveness.

**Web session.** Three things are tied together. `Numbered`: an upload makes a new
artifact, and nothing names one that was not made. `Lone` and `LoneLoad`: what `calm`
means of requests under way, that one is the only one, and what a load so made brings.
`Settled`: while no load is under way the page's draft is its artifact's, which is
`DraftGoesToItsArtifact`, and the server's unless edited or being saved, which is the
last part of `ShownHeldAndGraded`: an edit during a save must not count as saved when
the answer comes.

**Compound file.** `Walked`: the sectors followed so far are linked, none twice, and lead to
the one whose turn it is. Every chain from the same start then begins with them
(`WalkedIsPrefix`, by the first place where the two differ), so a sector met twice or out
of range is on no chain (`NoChainThere`), and where the links end the sectors are a chain
(`WalkEnds`), not longer than the file because it is an injection into its sectors.

**Query closure.** `Calls`: each call on the path was made for a dependency of the one below it,
so the query on top lies below every other, which makes a query met again on the path a
cycle. `Settled`: each query visited depends on visited ones, and on a closed part of
the graph without itself; such a part exists when it is marked, namely what was visited
before, and never changes. So a query the walk has accepted is not below itself,
although the walk itself only looks at the path.

**Emission.** `InOrder`: what the loop has looked at is exactly what comes earlier in the order
than the candidate whose turn it is. The counters are then cardinalities (`Counters`), and
`Yield` and `Shares` say which candidates were emitted: all that were allowed while the
whole had room, and none after; all of a source until its cap, and its cap from then
on. `HasRoom` is thereby membership in `WithinCaps`. The diagnostics' counts add up
because the sources divide the candidates (`TotalParts` again).

**Grading.** The state is one input and its result; the proofs are about sums. Checks of
different problems are different, a check has one of three outcomes, and the parts' sums
add up to the whole's (`TotalParts`). `Nearest` shows of integers that the code's division is
the nearest hundredth, ties up. `SavedRulesCanBeGraded` needs that a saved rule set passed
`AssertDraftAllocation` as it still stands, which leaves of the reasons of `GradeThrows` only
those that saving does not look at.

**Sums.** `MapThenSumSet` is defined by recursion over sets and the library's induction theorems
cannot be used here, so `SumLemmas` argues by smallest counterexample: of the subsets for
which a fact fails, take one of least cardinality, remove the element the sum's recursion
picks, and contradict. The fold over a chunk is treated the same way.

Model-checked only:

* All liveness (`ExchangeEnds`, `ServerEndsWithLauncher`, `LaunchSettles`, `TreeEnds`) and the
  liveness part of the refinements (`ImplementsService`, `ImplementsLease`,
  `ImplementsCoordinator`): the prover does not handle fairness.
* That the loops of the three function modules end is liveness too, and no run states
  it: what is checked and proved of them is about the verdicts they reach.

Every other property of a passing run is a theorem.

## 6. Plan

Done, in the order of importance: the coordinator and its proofs, the worker run, their
composition, the workspace, authentication, start-up, grading; then the store around the
workspace, the job launcher with the inspector, the web session, and the functions of
the domain, the classifier and the intake; then the proofs of section 5.

Next, once the repository holds what they need:

1. `WorkerSpawn` over `WorkerProcess` in place of its unconstrained worker: the adapter that
   joins them.
2. `WebSession` over the server's own routes in place of `Serve`, and these over
   `ArtifactStore` and `WorkerPool`.

## 7. Not modelled, and why

* Office extraction (`ExcelExtractor`, `JackcessCatalog`, `FormulaCanonicalizer`): parsing
  through third-party libraries, no state of its own, and not reached from `Main` yet.
* ZIP and Access header checks of `intake.ts`, and of a compound file the header fields and
  entry names: parsing of bytes; `Preflight` may reject any file.
* The tokenizer of the closure classifiers: one `fault` per query.
* The field-by-field validation of requests and responses (`ipc.ts`, `Protocol.java`): one bit
  or one verdict of a frame.
* `config.ts`: reads environment variables once, with defaults and ranges; the limits are
  CONSTANTS here.
* Reparse points and path containment: one outcome, "the check throws".
* Wall-clock arithmetic: timers may fire at any moment after they are set. An early or
  overflowing timer (`worker-spawn.ts:162`, beyond 2^31-1 ms) is not told from a due one.
* The wire form of redacted evidence (digest, preview caps), HTTP headers, rendering.
* `capabilities.ts`, `errors.ts`, the support matrix, gate probes, repository scripts and
  the CI configuration: tables and one-shot checks.
