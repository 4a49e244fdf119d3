---------------------------- MODULE ProductLaunch ----------------------------
(* One start of the product: tools/product-launcher/src/main.rs on one side,   *)
(* apps/server/src/main.ts (with launcher-auth.ts and listenLocalApp) on the   *)
(* other, joined by the server's stdin and stdout, a port number and the       *)
(* address given to the browser.  What the page then does with the server is   *)
(* module LauncherAuth.                                                        *)
EXTENDS Naturals

CONSTANTS ReadyLines,   \* what a listening server may write: "READY", the line of
                        \* main.ts, or "READY token", the line main.rs waits for
          FragmentKeys  \* the name before the token in the address: "bootstrap",
                        \* that of bootstrap_url, or "token", that of workflow.ts

ASSUME LaunchAssumption == /\ ReadyLines \subseteq {"READY", "READY token"}
                           /\ FragmentKeys \subseteq {"bootstrap", "token"}

VARIABLES launcher,  \* where run() is
          reason,    \* why it failed
          child,     \* the server process: where its main() is
          doomed,    \* terminate_tree has been called on it
          stdin,     \* the server's stdin: open, written, or ended with or without the token
          line,      \* the first line on its stdout
          port,      \* who listens on the chosen port
          bound,     \* history: the server has listened on it
          tab,       \* the browser's page
          address    \* the key in that page's address

launchVars == <<launcher, reason, child, doomed, stdin, line, port, bound, tab, address>>

Running == {"preparing", "spawning", "writing", "awaiting", "opening", "waiting"}
Up      == {"reading", "binding", "serving"}

LaunchInit == /\ launcher = "preparing"
              /\ reason = "none"
              /\ child = "none"
              /\ doomed = FALSE
              /\ stdin = "open"
              /\ line = "none"
              /\ port \in {"free", "other"}
              /\ bound = FALSE
              /\ tab = "none"
              /\ address = "none"

serverSide  == <<child, line, port, bound>>
browserSide == <<tab, address>>

------------------------------------------------------------------------------
(* The launcher. *)

\* Mutated: an error return leaves the child alone.
Fail_NoDrop(why) == /\ launcher' = "failed"
                    /\ reason' = why
                    /\ UNCHANGED doomed

\* An error return: dropping the ManagedChild terminates a child that has been
\* spawned and not waited for.
Fail(why) == /\ launcher' = "failed"
             /\ reason' = why
             /\ doomed' = (child \in Up)

\* Paths, port and token.  The port was free when its probe was dropped.
Prepare == /\ launcher = "preparing"
           /\ \/ Fail("setup")
              \/ /\ port = "free"
                 /\ launcher' = "spawning"
                 /\ UNCHANGED <<reason, doomed>>
           /\ UNCHANGED <<stdin, serverSide, browserSide>>

Spawn == /\ launcher = "spawning"
         /\ \/ Fail("setup") /\ UNCHANGED child
            \/ /\ child' = "reading"
               /\ launcher' = "writing"
               /\ UNCHANGED <<reason, doomed>>
         /\ UNCHANGED <<stdin, line, port, bound, browserSide>>

\* The token is written and stdin dropped; the write fails on a dead child.
WriteToken == /\ launcher = "writing"
              /\ IF child \in Up
                 THEN launcher' = "awaiting" /\ stdin' = "token" /\ UNCHANGED <<reason, doomed>>
                 ELSE Fail("pipe") /\ stdin' = "nothing"
              /\ UNCHANGED <<serverSide, browserSide>>

\* await_ready: a first line, or the end of stdout, against the expected line.
ReadLine == /\ launcher = "awaiting"
            /\ line # "none"
            /\ IF line = "READY token"
               THEN launcher' = "opening" /\ UNCHANGED <<reason, doomed>>
               ELSE Fail(IF line = "end" THEN "ended" ELSE "invalid")
            /\ UNCHANGED <<stdin, serverSide, browserSide>>

\* Mutated: the line is waited for without a limit.
ReadyTimeout_Never == FALSE /\ UNCHANGED launchVars

ReadyTimeout == /\ launcher = "awaiting"
                /\ Fail("timeout")
                /\ UNCHANGED <<stdin, serverSide, browserSide>>

OpenBrowser == /\ launcher = "opening"
               /\ \/ Fail("browser") /\ UNCHANGED browserSide
                  \/ /\ launcher' = "waiting"
                     /\ tab' = "opened"
                     /\ address' \in FragmentKeys
                     /\ UNCHANGED <<reason, doomed>>
               /\ UNCHANGED <<stdin, serverSide>>

\* ManagedChild.wait returns: the child is gone, with a good exit code or not.
Waited == /\ launcher = "waiting"
          /\ child = "ended"
          /\ launcher' \in {"done", "failed"}
          /\ reason' = IF launcher' = "failed" THEN "exit" ELSE reason
          /\ UNCHANGED <<doomed, stdin, serverSide, browserSide>>

\* The launcher itself is killed: nothing is dropped, its end of stdin closes.
Kill == /\ launcher \in Running
        /\ launcher' = "killed"
        /\ stdin' = IF stdin = "open" THEN "nothing" ELSE stdin
        /\ UNCHANGED <<reason, doomed, serverSide, browserSide>>

------------------------------------------------------------------------------
(* The server. *)

End == /\ child' = "ended"
       /\ line' = IF line = "none" THEN "end" ELSE line
       /\ port' = IF port = "server" THEN "free" ELSE port

\* readLauncherBootstrapToken: at the end of stdin, or its own 60 second limit.
ReadToken == /\ child = "reading"
             /\ \/ stdin = "token" /\ child' = "binding" /\ UNCHANGED <<line, port>>
                \/ stdin = "nothing" /\ End
                \/ End
             /\ UNCHANGED <<launcher, reason, doomed, stdin, bound, browserSide>>

\* listenLocalApp: somebody may have taken the port since the launcher chose it.
Bind == /\ child = "binding"
        /\ IF port = "free"
           THEN child' = "serving" /\ port' = "server" /\ bound' = TRUE /\ UNCHANGED line
           ELSE End /\ UNCHANGED bound
        /\ UNCHANGED <<launcher, reason, doomed, stdin, browserSide>>

\* Mutated: readiness is announced before listen has succeeded.
Announce_Early == /\ child \in {"binding", "serving"}
                  /\ line = "none"
                  /\ line' \in ReadyLines
                  /\ UNCHANGED <<launcher, reason, child, doomed, stdin, port, bound, browserSide>>

Announce == /\ child = "serving"
            /\ line = "none"
            /\ line' \in ReadyLines
            /\ UNCHANGED <<launcher, reason, child, doomed, stdin, port, bound, browserSide>>

\* The server process dies: by itself, or because it was terminated.
ServerDies == /\ child \in Up
              /\ End
              /\ UNCHANGED <<launcher, reason, doomed, stdin, bound, browserSide>>

------------------------------------------------------------------------------
(* Around them. *)

\* Some other program takes the port, or gives it back.
OtherProgram == /\ port' \in CASE port = "free" -> {"other"} [] port = "other" -> {"free"} [] OTHER -> {}
                /\ UNCHANGED <<launcher, reason, child, doomed, stdin, line, bound, browserSide>>

\* bootstrapFromFragment: only the key "token" is looked for; its exchange,
\* whatever comes of it, ends with the fragment removed.
LoadPage == /\ tab = "opened"
            /\ IF address = "token"
               THEN tab' = "exchanged" /\ address' = "none"
               ELSE tab' = "rendered" /\ UNCHANGED address
            /\ UNCHANGED <<launcher, reason, doomed, stdin, serverSide>>

LaunchNext == \/ Prepare \/ Spawn \/ WriteToken \/ ReadLine \/ ReadyTimeout \/ OpenBrowser \/ Waited \/ Kill
              \/ ReadToken \/ Bind \/ Announce \/ ServerDies
              \/ OtherProgram \/ LoadPage

\* The launcher runs, its 15 second limit passes, and a terminated process
\* ends.  Nothing is assumed of a server that is left alone.
LaunchFairness == /\ WF_launchVars(Prepare) /\ WF_launchVars(Spawn) /\ WF_launchVars(WriteToken)
                  /\ WF_launchVars(ReadLine) /\ WF_launchVars(ReadyTimeout)
                  /\ WF_launchVars(OpenBrowser) /\ WF_launchVars(Waited)
                  /\ WF_launchVars(doomed /\ ServerDies)

LaunchSpec == LaunchInit /\ [][LaunchNext]_launchVars /\ LaunchFairness

------------------------------------------------------------------------------
LaunchTypeOK == /\ launcher \in Running \cup {"done", "failed", "killed"}
                /\ reason \in {"none", "setup", "pipe", "ended", "invalid", "timeout", "browser", "exit"}
                /\ child \in {"none", "ended"} \cup Up
                /\ doomed \in BOOLEAN /\ bound \in BOOLEAN
                /\ stdin \in {"open", "token", "nothing"}
                /\ line \in {"none", "end"} \cup ReadyLines
                /\ port \in {"free", "other", "server"}
                /\ port = "server" <=> child = "serving"
                /\ tab \in {"none", "opened", "exchanged", "rendered"}
                /\ address \in {"none"} \cup FragmentKeys

\* The browser is only ever sent, token in hand, to a port this launch's own
\* server has listened on, although the port was up for grabs in between.
BrowserGoesToOurServer == tab # "none" => bound

\* "On launcher exit before normal server completion, it terminates the server":
\* whichever step failed, no server outlives the launcher's own exit.
ServerEndsWithLauncher == launcher \in {"failed", "done"} ~> child \in {"none", "ended"}

\* A launch does not hang before its browser is open, whatever the server does.
LaunchSettles == launcher = "preparing" ~> launcher \in {"waiting", "done", "failed", "killed"}

\* The README of product-launcher: Node "must write exactly `READY <same-token>\n`".
\* So a server that listens and says so is never taken for a broken one.
ListeningServerIsAccepted == reason # "invalid"

==============================================================================
