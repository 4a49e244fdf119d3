---------------------------- MODULE LocalApp_proofs ----------------------------
(* The local application from its start to its page: one launch               *)
(* (ProductLaunch), the bootstraps of any number of launches and tabs         *)
(* (LauncherAuth), and the handlers of a page that was let in (WebSession).   *)
EXTENDS LauncherAuth, ProductLaunch, WebSession, FiniteSetTheorems, TLAPS

------------------------------------------------------------------------------
(* ProductLaunch. *)

\* What tells that the server has listened: it serves, or has written a line
\* that says so, or the launcher has seen that line, or the browser is open.
Seen == /\ child = "serving" => bound
        /\ line \notin {"none", "end"} => bound
        /\ launcher \in {"opening", "waiting", "done"} => bound

LaunchIInv == Seen /\ BrowserGoesToOurServer

LEMMA LaunchInitIInv == LaunchInit => LaunchIInv
  BY DEF LaunchInit, LaunchIInv, Seen, BrowserGoesToOurServer

\* The launcher's own steps: the server's are as they were, and it goes past
\* "awaiting" only on the line of a server that listens.
LEMMA LauncherStep ==
    ASSUME LaunchIInv, Prepare \/ Spawn \/ WriteToken \/ ReadLine \/ ReadyTimeout \/ OpenBrowser \/ Waited \/ Kill
    PROVE  LaunchIInv'
<1> USE DEF LaunchIInv, Seen, BrowserGoesToOurServer, serverSide, browserSide, Fail
<1>1. CASE Prepare
  BY <1>1 DEF Prepare
<1>2. CASE Spawn
  BY <1>2 DEF Spawn
<1>3. CASE WriteToken
  BY <1>3 DEF WriteToken
<1>4. CASE ReadLine
  BY <1>4 DEF ReadLine
<1>5. CASE ReadyTimeout
  BY <1>5 DEF ReadyTimeout
<1>6. CASE OpenBrowser
  BY <1>6 DEF OpenBrowser
<1>7. CASE Waited
  BY <1>7 DEF Waited
<1>8. CASE Kill
  BY <1>8 DEF Kill
<1> QED
  BY <1>1, <1>2, <1>3, <1>4, <1>5, <1>6, <1>7, <1>8

LEMMA ServerStep ==
    ASSUME LaunchIInv, ReadToken \/ Bind \/ Announce \/ ServerDies \/ OtherProgram \/ LoadPage
    PROVE  LaunchIInv'
<1> USE DEF LaunchIInv, Seen, BrowserGoesToOurServer, serverSide, browserSide, End
<1>1. CASE ReadToken
  BY <1>1 DEF ReadToken
<1>2. CASE Bind
  BY <1>2 DEF Bind
<1>3. CASE Announce
  BY <1>3 DEF Announce
<1>4. CASE ServerDies
  BY <1>4 DEF ServerDies
<1>5. CASE OtherProgram
  BY <1>5 DEF OtherProgram
<1>6. CASE LoadPage
  BY <1>6 DEF LoadPage
<1> QED
  BY <1>1, <1>2, <1>3, <1>4, <1>5, <1>6

LEMMA LaunchNextIInv == LaunchIInv /\ [LaunchNext]_launchVars => LaunchIInv'
<1>1. LaunchIInv /\ LaunchNext => LaunchIInv'
  BY LauncherStep, ServerStep DEF LaunchNext
<1>2. LaunchIInv /\ UNCHANGED launchVars => LaunchIInv'
  BY DEF LaunchIInv, Seen, BrowserGoesToOurServer, launchVars
<1> QED
  BY <1>1, <1>2

\* main.rs awaits the server's line before it opens the browser, and the server
\* writes it after listenLocalApp: the token goes to a port that was ours.
THEOREM TheBrowserIsSentToUs == LaunchSpec => []BrowserGoesToOurServer
<1>1. LaunchIInv => BrowserGoesToOurServer
  BY DEF LaunchIInv
<1> QED
  BY <1>1, LaunchInitIInv, LaunchNextIInv, PTL DEF LaunchSpec

\* The safety half of ServerEndsWithLauncher: a server that outlives its
\* launcher's own exit has been told to end.
LeavesNoServer ==
    /\ child \in {"none", "ended"} \cup Up
    /\ launcher \in {"failed", "done"} /\ child \in Up => doomed

LEMMA LaunchNextLeaves == LeavesNoServer /\ [LaunchNext]_launchVars => LeavesNoServer'
<1> SUFFICES ASSUME LeavesNoServer, [LaunchNext]_launchVars PROVE LeavesNoServer'
  OBVIOUS
<1> USE DEF LeavesNoServer, Up, serverSide
<1>1. CASE Prepare \/ Spawn \/ WriteToken \/ ReadLine \/ ReadyTimeout \/ OpenBrowser
  BY <1>1 DEF Prepare, Spawn, WriteToken, ReadLine, ReadyTimeout, OpenBrowser, Fail
<1>2. CASE Waited \/ Kill
  BY <1>2 DEF Waited, Kill
<1>3. CASE ReadToken \/ Bind \/ Announce \/ ServerDies
  BY <1>3 DEF ReadToken, Bind, Announce, ServerDies, End
<1>4. CASE OtherProgram \/ LoadPage
  BY <1>4 DEF OtherProgram, LoadPage
<1>5. CASE UNCHANGED launchVars
  BY <1>5 DEF launchVars
<1> QED
  BY <1>1, <1>2, <1>3, <1>4, <1>5 DEF LaunchNext

\* "On launcher exit before normal server completion, it terminates the server",
\* product-launcher's README: whichever of its steps failed.
THEOREM FailedLaunchEndsItsServer == LaunchSpec => []LeavesNoServer
<1>1. LaunchInit => LeavesNoServer
  BY DEF LaunchInit, LeavesNoServer
<1> QED
  BY <1>1, LaunchNextLeaves, PTL DEF LaunchSpec

------------------------------------------------------------------------------
(* LauncherAuth. *)

\* A launch has given out at most one session, and has exactly if it is used up.
OneSession ==
    \A l \in Launches : /\ used[l] <=> sessions[l] # {}
                        /\ \A a \in sessions[l] : a[1] = l
                        /\ \A a, b \in sessions[l] : a = b

\* A request that still names a page is the only one of that page, which waits
\* for it, and was sent to the address the page shows; the session an answer
\* carries is one that its launch knows, and is named for the page.
Pending(r) == slot[r] # Free /\ slot[r].from # None

Under ==
    /\ \A r \in Slots : Pending(r) => page[slot[r].from] = "exchanging"
    /\ \A r, s \in Slots : Pending(r) /\ Pending(s) /\ slot[r].from = slot[s].from => r = s
    /\ \A r \in Slots : slot[r] \in Request /\ Pending(r) => slot[r].to = at[slot[r].from]
    /\ \A r \in Slots : slot[r] \in Answer /\ slot[r].session # None =>
          /\ slot[r].session \in sessions[slot[r].session[1]]
          /\ slot[r].from # None => slot[r].session = <<at[slot[r].from], slot[r].from>>

\* A page holds a csrf token when it is ready and no longer; the token is the
\* session of its own launch that is named for it.  Some cookie is there by then.
Held ==
    /\ \A p \in Pages : (csrf[p] # None) <=> (page[p] = "ready")
    /\ \A p \in Pages : csrf[p] # None => /\ csrf[p] = <<at[p], p>>
                                          /\ csrf[p] \in sessions[at[p]]
                                          /\ jar # None
    /\ jar # None => jar \in sessions[jar[1]]

IInv == /\ TypeOK /\ OneSession /\ Under /\ Held
        /\ MutationsNeedTheExchange /\ FragmentIsGone


\* What a slot holds, by its stage.
LEMMA SlotFacts ==
    ASSUME TypeOK, NEW r \in Slots
    PROVE  /\ slot[r].stage = "sent" => slot[r] \in Request
           /\ slot[r].stage = "answered" => slot[r] \in Answer
           /\ slot[r] \in Request => /\ slot[r].stage = "sent" /\ slot[r].to \in Launches
                                     /\ slot[r].from \in Pages \cup {None}
           /\ slot[r] \in Answer => /\ slot[r].stage = "answered"
                                    /\ slot[r].session \in Sessions \cup {None}
                                    /\ slot[r].from \in Pages \cup {None}
           /\ Free.stage = "free" /\ Free \notin Request /\ Free \notin Answer
           /\ slot[r] # Free => slot[r] \in Request \cup Answer
  BY DEF TypeOK, Request, Answer, Free

LEMMA InitIInv == Init => IInv
<1> SUFFICES ASSUME Init PROVE IInv
  OBVIOUS
<1> USE AuthAssumption DEF Init
<1>1. TypeOK
  BY DEF TypeOK, Sessions
<1>2. OneSession /\ Held
  BY DEF OneSession, Held
<1>3. Under
  <2>1. \A r \in Slots : slot[r] = Free /\ slot[r] \notin Request /\ slot[r] \notin Answer
    BY <1>1, SlotFacts
  <2> QED BY <2>1 DEF Under, Pending
<1>4. MutationsNeedTheExchange /\ FragmentIsGone
  BY DEF MutationsNeedTheExchange, FragmentIsGone
<1> QED
  BY <1>1, <1>2, <1>3, <1>4 DEF IInv

\* A tab's first steps leave the server alone.
LEMMA OpenStep == ASSUME IInv, NEW p \in Pages, Open(p) PROVE IInv'
<1> USE DEF IInv
<1>1. /\ page[p] = "closed" /\ page' = [page EXCEPT ![p] = "fresh"]
      /\ UNCHANGED <<csrf, jar, clock, used, sessions, accepted, slot>>
  BY DEF Open, server
<1>2. PICK l \in Launches, f \in {"absent", "token"} :
         at' = [at EXCEPT ![p] = l] /\ fragment' = [fragment EXCEPT ![p] = f]
  BY DEF Open
<1>3. TypeOK'
  BY <1>1, <1>2 DEF TypeOK
<1>4. \A q \in Pages : q # p => page'[q] = page[q] /\ at'[q] = at[q] /\ fragment'[q] = fragment[q]
  BY <1>1, <1>2 DEF TypeOK
<1>5. page'[p] = "fresh" /\ csrf[p] = None
  BY <1>1 DEF TypeOK, Held
<1>6. Under'
  <2>1. \A r \in Slots : Pending(r) => slot[r].from \in Pages /\ slot[r].from # p
    BY <1>1, SlotFacts DEF Under, Pending
  <2>2. \A r \in Slots : slot[r] \in Answer => slot[r] # Free
    BY SlotFacts
  <2> QED BY <1>1, <1>4, <2>1, <2>2 DEF Under, Pending
<1>7. OneSession' /\ MutationsNeedTheExchange'
  BY <1>1 DEF OneSession, MutationsNeedTheExchange
<1>8. Held'
  BY <1>1, <1>4, <1>5 DEF Held
<1>9. FragmentIsGone'
  BY <1>4, <1>5 DEF FragmentIsGone
<1> QED
  BY <1>3, <1>6, <1>7, <1>8, <1>9

LEMMA BootstrapStep == ASSUME IInv, NEW p \in Pages, Bootstrap(p) PROVE IInv'
<1> USE DEF IInv
<1>1. /\ page[p] = "fresh" /\ UNCHANGED <<at, fragment, csrf, jar, clock, used, sessions, accepted>>
  BY DEF Bootstrap, server
<1>2. OneSession' /\ MutationsNeedTheExchange'
  BY <1>1 DEF OneSession, MutationsNeedTheExchange
<1>3. csrf[p] = None /\ \A r \in Slots : Pending(r) => slot[r].from \in Pages /\ slot[r].from # p
  BY <1>1, SlotFacts DEF Held, Under, Pending
<1>4. CASE fragment[p] = "absent"
  <2>1. page' = [page EXCEPT ![p] = "anonymous"] /\ slot' = slot
    BY <1>4 DEF Bootstrap
  <2>2. page'[p] = "anonymous" /\ \A q \in Pages : q # p => page'[q] = page[q]
    BY <2>1 DEF TypeOK
  <2>3. TypeOK'
    BY <1>1, <2>1 DEF TypeOK
  <2>4. Under'
    BY <1>1, <1>3, <2>1, <2>2 DEF Under, Pending
  <2>5. Held' /\ FragmentIsGone'
    BY <1>1, <1>3, <2>2 DEF Held, FragmentIsGone
  <2> QED BY <1>2, <2>3, <2>4, <2>5
<1>5. CASE fragment[p] # "absent"
  <2>1. page' = [page EXCEPT ![p] = "exchanging"]
    BY <1>5 DEF Bootstrap
  <2>2. PICK r \in Slots :
           slot[r] = Free /\ slot' = [slot EXCEPT ![r] = [stage |-> "sent", from |-> p, to |-> at[p]]]
    BY <1>5 DEF Bootstrap
  <2>3. page'[p] = "exchanging" /\ \A q \in Pages : q # p => page'[q] = page[q]
    BY <2>1 DEF TypeOK
  <2>4. at[p] \in Launches
    BY <1>1 DEF TypeOK
  <2>5. [stage |-> "sent", from |-> p, to |-> at[p]] \in Request
    BY <2>4 DEF Request
  <2>6. TypeOK'
    BY <1>1, <2>1, <2>2, <2>5 DEF TypeOK
  <2>7. /\ slot'[r] = [stage |-> "sent", from |-> p, to |-> at[p]]
        /\ slot'[r] \notin Answer
        /\ \A s \in Slots : s # r => slot'[s] = slot[s]
    BY <2>2 DEF TypeOK, Answer
  <2>8. Under'
    BY <1>1, <1>3, <2>3, <2>7 DEF Under, Pending
  <2>9. Held' /\ FragmentIsGone'
    BY <1>1, <1>3, <2>3 DEF Held, FragmentIsGone
  <2> QED BY <1>2, <2>6, <2>8, <2>9
<1> QED
  BY <1>4, <1>5

LEMMA UnloadStep == ASSUME IInv, NEW p \in Pages, Unload(p) PROVE IInv'
<1> USE DEF IInv
<1>1. /\ csrf' = [csrf EXCEPT ![p] = None]
      /\ slot' = [r \in Slots |-> IF slot[r] # Free /\ slot[r].from = p
                                  THEN [slot[r] EXCEPT !.from = None] ELSE slot[r]]
      /\ UNCHANGED <<jar, clock, used, sessions, accepted>>
  BY DEF Unload, server
<1>2. OneSession' /\ MutationsNeedTheExchange'
  BY <1>1 DEF OneSession, MutationsNeedTheExchange
<1>3. /\ page[p] # "closed"
      /\ \/ page' = [page EXCEPT ![p] = "fresh"] /\ UNCHANGED <<at, fragment>>
         \/ /\ page' = [page EXCEPT ![p] = "closed"]
            /\ at' = [at EXCEPT ![p] = None]
            /\ fragment' = [fragment EXCEPT ![p] = "absent"]
  BY DEF Unload
<1>4. /\ page'[p] \in {"fresh", "closed"} /\ csrf'[p] = None
      /\ \A q \in Pages : q # p => /\ page'[q] = page[q] /\ at'[q] = at[q]
                                   /\ fragment'[q] = fragment[q] /\ csrf'[q] = csrf[q]
  BY <1>1, <1>3 DEF TypeOK
<1>5. ASSUME NEW r \in Slots
      PROVE  /\ slot'[r] \in {Free} \cup Request \cup Answer
             /\ slot'[r] \in Request => slot[r] \in Request /\ slot'[r].to = slot[r].to
             /\ slot'[r] \in Answer => slot[r] \in Answer /\ slot'[r].session = slot[r].session
             /\ Pending(r)' => Pending(r) /\ slot'[r].from = slot[r].from /\ slot[r].from # p
  <2>1. CASE slot[r] # Free /\ slot[r].from = p
    <3>1. slot'[r] = [slot[r] EXCEPT !.from = None]
      BY <1>1, <2>1
    <3>2. slot[r] \in Request \cup Answer
      BY <2>1, SlotFacts
    <3>3. CASE slot[r] \in Request
      BY <3>1, <3>3 DEF Request, Answer, Pending
    <3>4. CASE slot[r] \in Answer
      BY <3>1, <3>4 DEF Request, Answer, Pending
    <3> QED BY <3>2, <3>3, <3>4
  <2>2. CASE ~(slot[r] # Free /\ slot[r].from = p)
    <3>1. slot'[r] = slot[r]
      BY <1>1, <2>2
    <3> QED BY <2>2, <3>1 DEF TypeOK, Pending
  <2> QED BY <2>1, <2>2
<1>6. TypeOK'
  <2>1. slot' \in [Slots -> {Free} \cup Request \cup Answer]
    BY <1>1, <1>5
  <2> QED BY <1>1, <1>3, <2>1 DEF TypeOK
<1>7. Under'
  <2>1. \A r \in Slots : Pending(r) => slot[r].from \in Pages
    BY SlotFacts DEF Pending
  <2>2. \A r \in Slots : slot'[r] \in Answer => slot'[r] # Free
    BY SlotFacts DEF Answer, Free
  <2> QED BY <1>1, <1>4, <1>5, <2>1, <2>2 DEF Under, Pending
<1>8. Held' /\ FragmentIsGone'
  BY <1>1, <1>4 DEF Held, FragmentIsGone
<1> QED
  BY <1>2, <1>6, <1>7, <1>8

\* A mutation passes only with a session of its launch, which is used up then.
LEMMA GateStep ==
    ASSUME IInv, NEW l \in Launches, NEW exact, NEW session, NEW token,
           Gate(l, exact, session, token)
    PROVE  IInv'
<1> USE DEF IInv
<1>1. UNCHANGED <<clock, used, sessions, page, at, fragment, csrf, jar, slot>>
  BY DEF Gate, browser
<1>2. accepted' \subseteq accepted \cup {l}
  BY DEF Gate
<1>3. l \in accepted' => l \in accepted \/ sessions[l] # {}
  BY DEF Gate, HasValidCsrf
<1>4. MutationsNeedTheExchange'
  BY <1>1, <1>2, <1>3 DEF MutationsNeedTheExchange, OneSession, TypeOK
<1>5. TypeOK'
  BY <1>1, <1>2 DEF TypeOK
<1> QED
  BY <1>1, <1>4, <1>5 DEF OneSession, Under, Pending, Held, FragmentIsGone

\* A request is answered, with a session if its launch was not used up.
LEMMA ReadBodyStep == ASSUME IInv, NEW r \in Slots, ReadBody(r) PROVE IInv'
<1> USE DEF IInv
<1> DEFINE to   == slot[r].to
           from == slot[r].from
<1>1. /\ slot[r] \in Request /\ to \in Launches /\ from \in Pages \cup {None} /\ slot[r] # Free
      /\ slot[r] \notin Answer
      /\ UNCHANGED <<clock, accepted, page, at, fragment, csrf, jar>>
  BY SlotFacts DEF ReadBody, browser
<1>2. /\ \A p \in Pages : page[p] = "exchanging" => csrf[p] = None
      /\ \A s \in Slots : Pending(s) => slot[s].from \in Pages
  BY SlotFacts DEF Held, Pending
<1>3. ASSUME NEW session \in Sessions \cup {None}, Reply(r, session),
             session = None => UNCHANGED <<used, sessions>>,
             session # None => /\ session = <<to, from>> /\ ~used[to]
                               /\ used' = [used EXCEPT ![to] = TRUE]
                               /\ sessions' = [sessions EXCEPT ![to] = @ \cup {session}]
      PROVE  IInv'
  <2>1. /\ slot'[r] = [stage |-> "answered", from |-> from, session |-> session]
        /\ \A s \in Slots : s # r => slot'[s] = slot[s]
    BY <1>3 DEF Reply, TypeOK
  <2>2. slot'[r] \in Answer /\ slot'[r] \notin Request /\ slot'[r] # Free
    BY <1>1, <1>3, <2>1 DEF Answer, Request, Free
  <2>3. sessions[to] = {} \/ session = None
    BY <1>1, <1>3 DEF OneSession
  <2>4. /\ \A l \in Launches : sessions[l] \subseteq sessions'[l]
        /\ \A l \in Launches : l # to => sessions'[l] = sessions[l] /\ used'[l] = used[l]
        /\ session # None => sessions'[to] = {session} /\ used'[to] = TRUE
    BY <1>1, <1>3, <2>3 DEF TypeOK
  <2>5. TypeOK'
    <3>1. slot' \in [Slots -> {Free} \cup Request \cup Answer]
      BY <1>3, <2>1, <2>2 DEF TypeOK, Reply
    <3>2. used' \in [Launches -> BOOLEAN] /\ sessions' \in [Launches -> SUBSET Sessions]
      <4>1. CASE session = None
        BY <1>3, <4>1 DEF TypeOK
      <4>2. CASE session # None
        <5>1. sessions \in [Launches -> SUBSET Sessions] /\ session \in Sessions
          BY <1>3, <4>2 DEF TypeOK
        <5>2. sessions[to] \cup {session} \in SUBSET Sessions
          BY <1>1, <5>1
        <5> QED BY <1>1, <1>3, <4>2, <5>1, <5>2 DEF TypeOK
      <4> QED BY <4>1, <4>2
    <3> QED BY <1>1, <3>1, <3>2 DEF TypeOK
  <2>6. OneSession'
    <3>1. CASE session = None
      BY <1>3, <3>1 DEF OneSession
    <3>2. CASE session # None
      BY <1>1, <1>3, <2>4, <3>2 DEF OneSession
    <3> QED BY <3>1, <3>2
  <2>7. Under'
    <3>1. \A s \in Slots : Pending(s)' <=> Pending(s)
      BY <1>1, <2>1, <2>2 DEF Pending
    <3>2. \A s \in Slots : Pending(s) => slot'[s].from = slot[s].from
      BY <2>1
    <3>3. session # None => /\ session[1] = to /\ session \in sessions'[to]
                            /\ from # None => session = <<at[from], from>>
      BY <1>1, <1>3, <2>4 DEF Under, Pending
    <3>4. \A s \in Slots : slot[s] \in Answer /\ slot[s].session # None
                              => slot[s].session[1] \in Launches
      BY SlotFacts DEF Sessions
    <3> QED BY <1>1, <2>1, <2>2, <2>4, <3>1, <3>2, <3>3, <3>4 DEF Under, Pending
  <2>8. Held'
    <3>1. \A p \in Pages : csrf[p] # None => at[p] \in Launches
      BY DEF Held, TypeOK
    <3>2. jar # None => jar[1] \in Launches
      BY DEF TypeOK, Sessions
    <3> QED BY <1>1, <2>4, <3>1, <3>2 DEF Held
  <2>9. MutationsNeedTheExchange' /\ FragmentIsGone'
    BY <1>1, <1>3 DEF MutationsNeedTheExchange, FragmentIsGone, TypeOK
  <2> QED BY <2>5, <2>6, <2>7, <2>8, <2>9
<1>4. CASE Reply(r, None) /\ UNCHANGED <<used, sessions>>
  BY <1>3, <1>4
<1>5. CASE /\ ~used[to]
           /\ used' = [used EXCEPT ![to] = TRUE]
           /\ sessions' = [sessions EXCEPT ![to] = @ \cup {<<to, from>>}]
           /\ Reply(r, <<to, from>>)
  <2>1. <<to, from>> \in Sessions /\ <<to, from>> # None
    BY <1>1, AuthAssumption DEF Sessions
  <2> QED BY <1>3, <1>5, <2>1
<1> QED
  BY <1>4, <1>5 DEF ReadBody, Exchange

\* A request is done with: its page, if it still waits, has its answer.
LEMMA SettleStep ==
    ASSUME IInv, NEW r \in Slots, slot[r] # Free,
           NEW session \in Sessions \cup {None},
           Pending(r) => Settle(slot[r].from, session),
           ~Pending(r) => UNCHANGED <<page, csrf, fragment>>,
           session # None => slot[r] \in Answer /\ slot[r].session = session /\ jar' = session,
           session = None => jar' = jar,
           slot' = [slot EXCEPT ![r] = Free],
           UNCHANGED <<at, clock, used, sessions, accepted>>
    PROVE  IInv'
<1> USE DEF IInv
<1> DEFINE p == slot[r].from
<1>1. /\ slot'[r] = Free /\ Free \notin Request /\ Free \notin Answer
      /\ \A s \in Slots : s # r => slot'[s] = slot[s]
  BY SlotFacts DEF TypeOK
<1>2. slot' \in [Slots -> {Free} \cup Request \cup Answer]
  BY DEF TypeOK
<1>3. jar' \in Sessions \cup {None} /\ (jar' # None => jar' \in sessions[jar'[1]])
  BY DEF TypeOK, Held, Under
<1>4. OneSession' /\ MutationsNeedTheExchange'
  BY DEF OneSession, MutationsNeedTheExchange
<1>5. \A s \in Slots : Pending(s)' <=> Pending(s) /\ s # r
  BY <1>1 DEF Pending
<1>6. CASE ~Pending(r)
  <2>1. TypeOK'
    BY <1>2, <1>3, <1>6 DEF TypeOK
  <2>2. Under'
    BY <1>1, <1>5, <1>6 DEF Under, Pending
  <2>3. Held' /\ FragmentIsGone'
    BY <1>3, <1>6 DEF Held, FragmentIsGone
  <2> QED BY <1>4, <2>1, <2>2, <2>3
<1>7. CASE Pending(r)
  <2>1. p \in Pages /\ page[p] = "exchanging"
    BY <1>7, SlotFacts DEF Pending, Under
  <2>2. /\ page' = [page EXCEPT ![p] = IF session # None THEN "ready" ELSE "failed"]
        /\ csrf' = [csrf EXCEPT ![p] = session]
        /\ fragment' = [fragment EXCEPT ![p] = "absent"]
    BY <1>7 DEF Settle
  <2>3. /\ page'[p] = IF session # None THEN "ready" ELSE "failed"
        /\ csrf'[p] = session /\ fragment'[p] = "absent"
        /\ \A q \in Pages : q # p => /\ page'[q] = page[q] /\ csrf'[q] = csrf[q]
                                     /\ fragment'[q] = fragment[q]
    BY <2>1, <2>2 DEF TypeOK
  <2>4. TypeOK'
    BY <1>2, <1>3, <2>1, <2>2 DEF TypeOK
  <2>5. Under'
    <3>1. \A s \in Slots : Pending(s) /\ s # r => slot[s].from \in Pages /\ slot[s].from # p
      BY <1>7, SlotFacts DEF Under, Pending
    <3> QED BY <1>1, <1>5, <2>3, <3>1 DEF Under, Pending
  <2>6. session # None => session = <<at[p], p>> /\ session \in sessions[at[p]]
    <3> SUFFICES ASSUME session # None
                 PROVE  session = <<at[p], p>> /\ session \in sessions[at[p]]
      OBVIOUS
    <3>1. slot[r] \in Answer /\ slot[r].session = session /\ p # None
      BY <2>1, <1>7 DEF Pending
    <3>2. session = <<at[p], p>> /\ session \in sessions[session[1]]
      BY <3>1 DEF Under
    <3> QED BY <3>2
  <2>7. Held'
    BY <1>3, <2>1, <2>3, <2>6 DEF Held
  <2>8. FragmentIsGone'
    BY <2>3 DEF FragmentIsGone
  <2> QED BY <1>4, <2>4, <2>5, <2>7, <2>8
<1> QED
  BY <1>6, <1>7

LEMMA DeliverStep == ASSUME IInv, NEW r \in Slots, Deliver(r) PROVE IInv'
<1> USE DEF IInv
<1> DEFINE s == slot[r].session
<1>1. /\ slot[r] \in Answer /\ slot[r] # Free /\ s \in Sessions \cup {None}
  BY SlotFacts DEF Deliver
<1>2. /\ Pending(r) => Settle(slot[r].from, s)
      /\ ~Pending(r) => UNCHANGED <<page, csrf, fragment>>
      /\ slot' = [slot EXCEPT ![r] = Free]
      /\ UNCHANGED <<at, clock, used, sessions, accepted>>
  BY DEF Deliver, Waiting, Pending, server
<1>3. CASE s # None /\ jar' = s
  BY <1>1, <1>2, <1>3, SettleStep
<1>4. CASE s = None /\ jar' = jar
  BY <1>1, <1>2, <1>4, SettleStep
<1>5. CASE slot[r].from = None /\ jar' = jar
  <2>1. ~Pending(r)
    BY <1>5 DEF Pending
  <2> QED BY <1>1, <1>2, <1>5, <2>1, SettleStep
<1> QED
  BY <1>3, <1>4, <1>5 DEF Deliver

LEMMA LoseStep == ASSUME IInv, NEW r \in Slots, Lose(r) PROVE IInv'
<1>1. /\ slot[r] # Free
      /\ Pending(r) => Settle(slot[r].from, None)
      /\ ~Pending(r) => UNCHANGED <<page, csrf, fragment>>
      /\ slot' = [slot EXCEPT ![r] = Free] /\ jar' = jar
      /\ UNCHANGED <<at, clock, used, sessions, accepted>>
  BY DEF Lose, Waiting, Pending, server
<1> QED
  BY <1>1, SettleStep

LEMMA NextIInv == IInv /\ [Next]_vars => IInv'
<1> SUFFICES ASSUME IInv, [Next]_vars PROVE IInv'
  OBVIOUS
<1>1. CASE UNCHANGED vars
  BY <1>1 DEF vars, server, browser, IInv, TypeOK, OneSession, Under, Pending, Held,
         MutationsNeedTheExchange, FragmentIsGone
<1>2. ASSUME NEW l \in Launches, Tick(l) PROVE IInv'
  <2>1. clock' \in [Launches -> 0..Ttl]
    BY <1>2, AuthAssumption DEF Tick, IInv, TypeOK
  <2> QED
    BY <1>2, <2>1 DEF Tick, browser, IInv, TypeOK, OneSession, Under, Pending, Held,
           MutationsNeedTheExchange, FragmentIsGone
<1>3. ASSUME NEW l \in Launches, Stray(l) PROVE IInv'
  BY <1>3, GateStep DEF Stray
<1>4. ASSUME NEW p \in Pages, Mutate(p) PROVE IInv'
  <2>1. at[p] \in Launches
    BY <1>4 DEF Mutate, IInv, Held, TypeOK
  <2> QED BY <1>4, <2>1, GateStep DEF Mutate
<1> QED
  BY <1>1, <1>2, <1>3, <1>4, OpenStep, BootstrapStep, UnloadStep, ReadBodyStep, DeliverStep,
     LoseStep DEF Next

\* The bootstrap is as IInv says, however tabs, launches and answers interleave.
THEOREM InvariantHolds == Spec => []IInv
  BY InitIInv, NextIInv, PTL DEF Spec

\* Every variable of server and browser stays in its range.
THEOREM TypeCorrect == Spec => []TypeOK
<1>1. IInv => TypeOK
  BY DEF IInv
<1> QED
  BY <1>1, InvariantHolds, PTL

\* However many tabs race with a launch's token, it gives out one session, and
\* at most one tab holds its csrf token.
THEOREM OneSessionEach == Spec => []OneSessionPerLaunch
<1>1. IInv => OneSessionPerLaunch
  <2> SUFFICES ASSUME IInv, NEW l \in Launches
               PROVE  /\ used[l] <=> sessions[l] # {}
                      /\ \A a, b \in sessions[l] : a = b
                      /\ \A p, q \in Pages :
                            csrf[p] # None /\ csrf[q] # None /\ at[p] = l /\ at[q] = l => p = q
    BY DEF OneSessionPerLaunch
  <2>1. /\ used[l] <=> sessions[l] # {}
        /\ \A a, b \in sessions[l] : a = b
    BY DEF IInv, OneSession
  <2>2. ASSUME NEW p \in Pages, NEW q \in Pages,
               csrf[p] # None, csrf[q] # None, at[p] = l, at[q] = l
        PROVE  p = q
    <3>1. csrf[p] = <<l, p>> /\ csrf[q] = <<l, q>> /\ csrf[p] = csrf[q]
      BY <2>1, <2>2 DEF IInv, Held
    <3> QED BY <3>1
  <2> QED BY <2>1, <2>2
<1> QED
  BY <1>1, InvariantHolds, PTL

\* A launch lets no mutation through before its own token has been exchanged.
THEOREM NoMutationBeforeTheExchange == Spec => []MutationsNeedTheExchange
<1>1. IInv => MutationsNeedTheExchange
  BY DEF IInv
<1> QED
  BY <1>1, InvariantHolds, PTL

\* A tab that was let in is refused later only if the cookie is another
\* launch's by then.
THEOREM ReadyPagesStay == Spec => []ReadyPageStaysLetIn
<1>1. IInv => ReadyPageStaysLetIn
  <2> SUFFICES ASSUME IInv, NEW p \in Pages, page[p] = "ready"
               PROVE  /\ csrf[p] \in sessions[at[p]]
                      /\ \/ HasValidCsrf(at[p], jar, csrf[p])
                         \/ jar # None /\ jar[1] # at[p]
    BY DEF ReadyPageStaysLetIn
  <2>1. /\ csrf[p] # None /\ csrf[p] \in sessions[at[p]] /\ jar # None
        /\ jar \in sessions[jar[1]] /\ at[p] \in Launches
    BY DEF IInv, Held, TypeOK
  <2>2. jar[1] = at[p] => jar = csrf[p]
    BY <2>1 DEF IInv, OneSession
  <2> QED BY <2>1, <2>2 DEF HasValidCsrf
<1> QED
  BY <1>1, InvariantHolds, PTL

\* Once a tab has its answer, its address carries no token.
THEOREM FragmentsGo == Spec => []FragmentIsGone
<1>1. IInv => FragmentIsGone
  BY DEF IInv
<1> QED
  BY <1>1, InvariantHolds, PTL

------------------------------------------------------------------------------
(* WebSession. *)

\* A request has its artifact's number when it is sent, an upload's when it is
\* answered.
RequestsOf == [n : Nat, kind : Kinds, artifact : 0..MaxUploads, draft : Drafts,
               at : {"sent", "answered", "failed"}, alone : BOOLEAN]

Unapplied(R) == {r \in R : r.kind = "upload" /\ r.at = "sent"}

\* Artifacts are numbered as they are made: there is room for every upload that
\* may yet be applied, nothing names an artifact that was not made, and the
\* rules of one that was not are fresh.
Numbered ==
    /\ clicks \in Nat
    /\ requests \subseteq RequestsOf /\ IsFiniteSet(requests)
    /\ uploads + Cardinality(Unapplied(requests)) <= MaxUploads
    /\ artifact <= uploads
    /\ \A r \in requests : /\ r.artifact <= uploads
                           /\ r.kind # "upload" \/ r.at = "answered" => r.artifact # 0
    /\ \A a \in Artifacts : a > uploads => rules[a] = Fresh(a)

\* A lone request is the only one, and while it is calm no other is sent.
Lone == /\ \A r \in requests : r.alone => requests = {r}
        /\ calm => \A r \in requests : r.alone

\* A lone upload that was answered, and the load it becomes, are about rules of
\* their own artifact; the load's is the one on the page, and its answer is
\* what the server still holds.
LoneLoad ==
    \A r \in requests : r.alone =>
        /\ (r.kind = "upload" /\ r.at = "answered") \/ r.kind = "load" => rules[r.artifact].of = r.artifact
        /\ r.kind = "load" => r.artifact = artifact
        /\ r.kind = "load" /\ r.at = "answered" => r.draft = rules[r.artifact]

\* While it is calm and no load is under way, the page's draft is its artifact's,
\* and the server's unless it was edited or is being saved; a save under way is
\* of that draft, unless it was edited since.
Settled ==
    calm /\ (\A r \in requests : r.kind # "load") =>
        /\ draft.of = artifact
        /\ unsaved = "no" /\ artifact # 0 => rules[artifact] = draft
        /\ \A r \in requests : r.kind = "save" =>
              /\ unsaved # "no"
              /\ r.artifact = artifact /\ r.draft.of = artifact
              /\ unsaved = "saving" => r.draft = draft
              /\ unsaved = "saving" /\ r.at = "answered" => rules[artifact] = draft

SessionIInv == /\ SessionTypeOK /\ Numbered /\ Lone /\ LoneLoad /\ Settled
               /\ ShownIsHeld /\ ResultUnderItsArtifact

LEMMA InertFacts == Inert \in [Checks -> [enabled : BOOLEAN, points : Points]]
  BY WebAssumption DEF Inert

LEMMA SessionInitIInv == SessionInit => SessionIInv
<1> SUFFICES ASSUME SessionInit PROVE SessionIInv
  OBVIOUS
<1> USE WebAssumption DEF SessionInit
<1>1. NoDraft \in Drafts /\ (\A a \in Artifacts : Fresh(a) \in Drafts)
  BY InertFacts DEF NoDraft, Fresh, Drafts, Artifacts
<1>2. SessionTypeOK
  BY <1>1, InertFacts DEF SessionTypeOK, NoResult
<1>3. Unapplied(requests) = {}
  BY DEF Unapplied
<1>4. Numbered
  <2>1. IsFiniteSet(requests) /\ Cardinality(Unapplied(requests)) = 0
    BY <1>3, FS_EmptySet
  <2>2. uploads + Cardinality(Unapplied(requests)) <= MaxUploads
    BY <2>1
  <2>3. \A a \in Artifacts : rules[a] = Fresh(a)
    OBVIOUS
  <2> QED BY <2>1, <2>2, <2>3 DEF Numbered
<1>5. Lone /\ LoneLoad /\ ResultUnderItsArtifact
  BY DEF Lone, LoneLoad, ResultUnderItsArtifact, NoResult
<1>6. Settled /\ ShownIsHeld
  BY DEF Settled, ShownIsHeld, NoDraft
<1> QED
  BY <1>2, <1>4, <1>5, <1>6 DEF SessionIInv

\* A request is sent: it is the lone one if there was none, and none else is.
LEMMA SendFacts ==
    ASSUME SessionTypeOK, Numbered, NEW kind \in Kinds, NEW a \in 0..uploads, NEW d \in Drafts,
           Send(kind, a, d), kind # "upload" => a # 0,
           kind = "upload" => uploads + Cardinality({r \in requests : r.kind = "upload"}) < MaxUploads
    PROVE  /\ requests' \subseteq RequestsOf /\ IsFiniteSet(requests')
           /\ uploads + Cardinality(Unapplied(requests')) <= MaxUploads
           /\ \A r \in requests' : /\ r.artifact <= uploads
                                   /\ r.kind # "upload" \/ r.at = "answered" => r.artifact # 0
           /\ Uploading => Uploading'
           /\ \A r \in requests' : r.alone => /\ requests = {} /\ requests' = {r}
                                              /\ r.kind = kind /\ r.at = "sent"
                                              /\ r.artifact = a /\ r.draft = d
           /\ calm' => /\ calm /\ requests = {}
                       /\ \A r \in requests' : r.alone
<1> DEFINE quiet(r) == [r EXCEPT !.alone = FALSE]
           Q == {quiet(r) : r \in requests}
           new == [n |-> clicks, kind |-> kind, artifact |-> a, draft |-> d, at |-> "sent",
                   alone |-> requests = {}]
<1>1. /\ requests' = Q \cup {new}
      /\ calm' = (calm /\ requests = {})
  BY DEF Send
<1>2. /\ requests \subseteq RequestsOf /\ IsFiniteSet(requests) /\ clicks \in Nat
      /\ uploads \in Nat /\ MaxUploads \in Nat /\ uploads <= MaxUploads
  BY WebAssumption DEF Numbered, SessionTypeOK
<1>3. new \in RequestsOf
  <2>1. a \in 0..MaxUploads
    BY <1>2
  <2>2. (requests = {}) \in BOOLEAN
    OBVIOUS
  <2> QED BY <1>2, <2>1, <2>2 DEF RequestsOf
<1>4. \A r \in RequestsOf : /\ quiet(r) \in RequestsOf
                            /\ quiet(r).kind = r.kind /\ quiet(r).at = r.at
                            /\ quiet(r).artifact = r.artifact /\ quiet(r).alone = FALSE
  BY DEF RequestsOf
<1>5. /\ new.kind = kind /\ new.at = "sent" /\ new.artifact = a /\ new.draft = d
      /\ new.alone = (requests = {})
  OBVIOUS
<1> HIDE DEF quiet, new
<1>6. Q \subseteq RequestsOf /\ IsFiniteSet(Q)
  <2> DEFINE f == [r \in requests |-> quiet(r)]
  <2>1. f \in Surjection(requests, Q)
    BY DEF Surjection
  <2>2. IsFiniteSet(Q)
    BY <2>1, <1>2, FS_Surjection
  <2> QED BY <1>2, <1>4, <2>2
<1>7. /\ IsFiniteSet(Unapplied(Q)) /\ IsFiniteSet(Unapplied(requests))
      /\ Cardinality(Unapplied(Q)) <= Cardinality(Unapplied(requests))
      /\ Cardinality(Unapplied(Q)) \in Nat /\ Cardinality(Unapplied(requests)) \in Nat
  <2> DEFINE f == [r \in Unapplied(requests) |-> quiet(r)]
  <2>1. IsFiniteSet(Unapplied(requests))
    <3>1. Unapplied(requests) \in SUBSET requests
      BY DEF Unapplied
    <3> QED BY <3>1, <1>2, FS_Subset
  <2>2. f \in Surjection(Unapplied(requests), Unapplied(Q))
    <3>1. \A r \in Unapplied(requests) : quiet(r) \in Unapplied(Q)
      BY <1>2, <1>4 DEF Unapplied
    <3>2. \A q \in Unapplied(Q) : \E r \in Unapplied(requests) : quiet(r) = q
      BY <1>2, <1>4 DEF Unapplied
    <3> QED BY <3>1, <3>2 DEF Surjection
  <2>3. IsFiniteSet(Unapplied(Q)) /\ Cardinality(Unapplied(Q)) <= Cardinality(Unapplied(requests))
    BY <2>1, <2>2, FS_Surjection
  <2> QED BY <2>1, <2>3, FS_CardinalityType
<1>8. uploads + Cardinality(Unapplied(requests')) <= MaxUploads
  <2>1. CASE kind = "upload"
    <3> DEFINE U == {r \in requests : r.kind = "upload"}
    <3>1. IsFiniteSet(U) /\ Cardinality(U) \in Nat /\ Cardinality(Unapplied(requests)) <= Cardinality(U)
      <4>1. U \in SUBSET requests /\ Unapplied(requests) \in SUBSET U
        BY DEF Unapplied
      <4>2. IsFiniteSet(U)
        BY <4>1, <1>2, FS_Subset
      <4> QED BY <4>1, <4>2, FS_Subset, FS_CardinalityType
    <3>2. uploads + Cardinality(U) < MaxUploads
      BY <2>1
    <3>3. Unapplied(requests') = Unapplied(Q) \cup {new}
      BY <1>1, <1>5, <2>1 DEF Unapplied
    <3>4. Cardinality(Unapplied(requests')) <= Cardinality(Unapplied(Q)) + 1
      <4>1. Cardinality(Unapplied(Q) \cup {new}) = IF new \in Unapplied(Q) THEN Cardinality(Unapplied(Q))
                                                   ELSE Cardinality(Unapplied(Q)) + 1
        BY <1>7, FS_AddElement
      <4> HIDE DEF Q
      <4> QED BY <3>3, <4>1, <1>7
    <3>5. Cardinality(Unapplied(requests')) \in Nat
      BY <3>3, <1>7, FS_AddElement, FS_CardinalityType
    <3> HIDE DEF U
    <3> QED BY <1>2, <1>7, <3>1, <3>2, <3>4, <3>5
  <2>2. CASE kind # "upload"
    <3>1. Unapplied(requests') = Unapplied(Q)
      BY <1>1, <1>5, <2>2 DEF Unapplied
    <3>2. uploads + Cardinality(Unapplied(requests)) <= MaxUploads
      BY DEF Numbered
    <3> QED BY <1>2, <1>7, <3>1, <3>2
  <2> QED BY <2>1, <2>2
<1>9. requests' \subseteq RequestsOf /\ IsFiniteSet(requests')
  BY <1>1, <1>3, <1>6, FS_AddElement
<1>10. \A r \in requests' : /\ r.artifact <= uploads
                            /\ r.kind # "upload" \/ r.at = "answered" => r.artifact # 0
  <2>1. \A q \in Q : /\ q.artifact <= uploads
                     /\ q.kind # "upload" \/ q.at = "answered" => q.artifact # 0
    BY <1>2, <1>4 DEF Numbered
  <2>2. /\ new.artifact <= uploads
        /\ new.kind # "upload" \/ new.at = "answered" => new.artifact # 0
    BY <1>5
  <2> QED BY <1>1, <2>1, <2>2
<1>11. Uploading => Uploading'
  BY <1>1, <1>2, <1>4 DEF Uploading
<1>12. \A r \in requests' : r.alone => requests = {} /\ requests' = {r} /\ r = new
  <2> SUFFICES ASSUME NEW r \in requests', r.alone PROVE requests = {} /\ requests' = {r} /\ r = new
    OBVIOUS
  <2>1. \A q \in Q : q.alone = FALSE
    BY <1>2, <1>4
  <2>2. r = new /\ requests = {}
    BY <1>1, <1>5, <2>1
  <2>3. Q = {}
    BY <2>2
  <2> QED BY <1>1, <2>2, <2>3
<1>13. requests = {} => \A r \in requests' : r.alone
  <2> SUFFICES ASSUME requests = {} PROVE requests' = {new}
    BY <1>5
  <2> QED BY <1>1
<1> QED
  BY <1>1, <1>5, <1>8, <1>9, <1>10, <1>11, <1>12, <1>13

\* render() shows what it is given, and an empty #result.
LEMMA RenderFacts ==
    ASSUME NEW a, NEW d \in Drafts, Render(a, d)
    PROVE  /\ dom' \in [checks : [Checks -> [enabled : BOOLEAN, points : Points]], live : BOOLEAN]
           /\ dom'.checks = d.checks
           /\ result' = NoResult /\ result'.of = 0
  BY DEF Render, Drafts, NoResult

\* What the server has, and what the requests are, is what the middle of the
\* invariant is about: it does not look at the page's fields.
Middle == Numbered /\ Lone /\ LoneLoad

\* A request ends: the others, if there are any, were not alone.
LEMMA EndFacts ==
    ASSUME SessionIInv, NEW r \in requests, requests' = requests \ {r},
           UNCHANGED <<artifact, store, clicks>>, calm' => calm \/ r.alone
    PROVE  Middle' /\ (calm' => requests' = {} /\ r.alone)
<1> USE DEF SessionIInv
<1>1. requests \subseteq RequestsOf /\ IsFiniteSet(requests) /\ uploads \in Nat /\ MaxUploads \in Nat
  BY WebAssumption DEF Numbered, SessionTypeOK
<1>2. Numbered'
  <2>1. IsFiniteSet(requests')
    BY <1>1, FS_RemoveElement
  <2>2. /\ IsFiniteSet(Unapplied(requests))
        /\ Cardinality(Unapplied(requests')) <= Cardinality(Unapplied(requests))
        /\ Cardinality(Unapplied(requests)) \in Nat /\ Cardinality(Unapplied(requests')) \in Nat
    <3>1. /\ Unapplied(requests) \in SUBSET requests
          /\ Unapplied(requests') \in SUBSET Unapplied(requests)
      BY DEF Unapplied
    <3>2. IsFiniteSet(Unapplied(requests))
      BY <3>1, <1>1, FS_Subset
    <3> QED BY <3>1, <3>2, FS_Subset, FS_CardinalityType
  <2>3. uploads' + Cardinality(Unapplied(requests')) <= MaxUploads
    <3>1. uploads + Cardinality(Unapplied(requests)) <= MaxUploads /\ uploads' = uploads
      BY DEF Numbered, store
    <3> QED BY <1>1, <2>2, <3>1
  <2> QED BY <1>1, <2>1, <2>3 DEF Numbered, store
<1>3. \A s \in requests' : ~s.alone
  BY DEF Lone
<1>4. r.alone => requests' = {}
  BY DEF Lone
<1>5. calm' => r.alone
  BY DEF Lone
<1> QED
  BY <1>2, <1>3, <1>4, <1>5 DEF Middle, Lone, LoneLoad

\* A request changes: alone or not, it stays so.
LEMMA ChangeFacts ==
    ASSUME SessionIInv, NEW r \in requests, NEW q, requests' = (requests \ {r}) \cup {q},
           q.alone = r.alone, calm' = calm
    PROVE  /\ Lone'
           /\ calm' => requests = {r} /\ requests' = {q} /\ r.alone
           /\ \A s \in requests' : s.alone => s = q /\ requests = {r} /\ r.alone
<1> USE DEF SessionIInv
<1>1. r.alone => requests = {r} /\ requests' = {q}
  BY DEF Lone
<1>2. \A s \in requests' : s.alone => s = q /\ r.alone
  BY DEF Lone
<1> QED
  BY <1>1, <1>2 DEF Lone

\* A turn that sends a request and leaves the page as it is.
LEMMA SendStep ==
    ASSUME SessionIInv, NEW kind \in {"upload", "save", "full", "selected"},
           NEW a \in 0..uploads, NEW d \in Drafts, Send(kind, a, d), kind # "upload" => a # 0,
           kind = "upload" => uploads + Cardinality({r \in requests : r.kind = "upload"}) < MaxUploads,
           IF kind = "save" THEN a = artifact /\ d = draft /\ unsaved' = "saving" ELSE unsaved' = unsaved,
           clicks' = clicks + 1, UNCHANGED <<view, store>>
    PROVE  SessionIInv'
<1> USE DEF view, store
<1>1. kind \in Kinds /\ SessionTypeOK /\ Numbered
  BY DEF Kinds, SessionIInv
<1>2. /\ requests' \subseteq RequestsOf /\ IsFiniteSet(requests')
      /\ uploads + Cardinality(Unapplied(requests')) <= MaxUploads
      /\ \A r \in requests' : /\ r.artifact <= uploads
                              /\ r.kind # "upload" \/ r.at = "answered" => r.artifact # 0
  BY <1>1, SendFacts
<1>3. /\ Uploading => Uploading'
      /\ \A r \in requests' : r.alone => /\ requests = {} /\ requests' = {r}
                                         /\ r.kind = kind /\ r.at = "sent"
                                         /\ r.artifact = a /\ r.draft = d
      /\ calm' => /\ calm /\ requests = {}
                  /\ \A r \in requests' : r.alone
  BY <1>1, SendFacts
<1>4. SessionTypeOK'
  BY <1>1, <1>2 DEF SessionTypeOK, RequestsOf
<1>5. Numbered'
  BY <1>1, <1>2 DEF Numbered
<1>6. Lone' /\ LoneLoad'
  BY <1>3 DEF Lone, LoneLoad
<1>7. Settled'
  <2> SUFFICES ASSUME calm'
               PROVE  /\ draft.of = artifact
                      /\ unsaved' = "no" /\ artifact # 0 => rules[artifact] = draft
                      /\ \A r \in requests' : r.kind = "save" =>
                            /\ unsaved' # "no"
                            /\ r.artifact = artifact /\ r.draft.of = artifact
                            /\ unsaved' = "saving" => r.draft = draft
                            /\ unsaved' = "saving" /\ r.at = "answered" => rules[artifact] = draft
    BY DEF Settled
  <2>1. calm /\ requests = {} /\ \A r \in requests' : r.kind = kind /\ r.artifact = a /\ r.draft = d /\ r.at = "sent"
    BY <1>3
  <2>2. draft.of = artifact /\ (unsaved = "no" /\ artifact # 0 => rules[artifact] = draft)
    BY <2>1 DEF SessionIInv, Settled
  <2> QED BY <2>1, <2>2
<1>8. ShownIsHeld' /\ ResultUnderItsArtifact'
  BY <1>3 DEF SessionIInv, ShownIsHeld, ResultUnderItsArtifact
<1> QED
  BY <1>4, <1>5, <1>6, <1>7, <1>8 DEF SessionIInv

\* A turn that sends nothing and draws the page again.
LEMMA DrawStep ==
    ASSUME SessionIInv, Render(artifact, draft), clicks' = clicks + 1,
           UNCHANGED <<artifact, draft, requests, store, calm, unsaved>>
    PROVE  SessionIInv'
<1> USE DEF store
<1>1. draft \in Drafts
  BY DEF SessionIInv, SessionTypeOK
<1>2. /\ dom' \in [checks : [Checks -> [enabled : BOOLEAN, points : Points]], live : BOOLEAN]
      /\ dom'.checks = draft.checks /\ result'.of = 0
  BY <1>1, RenderFacts
<1>3. SessionTypeOK'
  BY <1>2, WebAssumption DEF SessionIInv, SessionTypeOK
<1>4. Numbered'
  BY DEF SessionIInv, Numbered
<1>5. Lone' /\ LoneLoad' /\ Settled'
  BY DEF SessionIInv, Lone, LoneLoad, Settled
<1>6. ShownIsHeld' /\ ResultUnderItsArtifact'
  BY <1>2 DEF ShownIsHeld, ResultUnderItsArtifact
<1> QED
  BY <1>3, <1>4, <1>5, <1>6 DEF SessionIInv

LEMMA ClickStep ==
    ASSUME SessionIInv, Upload \/ Save \/ Grade("full") \/ Grade("selected")
    PROVE  SessionIInv'
<1>1. /\ artifact \in 0..uploads /\ draft \in Drafts /\ NoDraft \in Drafts
      /\ uploads \in Nat /\ clicks \in Nat
  BY InertFacts, WebAssumption DEF SessionIInv, SessionTypeOK, Numbered, NoDraft, Drafts
<1>2. CASE Upload
  <2>1. clicks' = clicks + 1 /\ unsaved' = unsaved /\ UNCHANGED store
    BY <1>2 DEF Upload, Click
  <2>2. CASE /\ uploads + Cardinality({r \in requests : r.kind = "upload"}) < MaxUploads
             /\ Send("upload", 0, NoDraft) /\ UNCHANGED view
    BY <1>1, <2>1, <2>2, SendStep
  <2>3. CASE Render(artifact, draft) /\ UNCHANGED <<artifact, draft, requests, calm>>
    BY <2>1, <2>3, DrawStep
  <2> QED BY <1>2, <2>2, <2>3 DEF Upload
<1>3. CASE Save
  <2>1. clicks' = clicks + 1 /\ artifact # 0 /\ UNCHANGED store
    BY <1>3 DEF Save, Click
  <2>2. CASE Send("save", artifact, draft) /\ unsaved' = "saving" /\ UNCHANGED view
    BY <1>1, <2>1, <2>2, SendStep
  <2>3. CASE Render(artifact, draft) /\ UNCHANGED <<artifact, draft, requests, calm, unsaved>>
    BY <2>1, <2>3, DrawStep
  <2> QED BY <1>3, <2>2, <2>3 DEF Save
<1>4. ASSUME NEW scope \in {"full", "selected"}, Grade(scope) PROVE SessionIInv'
  <2>1. clicks' = clicks + 1 /\ artifact # 0 /\ unsaved' = unsaved /\ UNCHANGED store
    BY <1>4 DEF Grade, Click
  <2>2. CASE Send(scope, artifact, NoDraft) /\ UNCHANGED view
    BY <1>1, <2>1, <2>2, SendStep
  <2>3. CASE Render(artifact, draft) /\ UNCHANGED <<artifact, draft, requests, calm>>
    BY <2>1, <2>3, DrawStep
  <2> QED BY <1>4, <2>2, <2>3 DEF Grade
<1> QED
  BY <1>2, <1>3, <1>4

LEMMA EditStep == ASSUME SessionIInv, NEW k \in Checks, Edit(k) PROVE SessionIInv'
<1>1. PICK field \in [enabled : BOOLEAN, points : Points] :
         /\ dom' = [dom EXCEPT !.checks[k] = field]
         /\ draft' = [draft EXCEPT !.checks[k] = Allocate(k, field)]
  BY DEF Edit
<1>2. /\ unsaved' = "yes"
      /\ UNCHANGED <<artifact, result, requests, store, clicks, calm>>
  BY DEF Edit
<1>3. Allocate(k, field) \in [enabled : BOOLEAN, points : Points]
  BY WebAssumption DEF Allocate
<1>4. draft' \in Drafts /\ draft'.of = draft.of
  BY <1>1, <1>3 DEF SessionIInv, SessionTypeOK, Drafts
<1>5. SessionTypeOK'
  <2>1. dom' \in [checks : [Checks -> [enabled : BOOLEAN, points : Points]], live : BOOLEAN]
    BY <1>1 DEF SessionIInv, SessionTypeOK
  <2> QED BY <1>2, <1>4, <2>1 DEF SessionIInv, SessionTypeOK, store
<1>6. Numbered'
  BY <1>2 DEF SessionIInv, Numbered, store
<1>7. Lone' /\ LoneLoad'
  BY <1>2 DEF SessionIInv, Lone, LoneLoad, store
<1>8. Settled'
  BY <1>2, <1>4 DEF SessionIInv, Settled, store
<1>9. ShownIsHeld'
  <2> SUFFICES ASSUME draft'.of # 0, NEW c \in Checks
               PROVE  /\ dom'.checks[c].enabled = draft'.checks[c].enabled
                      /\ draft'.checks[c].enabled => dom'.checks[c].points = draft'.checks[c].points
    BY DEF ShownIsHeld
  <2>1. /\ dom.checks[c].enabled = draft.checks[c].enabled
        /\ draft.checks[c].enabled => dom.checks[c].points = draft.checks[c].points
    BY <1>4 DEF SessionIInv, ShownIsHeld
  <2>2. /\ dom'.checks[c] = IF c = k THEN field ELSE dom.checks[c]
        /\ draft'.checks[c] = IF c = k THEN Allocate(k, field) ELSE draft.checks[c]
    BY <1>1 DEF SessionIInv, SessionTypeOK, Drafts
  <2>3. /\ Allocate(k, field).enabled = field.enabled
        /\ field.enabled => Allocate(k, field).points = field.points
    BY DEF Allocate
  <2> QED BY <2>1, <2>2, <2>3
<1>10. ResultUnderItsArtifact'
  BY <1>2 DEF SessionIInv, ResultUnderItsArtifact, Uploading
<1> QED
  BY <1>5, <1>6, <1>7, <1>8, <1>9, <1>10 DEF SessionIInv

\* upload() goes on: the request it made becomes its load.
LEMMA UploadedStep == ASSUME SessionIInv, NEW r \in requests, Uploaded(r) PROVE SessionIInv'
<1> DEFINE q == [r EXCEPT !.kind = "load", !.at = "sent"]
<1>1. /\ r.kind = "upload" /\ r.at = "answered" /\ artifact' = r.artifact
      /\ requests' = (requests \ {r}) \cup {q}
      /\ UNCHANGED <<draft, dom, result, store, clicks, calm, unsaved>>
  BY DEF Uploaded, history
<1>2. r \in RequestsOf /\ r.artifact <= uploads /\ r.artifact # 0
  BY <1>1 DEF SessionIInv, Numbered
<1>3. /\ q \in RequestsOf /\ q.kind = "load" /\ q.at = "sent"
      /\ q.artifact = r.artifact /\ q.alone = r.alone /\ q.draft = r.draft
  BY <1>2 DEF RequestsOf, Kinds
<1> HIDE DEF q
<1>4. /\ Lone'
      /\ calm' => requests = {r} /\ requests' = {q} /\ r.alone
      /\ \A s \in requests' : s.alone => s = q /\ requests = {r} /\ r.alone
  BY <1>1, <1>3, ChangeFacts
<1>5. SessionTypeOK'
  BY <1>1, <1>2, <1>3 DEF SessionIInv, SessionTypeOK, RequestsOf, store
<1>6. Numbered'
  <2>1. requests \subseteq RequestsOf /\ IsFiniteSet(requests) /\ uploads \in Nat /\ MaxUploads \in Nat
    BY WebAssumption DEF SessionIInv, Numbered, SessionTypeOK
  <2>2. IsFiniteSet(requests')
    BY <1>1, <2>1, FS_RemoveElement, FS_AddElement
  <2>3. /\ Unapplied(requests') \in SUBSET Unapplied(requests)
        /\ Unapplied(requests) \in SUBSET requests
    BY <1>1, <1>3 DEF Unapplied
  <2>4. IsFiniteSet(Unapplied(requests))
    BY <2>1, <2>3, FS_Subset
  <2>5. /\ Cardinality(Unapplied(requests')) <= Cardinality(Unapplied(requests))
        /\ Cardinality(Unapplied(requests)) \in Nat /\ Cardinality(Unapplied(requests')) \in Nat
    BY <2>3, <2>4, FS_Subset, FS_CardinalityType
  <2>6. uploads + Cardinality(Unapplied(requests')) <= MaxUploads
    <3>1. uploads + Cardinality(Unapplied(requests)) <= MaxUploads
      BY DEF SessionIInv, Numbered
    <3> QED BY <2>1, <2>5, <3>1
  <2> QED BY <1>1, <1>2, <1>3, <2>1, <2>2, <2>6 DEF SessionIInv, Numbered, store
<1>7. LoneLoad'
  BY <1>1, <1>3, <1>4 DEF SessionIInv, LoneLoad, store
<1>8. Settled'
  BY <1>3, <1>4 DEF Settled
<1>9. ShownIsHeld' /\ ResultUnderItsArtifact'
  BY <1>1, <1>3 DEF SessionIInv, ShownIsHeld, ResultUnderItsArtifact, Uploading
<1> QED
  BY <1>4, <1>5, <1>6, <1>7, <1>8, <1>9 DEF SessionIInv

LEMMA LoadedStep == ASSUME SessionIInv, NEW r \in requests, Loaded(r) PROVE SessionIInv'
<1>1. /\ r.kind = "load" /\ r.at = "answered" /\ draft' = r.draft
      /\ Render(artifact, r.draft) /\ requests' = requests \ {r}
      /\ calm' = (calm \/ r.alone) /\ unsaved' = "no"
      /\ UNCHANGED <<artifact, store, clicks>>
  BY DEF Loaded
<1>2. r.draft \in Drafts
  BY DEF SessionIInv, SessionTypeOK
<1>3. Middle' /\ (calm' => requests' = {} /\ r.alone)
  BY <1>1, EndFacts
<1>4. /\ dom' \in [checks : [Checks -> [enabled : BOOLEAN, points : Points]], live : BOOLEAN]
      /\ dom'.checks = r.draft.checks /\ result'.of = 0
  BY <1>1, <1>2, RenderFacts
<1>5. SessionTypeOK'
  BY <1>1, <1>2, <1>4, WebAssumption DEF SessionIInv, SessionTypeOK, store
<1>6. Settled'
  <2> SUFFICES ASSUME calm' PROVE draft' = rules[artifact] /\ draft'.of = artifact /\ requests' = {}
    BY <1>1 DEF Settled, store
  <2> QED BY <1>1, <1>3 DEF SessionIInv, LoneLoad
<1>7. ShownIsHeld' /\ ResultUnderItsArtifact'
  BY <1>1, <1>4 DEF ShownIsHeld, ResultUnderItsArtifact
<1> QED
  BY <1>3, <1>5, <1>6, <1>7 DEF SessionIInv, Middle

\* A save was answered, or a handler failed: the page is drawn from what it has.
LEMMA SavedStep == ASSUME SessionIInv, NEW r \in requests, Saved(r) \/ Failed(r) PROVE SessionIInv'
<1>1. /\ Render(artifact, draft) /\ requests' = requests \ {r}
      /\ UNCHANGED <<artifact, draft, store, clicks>>
      /\ calm' => calm /\ r.kind # "load"
      /\ \/ r.kind = "save" /\ r.at = "answered" /\ unsaved' = IF unsaved = "saving" THEN "no" ELSE unsaved
         \/ unsaved' = IF r.kind = "save" THEN "yes" ELSE unsaved
  <2>1. CASE Saved(r)
    BY <2>1 DEF Saved
  <2>2. CASE Failed(r)
    BY <2>2 DEF Failed
  <2> QED BY <2>1, <2>2
<1>2. draft \in Drafts
  BY DEF SessionIInv, SessionTypeOK
<1>3. Middle' /\ (calm' => requests' = {} /\ r.alone)
  BY <1>1, EndFacts
<1>4. /\ dom' \in [checks : [Checks -> [enabled : BOOLEAN, points : Points]], live : BOOLEAN]
      /\ dom'.checks = draft.checks /\ result'.of = 0
  BY <1>1, <1>2, RenderFacts
<1>5. SessionTypeOK'
  BY <1>1, <1>4, WebAssumption DEF SessionIInv, SessionTypeOK, store
<1>6. Settled'
  <2> SUFFICES ASSUME calm'
               PROVE  /\ draft.of = artifact /\ requests' = {}
                      /\ unsaved' = "no" /\ artifact # 0 => rules[artifact] = draft
    BY <1>1 DEF Settled, store
  <2>1. calm /\ r.kind # "load" /\ requests = {r} /\ requests' = {}
    BY <1>1, <1>3 DEF SessionIInv, Lone
  <2>2. /\ draft.of = artifact
        /\ unsaved = "no" /\ artifact # 0 => rules[artifact] = draft
        /\ r.kind = "save" => /\ unsaved # "no"
                              /\ unsaved = "saving" /\ r.at = "answered" => rules[artifact] = draft
    BY <2>1 DEF SessionIInv, Settled
  <2> QED BY <1>1, <2>1, <2>2
<1>7. ShownIsHeld' /\ ResultUnderItsArtifact'
  BY <1>1, <1>4 DEF ShownIsHeld, ResultUnderItsArtifact
<1> QED
  BY <1>3, <1>5, <1>6, <1>7 DEF SessionIInv, Middle

LEMMA GradedStep == ASSUME SessionIInv, NEW r \in requests, Graded(r) PROVE SessionIInv'
<1>1. /\ r.kind \in {"full", "selected"} /\ requests' = requests \ {r}
      /\ result' = [of |-> r.artifact, scope |-> r.kind, late |-> artifact # r.artifact]
      /\ UNCHANGED <<artifact, draft, dom, store, clicks, calm, unsaved>>
  BY DEF Graded, history
<1>2. Middle' /\ (calm' => requests' = {} /\ r.alone)
  BY <1>1, EndFacts
<1>3. SessionTypeOK'
  BY <1>1 DEF SessionIInv, SessionTypeOK, store
<1>4. Settled'
  <2> SUFFICES ASSUME calm'
               PROVE  /\ draft.of = artifact /\ requests' = {}
                      /\ unsaved = "no" /\ artifact # 0 => rules[artifact] = draft
    BY <1>1 DEF Settled, store
  <2>1. calm /\ requests = {r} /\ requests' = {}
    BY <1>1, <1>2 DEF SessionIInv, Lone
  <2> QED BY <1>1, <2>1 DEF SessionIInv, Settled
<1>5. ShownIsHeld' /\ ResultUnderItsArtifact'
  BY <1>1 DEF SessionIInv, ShownIsHeld, ResultUnderItsArtifact
<1> QED
  BY <1>2, <1>3, <1>4, <1>5 DEF SessionIInv, Middle

\* The server's turn: an upload it applies is the next artifact, a save it
\* applies is the rules of the artifact it names.
LEMMA ServeStep == ASSUME SessionIInv, NEW r \in requests, Serve(r) PROVE SessionIInv'
<1>1. PICK ok \in BOOLEAN, applied \in BOOLEAN :
         /\ ok => applied
         /\ LET a == IF r.kind = "upload" /\ applied THEN uploads + 1 ELSE r.artifact
                d == IF r.kind = "load" THEN rules[a] ELSE r.draft
            IN  requests' = (requests \ {r}) \cup
                   {[r EXCEPT !.at = IF ok THEN "answered" ELSE "failed", !.artifact = a, !.draft = d]}
         /\ uploads' = IF r.kind = "upload" /\ applied THEN uploads + 1 ELSE uploads
         /\ rules' = IF r.kind = "save" /\ applied THEN [rules EXCEPT ![r.artifact] = r.draft] ELSE rules
  BY DEF Serve
<1> DEFINE made == r.kind = "upload" /\ applied
           a == IF made THEN uploads + 1 ELSE r.artifact
           d == IF r.kind = "load" THEN rules[a] ELSE r.draft
           q == [r EXCEPT !.at = IF ok THEN "answered" ELSE "failed", !.artifact = a, !.draft = d]
<1>2. /\ r.at = "sent" /\ requests' = (requests \ {r}) \cup {q}
      /\ uploads' = IF made THEN uploads + 1 ELSE uploads
      /\ UNCHANGED <<artifact, draft, dom, result, clicks, calm, unsaved>>
  BY <1>1 DEF Serve, view, history
<1>3. /\ r \in RequestsOf /\ r.artifact <= uploads /\ uploads \in Nat /\ MaxUploads \in Nat
      /\ r.kind # "upload" => r.artifact # 0
      /\ requests \subseteq RequestsOf /\ IsFiniteSet(requests)
      /\ rules \in [Artifacts -> Drafts]
  BY WebAssumption DEF SessionIInv, Numbered, SessionTypeOK
<1>4. /\ IsFiniteSet(Unapplied(requests)) /\ Cardinality(Unapplied(requests)) \in Nat
      /\ uploads + Cardinality(Unapplied(requests)) <= MaxUploads
      /\ r.kind = "upload" => Cardinality(Unapplied(requests) \ {r}) = Cardinality(Unapplied(requests)) - 1
      /\ Cardinality(Unapplied(requests) \ {r}) <= Cardinality(Unapplied(requests))
      /\ Cardinality(Unapplied(requests) \ {r}) \in Nat /\ IsFiniteSet(Unapplied(requests) \ {r})
  <2>1. Unapplied(requests) \in SUBSET requests /\ Unapplied(requests) \ {r} \in SUBSET Unapplied(requests)
    BY DEF Unapplied
  <2>2. IsFiniteSet(Unapplied(requests))
    BY <2>1, <1>3, FS_Subset
  <2>3. r.kind = "upload" => r \in Unapplied(requests)
    BY <1>2 DEF Unapplied
  <2>4. r.kind = "upload" => Cardinality(Unapplied(requests) \ {r}) = Cardinality(Unapplied(requests)) - 1
    BY <2>2, <2>3, FS_RemoveElement
  <2>5. /\ Cardinality(Unapplied(requests) \ {r}) <= Cardinality(Unapplied(requests))
        /\ IsFiniteSet(Unapplied(requests) \ {r})
    BY <2>1, <2>2, FS_Subset
  <2> QED BY <2>2, <2>4, <2>5, FS_CardinalityType DEF SessionIInv, Numbered
<1>5. /\ uploads' \in Nat /\ uploads <= uploads' /\ uploads' <= MaxUploads
      /\ uploads' + Cardinality(Unapplied(requests) \ {r}) <= MaxUploads
      /\ a \in 0..MaxUploads /\ a <= uploads'
      /\ made \/ r.kind # "upload" => a # 0
  <2>1. CASE made
    BY <1>2, <1>3, <1>4, <2>1
  <2>2. CASE ~made
    BY <1>2, <1>3, <1>4, <2>2 DEF RequestsOf
  <2> QED BY <2>1, <2>2
<1>6. d \in Drafts
  <2>1. r.kind = "load" => a \in Artifacts
    BY <1>5 DEF Artifacts
  <2> QED BY <1>3, <2>1 DEF RequestsOf
<1> HIDE DEF a, d
<1>7. /\ q \in RequestsOf /\ q.kind = r.kind /\ q.alone = r.alone
      /\ q.artifact = a /\ q.draft = d
      /\ q.at = IF ok THEN "answered" ELSE "failed"
  BY <1>3, <1>5, <1>6 DEF RequestsOf
<1> HIDE DEF q
<1>8. /\ Lone'
      /\ calm' => requests = {r} /\ requests' = {q} /\ r.alone
      /\ \A s \in requests' : s.alone => s = q /\ requests = {r} /\ r.alone
  BY <1>2, <1>7, ChangeFacts
<1>9. rules' \in [Artifacts -> Drafts]
  BY <1>1, <1>3 DEF RequestsOf
<1>10. SessionTypeOK'
  BY <1>2, <1>3, <1>5, <1>7, <1>9 DEF SessionIInv, SessionTypeOK, RequestsOf
<1>11. Numbered'
  <2>1. IsFiniteSet(requests') /\ requests' \subseteq RequestsOf
    BY <1>2, <1>3, <1>7, FS_RemoveElement, FS_AddElement
  <2>2. uploads' + Cardinality(Unapplied(requests')) <= MaxUploads
    <3>1. Unapplied(requests') = Unapplied(requests) \ {r}
      BY <1>2, <1>7 DEF Unapplied
    <3> QED BY <1>5, <3>1
  <2>3. artifact <= uploads' /\ clicks \in Nat
    BY <1>3, <1>5 DEF SessionIInv, Numbered, SessionTypeOK
  <2>4. \A s \in requests' : /\ s.artifact <= uploads'
                             /\ s.kind # "upload" \/ s.at = "answered" => s.artifact # 0
    <3>1. /\ q.artifact <= uploads'
          /\ q.kind # "upload" \/ q.at = "answered" => q.artifact # 0
      BY <1>1, <1>5, <1>7
    <3>2. \A s \in requests : /\ s.artifact <= uploads'
                              /\ s.kind # "upload" \/ s.at = "answered" => s.artifact # 0
      <4>1. \A s \in requests : s.artifact \in Nat /\ s.artifact <= uploads
        BY <1>3 DEF SessionIInv, Numbered, RequestsOf
      <4> QED BY <1>3, <1>5, <4>1 DEF SessionIInv, Numbered
    <3> QED BY <1>2, <3>1, <3>2
  <2>5. \A c \in Artifacts : c > uploads' => rules'[c] = Fresh(c)
    <3> SUFFICES ASSUME NEW c \in Artifacts, c > uploads' PROVE rules'[c] = Fresh(c)
      OBVIOUS
    <3>1. c > uploads /\ c # r.artifact
      BY <1>3, <1>5 DEF Artifacts, RequestsOf
    <3> QED BY <1>1, <1>3, <3>1 DEF SessionIInv, Numbered
  <2> QED BY <1>2, <2>1, <2>2, <2>3, <2>4, <2>5 DEF Numbered
<1>12. LoneLoad'
  <2> SUFFICES ASSUME r.alone, requests = {r}
               PROVE  /\ (q.kind = "upload" /\ q.at = "answered") \/ q.kind = "load" => rules'[q.artifact].of = q.artifact
                      /\ q.kind = "load" => q.artifact = artifact
                      /\ q.kind = "load" /\ q.at = "answered" => q.draft = rules'[q.artifact]
    BY <1>2, <1>8 DEF LoneLoad
  <2>1. CASE r.kind = "upload"
    <3>1. q.at = "answered" => made
      BY <1>1, <1>7, <2>1
    <3>2. made => a = uploads + 1 /\ a \in Artifacts /\ rules'[a] = rules[a]
      BY <1>1, <1>2, <1>3, <1>5, <2>1 DEF a, Artifacts
    <3>3. made => rules[a] = Fresh(a)
      BY <1>3, <3>2 DEF SessionIInv, Numbered
    <3> QED BY <1>7, <2>1, <3>1, <3>2, <3>3 DEF Fresh
  <2>2. CASE r.kind = "load"
    <3>1. a = r.artifact /\ rules' = rules /\ d = rules[a]
      BY <1>1, <2>2 DEF a, d
    <3> QED BY <1>7, <2>2, <3>1 DEF SessionIInv, LoneLoad
  <2>3. CASE r.kind \notin {"upload", "load"}
    BY <1>7, <2>3
  <2> QED BY <2>1, <2>2, <2>3
<1>13. Settled'
  <2> SUFFICES ASSUME calm, r.kind # "load", requests = {r}, requests' = {q}
               PROVE  /\ draft.of = artifact
                      /\ unsaved = "no" /\ artifact # 0 => rules'[artifact] = draft
                      /\ r.kind = "save" =>
                            /\ unsaved # "no"
                            /\ q.artifact = artifact /\ q.draft.of = artifact
                            /\ unsaved = "saving" => q.draft = draft
                            /\ unsaved = "saving" /\ q.at = "answered" => rules'[artifact] = draft
    BY <1>2, <1>7, <1>8 DEF Settled
  <2>1. /\ draft.of = artifact
        /\ unsaved = "no" /\ artifact # 0 => rules[artifact] = draft
        /\ r.kind = "save" => /\ unsaved # "no"
                              /\ r.artifact = artifact /\ r.draft.of = artifact
                              /\ unsaved = "saving" => r.draft = draft
    BY DEF SessionIInv, Settled
  <2>2. CASE r.kind = "save"
    <3>1. a = r.artifact /\ d = r.draft /\ a \in Artifacts
      BY <1>5, <2>2 DEF a, d, Artifacts
    <3>2. q.at = "answered" => rules'[artifact] = r.draft
      BY <1>1, <1>3, <1>7, <2>1, <2>2, <3>1
    <3> QED BY <1>7, <2>1, <2>2, <3>1, <3>2
  <2>3. CASE r.kind # "save"
    BY <1>1, <2>1, <2>3
  <2> QED BY <2>2, <2>3
<1>14. ShownIsHeld' /\ ResultUnderItsArtifact'
  BY <1>2, <1>7 DEF SessionIInv, ShownIsHeld, ResultUnderItsArtifact, Uploading
<1> QED
  BY <1>8, <1>10, <1>11, <1>12, <1>13, <1>14 DEF SessionIInv

LEMMA SessionNextIInv == SessionIInv /\ [SessionNext]_sessionVars => SessionIInv'
<1> SUFFICES ASSUME SessionIInv, [SessionNext]_sessionVars PROVE SessionIInv'
  OBVIOUS
<1>1. CASE Upload \/ Save \/ Grade("full") \/ Grade("selected")
  BY <1>1, ClickStep
<1>2. ASSUME NEW k \in Checks, Edit(k) PROVE SessionIInv'
  BY <1>2, EditStep
<1>3. ASSUME NEW r \in requests, Serve(r) \/ Uploaded(r) \/ Loaded(r) \/ Saved(r) \/ Graded(r) \/ Failed(r)
      PROVE  SessionIInv'
  BY <1>3, ServeStep, UploadedStep, LoadedStep, SavedStep, GradedStep
<1>4. CASE UNCHANGED sessionVars
  <2> USE <1>4 DEF sessionVars, view, store, history, SessionIInv
  <2>1. SessionTypeOK' /\ Numbered'
    BY DEF SessionTypeOK, Numbered
  <2>2. Lone' /\ LoneLoad' /\ Settled'
    BY DEF Lone, LoneLoad, Settled
  <2>3. ShownIsHeld' /\ ResultUnderItsArtifact'
    BY DEF ShownIsHeld, ResultUnderItsArtifact, Uploading
  <2> QED BY <2>1, <2>2, <2>3
<1> QED
  BY <1>1, <1>2, <1>3, <1>4 DEF SessionNext

\* The invariant the page's theorems follow from: who is alone, whose answer is
\* for which artifact, and what the page may believe the server holds.
THEOREM SessionInvariantHolds == SessionSpec => []SessionIInv
  BY SessionInitIInv, SessionNextIInv, PTL DEF SessionSpec

THEOREM SessionTypeCorrect == SessionSpec => []SessionTypeOK
<1>1. SessionIInv => SessionTypeOK
  BY DEF SessionIInv
<1> QED
  BY <1>1, SessionInvariantHolds, PTL

\* main.ts replaces the artifact before its draft: a draft is still saved only
\* under its own artifact, if the last upload ended well and nothing overlapped
\* it, for any number of checks, artifacts and clicks.
THEOREM DraftsGoHome == SessionSpec => []DraftGoesToItsArtifact
<1>1. SessionIInv => DraftGoesToItsArtifact
  <2> SUFFICES ASSUME SessionIInv, NEW r \in requests, r.kind = "save", r.alone, calm
               PROVE  r.draft.of = r.artifact
    BY DEF DraftGoesToItsArtifact
  <2>1. \A s \in requests : s.kind # "load"
    BY DEF SessionIInv, Lone
  <2> QED BY <2>1 DEF SessionIInv, Settled
<1> QED
  BY <1>1, SessionInvariantHolds, PTL

\* #result is written by whichever grade answers last; every end of an upload
\* draws the page without it.
THEOREM ResultsStayUnderTheirArtifact == SessionSpec => []ResultUnderItsArtifact
<1>1. SessionIInv => ResultUnderItsArtifact
  BY DEF SessionIInv
<1> QED
  BY <1>1, SessionInvariantHolds, PTL

\* What the user sees is what the page holds and would save, and, once a save
\* was answered and nothing overlapped it, what the server grades.
THEOREM WhatIsShownIsGraded == SessionSpec => []ShownHeldAndGraded
<1>1. SessionIInv => ShownHeldAndGraded
  BY DEF SessionIInv, ShownHeldAndGraded, ServerHoldsTheRules, Settled
<1> QED
  BY <1>1, SessionInvariantHolds, PTL

==============================================================================
