------------------------------ MODULE WebSession ------------------------------
(* apps/web/src/main.ts: the page after its bootstrap.  Its handlers await    *)
(* answers of a server and may overlap: an action is one turn of the page, or *)
(* one request taken by the server, which may apply it and fail to answer.    *)
(* The server's routes are external, modelled from what api.ts asks of them.  *)
EXTENDS Integers, FiniteSets, FiniteSetsExt

CONSTANTS Checks,      \* the checks of the one problem a draft has
          Points,      \* what a points field may hold
          MaxScore,    \* maxScore of the problem
          MaxUploads,  \* bound of the model: artifacts
          MaxClicks,   \* bound of the model: submissions and clicks
          MaxInFlight  \* bound of the model: handlers under way at once

ASSUME WebAssumption == /\ Points \subseteq Nat /\ 0 \in Points
                        /\ MaxScore \in Nat /\ MaxUploads \in Nat
                        /\ MaxClicks \in Nat /\ MaxInFlight \in Nat

VARIABLES hasCsrf,   \* whether the bootstrap left a csrf token
          artifact,  \* main.ts: artifact, 0 for undefined
          draft,     \* main.ts: draft
          dom,       \* the page: its fields, and whether its buttons work
          result,    \* the page: what #result shows
          requests,  \* handlers waiting for an answer
          rules,     \* server: the draft it holds for each artifact
          uploads,   \* server: artifacts made so far
          clicks,
          calm,      \* history: since the last lone, complete upload nothing overlapped it
          unsaved    \* history: "no", "saving", or "yes" after an edit or a failed save

view == <<artifact, draft, dom, result>>
store == <<rules, uploads>>
history == <<calm, unsaved>>
sessionVars == <<hasCsrf, view, requests, store, clicks, history>>

Artifacts == 1..MaxUploads
Inert     == [k \in Checks |-> [enabled |-> FALSE, points |-> 0]]
NoDraft   == [of |-> 0, checks |-> Inert]  \* the empty list of problems
Fresh(a)  == [of |-> a, checks |-> Inert]
NoResult  == [of |-> 0, scope |-> "none", late |-> FALSE]

\* assertDraftAllocation of the draft.
Valid(d) == LET on == {k \in Checks : d.checks[k].enabled}
            IN  /\ d.of # 0 /\ on # {}
                /\ MapThenSumSet(LAMBDA k : d.checks[k].points, on) = MaxScore

\* render(): fields and buttons from the variables, an empty #result.
Render(a, d) == /\ dom' = [checks |-> d.checks, live |-> a # 0]
                /\ result' = NoResult

SessionInit == /\ hasCsrf \in BOOLEAN
               /\ artifact = 0 /\ draft = NoDraft
               /\ dom = [checks |-> Inert, live |-> FALSE]
               /\ result = NoResult
               /\ requests = {}
               /\ rules = [a \in Artifacts |-> Fresh(a)]
               /\ uploads = 0 /\ clicks = 0
               /\ calm = TRUE /\ unsaved = "no"

Uploading == \E r \in requests : r.kind \in {"upload", "load"}

\* A request is on its way; it is alone until another one is.
Send(kind, a, d) ==
    /\ requests' = {[r EXCEPT !.alone = FALSE] : r \in requests} \cup
                   {[n |-> clicks, kind |-> kind, artifact |-> a, draft |-> d, at |-> "sent",
                     alone |-> requests = {}]}
    /\ calm' = (calm /\ requests = {})

Click == /\ clicks < MaxClicks
         /\ Cardinality(requests) < MaxInFlight
         /\ clicks' = clicks + 1

------------------------------------------------------------------------------
\* upload(), to its first await.  Without a csrf token #json throws before it
\* sends anything; without a file there is nothing to send.
Upload == /\ Click
          /\ \/ /\ hasCsrf /\ uploads + Cardinality({r \in requests : r.kind = "upload"}) < MaxUploads
                /\ Send("upload", 0, NoDraft)
                /\ UNCHANGED view
             \/ /\ Render(artifact, draft)
                /\ UNCHANGED <<artifact, draft, requests, calm>>
          /\ UNCHANGED <<hasCsrf, store, unsaved>>

\* save(): the check and the request are one turn.
Save == /\ Click
        /\ dom.live /\ artifact # 0
        /\ IF Valid(draft)
           THEN /\ Send("save", artifact, draft)
                /\ unsaved' = "saving"
                /\ UNCHANGED view
           ELSE Render(artifact, draft) /\ UNCHANGED <<artifact, draft, requests, calm, unsaved>>
        /\ UNCHANGED <<hasCsrf, store>>

\* grade(): the draft is checked, the artifact's id and a scope are sent.
Grade(scope) == /\ Click
                /\ dom.live /\ artifact # 0
                /\ IF Valid(draft)
                   THEN Send(scope, artifact, NoDraft) /\ UNCHANGED view
                   ELSE Render(artifact, draft) /\ UNCHANGED <<artifact, draft, requests, calm>>
                /\ UNCHANGED <<hasCsrf, store, unsaved>>

\* updateAllocation with allocateCheck, after the user changed a field: a
\* disabled check holds no points, whatever its field shows.
Allocate(k, field) ==
    [enabled |-> field.enabled, points |-> IF field.enabled THEN field.points ELSE 0]

Edit(k) == /\ draft.of # 0
           /\ \E field \in [enabled : BOOLEAN, points : Points] :
                 /\ \/ field.enabled # dom.checks[k].enabled /\ field.points = dom.checks[k].points
                    \/ field.enabled = dom.checks[k].enabled /\ field.points # dom.checks[k].points
                 /\ dom' = [dom EXCEPT !.checks[k] = field]
                 /\ draft' = [draft EXCEPT !.checks[k] = Allocate(k, field)]
           /\ unsaved' = "yes"
           /\ UNCHANGED <<hasCsrf, artifact, result, requests, store, clicks, calm>>

------------------------------------------------------------------------------
\* The server takes a request: it applies it and answers, applies it and the
\* answer is lost, or refuses it.
Serve(r) ==
    /\ r.at = "sent"
    /\ \E ok \in BOOLEAN, applied \in BOOLEAN :
          /\ ok => applied
          /\ LET a == IF r.kind = "upload" /\ applied THEN uploads + 1 ELSE r.artifact
                 d == IF r.kind = "load" THEN rules[a] ELSE r.draft
             IN  requests' = (requests \ {r}) \cup
                    {[r EXCEPT !.at = IF ok THEN "answered" ELSE "failed", !.artifact = a, !.draft = d]}
          /\ uploads' = IF r.kind = "upload" /\ applied THEN uploads + 1 ELSE uploads
          /\ rules' = IF r.kind = "save" /\ applied THEN [rules EXCEPT ![r.artifact] = r.draft] ELSE rules
    /\ UNCHANGED <<hasCsrf, view, clicks, history>>

\* upload() after its first await: the artifact is the new one at once, its
\* draft is asked for.
Uploaded(r) ==
    /\ r.kind = "upload" /\ r.at = "answered"
    /\ artifact' = r.artifact
    /\ requests' = (requests \ {r}) \cup {[r EXCEPT !.kind = "load", !.at = "sent"]}
    /\ UNCHANGED <<hasCsrf, draft, dom, result, store, clicks, history>>

\* Mutated: a draft the page already has is not replaced.
Loaded_KeepsOld(r) ==
    /\ r.kind = "load" /\ r.at = "answered"
    /\ draft' = IF draft.of = 0 THEN r.draft ELSE draft
    /\ Render(artifact, draft')
    /\ requests' = requests \ {r}
    /\ calm' = (calm \/ r.alone)
    /\ unsaved' = "no"
    /\ UNCHANGED <<hasCsrf, artifact, store, clicks>>

Loaded(r) ==
    /\ r.kind = "load" /\ r.at = "answered"
    /\ draft' = r.draft
    /\ Render(artifact, r.draft)
    /\ requests' = requests \ {r}
    /\ calm' = (calm \/ r.alone)
    /\ unsaved' = "no"
    /\ UNCHANGED <<hasCsrf, artifact, store, clicks>>

Saved(r) ==
    /\ r.kind = "save" /\ r.at = "answered"
    /\ Render(artifact, draft)
    /\ requests' = requests \ {r}
    /\ unsaved' = IF unsaved = "saving" THEN "no" ELSE unsaved
    /\ UNCHANGED <<hasCsrf, artifact, draft, store, clicks, calm>>

\* grade() writes the answer into the #result there is now.
Graded(r) ==
    /\ r.kind \in {"full", "selected"} /\ r.at = "answered"
    /\ result' = [of |-> r.artifact, scope |-> r.kind, late |-> artifact # r.artifact]
    /\ requests' = requests \ {r}
    /\ UNCHANGED <<hasCsrf, artifact, draft, dom, store, clicks, history>>

\* Mutated: a failed upload leaves the page as it is.
Failed_Quietly(r) ==
    /\ r.at = "failed"
    /\ IF r.kind \in {"upload", "load"} THEN UNCHANGED <<dom, result>> ELSE Render(artifact, draft)
    /\ requests' = requests \ {r}
    /\ calm' = (calm /\ r.kind # "load")
    /\ unsaved' = IF r.kind = "save" THEN "yes" ELSE unsaved
    /\ UNCHANGED <<hasCsrf, artifact, draft, store, clicks>>

\* Mutated: a failed upload empties the draft and keeps the artifact.
Failed_ClearsDraft(r) ==
    /\ r.at = "failed"
    /\ draft' = IF r.kind = "upload" THEN NoDraft ELSE draft
    /\ Render(artifact, draft')
    /\ requests' = requests \ {r}
    /\ calm' = (calm /\ r.kind # "load")
    /\ unsaved' = IF r.kind = "save" THEN "yes" ELSE unsaved
    /\ UNCHANGED <<hasCsrf, artifact, store, clicks>>

\* The catch of every handler.  After a failed load the new artifact stays,
\* with the draft of the one before.
Failed(r) ==
    /\ r.at = "failed"
    /\ Render(artifact, draft)
    /\ requests' = requests \ {r}
    /\ calm' = (calm /\ r.kind # "load")
    /\ unsaved' = IF r.kind = "save" THEN "yes" ELSE unsaved
    /\ UNCHANGED <<hasCsrf, artifact, draft, store, clicks>>

SessionNext == \/ Upload \/ Save \/ Grade("full") \/ Grade("selected")
               \/ \E k \in Checks : Edit(k)
               \/ \E r \in requests : \/ Serve(r) \/ Uploaded(r) \/ Loaded(r)
                                      \/ Saved(r) \/ Graded(r) \/ Failed(r)

SessionSpec == SessionInit /\ [][SessionNext]_sessionVars

------------------------------------------------------------------------------
Kinds == {"upload", "load", "save", "full", "selected"}
Drafts == [of : 0..MaxUploads, checks : [Checks -> [enabled : BOOLEAN, points : Points]]]

SessionTypeOK == /\ artifact \in 0..MaxUploads /\ draft \in Drafts
                 /\ dom \in [checks : [Checks -> [enabled : BOOLEAN, points : Points]], live : BOOLEAN]
                 /\ result.of \in 0..MaxUploads
                 /\ \A r \in requests : r.kind \in Kinds /\ r.artifact \in 0..MaxUploads /\ r.draft \in Drafts
                 /\ rules \in [Artifacts -> Drafts] /\ uploads \in 0..MaxUploads

\* A draft is saved only under the artifact it was loaded for, whatever failed
\* before, if the user let the last upload end well and overlapped nothing with
\* it.  Otherwise it need not be: main.ts replaces the artifact before its draft.
DraftGoesToItsArtifact ==
    \A r \in requests : r.kind = "save" /\ r.alone /\ calm => r.draft.of = r.artifact

\* A result that was shown under its own artifact does not outlive it: once a
\* later upload is over, well or not, the page has been drawn anew without it.
ResultUnderItsArtifact ==
    result.of # 0 /\ result.of # artifact => result.late \/ Uploading

\* The fields the user sees are the draft the page holds and would save, through
\* every edit, answer and failure, in any order (a disabled check's points field
\* is the one exception); and when nothing was overlapped, nothing is under way
\* and nothing was edited since a save that was answered, they are what the
\* server grades.
ShownIsHeld ==
    draft.of # 0 => \A k \in Checks : /\ dom.checks[k].enabled = draft.checks[k].enabled
                                      /\ draft.checks[k].enabled => dom.checks[k].points = draft.checks[k].points

ServerHoldsTheRules ==
    calm /\ requests = {} /\ unsaved = "no" /\ artifact # 0 => rules[artifact] = draft
ShownHeldAndGraded == ShownIsHeld /\ ServerHoldsTheRules

==============================================================================
