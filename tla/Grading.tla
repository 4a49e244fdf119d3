-------------------------------- MODULE Grading --------------------------------
(* A rule set, graded: packages/domain/src/draft.ts (what may be saved),       *)
(* packages/grader/src/grade.ts with extract.ts and normalization.ts (the      *)
(* grading itself), scoring.ts (checked sums, percentages) and results.ts      *)
(* (what a summary must satisfy to cross the wire).  The functions are pure;   *)
(* the state machine takes one rule set, selection and evidence through them.  *)
(* A sum of points does not depend on the order of its terms, so problems and  *)
(* checks are sets; which of several errors is thrown first is left open.      *)
EXTENDS Integers, Sequences, FiniteSets, FiniteSetsExt, Functions

CONSTANTS Ids, Checks,  \* problem ids, and the checks spread over them
          Points,       \* points a check may carry
          MaxSafe,      \* Number.MAX_SAFE_INTEGER
          Values,       \* canonical values
          Missing,      \* the value of an item that has none: JavaScript's undefined
          PathLike,     \* those that the pattern `pathLike` matches
          Selections,   \* sequences of ids a caller selects
          All           \* no selection: selectedProblemIds is undefined

ASSUME GradingAssumption == /\ IsFiniteSet(Ids) /\ IsFiniteSet(Checks)
                            /\ Points \subseteq Nat
                            /\ MaxSafe \in Nat \ {0}
                            /\ PathLike \subseteq Values /\ Missing \notin Values
                            /\ All \notin Selections

VARIABLES rules,      \* the problems: maximum, the checks with their owner, and
                      \* what a check lacks of what grading asks of it
          selection,  \* selectedProblemIds
          evidence,   \* the canonical evidence found for each check's locator
          twice,      \* some locator occurs twice in it
          saved,      \* outcome of assertDraftAllocation
          graded      \* whether gradeCanonicalEvidence has returned, or thrown

vars == <<rules, selection, evidence, twice, saved, graded>>

Null == -1   \* JavaScript's null, among the points

------------------------------------------------------------------------------
(* scoring.ts *)

IsScorePoints(n) == n \in 0..MaxSafe

\* In hundredths of a percent.
PercentHalfUp(earned, denominator) ==
    IF denominator = 0 THEN Null
    ELSE (earned * 10000 + denominator \div 2) \div denominator

------------------------------------------------------------------------------
(* draft.ts *)

OwnedBy(i) == {c \in Checks : rules.owner[c] = i}
Enabled(i) == {c \in OwnedBy(i) : rules.check[c].enabled}
PointsAt == [c \in Checks |-> rules.check[c].points]
PointsOf(S) == MapThenSumSet(LAMBDA c : PointsAt[c], S)

\* Mutated: a problem's points are not compared with its maximum.
AssertDraftAllocation_NoSum ==
    /\ \A c \in Checks : ~rules.check[c].enabled => rules.check[c].points = 0
    /\ \E i \in Ids : Enabled(i) # {}

AssertDraftAllocation ==
    /\ \A c \in Checks : ~rules.check[c].enabled => rules.check[c].points = 0
    /\ \A i \in Ids : /\ IsScorePoints(PointsOf(Enabled(i)))
                      /\ PointsOf(Enabled(i)) = rules.max[i]
    /\ \E i \in Ids : Enabled(i) # {}

------------------------------------------------------------------------------
(* normalization.ts *)

Normalize(v) == IF v \in PathLike THEN "[redacted]" ELSE v
EquivalentCanonicalValue(expected, observed) == Normalize(expected) = Normalize(observed)

------------------------------------------------------------------------------
(* grade.ts, over a selection and the evidence for each check *)

InScope(sel) == IF sel = All THEN Ids ELSE Ids \cap Range(sel)
Adjudicated(sel) == UNION {Enabled(i) : i \in InScope(sel)}

CheckStatus(c, ev) ==
    IF ev[c].status = "unsupported" THEN "unsupported"
    ELSE IF ev[c].status # "ok" THEN "error"
    ELSE IF EquivalentCanonicalValue(rules.check[c].expected, ev[c].value) THEN "pass" ELSE "fail"

Unknown(c, ev) == CheckStatus(c, ev) \in {"unsupported", "error"}
Earned(S, ev) == PointsOf({c \in S : CheckStatus(c, ev) = "pass"})

\* Mutated: an incomplete problem is awarded what it has earned so far.
ProblemResult_Partial(i, sel, ev) ==
    LET checks == IF i \in InScope(sel) THEN Enabled(i) ELSE {}
        status == IF i \notin InScope(sel) THEN "out-of-scope"
                  ELSE IF checks = {} THEN "empty"
                  ELSE IF \E c \in checks : Unknown(c, ev) THEN "incomplete" ELSE "final"
    IN [status |-> status, declared |-> rules.max[i],
        awarded |-> IF status \in {"final", "incomplete"} THEN Earned(checks, ev) ELSE Null,
        checks |-> [c \in checks |-> CheckStatus(c, ev)]]

\* Mutated: the list of checks is not emptied between problems.
ProblemResult_SharedChecks(i, sel, ev) ==
    LET checks == IF i \in InScope(sel) THEN Adjudicated(sel) ELSE {}
        status == IF i \notin InScope(sel) THEN "out-of-scope"
                  ELSE IF checks = {} THEN "empty"
                  ELSE IF \E c \in checks : Unknown(c, ev) THEN "incomplete" ELSE "final"
    IN [status |-> status, declared |-> rules.max[i],
        awarded |-> IF status = "final" THEN Earned(checks, ev) ELSE Null,
        checks |-> [c \in checks |-> CheckStatus(c, ev)]]

ProblemResult(i, sel, ev) ==
    LET checks == IF i \in InScope(sel) THEN Enabled(i) ELSE {}
        status == IF i \notin InScope(sel) THEN "out-of-scope"
                  ELSE IF checks = {} THEN "empty"
                  ELSE IF \E c \in checks : Unknown(c, ev) THEN "incomplete" ELSE "final"
    IN [status |-> status, declared |-> rules.max[i],
        awarded |-> IF status = "final" THEN Earned(checks, ev) ELSE Null,
        checks |-> [c \in checks |-> CheckStatus(c, ev)]]

MaxOf(S) == MapThenSumSet(LAMBDA i : rules.max[i], S)

\* Mutated: every enabled check is looked up and counted, selected or not.
Summary_Unscoped(sel, ev) ==
    LET all     == UNION {Enabled(i) : i \in Ids}
        inMax   == MaxOf(InScope(sel))
        outMax  == MaxOf(Ids \ InScope(sel))
        unknown == PointsOf({c \in all : Unknown(c, ev)})
        earned  == Earned(all, ev)
        kind    == IF inMax = 0 THEN "empty" ELSE IF unknown > 0 THEN "incomplete" ELSE "final"
        final   == IF kind = "final" THEN earned ELSE Null
        scope   == IF sel = All \/ outMax = 0 THEN "full" ELSE "selected"
    IN [declaredMax |-> inMax + outMax, selectedDeclaredMax |-> inMax, outOfScopePoints |-> outMax,
        verifiedEarned |-> earned,
        failedPoints |-> PointsOf({c \in all : CheckStatus(c, ev) = "fail"}),
        indeterminatePoints |-> unknown, finalScorePoints |-> final,
        finalPercent |-> IF final = Null THEN Null ELSE PercentHalfUp(final, inMax),
        executionScope |-> scope, adjudication |-> kind, representsWholeRuleSet |-> scope = "full"]

Summary(sel, ev) ==
    LET inMax   == MaxOf(InScope(sel))
        outMax  == MaxOf(Ids \ InScope(sel))
        unknown == PointsOf({c \in Adjudicated(sel) : Unknown(c, ev)})
        earned  == Earned(Adjudicated(sel), ev)
        kind    == IF inMax = 0 THEN "empty" ELSE IF unknown > 0 THEN "incomplete" ELSE "final"
        final   == IF kind = "final" THEN earned ELSE Null
        scope   == IF sel = All \/ outMax = 0 THEN "full" ELSE "selected"
    IN [declaredMax |-> inMax + outMax, selectedDeclaredMax |-> inMax, outOfScopePoints |-> outMax,
        verifiedEarned |-> earned,
        failedPoints |-> PointsOf({c \in Adjudicated(sel) : CheckStatus(c, ev) = "fail"}),
        indeterminatePoints |-> unknown, finalScorePoints |-> final,
        finalPercent |-> IF final = Null THEN Null ELSE PercentHalfUp(final, inMax),
        executionScope |-> scope, adjudication |-> kind, representsWholeRuleSet |-> scope = "full"]

\* A check that grading cannot adjudicate: redactEvidence hashes what it expects
\* and what was found for it, and throws when there is no such value.
Unhashable(c, ev) == rules.lacks[c] = "expected" \/ (ev[c].status = "ok" /\ ev[c].value = Missing)

\* What makes grading throw: a selection that names an unknown problem or one
\* twice; a duplicate in the evidence; a check, disabled or not, without a known
\* capability; an enabled one without a locator, selected or not; a selected one
\* without a value to compare; a sum beyond the safe integers (every sum is
\* bounded by one of these); a problem whose points are not its maximum.
GradeThrows(sel, ev) ==
    \/ sel # All /\ (~ Range(sel) \subseteq Ids \/ Cardinality(Range(sel)) # Len(sel))
    \/ twice
    \/ \E c \in Checks : rules.lacks[c] = "capability"
    \/ \E i \in Ids : \E c \in Enabled(i) : rules.lacks[c] = "locator"
    \/ \E c \in Adjudicated(sel) : Unhashable(c, ev)
    \/ ~IsScorePoints(MaxOf(Ids))
    \/ \E i \in Ids : ~IsScorePoints(PointsOf(Enabled(i))) \/ PointsOf(Enabled(i)) # rules.max[i]

GradeCanonicalEvidence(sel, ev) ==
    [problems |-> [i \in Ids |-> ProblemResult(i, sel, ev)], summary |-> Summary(sel, ev)]

------------------------------------------------------------------------------
(* results.ts *)

AssertGradeSummaryWire(s) ==
    LET adjudicated == s.verifiedEarned + s.failedPoints + s.indeterminatePoints IN
    /\ \A n \in {s.declaredMax, s.selectedDeclaredMax, s.outOfScopePoints,
                 s.verifiedEarned, s.failedPoints, s.indeterminatePoints} : IsScorePoints(n)
    /\ s.representsWholeRuleSet = (s.executionScope = "full")
    /\ s.declaredMax = s.selectedDeclaredMax + s.outOfScopePoints
    /\ (s.executionScope = "full") = (s.outOfScopePoints = 0)
    /\ IsScorePoints(adjudicated)
    /\ CASE s.adjudication = "empty" ->
              /\ s.selectedDeclaredMax = 0 /\ adjudicated = 0
              /\ s.finalScorePoints = Null /\ s.finalPercent = Null
         [] s.adjudication = "incomplete" ->
              /\ s.selectedDeclaredMax > 0 /\ s.selectedDeclaredMax = adjudicated
              /\ s.indeterminatePoints > 0
              /\ s.finalScorePoints = Null /\ s.finalPercent = Null
         [] s.adjudication = "final" ->
              /\ s.selectedDeclaredMax > 0 /\ s.selectedDeclaredMax = adjudicated
              /\ s.indeterminatePoints = 0 /\ s.finalScorePoints = s.verifiedEarned
              /\ s.finalPercent = PercentHalfUp(s.verifiedEarned, s.selectedDeclaredMax)

------------------------------------------------------------------------------
\* The inputs: what a disabled check expects matters to nothing; a draft's
\* disabled check carries no points, a request's may.
Check == [enabled : {TRUE}, points : Points, expected : Values]
         \cup [enabled : {FALSE}, points : {0, 1}, expected : {CHOOSE v \in Values : TRUE}]
Item  == [status : {"absent", "unsupported", "error"}] \cup [status : {"ok"}, value : Values \cup {Missing}]

\* A rule set whose problems are allocated exactly, or one of them off by one, or
\* one of whose checks lacks something.
Lacking == {"capability", "locator", "expected"}
Init == /\ \E owner \in [Checks -> Ids], check \in [Checks -> Check],
              off \in {{}} \cup {{i} : i \in Ids}, short \in {{}} \cup {{c} : c \in Checks} :
           \E what \in Lacking :
              LET sum(i) == MapThenSumSet(LAMBDA c : check[c].points,
                                          {c \in Checks : owner[c] = i /\ check[c].enabled})
              IN /\ off = {} \/ short = {}
                 /\ rules = [owner |-> owner, check |-> check,
                             max   |-> [i \in Ids |-> IF i \in off THEN sum(i) + 1 ELSE sum(i)],
                             lacks |-> [c \in Checks |-> IF c \in short THEN what ELSE "nothing"]]
        /\ selection \in Selections \cup {All}
        /\ evidence \in [Checks -> Item]
        /\ twice \in (IF selection = All THEN BOOLEAN ELSE {FALSE})
        /\ saved = "no"
        /\ graded = "no"

Save == /\ saved = "no"
        /\ saved' = IF AssertDraftAllocation THEN "yes" ELSE "refused"
        /\ UNCHANGED <<rules, selection, evidence, twice, graded>>

Grade == /\ saved # "no"
         /\ graded = "no"
         /\ graded' = IF GradeThrows(selection, evidence) THEN "thrown" ELSE "yes"
         /\ UNCHANGED <<rules, selection, evidence, twice, saved>>

Next == Save \/ Grade

Spec == Init /\ [][Next]_vars

------------------------------------------------------------------------------
Done == graded = "yes"
Result == GradeCanonicalEvidence(selection, evidence)

\* What grade.ts returns is what results.ts demands of a summary, for every
\* selection and whatever of the evidence is missing.
SummaryIsWireValid == Done => AssertGradeSummaryWire(Result.summary)

\* A rule set that could be saved can be graded as a whole, but for what saving
\* does not look at: its problems together exceed the safe integers, a check,
\* though disabled, has no known capability, or an enabled one has no locator or
\* no value to compare.
SavedRulesCanBeGraded ==
    saved = "yes" /\ selection = All /\ ~twice /\ graded = "thrown" =>
        \/ ~IsScorePoints(MaxOf(Ids))
        \/ \E c \in Checks : rules.lacks[c] = "capability"
        \/ \E i \in Ids : \E c \in Enabled(i) : rules.lacks[c] = "locator" \/ Unhashable(c, evidence)

Awarded   == [i \in Ids |-> Result.problems[i].awarded]
EarnedFor == [i \in Ids |-> Earned(Enabled(i), evidence)]

\* The final score is what its problems were awarded: only checks that carry no
\* points can leave a problem incomplete under a final score.
FinalScoreIsItsProblems ==
    Done => LET s == Result.summary
                open == {i \in Ids : Result.problems[i].status = "incomplete"}
                closed == {i \in Ids : Result.problems[i].status = "final"}
            IN s.adjudication = "final" =>
                 /\ s.finalScorePoints = MapThenSumSet(LAMBDA i : Awarded[i], closed)
                                         + MapThenSumSet(LAMBDA i : EarnedFor[i], open)
                 /\ \A i \in open : /\ Result.problems[i].awarded = Null
                                    /\ PointsOf({c \in Enabled(i) : Unknown(c, evidence)}) = 0

\* A problem's result does not depend on what else is selected, and evidence for
\* checks that are disabled or out of scope has no influence at all.
ResultIgnoresTheSelection ==
    Done => \A i \in InScope(selection) :
               Result.problems[i] = GradeCanonicalEvidence(All, evidence).problems[i]

OutOfScopeHasNoInfluence ==
    Done => Result = GradeCanonicalEvidence(selection,
                         [c \in Checks |-> IF c \in Adjudicated(selection) THEN evidence[c]
                                           ELSE [status |-> "absent"]])
ScopeIsRespected == ResultIgnoresTheSelection /\ OutOfScopeHasNoInfluence

\* The percentage of a score is the nearest hundredth, halves upward.
NearestHundredth(percent, score, max) ==
    LET twiceError == 2 * (percent * max - 10000 * score)
    IN  percent \in 0..10000 /\ -max < twiceError /\ twiceError <= max

PercentIsNearest ==
    Done => LET s == Result.summary
            IN  s.adjudication = "final" =>
                    NearestHundredth(s.finalPercent, s.finalScorePoints, s.selectedDeclaredMax)

\* The final figures are true: the score is the problems', the percentage the score's.
FinalFiguresAreTrue == FinalScoreIsItsProblems /\ PercentIsNearest

==============================================================================
