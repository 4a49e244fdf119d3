---------------------------- MODULE Domain_proofs ----------------------------
(* The proofs about Grading and DraftCandidates.  The sums of a summary are   *)
(* sums over sets of checks: a problem's checks are its own, the outcomes of  *)
(* a check exclude each other, and a rule set that grading accepts has in     *)
(* every problem the points its maximum says; the rest is arithmetic.         *)
EXTENDS Grading, DraftCandidates, SumLemmas

\* Grading has returned, or thrown, for the reasons it has, and what was saved
\* had passed the check of a draft.
IInv == /\ PointsAt \in [Checks -> Nat]
        /\ saved \in {"no", "yes", "refused"} /\ graded \in {"no", "yes", "thrown"}
        /\ saved = "yes" => AssertDraftAllocation
        /\ graded = "yes" => ~GradeThrows(selection, evidence)
        /\ graded = "thrown" => GradeThrows(selection, evidence)

------------------------------------------------------------------------------
(* The sums. *)

LEMMA PointsTotal == \A S : PointsOf(S) = Total(PointsAt, S)
  BY DEF PointsOf, Total, MapThenSumSet, MapThenFoldSet

LEMMA MaxTotal == \A S : MaxOf(S) = Total(rules.max, S)
  BY DEF MaxOf, Total, MapThenSumSet, MapThenFoldSet

\* The same of the two states of a step.
LEMMA NextTotals ==
    /\ \A i : PointsOf(Enabled(i))' = Total(PointsAt', Enabled(i)')
    /\ MaxOf(Ids)' = Total(rules'.max, Ids)
  BY DEF PointsOf, MaxOf, Total, MapThenSumSet, MapThenFoldSet

LEMMA RulesStay ==
    ASSUME UNCHANGED <<rules, selection, evidence, twice>>
    PROVE  /\ PointsAt' = PointsAt
           /\ AssertDraftAllocation' <=> AssertDraftAllocation
           /\ GradeThrows(selection, evidence)' <=> GradeThrows(selection, evidence)
<1>1. PointsAt' = PointsAt /\ \A i : Enabled(i)' = Enabled(i)
  BY DEF PointsAt, Enabled, OwnedBy
<1>2. \A i : PointsOf(Enabled(i))' = PointsOf(Enabled(i))
  BY <1>1, NextTotals, PointsTotal
<1>3. MaxOf(Ids)' = MaxOf(Ids)
  BY NextTotals, MaxTotal
<1>4. AssertDraftAllocation' <=> AssertDraftAllocation
  BY <1>1, <1>2 DEF AssertDraftAllocation, IsScorePoints
<1>5. GradeThrows(selection, evidence)' <=> GradeThrows(selection, evidence)
  BY <1>1, <1>2, <1>3 DEF GradeThrows, IsScorePoints, Unhashable, Adjudicated, InScope
<1> QED
  BY <1>1, <1>4, <1>5

LEMMA InitIInv == Init => IInv
<1> SUFFICES ASSUME Init PROVE IInv
  OBVIOUS
<1>1. rules.check \in [Checks -> Check]
  BY DEF Init
<1>2. \A k \in Check : k.points \in Nat
  <2> SUFFICES ASSUME NEW k \in Check PROVE k.points \in Nat
    OBVIOUS
  <2>1. k.points \in Points \cup {0, 1}
    BY DEF Check
  <2>2. \A n : n \in Points \cup {0, 1} => n \in Nat
    BY GradingAssumption
  <2> QED BY <2>1, <2>2
<1>3. PointsAt \in [Checks -> Nat]
  BY <1>1, <1>2 DEF PointsAt
<1> QED
  BY <1>3 DEF Init, IInv

LEMMA NextIInv == IInv /\ [Next]_vars => IInv'
<1> SUFFICES ASSUME IInv, [Next]_vars PROVE IInv'
  OBVIOUS
<1>1. UNCHANGED <<rules, selection, evidence, twice>>
  BY DEF Next, Save, Grade, vars
<1>2. /\ PointsAt' = PointsAt
      /\ AssertDraftAllocation' <=> AssertDraftAllocation
      /\ GradeThrows(selection, evidence)' <=> GradeThrows(selection, evidence)
  BY <1>1, RulesStay
<1>3. CASE Save
  BY <1>2, <1>3 DEF Save, IInv
<1>4. CASE Grade
  BY <1>2, <1>4 DEF Grade, IInv
<1>5. CASE UNCHANGED vars
  BY <1>2, <1>5 DEF vars, IInv
<1> QED
  BY <1>3, <1>4, <1>5 DEF Next

\* The inductive invariant.
THEOREM InvariantHolds == Spec => []IInv
<1>1. Init => IInv
  BY InitIInv
<1>2. IInv /\ [Next]_vars => IInv'
  BY NextIInv
<1> QED
  BY <1>1, <1>2, PTL DEF Spec

------------------------------------------------------------------------------
(* Saving and grading. *)

\* What may be saved can be graded as a whole, unless the sum of all problems is
\* beyond the safe integers or a check lacks its capability, its locator or a
\* value: gradeCanonicalEvidence asks nothing else of a rule set that
\* assertDraftAllocation did not ask.
THEOREM SavedRulesGrade == Spec => []SavedRulesCanBeGraded
<1>1. IInv => SavedRulesCanBeGraded
  <2> SUFFICES ASSUME AssertDraftAllocation, GradeThrows(selection, evidence), selection = All, ~twice,
                      IsScorePoints(MaxOf(Ids))
               PROVE  \/ \E c \in Checks : rules.lacks[c] = "capability"
                      \/ \E i \in Ids : \E c \in Enabled(i) : rules.lacks[c] = "locator" \/ Unhashable(c, evidence)
    BY DEF IInv, SavedRulesCanBeGraded
  <2>1. \A i \in Ids : IsScorePoints(PointsOf(Enabled(i))) /\ PointsOf(Enabled(i)) = rules.max[i]
    BY DEF AssertDraftAllocation
  <2>2. \A c \in Adjudicated(selection) : \E i \in Ids : c \in Enabled(i)
    BY DEF Adjudicated, InScope
  <2> QED BY <2>1, <2>2 DEF GradeThrows
<1> QED
  BY <1>1, InvariantHolds, PTL

------------------------------------------------------------------------------
(* Scope. *)

\* The checks of different problems are different checks.
LEMMA EnabledFacts ==
    /\ \A i : Enabled(i) \subseteq Checks
    /\ \A i, j : i # j => Enabled(i) \cap Enabled(j) = {}
    /\ \A sel : InScope(sel) \subseteq Ids /\ Adjudicated(sel) \subseteq Checks
    /\ InScope(All) = Ids
  BY DEF Enabled, OwnedBy, InScope, Adjudicated

\* Two bodies of evidence that agree on the checks of the selection.
LEMMA SameResult ==
    ASSUME NEW sel, NEW ev, NEW e, \A c \in Adjudicated(sel) : ev[c] = e[c]
    PROVE  GradeCanonicalEvidence(sel, ev) = GradeCanonicalEvidence(sel, e)
<1>1. \A c \in Adjudicated(sel) : CheckStatus(c, ev) = CheckStatus(c, e)
  BY DEF CheckStatus
<1>2. \A c \in Adjudicated(sel) : Unknown(c, ev) <=> Unknown(c, e)
  BY <1>1 DEF Unknown
<1>3. \A S \in SUBSET Adjudicated(sel) : Earned(S, ev) = Earned(S, e)
  <2> SUFFICES ASSUME NEW S \in SUBSET Adjudicated(sel) PROVE Earned(S, ev) = Earned(S, e)
    OBVIOUS
  <2>1. {c \in S : CheckStatus(c, ev) = "pass"} = {c \in S : CheckStatus(c, e) = "pass"}
    BY <1>1
  <2> QED BY <2>1 DEF Earned
<1>4. ASSUME NEW i \in Ids PROVE ProblemResult(i, sel, ev) = ProblemResult(i, sel, e)
  <2> DEFINE checks == IF i \in InScope(sel) THEN Enabled(i) ELSE {}
  <2>1. checks \subseteq Adjudicated(sel)
    BY DEF Adjudicated
  <2>2. (\E c \in checks : Unknown(c, ev)) <=> (\E c \in checks : Unknown(c, e))
    BY <1>2, <2>1
  <2>3. Earned(checks, ev) = Earned(checks, e)
    BY <1>3, <2>1
  <2>4. [c \in checks |-> CheckStatus(c, ev)] = [c \in checks |-> CheckStatus(c, e)]
    BY <1>1, <2>1
  <2> QED BY <2>2, <2>3, <2>4 DEF ProblemResult
<1>5. Summary(sel, ev) = Summary(sel, e)
  <2>1. {c \in Adjudicated(sel) : Unknown(c, ev)} = {c \in Adjudicated(sel) : Unknown(c, e)}
    BY <1>2
  <2>2. {c \in Adjudicated(sel) : CheckStatus(c, ev) = "fail"} = {c \in Adjudicated(sel) : CheckStatus(c, e) = "fail"}
    BY <1>1
  <2>3. Earned(Adjudicated(sel), ev) = Earned(Adjudicated(sel), e)
    BY <1>3
  <2> QED BY <2>1, <2>2, <2>3 DEF Summary
<1> QED
  BY <1>4, <1>5 DEF GradeCanonicalEvidence

LEMMA ProblemIgnoresSelection ==
    ASSUME NEW sel, NEW ev, NEW i \in InScope(sel)
    PROVE  ProblemResult(i, sel, ev) = ProblemResult(i, All, ev)
  BY EnabledFacts DEF ProblemResult

\* The result of a problem is that of grading everything, and evidence outside
\* the selection changes nothing, neither in a problem nor in the summary.
THEOREM ScopesAreRespected == Spec => []ScopeIsRespected
<1>1. ResultIgnoresTheSelection
  <2>1. \A i \in InScope(selection) :
           i \in Ids /\ ProblemResult(i, selection, evidence) = ProblemResult(i, All, evidence)
    BY EnabledFacts, ProblemIgnoresSelection
  <2> QED BY <2>1 DEF ResultIgnoresTheSelection, Result, GradeCanonicalEvidence
<1>2. OutOfScopeHasNoInfluence
  <2> DEFINE e == [c \in Checks |-> IF c \in Adjudicated(selection) THEN evidence[c]
                                    ELSE [status |-> "absent"]]
  <2>1. \A c \in Adjudicated(selection) : evidence[c] = e[c]
    BY EnabledFacts
  <2> HIDE DEF e
  <2>2. GradeCanonicalEvidence(selection, evidence) = GradeCanonicalEvidence(selection, e)
    BY <2>1, SameResult
  <2> QED BY <2>2 DEF OutOfScopeHasNoInfluence, Result, e
<1> QED
  BY <1>1, <1>2, PTL DEF ScopeIsRespected

------------------------------------------------------------------------------
(* The summary. *)

\* The status of a check is one of four, and two of them are unknown.
Failed(S, ev) == {c \in S : CheckStatus(c, ev) = "fail"}
Open(S, ev)   == {c \in S : Unknown(c, ev)}

LEMMA PointsType ==
    ASSUME IInv, NEW S \in SUBSET Checks
    PROVE  /\ IsFiniteSet(S) /\ PointsOf(S) \in Nat /\ \A c \in S : PointsAt[c] \in Nat
           /\ \A T \in SUBSET S : PointsOf(T) \in Nat /\ PointsOf(T) <= PointsOf(S)
<1>1. IsFiniteSet(S) /\ \A c \in S : PointsAt[c] \in Nat
  BY GradingAssumption, FS_Subset DEF IInv
<1>2. Total(PointsAt, S) \in Nat
  BY <1>1, TotalType
<1>3. \A T \in SUBSET S : Total(PointsAt, T) \in Nat /\ Total(PointsAt, T) <= Total(PointsAt, S)
  BY <1>1, TotalSubset
<1> QED
  BY <1>1, <1>2, <1>3, PointsTotal

\* Every point is earned, failed or undecided, and only one of them.
LEMMA PointsBalance ==
    ASSUME IInv, NEW S \in SUBSET Checks, NEW ev
    PROVE  /\ Earned(S, ev) \in Nat /\ PointsOf(Failed(S, ev)) \in Nat /\ PointsOf(Open(S, ev)) \in Nat
           /\ PointsOf(S) = Earned(S, ev) + PointsOf(Failed(S, ev)) + PointsOf(Open(S, ev))
<1> DEFINE P == {c \in S : CheckStatus(c, ev) = "pass"}
           F == Failed(S, ev)
           U == Open(S, ev)
<1>1. /\ P \subseteq Checks /\ F \subseteq Checks /\ U \subseteq Checks
      /\ S = (P \cup F) \cup U /\ P \cap F = {} /\ (P \cup F) \cap U = {}
  BY DEF Failed, Open, Unknown, CheckStatus
<1>2. Earned(S, ev) = PointsOf(P)
  BY DEF Earned
<1> HIDE DEF P, F, U
<1>3. /\ IsFiniteSet(P) /\ IsFiniteSet(F) /\ IsFiniteSet(U) /\ IsFiniteSet(P \cup F)
      /\ PointsOf(P) \in Nat /\ PointsOf(F) \in Nat /\ PointsOf(U) \in Nat
      /\ \A c \in (P \cup F) \cup U : PointsAt[c] \in Nat
  BY <1>1, PointsType
<1>4. Total(PointsAt, P \cup F) = Total(PointsAt, P) + Total(PointsAt, F)
  BY <1>1, <1>3, TotalUnion
<1>5. Total(PointsAt, (P \cup F) \cup U) = Total(PointsAt, P \cup F) + Total(PointsAt, U)
  BY <1>1, <1>3, TotalUnion
<1>6. PointsOf(S) = (PointsOf(P) + PointsOf(F)) + PointsOf(U)
  BY <1>1, <1>4, <1>5, PointsTotal
<1> QED
  BY <1>2, <1>3, <1>6 DEF F, U

\* A sum over checks is the sum of its parts, problem by problem.
LEMMA ByProblem ==
    ASSUME IInv, NEW J \in SUBSET Ids, NEW Q, \A i \in J : Q[i] \subseteq Enabled(i)
    PROVE  PointsOf(UNION {Q[i] : i \in J}) = Total([i \in J |-> PointsOf(Q[i])], J)
<1>1. IsFiniteSet(Checks) /\ IsFiniteSet(J) /\ \A c \in Checks : PointsAt[c] \in Nat
  BY GradingAssumption, FS_Subset DEF IInv
<1>2. /\ \A i \in J : Q[i] \subseteq Checks
      /\ \A i, j \in J : i # j => Q[i] \cap Q[j] = {}
  BY EnabledFacts
<1>3. Total(PointsAt, UNION {Q[i] : i \in J}) = Total([i \in J |-> Total(PointsAt, Q[i])], J)
  BY <1>1, <1>2, TotalParts
<1>4. [i \in J |-> PointsOf(Q[i])] = [i \in J |-> Total(PointsAt, Q[i])]
  BY PointsTotal
<1> QED
  BY <1>3, <1>4, PointsTotal

\* What is in scope and what is not, of a rule set that grading accepts.
LEMMA MaxSplit ==
    ASSUME IInv, NEW sel, NEW ev, ~GradeThrows(sel, ev)
    PROVE  /\ MaxOf(Ids) \in 0..MaxSafe
           /\ MaxOf(InScope(sel)) \in Nat /\ MaxOf(Ids \ InScope(sel)) \in Nat
           /\ MaxOf(Ids) = MaxOf(InScope(sel)) + MaxOf(Ids \ InScope(sel))
           /\ sel = All => MaxOf(Ids \ InScope(sel)) = 0
           /\ PointsOf(Adjudicated(sel)) = MaxOf(InScope(sel))
<1> DEFINE I == InScope(sel)
<1>1. /\ IsFiniteSet(Ids) /\ I \in SUBSET Ids /\ IsFiniteSet(I)
      /\ \A i \in Ids : rules.max[i] \in Nat /\ PointsOf(Enabled(i)) = rules.max[i]
  BY GradingAssumption, EnabledFacts, FS_Subset DEF GradeThrows, IsScorePoints
<1>2. MaxOf(Ids) \in 0..MaxSafe
  BY DEF GradeThrows, IsScorePoints
<1>3. sel = All => MaxOf(Ids \ I) = 0
  <2>1. sel = All => Ids \ I = {}
    BY EnabledFacts
  <2>2. MaxOf({}) = 0
    BY MaxTotal, TotalEmpty
  <2> QED BY <2>1, <2>2
<1>4. PointsOf(Adjudicated(sel)) = MaxOf(I)
  <2> DEFINE Q == [i \in I |-> Enabled(i)]
  <2>1. Adjudicated(sel) = UNION {Q[i] : i \in I}
    BY DEF Adjudicated
  <2>2. \A i \in I : Q[i] \subseteq Enabled(i)
    OBVIOUS
  <2>3. [i \in I |-> PointsOf(Q[i])] = [i \in I |-> rules.max[i]]
    BY <1>1
  <2> HIDE DEF Q, I
  <2>4. PointsOf(UNION {Q[i] : i \in I}) = Total([i \in I |-> PointsOf(Q[i])], I)
    BY <1>1, <2>2, ByProblem
  <2>5. Total([i \in I |-> rules.max[i]], I) = Total(rules.max, I)
    <3> DEFINE g == [i \in I |-> rules.max[i]]
    <3>1. \A i \in I : g[i] = rules.max[i]
      OBVIOUS
    <3> HIDE DEF g
    <3>2. Total(g, I) = Total(rules.max, I)
      BY <1>1, <3>1, TotalAgree
    <3> QED BY <3>2 DEF g
  <2> QED BY <2>1, <2>3, <2>4, <2>5, MaxTotal
<1> HIDE DEF I
<1>5. /\ Total(rules.max, I) \in Nat /\ Total(rules.max, Ids \ I) \in Nat
      /\ Total(rules.max, Ids) = Total(rules.max, I) + Total(rules.max, Ids \ I)
  BY <1>1, TotalSubset
<1> QED
  BY <1>2, <1>3, <1>4, <1>5, MaxTotal DEF I

\* What the rest needs to know of a summary.
LEMMA SummaryFacts ==
    ASSUME IInv, NEW sel, NEW ev, ~GradeThrows(sel, ev)
    PROVE  LET s == Summary(sel, ev)
           IN  /\ s.declaredMax \in 0..MaxSafe
               /\ s.selectedDeclaredMax \in Nat /\ s.outOfScopePoints \in Nat
               /\ s.declaredMax = s.selectedDeclaredMax + s.outOfScopePoints
               /\ s.verifiedEarned \in Nat /\ s.failedPoints \in Nat /\ s.indeterminatePoints \in Nat
               /\ s.verifiedEarned + s.failedPoints + s.indeterminatePoints = s.selectedDeclaredMax
               /\ s.verifiedEarned = Earned(Adjudicated(sel), ev)
               /\ s.indeterminatePoints = PointsOf(Open(Adjudicated(sel), ev))
               /\ s.adjudication = IF s.selectedDeclaredMax = 0 THEN "empty"
                                   ELSE IF s.indeterminatePoints > 0 THEN "incomplete" ELSE "final"
               /\ s.finalScorePoints = IF s.adjudication = "final" THEN s.verifiedEarned ELSE Null
               /\ s.finalPercent = IF s.adjudication = "final"
                                   THEN PercentHalfUp(s.verifiedEarned, s.selectedDeclaredMax) ELSE Null
               /\ s.executionScope = IF s.outOfScopePoints = 0 THEN "full" ELSE "selected"
               /\ s.representsWholeRuleSet = (s.executionScope = "full")
<1> DEFINE s == Summary(sel, ev)
           A == Adjudicated(sel)
           inMax == MaxOf(InScope(sel))
           outMax == MaxOf(Ids \ InScope(sel))
<1>1. /\ MaxOf(Ids) \in 0..MaxSafe /\ inMax \in Nat /\ outMax \in Nat
      /\ MaxOf(Ids) = inMax + outMax /\ (sel = All => outMax = 0) /\ PointsOf(A) = inMax
  BY MaxSplit
<1>2. /\ Earned(A, ev) \in Nat /\ PointsOf(Failed(A, ev)) \in Nat /\ PointsOf(Open(A, ev)) \in Nat
      /\ PointsOf(A) = Earned(A, ev) + PointsOf(Failed(A, ev)) + PointsOf(Open(A, ev))
  <2> HIDE DEF A
  <2>1. A \in SUBSET Checks
    BY EnabledFacts DEF A
  <2> QED BY <2>1, PointsBalance
<1>3. Earned(A, ev) # Null
  BY <1>2 DEF Null
<1>4. /\ s.declaredMax = inMax + outMax /\ s.selectedDeclaredMax = inMax /\ s.outOfScopePoints = outMax
      /\ s.verifiedEarned = Earned(A, ev) /\ s.failedPoints = PointsOf(Failed(A, ev))
      /\ s.indeterminatePoints = PointsOf(Open(A, ev))
      /\ s.adjudication = IF inMax = 0 THEN "empty"
                          ELSE IF PointsOf(Open(A, ev)) > 0 THEN "incomplete" ELSE "final"
      /\ s.finalScorePoints = IF s.adjudication = "final" THEN s.verifiedEarned ELSE Null
      /\ s.finalPercent = IF s.finalScorePoints = Null THEN Null
                          ELSE PercentHalfUp(s.finalScorePoints, inMax)
      /\ s.executionScope = IF sel = All \/ outMax = 0 THEN "full" ELSE "selected"
      /\ s.representsWholeRuleSet = (s.executionScope = "full")
  BY DEF Summary, Failed, Open
<1> HIDE DEF s, A, inMax, outMax
<1>5. s.finalPercent = IF s.adjudication = "final"
                       THEN PercentHalfUp(s.verifiedEarned, s.selectedDeclaredMax) ELSE Null
  BY <1>3, <1>4
<1>6. s.executionScope = IF s.outOfScopePoints = 0 THEN "full" ELSE "selected"
  BY <1>1, <1>4
<1> QED
  BY <1>1, <1>2, <1>4, <1>5, <1>6 DEF s, A

\* What grade.ts returns, results.ts accepts: the sums balance and are safe
\* integers, and the outcome, the score and the percentage are those the sums
\* call for.
THEOREM SummariesAreWireValid == Spec => []SummaryIsWireValid
<1>1. IInv => SummaryIsWireValid
  <2> SUFFICES ASSUME IInv, ~GradeThrows(selection, evidence)
               PROVE  AssertGradeSummaryWire(Summary(selection, evidence))
    BY DEF IInv, SummaryIsWireValid, Done, Result, GradeCanonicalEvidence
  <2> DEFINE s == Summary(selection, evidence)
  <2>1. /\ s.declaredMax \in 0..MaxSafe
        /\ s.selectedDeclaredMax \in Nat /\ s.outOfScopePoints \in Nat
        /\ s.declaredMax = s.selectedDeclaredMax + s.outOfScopePoints
        /\ s.verifiedEarned \in Nat /\ s.failedPoints \in Nat /\ s.indeterminatePoints \in Nat
        /\ s.verifiedEarned + s.failedPoints + s.indeterminatePoints = s.selectedDeclaredMax
        /\ s.adjudication = IF s.selectedDeclaredMax = 0 THEN "empty"
                            ELSE IF s.indeterminatePoints > 0 THEN "incomplete" ELSE "final"
        /\ s.finalScorePoints = IF s.adjudication = "final" THEN s.verifiedEarned ELSE Null
        /\ s.finalPercent = IF s.adjudication = "final"
                            THEN PercentHalfUp(s.verifiedEarned, s.selectedDeclaredMax) ELSE Null
        /\ s.executionScope = IF s.outOfScopePoints = 0 THEN "full" ELSE "selected"
        /\ s.representsWholeRuleSet = (s.executionScope = "full")
    BY SummaryFacts
  <2> HIDE DEF s
  <2>2. MaxSafe \in Nat
    BY GradingAssumption
  <2>3. \A n \in {s.declaredMax, s.selectedDeclaredMax, s.outOfScopePoints,
                  s.verifiedEarned, s.failedPoints, s.indeterminatePoints} : IsScorePoints(n)
    BY <2>1, <2>2 DEF IsScorePoints
  <2>4. IsScorePoints(s.verifiedEarned + s.failedPoints + s.indeterminatePoints)
    BY <2>1, <2>3
  <2> DEFINE adjudicated == s.verifiedEarned + s.failedPoints + s.indeterminatePoints
             Figures == CASE s.adjudication = "empty" ->
                               /\ s.selectedDeclaredMax = 0 /\ adjudicated = 0
                               /\ s.finalScorePoints = Null /\ s.finalPercent = Null
                          [] s.adjudication = "incomplete" ->
                               /\ s.selectedDeclaredMax > 0 /\ s.selectedDeclaredMax = adjudicated
                               /\ s.indeterminatePoints > 0
                               /\ s.finalScorePoints = Null /\ s.finalPercent = Null
                          [] s.adjudication = "final" ->
                               /\ s.selectedDeclaredMax > 0 /\ s.selectedDeclaredMax = adjudicated
                               /\ s.indeterminatePoints = 0 /\ s.finalScorePoints = s.verifiedEarned
                               /\ s.finalPercent = PercentHalfUp(s.verifiedEarned, s.selectedDeclaredMax)
  <2>5. Figures
    <3>1. CASE s.selectedDeclaredMax = 0
      BY <2>1, <3>1
    <3>2. CASE s.selectedDeclaredMax # 0 /\ s.indeterminatePoints > 0
      <4>1. s.adjudication = "incomplete"
        BY <2>1, <3>2
      <4>2. s.finalScorePoints = Null /\ s.finalPercent = Null
        BY <2>1, <4>1
      <4>3. s.selectedDeclaredMax > 0 /\ s.selectedDeclaredMax = adjudicated
        BY <2>1, <3>2
      <4> HIDE DEF adjudicated
      <4> QED BY <3>2, <4>1, <4>2, <4>3
    <3>3. CASE s.selectedDeclaredMax # 0 /\ ~(s.indeterminatePoints > 0)
      <4>1. s.adjudication = "final"
        BY <2>1, <3>3
      <4>2. /\ s.finalScorePoints = s.verifiedEarned
            /\ s.finalPercent = PercentHalfUp(s.verifiedEarned, s.selectedDeclaredMax)
        BY <2>1, <4>1
      <4>3. /\ s.selectedDeclaredMax > 0 /\ s.selectedDeclaredMax = adjudicated
            /\ s.indeterminatePoints = 0
        BY <2>1, <3>3
      <4> HIDE DEF adjudicated
      <4> QED BY <4>1, <4>2, <4>3
    <3> QED BY <3>1, <3>2, <3>3
  <2>6. (s.executionScope = "full") = (s.outOfScopePoints = 0)
    BY <2>1
  <2>7. AssertGradeSummaryWire(s)
    <3>1. /\ s.representsWholeRuleSet = (s.executionScope = "full")
          /\ s.declaredMax = s.selectedDeclaredMax + s.outOfScopePoints
      BY <2>1
    <3> QED BY <2>3, <2>4, <2>5, <2>6, <3>1, Zenon DEF AssertGradeSummaryWire
  <2> QED BY <2>7 DEF s
<1> QED
  BY <1>1, InvariantHolds, PTL

------------------------------------------------------------------------------
(* The final figures. *)

LEMMA Division ==
    ASSUME NEW a \in Nat, NEW d \in Nat, d > 0
    PROVE  /\ a \div d \in Nat
           /\ (a \div d) * d <= a /\ a < (a \div d) * d + d
  OBVIOUS

LEMMA Nearest ==
    ASSUME NEW e \in Nat, NEW d \in Nat, d > 0, e <= d
    PROVE  NearestHundredth(PercentHalfUp(e, d), e, d)
<1> DEFINE h == d \div 2
           a == e * 10000 + h
           p == a \div d
           m == p * d
<1>1. h \in Nat /\ 2 * h <= d /\ d < 2 * h + 2
  OBVIOUS
<1>2. a \in Nat
  BY <1>1
<1>3. PercentHalfUp(e, d) = p
  BY DEF PercentHalfUp
<1>4. p \in Nat /\ m <= a /\ a < m + d
  <2> HIDE DEF a
  <2> QED BY <1>2, Division
<1>5. m \in Nat
  <2> HIDE DEF p
  <2> QED BY <1>4
<1>6. p <= 10000
  <2> SUFFICES ASSUME p >= 10001 PROVE FALSE
    BY <1>4
  <2>1. m >= 10001 * d
    <3> HIDE DEF p
    <3> QED BY <1>4
  <2> HIDE DEF m, p, h
  <2> QED BY <1>1, <1>4, <1>5, <2>1
<1>7. -d < 2 * (m - 10000 * e) /\ 2 * (m - 10000 * e) <= d
  <2> HIDE DEF m, p, h
  <2> QED BY <1>1, <1>4, <1>5
<1>8. p \in 0..10000
  <2> HIDE DEF p
  <2> QED BY <1>4, <1>6
<1>9. NearestHundredth(p, e, d)
  <2> HIDE DEF p
  <2> QED BY <1>7, <1>8 DEF NearestHundredth
<1> HIDE DEF p
<1> QED
  BY <1>3, <1>9

\* What a selection has earned is what its problems have.
LEMMA EarnedByProblem ==
    ASSUME IInv, NEW sel
    PROVE  /\ \A i \in Ids : EarnedFor[i] \in Nat
           /\ Earned(Adjudicated(sel), evidence) = Total(EarnedFor, InScope(sel))
<1> DEFINE I == InScope(sel)
           Q == [i \in I |-> {c \in Enabled(i) : CheckStatus(c, evidence) = "pass"}]
<1>1. \A i \in Ids : EarnedFor[i] \in Nat /\ EarnedFor[i] = Earned(Enabled(i), evidence)
  <2> SUFFICES ASSUME NEW i \in Ids
               PROVE  EarnedFor[i] \in Nat /\ EarnedFor[i] = Earned(Enabled(i), evidence)
    OBVIOUS
  <2>1. Enabled(i) \in SUBSET Checks
    BY EnabledFacts
  <2>2. Earned(Enabled(i), evidence) \in Nat
    BY <2>1, PointsBalance
  <2> QED BY <2>2 DEF EarnedFor
<1>2. I \in SUBSET Ids /\ IsFiniteSet(I)
  BY EnabledFacts, GradingAssumption, FS_Subset
<1>3. {c \in Adjudicated(sel) : CheckStatus(c, evidence) = "pass"} = UNION {Q[i] : i \in I}
  BY DEF Adjudicated
<1>4. \A i \in I : Q[i] \subseteq Enabled(i) /\ PointsOf(Q[i]) = EarnedFor[i]
  BY <1>1, <1>2 DEF Earned
<1> HIDE DEF I, Q
<1> DEFINE g == [i \in I |-> PointsOf(Q[i])]
<1>5. PointsOf(UNION {Q[i] : i \in I}) = Total(g, I)
  BY <1>2, <1>4, ByProblem
<1>6. \A i \in I : g[i] = EarnedFor[i]
  BY <1>4
<1> HIDE DEF g
<1>7. Total(g, I) = Total(EarnedFor, I)
  BY <1>2, <1>6, TotalAgree
<1> QED
  BY <1>1, <1>3, <1>5, <1>7 DEF Earned, I

\* The problems of a selection, by their status: those without checks have
\* earned nothing.
LEMMA ScoreIsTheProblems ==
    ASSUME IInv, ~GradeThrows(selection, evidence)
    PROVE  FinalScoreIsItsProblems
<1> DEFINE I == InScope(selection)
           r(i) == ProblemResult(i, selection, evidence)
           s == Summary(selection, evidence)
           open == {i \in Ids : r(i).status = "incomplete"}
           closed == {i \in Ids : r(i).status = "final"}
           bare == {i \in I : Enabled(i) = {}}
<1> SUFFICES ASSUME s.adjudication = "final"
             PROVE  /\ s.finalScorePoints = Total(Awarded, closed) + Total(EarnedFor, open)
                    /\ \A i \in open : /\ r(i).awarded = Null
                                       /\ PointsOf({c \in Enabled(i) : Unknown(c, evidence)}) = 0
  <2>1. Result.summary = s /\ \A i \in Ids : Result.problems[i] = r(i)
    BY DEF Result, GradeCanonicalEvidence
  <2>2. /\ MapThenSumSet(LAMBDA i : Awarded[i], closed) = Total(Awarded, closed)
        /\ MapThenSumSet(LAMBDA i : EarnedFor[i], open) = Total(EarnedFor, open)
    BY DEF Total, MapThenSumSet, MapThenFoldSet
  <2>3. /\ {i \in Ids : Result.problems[i].status = "incomplete"} = open
        /\ {i \in Ids : Result.problems[i].status = "final"} = closed
    BY <2>1
  <2> HIDE DEF s, r
  <2> QED BY <2>1, <2>2, <2>3 DEF FinalScoreIsItsProblems, Done
<1>1. /\ s.verifiedEarned = Earned(Adjudicated(selection), evidence)
      /\ s.indeterminatePoints = PointsOf(Open(Adjudicated(selection), evidence))
      /\ s.finalScorePoints = s.verifiedEarned /\ s.indeterminatePoints = 0
  <2>1. /\ s.verifiedEarned = Earned(Adjudicated(selection), evidence)
        /\ s.indeterminatePoints = PointsOf(Open(Adjudicated(selection), evidence))
        /\ s.indeterminatePoints \in Nat
        /\ s.adjudication = IF s.selectedDeclaredMax = 0 THEN "empty"
                            ELSE IF s.indeterminatePoints > 0 THEN "incomplete" ELSE "final"
        /\ s.finalScorePoints = IF s.adjudication = "final" THEN s.verifiedEarned ELSE Null
    BY SummaryFacts
  <2> HIDE DEF s
  <2> QED BY <2>1
<1>2. I \in SUBSET Ids /\ IsFiniteSet(I)
  BY EnabledFacts, GradingAssumption, FS_Subset
<1>3. /\ \A i \in closed : i \in I /\ Enabled(i) # {} /\ r(i).awarded = Earned(Enabled(i), evidence)
      /\ \A i \in open : i \in I /\ Enabled(i) # {} /\ r(i).awarded = Null
      /\ \A i \in I : i \in closed \/ i \in open \/ i \in bare
      /\ closed \cap open = {} /\ (closed \cup open) \cap bare = {}
  BY <1>2 DEF ProblemResult
<1>4. /\ \A i \in Ids : EarnedFor[i] \in Nat /\ EarnedFor[i] = Earned(Enabled(i), evidence)
      /\ Earned(Adjudicated(selection), evidence) = Total(EarnedFor, I)
  BY EarnedByProblem DEF EarnedFor
<1>5. \A i \in closed : Awarded[i] = EarnedFor[i]
  <2>1. \A i \in Ids : Awarded[i] = r(i).awarded
    BY DEF Awarded, Result, GradeCanonicalEvidence
  <2> HIDE DEF r
  <2> QED BY <1>2, <1>3, <1>4, <2>1
<1>6. \A i \in bare : EarnedFor[i] = 0
  <2> SUFFICES ASSUME NEW i \in bare PROVE EarnedFor[i] = 0
    OBVIOUS
  <2>1. {c \in Enabled(i) : CheckStatus(c, evidence) = "pass"} = {}
    OBVIOUS
  <2>2. Earned(Enabled(i), evidence) = 0
    BY <2>1, PointsTotal, TotalEmpty DEF Earned
  <2> QED BY <1>2, <1>4, <2>2
<1>7. \A i \in open : PointsOf({c \in Enabled(i) : Unknown(c, evidence)}) = 0
  <2> SUFFICES ASSUME NEW i \in open PROVE PointsOf({c \in Enabled(i) : Unknown(c, evidence)}) = 0
    OBVIOUS
  <2> DEFINE U == Open(Adjudicated(selection), evidence)
             T == {c \in Enabled(i) : Unknown(c, evidence)}
  <2>1. i \in I
    BY <1>3
  <2>2. U \in SUBSET Checks /\ T \in SUBSET U
    BY <2>1, EnabledFacts DEF Open, Adjudicated
  <2>3. PointsOf(U) = 0
    BY <1>1
  <2> HIDE DEF U, T
  <2>4. PointsOf(T) \in Nat /\ PointsOf(T) <= PointsOf(U)
    BY <2>2, PointsType
  <2>5. PointsOf(T) = 0
    BY <2>3, <2>4
  <2> QED BY <2>5 DEF T
<1>8. Total(EarnedFor, I) = Total(Awarded, closed) + Total(EarnedFor, open)
  <2>1. I = (closed \cup open) \cup bare
    BY <1>3
  <2>2. closed \in SUBSET I /\ open \in SUBSET I /\ bare \in SUBSET I
    BY <1>3
  <2>3. closed \cap open = {} /\ (closed \cup open) \cap bare = {}
    BY <1>3
  <2> HIDE DEF closed, open, bare, I
  <2>4. /\ IsFiniteSet(closed) /\ IsFiniteSet(open) /\ IsFiniteSet(bare) /\ IsFiniteSet(closed \cup open)
        /\ \A i \in (closed \cup open) \cup bare : EarnedFor[i] \in Nat
    BY <1>2, <1>4, <2>2, FS_Subset, FS_Union
  <2>5. Total(EarnedFor, closed \cup open) = Total(EarnedFor, closed) + Total(EarnedFor, open)
    BY <2>3, <2>4, TotalUnion
  <2>6. Total(EarnedFor, (closed \cup open) \cup bare) = Total(EarnedFor, closed \cup open) + Total(EarnedFor, bare)
    BY <2>3, <2>4, TotalUnion
  <2>7. Total(EarnedFor, bare) = 0
    BY <1>6, <2>4, TotalZero
  <2>8. Total(EarnedFor, closed) = Total(Awarded, closed)
    BY <1>5, <2>4, TotalAgree
  <2>9. Total(EarnedFor, closed) \in Nat /\ Total(EarnedFor, open) \in Nat
    BY <2>4, TotalType
  <2> QED BY <2>1, <2>5, <2>6, <2>7, <2>8, <2>9
<1> HIDE DEF I, s, open, closed, r
<1> QED
  BY <1>1, <1>3, <1>4, <1>7, <1>8

LEMMA PercentIsRight == ASSUME IInv PROVE PercentIsNearest
<1> DEFINE s == Result.summary
           e == s.verifiedEarned
           d == s.selectedDeclaredMax
<1> SUFFICES ASSUME Done, s.adjudication = "final"
             PROVE  NearestHundredth(s.finalPercent, s.finalScorePoints, d)
  BY DEF PercentIsNearest
<1>1. s = Summary(selection, evidence)
  BY DEF Result, GradeCanonicalEvidence
<1>2. ~GradeThrows(selection, evidence)
  BY DEF IInv, Done
<1> HIDE DEF s
<1>3. /\ d \in Nat /\ e \in Nat /\ s.failedPoints \in Nat /\ s.indeterminatePoints \in Nat
      /\ e + s.failedPoints + s.indeterminatePoints = d
      /\ s.adjudication = IF d = 0 THEN "empty"
                          ELSE IF s.indeterminatePoints > 0 THEN "incomplete" ELSE "final"
      /\ s.finalScorePoints = IF s.adjudication = "final" THEN e ELSE Null
      /\ s.finalPercent = IF s.adjudication = "final" THEN PercentHalfUp(e, d) ELSE Null
  BY <1>1, <1>2, SummaryFacts
<1>4. d > 0 /\ e <= d
  BY <1>3
<1>5. s.finalPercent = PercentHalfUp(e, d) /\ s.finalScorePoints = e
  BY <1>3
<1> QED
  BY <1>3, <1>4, <1>5, Nearest

\* A final score is the sum of what its problems were awarded, an incomplete
\* problem beside it holds no undecided points, and the percentage is the
\* nearest hundredth.
THEOREM FinalFiguresHold == Spec => []FinalFiguresAreTrue
<1>1. IInv => FinalFiguresAreTrue
  <2>1. ~Done => FinalScoreIsItsProblems
    BY Zenon DEF FinalScoreIsItsProblems
  <2>2. IInv /\ Done => ~GradeThrows(selection, evidence)
    BY DEF IInv, Done
  <2>3. IInv /\ Done => FinalScoreIsItsProblems
    BY <2>2, ScoreIsTheProblems, Zenon
  <2>4. IInv => PercentIsNearest
    BY PercentIsRight, Zenon
  <2> QED BY <2>1, <2>3, <2>4, Zenon DEF FinalFiguresAreTrue
<1> QED
  BY <1>1, InvariantHolds, PTL

------------------------------------------------------------------------------
(* The emission of candidates.  What has been looked at is exactly what comes *)
(* before the candidate whose turn it is, so the counters of the loop are the *)
(* cardinalities of the reference.                                            *)

From(S, s) == {y \in S : y.source = s}
Looked == asked.items \ left

\* Items as the loop needs them: ranks are comparable, and say all but the name.
Sortable(items) ==
    /\ IsFiniteSet(items)
    /\ \A x \in items : x.cap \in Nat
    /\ \A x, y \in items : /\ x.source = y.source => x.cap = y.cap
                           /\ x.rank = y.rank => x.source = y.source /\ (x.name = y.name => x = y)
                           /\ x.rank = y.rank \/ Precedes(x.rank, y.rank) \/ Precedes(y.rank, x.rank)

InOrder == /\ \A x \in Looked, y \in left : ~Precedes(y.rank, x.rank)
           /\ \A x, y \in Looked : x.source = y.source => x.name = y.name

\* The whole has room: all that its source allowed has been emitted.
Yield == /\ emitted \in Seq(Looked)
         /\ \A i, j \in DOMAIN emitted : i < j => Precedes(emitted[i].rank, emitted[j].rank)
         /\ Len(emitted) = Cardinality(ToSet(emitted)) /\ Len(emitted) <= asked.cap
         /\ ToSet(emitted) \subseteq Allowed
         /\ Len(emitted) < asked.cap => ToSet(emitted) = Looked \cap Allowed
         /\ ToSet(emitted) = Looked \cap WithinCaps

\* A source has room: all its candidates so far were allowed.
Shares == \A x \in asked.items :
    LET mine == From(Looked, x.source)
    IN  IF Cardinality(mine) < x.cap THEN mine \subseteq Allowed ELSE Cardinality(mine \cap Allowed) >= x.cap

Counters == /\ totals \in [Sources(asked.items) -> [candidates : Nat, emitted : Nat]]
            /\ \A s \in Sources(asked.items) : /\ totals[s].candidates = Cardinality(From(Looked, s))
                                               /\ totals[s].emitted = Cardinality(From(ToSet(emitted), s))

EmitIInv ==
    /\ stage \in {"idle", "loop", "thrown", "returned"}
    /\ asked.cap \in Nat /\ Sortable(asked.items) /\ left \subseteq asked.items
    /\ InOrder /\ Yield /\ Shares /\ Counters
    /\ stage = "thrown" => \E x, y \in asked.items : x.source = y.source /\ x.name # y.name
    /\ stage = "returned" => left = {} /\ diagnostics = Diagnostics

\* Two tuples of numbers, of one length, are equal or one precedes the other.
LEMMA TuplesCompare ==
    ASSUME NEW n \in Nat, NEW s \in [1..n -> Int], NEW t \in [1..n -> Int]
    PROVE  s = t \/ Precedes(s, t) \/ Precedes(t, s)
<1> DEFINE Differ == {i \in 1..n : s[i] # t[i]}
<1>1. CASE Differ = {}
  BY <1>1
<1>2. CASE Differ # {}
  <2>0. Differ \in SUBSET Nat
    OBVIOUS
  <2> HIDE DEF Differ
  <2>1. PICK i \in Differ : \A j \in Differ : i <= j
    BY <1>2, <2>0, LeastNumber
  <2> USE DEF Differ
  <2>2. i \in 1..n /\ s[i] # t[i] /\ s[i] \in Int /\ t[i] \in Int
    OBVIOUS
  <2>3. \A j \in 1..(i - 1) : s[j] = t[j]
    <3> SUFFICES ASSUME NEW j \in 1..(i - 1) PROVE s[j] = t[j]
      OBVIOUS
    <3>1. j \in 1..n /\ ~(i <= j)
      BY <2>2
    <3>2. j \notin Differ
      <4> HIDE DEF Differ
      <4> QED BY <2>1, <3>1
    <3> QED BY <3>1, <3>2
  <2>4. CASE s[i] < t[i]
    BY <2>2, <2>3, <2>4 DEF Precedes
  <2>5. CASE t[i] < s[i]
    BY <2>2, <2>3, <2>5 DEF Precedes
  <2> QED BY <2>2, <2>4, <2>5
<1> QED BY <1>1, <1>2

LEMMA ImageIsFinite == ASSUME NEW f, NEW S, IsFiniteSet(S) PROVE IsFiniteSet({f[x] : x \in S})
<1> DEFINE T == {f[x] : x \in S}
           g == [x \in S |-> f[x]]
<1>1. g \in Surjection(S, T)
  BY DEF Surjection
<1> QED BY <1>1, FS_Surjection

LEMMA ExcelSortable == ASSUME NEW c \in SUBSET ExcelUniverse PROVE Sortable(ExcelItems(c))
<1> DEFINE Record == [sheetIndex : Nat, sheetName : Nat, row : Nat, kind : Nat, id : Nat]
           Rank(x) == <<x.sheetIndex, x.row, x.kind, x.id>>
           f == [x \in c |-> [candidate |-> x, rank |-> Rank(x),
                              source |-> <<"sheet", x.sheetIndex>>, name |-> x.sheetName, cap |-> SheetCap]]
<1>1. c \subseteq Record /\ IsFiniteSet(c) /\ SheetCap \in Nat
  <2>1. IsFiniteSet(ExcelUniverse) /\ ExcelUniverse \subseteq Record /\ SheetCap \in Nat
    BY DraftCandidatesAssumption
  <2> QED BY <2>1, FS_Subset
<1>2. ExcelItems(c) = {f[x] : x \in c}
  BY DEF ExcelItems
<1>3. IsFiniteSet(ExcelItems(c))
  <2> HIDE DEF f
  <2> QED BY <1>1, <1>2, ImageIsFinite
<1>4. \A x \in ExcelItems(c) : x.cap \in Nat
  BY <1>1 DEF ExcelItems
<1>5. ASSUME NEW a \in c, NEW b \in c
      PROVE  /\ f[a].source = f[b].source => f[a].cap = f[b].cap
             /\ f[a].rank = f[b].rank => f[a].source = f[b].source /\ (f[a].name = f[b].name => f[a] = f[b])
             /\ f[a].rank = f[b].rank \/ Precedes(f[a].rank, f[b].rank) \/ Precedes(f[b].rank, f[a].rank)
  <2>1. a \in Record /\ b \in Record
    BY <1>1
  <2>2. Rank(a) \in [1..4 -> Int] /\ Rank(b) \in [1..4 -> Int]
    BY <2>1
  <2>3. Rank(a) = Rank(b) \/ Precedes(Rank(a), Rank(b)) \/ Precedes(Rank(b), Rank(a))
    <3> HIDE DEF Rank
    <3> QED BY <2>2, TuplesCompare
  <2>4. Rank(a) = Rank(b) => /\ a.sheetIndex = b.sheetIndex /\ a.row = b.row /\ a.kind = b.kind /\ a.id = b.id
    OBVIOUS
  <2>5. Rank(a) = Rank(b) /\ a.sheetName = b.sheetName => a = b
    BY <2>1, <2>4
  <2>6. /\ f[a].rank = Rank(a) /\ f[a].source = <<"sheet", a.sheetIndex>> /\ f[a].name = a.sheetName /\ f[a].cap = SheetCap
        /\ f[b].rank = Rank(b) /\ f[b].source = <<"sheet", b.sheetIndex>> /\ f[b].name = b.sheetName /\ f[b].cap = SheetCap
    OBVIOUS
  <2> HIDE DEF f, Rank
  <2> QED BY <2>3, <2>4, <2>5, <2>6
<1> HIDE DEF f
<1> QED
  BY <1>2, <1>3, <1>4, <1>5 DEF Sortable

LEMMA AccessSortable == ASSUME NEW c \in SUBSET AccessUniverse PROVE Sortable(AccessItems(c))
<1> DEFINE Kinds == {"table", "field", "primaryKey", "index", "relationship", "query"}
           Record == [kind : Kinds, sourceName : Nat, id : Nat]
           Rank(x) == <<AccessKindOrder[x.kind], x.sourceName, x.id>>
           f == [x \in c |-> [candidate |-> x, rank |-> Rank(x),
                              source |-> AccessSource(x), name |-> 0, cap |-> AccessCap[x.kind]]]
<1>0. \A k \in Kinds : AccessKindOrder[k] \in Int /\ AccessCap[k] \in Nat
  BY DraftCandidatesAssumption DEF AccessKindOrder, AccessCap
<1>1. c \subseteq Record /\ IsFiniteSet(c)
  <2>1. DOMAIN AccessKindOrder = Kinds
    BY DEF AccessKindOrder
  <2>2. IsFiniteSet(AccessUniverse) /\ AccessUniverse \subseteq Record
    BY <2>1, DraftCandidatesAssumption
  <2> QED BY <2>2, FS_Subset
<1>2. AccessItems(c) = {f[x] : x \in c}
  BY DEF AccessItems
<1>3. IsFiniteSet(AccessItems(c))
  <2> HIDE DEF f
  <2> QED BY <1>1, <1>2, ImageIsFinite
<1>4. \A x \in c : f[x].cap \in Nat
  <2> SUFFICES ASSUME NEW x \in c PROVE f[x].cap \in Nat
    OBVIOUS
  <2>1. x.kind \in Kinds
    BY <1>1
  <2>2. f[x].cap = AccessCap[x.kind]
    OBVIOUS
  <2> QED BY <1>0, <2>1, <2>2
<1>5. ASSUME NEW a \in c, NEW b \in c
      PROVE  /\ f[a].source = f[b].source => f[a].cap = f[b].cap
             /\ f[a].rank = f[b].rank => f[a].source = f[b].source /\ (f[a].name = f[b].name => f[a] = f[b])
             /\ f[a].rank = f[b].rank \/ Precedes(f[a].rank, f[b].rank) \/ Precedes(f[b].rank, f[a].rank)
  <2>1. a \in Record /\ b \in Record /\ a.kind \in Kinds /\ b.kind \in Kinds
    BY <1>1
  <2>2. Rank(a) \in [1..3 -> Int] /\ Rank(b) \in [1..3 -> Int]
    <3>1. AccessKindOrder[a.kind] \in Int /\ AccessKindOrder[b.kind] \in Int
      BY <1>0, <2>1
    <3> QED BY <2>1, <3>1
  <2>3. Rank(a) = Rank(b) \/ Precedes(Rank(a), Rank(b)) \/ Precedes(Rank(b), Rank(a))
    <3> HIDE DEF Rank
    <3> QED BY <2>2, TuplesCompare
  <2>4. Rank(a) = Rank(b) => a = b
    <3>1. Rank(a) = Rank(b) => /\ AccessKindOrder[a.kind] = AccessKindOrder[b.kind]
                               /\ a.sourceName = b.sourceName /\ a.id = b.id
      OBVIOUS
    <3>2. AccessKindOrder[a.kind] = AccessKindOrder[b.kind] => a.kind = b.kind
      BY <2>1 DEF AccessKindOrder
    <3> QED BY <2>1, <3>1, <3>2
  <2>5. AccessSource(a) = AccessSource(b) => AccessCap[a.kind] = AccessCap[b.kind]
    BY <2>1 DEF AccessSource, AccessCap
  <2>6. /\ f[a].rank = Rank(a) /\ f[a].source = AccessSource(a) /\ f[a].cap = AccessCap[a.kind]
        /\ f[b].rank = Rank(b) /\ f[b].source = AccessSource(b) /\ f[b].cap = AccessCap[b.kind]
    OBVIOUS
  <2> HIDE DEF f, Rank
  <2> QED BY <2>3, <2>4, <2>5, <2>6
<1> HIDE DEF f
<1> QED
  BY <1>2, <1>3, <1>4, <1>5 DEF Sortable

------------------------------------------------------------------------------
LEMMA NothingFrom == \A s : From({}, s) = {} /\ Cardinality({}) = 0
  BY FS_EmptySet DEF From

LEMMA LoopBegins ==
    ASSUME NEW items, NEW cap \in Nat, NEW whole, Sortable(items), Sorted(items, cap, whole)
    PROVE  EmitIInv'
<1>1. /\ stage' = "loop" /\ asked'.items = items /\ asked'.cap = cap
      /\ left' = items /\ emitted' = <<>>
      /\ totals' = [s \in Sources(items) |-> [candidates |-> 0, emitted |-> 0]]
  BY DEF Sorted
<1>2. Looked' = {} /\ ToSet(emitted)' = {} /\ Len(emitted') = 0
  BY <1>1 DEF Looked, ToSet
<1>3. InOrder'
  BY <1>2 DEF InOrder
<1>4. Yield'
  <2>1. emitted' \in Seq(Looked') /\ Cardinality(ToSet(emitted)') = 0
    <3>1. <<>> \in Seq(Looked')
      OBVIOUS
    <3> QED BY <1>1, <1>2, <3>1, FS_EmptySet
  <2>2. DOMAIN emitted' = {}
    BY <1>1
  <2> QED BY <1>1, <1>2, <2>1, <2>2 DEF Yield
<1>5. Shares'
  <2> SUFFICES ASSUME NEW x \in items
               PROVE IF Cardinality(From(Looked', x.source)) < x.cap THEN From(Looked', x.source) \subseteq Allowed'
                     ELSE Cardinality(From(Looked', x.source) \cap Allowed') >= x.cap
    BY <1>1 DEF Shares
  <2>1. From(Looked', x.source) = {} /\ {} \cap Allowed' = {} /\ x.cap \in Nat
    BY <1>2, NothingFrom DEF Sortable
  <2> QED BY <2>1, NothingFrom
<1>6. Counters'
  <2>1. Sources(asked'.items) = Sources(items)
    BY <1>1
  <2> QED BY <1>1, <1>2, <2>1, NothingFrom DEF Counters
<1> QED
  BY <1>1, <1>3, <1>4, <1>5, <1>6 DEF EmitIInv

\* While the candidates stay what they are, so do the caps' meaning.
LEMMA AskedStays ==
    ASSUME asked' = asked
    PROVE  Allowed' = Allowed /\ WithinCaps' = WithinCaps
<1>1. \A x : Earlier(x)' = Earlier(x)
  BY DEF Earlier
<1>2. Allowed' = Allowed
  BY <1>1 DEF Allowed
<1> QED
  BY <1>1, <1>2 DEF WithinCaps

\* What comes before the candidate whose turn it is has been looked at.
LEMMA EarlierIsLooked ==
    ASSUME EmitIInv, NEW x \in left, \A y \in left : ~Precedes(y.rank, x.rank),
           ~ \E y \in asked.items \ left : y.source = x.source /\ y.name # x.name
    PROVE  Earlier(x) = Looked
<1>1. \A y \in Looked : Precedes(y.rank, x.rank)
  <2> SUFFICES ASSUME NEW y \in Looked PROVE Precedes(y.rank, x.rank)
    OBVIOUS
  <2>1. y \in asked.items /\ x \in asked.items /\ y # x /\ ~Precedes(x.rank, y.rank)
    BY DEF EmitIInv, InOrder, Looked
  <2>2. y.rank # x.rank
    BY <2>1 DEF EmitIInv, Sortable, Looked
  <2> QED BY <2>1, <2>2 DEF EmitIInv, Sortable
<1> QED
  BY <1>1 DEF Earlier, Looked, EmitIInv

LEMMA LookedFacts ==
    ASSUME EmitIInv
    PROVE  /\ IsFiniteSet(asked.items) /\ Looked \subseteq asked.items
           /\ \A S \in SUBSET asked.items : IsFiniteSet(S) /\ Cardinality(S) \in Nat
           /\ ToSet(emitted) \subseteq Looked /\ ToSet(emitted) \subseteq asked.items
           /\ Len(emitted) \in Nat
           /\ \A S \in SUBSET asked.items : \A s : From(S, s) \in SUBSET asked.items
<1>1. IsFiniteSet(asked.items) /\ Looked \subseteq asked.items
  BY DEF EmitIInv, Sortable, Looked
<1>2. \A S \in SUBSET asked.items : IsFiniteSet(S) /\ Cardinality(S) \in Nat
  BY <1>1, FS_Subset, FS_CardinalityType
<1>3. emitted \in Seq(Looked)
  BY DEF EmitIInv, Yield
<1>4. ToSet(emitted) \subseteq Looked /\ Len(emitted) \in Nat
  BY <1>3 DEF ToSet
<1>5. \A S \in SUBSET asked.items : \A s : From(S, s) \in SUBSET asked.items
  BY DEF From
<1> QED BY <1>1, <1>2, <1>4, <1>5

\* Its source and the whole have room for a candidate when the caps let it in.
LEMMA RoomIsMeant ==
    ASSUME EmitIInv, NEW x \in left, Earlier(x) = Looked
    PROVE  /\ x \in Allowed <=> Cardinality(From(Looked, x.source)) < x.cap
           /\ HasRoom(x) <=> x \in WithinCaps
           /\ Len(emitted) < asked.cap => (HasRoom(x) <=> x \in Allowed)
<1>0. /\ x \in asked.items /\ x.cap \in Nat /\ asked.cap \in Nat /\ x.source \in Sources(asked.items)
  BY DEF EmitIInv, Sortable, Sources
<1>1. x \in Allowed <=> Cardinality(From(Looked, x.source)) < x.cap
  BY <1>0 DEF Allowed, From
<1>2. x \in WithinCaps <=> x \in Allowed /\ Cardinality(Looked \cap Allowed) < asked.cap
  BY DEF WithinCaps
<1>3. HasRoom(x) <=> Cardinality(From(ToSet(emitted), x.source)) < x.cap /\ Len(emitted) < asked.cap
  BY <1>0 DEF HasRoom, EmitIInv, Counters
<1>4. CASE Len(emitted) < asked.cap
  <2>1. ToSet(emitted) = Looked \cap Allowed /\ Len(emitted) = Cardinality(Looked \cap Allowed)
    BY <1>4 DEF EmitIInv, Yield
  <2>2. From(ToSet(emitted), x.source) = From(Looked, x.source) \cap Allowed
    BY <2>1 DEF From
  <2> DEFINE mine == From(Looked, x.source)
  <2>3. IF Cardinality(mine) < x.cap THEN mine \subseteq Allowed ELSE Cardinality(mine \cap Allowed) >= x.cap
    BY <1>0 DEF EmitIInv, Shares
  <2>4. Cardinality(mine) \in Nat /\ Cardinality(mine \cap Allowed) \in Nat
    <3>1. mine \in SUBSET asked.items /\ mine \cap Allowed \in SUBSET asked.items
      BY LookedFacts
    <3> QED BY <3>1, LookedFacts
  <2>5. Cardinality(mine \cap Allowed) < x.cap <=> Cardinality(mine) < x.cap
    <3>1. CASE Cardinality(mine) < x.cap
      <4>1. mine \cap Allowed = mine
        BY <2>3, <3>1
      <4> QED BY <3>1, <4>1
    <3>2. CASE ~(Cardinality(mine) < x.cap)
      <4>1. Cardinality(mine \cap Allowed) >= x.cap
        BY <2>3, <3>2
      <4> HIDE DEF mine
      <4> QED BY <1>0, <2>4, <3>2, <4>1
    <3> QED BY <3>1, <3>2
  <2> QED BY <1>1, <1>2, <1>3, <1>4, <2>1, <2>2, <2>5
<1>5. CASE ~(Len(emitted) < asked.cap)
  <2>1. ToSet(emitted) \subseteq Looked \cap Allowed /\ Len(emitted) = Cardinality(ToSet(emitted))
    BY LookedFacts DEF EmitIInv, Yield
  <2>2. Looked \cap Allowed \in SUBSET asked.items
    BY LookedFacts
  <2>3. Cardinality(ToSet(emitted)) <= Cardinality(Looked \cap Allowed)
    BY <2>1, <2>2, LookedFacts, FS_Subset
  <2>4. Cardinality(Looked \cap Allowed) \in Nat /\ Len(emitted) \in Nat
    BY <2>2, LookedFacts
  <2>5. ~(Cardinality(Looked \cap Allowed) < asked.cap)
    BY <1>0, <1>5, <2>1, <2>3, <2>4
  <2> QED BY <1>1, <1>2, <1>3, <1>5, <2>5
<1> QED BY <1>4, <1>5

LEMMA AppendItem ==
    ASSUME NEW S, NEW q \in Seq(S), NEW x
    PROVE  /\ Append(q, x) \in Seq(S \cup {x}) /\ q \in Seq(S \cup {x})
           /\ Len(q) \in Nat /\ Len(Append(q, x)) = Len(q) + 1
           /\ DOMAIN q = 1..Len(q) /\ DOMAIN Append(q, x) = 1..(Len(q) + 1)
           /\ \A i \in 1..Len(q) : Append(q, x)[i] = q[i] /\ q[i] \in S
           /\ Append(q, x)[Len(q) + 1] = x
<1>1. q \in Seq(S \cup {x}) /\ x \in S \cup {x}
  OBVIOUS
<1>2. /\ Append(q, x) \in Seq(S \cup {x})
      /\ Len(q) \in Nat /\ Len(Append(q, x)) = Len(q) + 1
      /\ DOMAIN q = 1..Len(q) /\ DOMAIN Append(q, x) = 1..(Len(q) + 1)
      /\ \A i \in 1..Len(q) : Append(q, x)[i] = q[i] /\ q[i] \in S
      /\ Append(q, x)[Len(q) + 1] = x
  BY <1>1
<1> QED BY <1>1, <1>2

LEMMA AppendedSet ==
    ASSUME NEW S, NEW q \in Seq(S), NEW x PROVE ToSet(Append(q, x)) = ToSet(q) \cup {x}
<1> DEFINE r == Append(q, x)
<1>1. /\ Len(q) \in Nat /\ DOMAIN q = 1..Len(q) /\ DOMAIN r = 1..(Len(q) + 1)
      /\ \A i \in 1..Len(q) : r[i] = q[i]
      /\ r[Len(q) + 1] = x
  BY AppendItem
<1> HIDE DEF r
<1>2. \A i \in 1..(Len(q) + 1) : i \in 1..Len(q) \/ i = Len(q) + 1
  BY <1>1
<1>3. ToSet(r) = ToSet(q) \cup {x}
  BY <1>1, <1>2 DEF ToSet
<1> QED BY <1>3 DEF r

LEMMA FromAdds ==
    ASSUME NEW S, IsFiniteSet(S), NEW x, x \notin S, NEW s
    PROVE  /\ x.source = s => /\ From(S \cup {x}, s) = From(S, s) \cup {x}
                              /\ Cardinality(From(S \cup {x}, s)) = Cardinality(From(S, s)) + 1
           /\ x.source # s => From(S \cup {x}, s) = From(S, s)
<1>1. IsFiniteSet(From(S, s)) /\ x \notin From(S, s)
  BY FS_Subset DEF From
<1>2. x.source = s => From(S \cup {x}, s) = From(S, s) \cup {x}
  BY DEF From
<1>3. x.source # s => From(S \cup {x}, s) = From(S, s)
  BY DEF From
<1> QED BY <1>1, <1>2, <1>3, FS_AddElement

\* A candidate whose turn it was has been looked at, and emitted as it should.
LEMMA TurnKeeps ==
    ASSUME EmitIInv, stage = "loop", NEW x \in left, Turn(x)
    PROVE  EmitIInv'
<1>0. /\ asked' = asked /\ Allowed' = Allowed /\ WithinCaps' = WithinCaps
      /\ asked.cap \in Nat /\ Sortable(asked.items) /\ left \subseteq asked.items
      /\ \A y \in left : ~Precedes(y.rank, x.rank)
      /\ x \in asked.items /\ x.source \in Sources(asked.items)
  <2>1. asked' = asked
    BY DEF Turn
  <2> QED BY <2>1, AskedStays DEF EmitIInv, Turn, Sources
<1>1. CASE \E y \in asked.items \ left : y.source = x.source /\ y.name # x.name
  <2>1. /\ stage' = "thrown" /\ left' = left /\ emitted' = emitted /\ totals' = totals
    BY <1>1 DEF Turn
  <2>2. Looked' = Looked /\ ToSet(emitted)' = ToSet(emitted)
    BY <1>0, <2>1 DEF Looked, ToSet
  <2>3. InOrder' /\ Yield' /\ Shares' /\ Counters'
    BY <1>0, <2>1, <2>2 DEF EmitIInv, InOrder, Yield, Shares, Counters
  <2> QED BY <1>0, <1>1, <2>1, <2>3 DEF EmitIInv
<1>2. CASE ~ \E y \in asked.items \ left : y.source = x.source /\ y.name # x.name
  <2>1. /\ stage' = stage /\ left' = left \ {x}
        /\ emitted' = IF HasRoom(x) THEN Append(emitted, x) ELSE emitted
        /\ totals' = [totals EXCEPT ![x.source] =
               [candidates |-> @.candidates + 1, emitted |-> @.emitted + IF HasRoom(x) THEN 1 ELSE 0]]
    BY <1>2 DEF Turn
  <2>2. Earlier(x) = Looked
    BY <1>0, <1>2, EarlierIsLooked
  <2>3. /\ x \in Allowed <=> Cardinality(From(Looked, x.source)) < x.cap
        /\ HasRoom(x) <=> x \in WithinCaps
        /\ Len(emitted) < asked.cap => (HasRoom(x) <=> x \in Allowed)
    BY <2>2, RoomIsMeant
  <2>4. Looked' = Looked \cup {x} /\ x \notin Looked
    BY <1>0, <2>1 DEF Looked
  <2>5. emitted \in Seq(Looked) /\ (HasRoom(x) => Len(emitted) < asked.cap)
    BY DEF EmitIInv, Yield, HasRoom
  <2>6. /\ ToSet(emitted)' = IF HasRoom(x) THEN ToSet(emitted) \cup {x} ELSE ToSet(emitted)
        /\ x \notin ToSet(emitted) /\ IsFiniteSet(ToSet(emitted)) /\ Cardinality(ToSet(emitted)) \in Nat
    <3>1. ToSet(Append(emitted, x)) = ToSet(emitted) \cup {x}
      BY <2>5, AppendedSet
    <3> QED BY <2>1, <2>4, <3>1, LookedFacts DEF ToSet
  <2>0. IsFiniteSet(Looked) /\ \A s : Cardinality(From(Looked, s)) \in Nat
    BY LookedFacts
  <2>7. InOrder'
    <3>1. \A z \in Looked', y \in left' : ~Precedes(y.rank, z.rank)
      BY <1>0, <2>1, <2>4 DEF EmitIInv, InOrder
    <3>2. \A z, y \in Looked' : z.source = y.source => z.name = y.name
      BY <1>2, <2>4 DEF EmitIInv, InOrder, Looked
    <3> QED BY <3>1, <3>2 DEF InOrder
  <2>8. Yield'
    <3>0. Yield
      BY DEF EmitIInv
    <3>1. emitted' \in Seq(Looked')
      <4>1. Append(emitted, x) \in Seq(Looked \cup {x}) /\ emitted \in Seq(Looked \cup {x})
        BY <2>5, AppendItem
      <4> QED BY <2>1, <2>4, <4>1
    <3>2. \A i, j \in DOMAIN emitted' : i < j => Precedes(emitted'[i].rank, emitted'[j].rank)
      <4>1. CASE HasRoom(x)
        <5> SUFFICES ASSUME NEW i \in DOMAIN emitted', NEW j \in DOMAIN emitted', i < j
                     PROVE Precedes(emitted'[i].rank, emitted'[j].rank)
          OBVIOUS
        <5> DEFINE n == Len(emitted)
        <5>1. /\ n \in Nat /\ DOMAIN emitted = 1..n /\ DOMAIN emitted' = 1..(n + 1)
              /\ \A k \in 1..n : emitted'[k] = emitted[k] /\ emitted[k] \in Looked
              /\ emitted'[n + 1] = x
          BY <2>1, <2>5, <4>1, AppendItem
        <5>2. i \in 1..n /\ (j \in 1..n \/ j = n + 1)
          BY <5>1
        <5>3. CASE j \in 1..n
          BY <3>0, <5>1, <5>2, <5>3 DEF Yield
        <5>4. CASE j = n + 1
          <6>1. emitted[i] \in Earlier(x)
            BY <2>2, <5>1, <5>2
          <6> QED BY <5>1, <5>2, <5>4, <6>1 DEF Earlier
        <5> QED BY <5>2, <5>3, <5>4
      <4>2. CASE ~HasRoom(x)
        BY <2>1, <3>0, <4>2 DEF Yield
      <4> QED BY <4>1, <4>2
    <3>3. Len(emitted') = Cardinality(ToSet(emitted)') /\ Len(emitted') <= asked'.cap
      <4>1. CASE HasRoom(x)
        <5>1. Len(emitted') = Len(emitted) + 1 /\ Len(emitted) \in Nat
          BY <2>1, <2>5, <4>1, AppendItem
        <5>2. Cardinality(ToSet(emitted)') = Cardinality(ToSet(emitted)) + 1
          BY <2>6, <4>1, FS_AddElement
        <5>3. Len(emitted) = Cardinality(ToSet(emitted)) /\ Len(emitted) < asked.cap
          BY <2>5, <3>0, <4>1 DEF Yield
        <5>4. Len(emitted') <= asked.cap
          BY <1>0, <5>1, <5>3
        <5> QED BY <1>0, <5>1, <5>2, <5>3, <5>4
      <4>2. CASE ~HasRoom(x)
        BY <1>0, <2>1, <2>6, <3>0, <4>2 DEF Yield
      <4> QED BY <4>1, <4>2
    <3>4. ToSet(emitted)' \subseteq Allowed'
      BY <1>0, <2>3, <2>6, <3>0 DEF Yield, WithinCaps
    <3>5. Len(emitted') < asked'.cap => ToSet(emitted)' = Looked' \cap Allowed'
      <4> SUFFICES ASSUME Len(emitted') < asked.cap PROVE ToSet(emitted)' = (Looked \cup {x}) \cap Allowed
        BY <1>0, <2>4
      <4>1. Len(emitted) < asked.cap
        <5>1. Len(emitted) \in Nat /\ (HasRoom(x) => Len(emitted') = Len(emitted) + 1)
          BY <2>1, <2>5, AppendItem
        <5> QED BY <1>0, <2>1, <2>5, <5>1
      <4>2. ToSet(emitted) = Looked \cap Allowed
        BY <3>0, <4>1 DEF Yield
      <4> QED BY <2>3, <2>6, <4>1, <4>2
    <3>6. ToSet(emitted)' = Looked' \cap WithinCaps'
      BY <1>0, <2>3, <2>4, <2>6, <3>0 DEF Yield
    <3> QED BY <3>1, <3>2, <3>3, <3>4, <3>5, <3>6 DEF Yield
  <2>9. Shares'
    <3> SUFFICES ASSUME NEW y \in asked.items
                 PROVE IF Cardinality(From(Looked \cup {x}, y.source)) < y.cap
                       THEN From(Looked \cup {x}, y.source) \subseteq Allowed
                       ELSE Cardinality(From(Looked \cup {x}, y.source) \cap Allowed) >= y.cap
      BY <1>0, <2>4 DEF Shares
    <3> DEFINE mine == From(Looked, y.source)
               now  == From(Looked \cup {x}, y.source)
    <3>1. IF Cardinality(mine) < y.cap THEN mine \subseteq Allowed ELSE Cardinality(mine \cap Allowed) >= y.cap
      BY DEF EmitIInv, Shares
    <3>2. CASE x.source # y.source
      <4>1. now = mine
        BY <2>4, <2>0, <3>2, FromAdds
      <4> QED BY <3>1, <4>1
    <3>3. CASE x.source = y.source
      <4>0. x.cap = y.cap /\ y.cap \in Nat
        BY <1>0, <3>3 DEF Sortable
      <4>1. now = mine \cup {x} /\ Cardinality(now) = Cardinality(mine) + 1 /\ x.cap = y.cap /\ y.cap \in Nat
        BY <2>4, <2>0, <3>3, <4>0, FromAdds
      <4>2. /\ mine \in SUBSET asked.items /\ now \in SUBSET asked.items
            /\ mine \cap Allowed \in SUBSET asked.items /\ now \cap Allowed \in SUBSET asked.items
        BY <1>0, <4>1, LookedFacts
      <4>3. /\ Cardinality(mine) \in Nat /\ Cardinality(mine \cap Allowed) \in Nat
            /\ IsFiniteSet(now) /\ IsFiniteSet(now \cap Allowed) /\ Cardinality(now \cap Allowed) \in Nat
        BY <4>2, LookedFacts
      <4>4. x \in Allowed <=> Cardinality(mine) < y.cap
        BY <2>3, <3>3, <4>1
      <4>5. Cardinality(mine \cap Allowed) <= Cardinality(now \cap Allowed)
        <5>1. mine \cap Allowed \subseteq now \cap Allowed
          BY <4>1
        <5> HIDE DEF mine, now
        <5> QED BY <4>3, <5>1, FS_Subset
      <4> HIDE DEF mine, now
      <4>6. CASE Cardinality(mine) < y.cap
        <5>1. now \subseteq Allowed
          BY <3>1, <4>1, <4>4, <4>6
        <5>2. now \cap Allowed = now
          BY <5>1
        <5>3. Cardinality(now) < y.cap \/ Cardinality(now \cap Allowed) >= y.cap
          BY <4>1, <4>3, <4>6, <5>2
        <5> QED BY <5>1, <5>3 DEF now
      <4>7. CASE ~(Cardinality(mine) < y.cap)
        <5>1. Cardinality(mine \cap Allowed) >= y.cap
          BY <3>1, <4>7
        <5>2. Cardinality(now \cap Allowed) >= y.cap
          BY <4>1, <4>3, <4>5, <5>1
        <5>3. ~(Cardinality(now) < y.cap)
          BY <4>1, <4>3, <4>7
        <5> QED BY <5>2, <5>3 DEF now
      <4> QED BY <4>6, <4>7
    <3> QED BY <3>2, <3>3
  <2>10. Counters'
    <3>0. /\ totals \in [Sources(asked.items) -> [candidates : Nat, emitted : Nat]]
          /\ \A s \in Sources(asked.items) : /\ totals[s].candidates = Cardinality(From(Looked, s))
                                             /\ totals[s].emitted = Cardinality(From(ToSet(emitted), s))
      BY DEF EmitIInv, Counters
    <3>1. totals' \in [Sources(asked.items) -> [candidates : Nat, emitted : Nat]]
      <4>1. totals[x.source].candidates \in Nat /\ totals[x.source].emitted \in Nat
        BY <1>0, <3>0
      <4>2. [candidates |-> totals[x.source].candidates + 1,
             emitted |-> totals[x.source].emitted + IF HasRoom(x) THEN 1 ELSE 0] \in [candidates : Nat, emitted : Nat]
        BY <4>1
      <4> QED BY <2>1, <3>0, <4>2
    <3>2. ASSUME NEW s \in Sources(asked.items)
          PROVE  /\ totals'[s].candidates = Cardinality(From(Looked', s))
                 /\ totals'[s].emitted = Cardinality(From(ToSet(emitted)', s))
      <4>1. CASE s # x.source
        <5>1. totals'[s] = totals[s]
          BY <2>1, <3>0, <4>1
        <5>2. From(Looked', s) = From(Looked, s)
          BY <2>4, <2>0, <4>1, FromAdds
        <5>3. From(ToSet(emitted) \cup {x}, s) = From(ToSet(emitted), s)
          BY <2>6, <4>1, FromAdds
        <5>4. From(ToSet(emitted)', s) = From(ToSet(emitted), s)
          BY <2>6, <5>3
        <5> QED BY <3>0, <5>1, <5>2, <5>4
      <4>2. CASE s = x.source
        <5>1. /\ totals'[s].candidates = totals[s].candidates + 1
              /\ totals'[s].emitted = totals[s].emitted + IF HasRoom(x) THEN 1 ELSE 0
          BY <2>1, <3>0, <4>2
        <5>2. Cardinality(From(Looked', s)) = Cardinality(From(Looked, s)) + 1
          BY <2>4, <2>0, <4>2, FromAdds
        <5>3. totals[s].emitted \in Nat
          BY <3>0
        <5>4. HasRoom(x) => Cardinality(From(ToSet(emitted)', s)) = Cardinality(From(ToSet(emitted), s)) + 1
          <6>1. Cardinality(From(ToSet(emitted) \cup {x}, s)) = Cardinality(From(ToSet(emitted), s)) + 1
            BY <2>6, <4>2, FromAdds
          <6> QED BY <2>6, <6>1
        <5>5. ~HasRoom(x) => ToSet(emitted)' = ToSet(emitted)
          BY <2>6
        <5> QED BY <3>0, <5>1, <5>2, <5>3, <5>4, <5>5
      <4> QED BY <4>1, <4>2
    <3> QED BY <1>0, <3>1, <3>2 DEF Counters
  <2> QED
    BY <1>0, <2>1, <2>7, <2>8, <2>9, <2>10 DEF EmitIInv
<1> QED BY <1>1, <1>2

LEMMA ReturnKeeps ==
    ASSUME EmitIInv, stage = "loop", ReturnEmission
    PROVE  EmitIInv'
<1>1. /\ asked' = asked /\ left' = left /\ emitted' = emitted /\ totals' = totals
      /\ left = {} /\ stage' = "returned" /\ diagnostics' = Diagnostics
  BY DEF ReturnEmission
<1>2. Looked' = Looked /\ ToSet(emitted)' = ToSet(emitted) /\ Allowed' = Allowed /\ WithinCaps' = WithinCaps
  BY <1>1, AskedStays DEF Looked, ToSet
<1>3. InOrder' /\ Yield' /\ Shares' /\ Counters'
  BY <1>1, <1>2 DEF EmitIInv, InOrder, Yield, Shares, Counters
<1>4. Diagnostics' = Diagnostics
  BY <1>1 DEF Diagnostics, CapDiagnostic
<1> QED
  BY <1>1, <1>3, <1>4 DEF EmitIInv

LEMMA NextEmitIInv == EmitIInv /\ [EmitNext]_emitVars => EmitIInv'
<1> SUFFICES ASSUME EmitIInv, [EmitNext]_emitVars PROVE EmitIInv'
  OBVIOUS
<1>0. {SheetCap, WorkbookCap, TableCap, QueryCap, DatabaseCap} \subseteq Nat
  BY DraftCandidatesAssumption
<1>1. CASE EmitExcel
  BY <1>0, <1>1, ExcelSortable, LoopBegins DEF EmitExcel
<1>2. CASE EmitAccess
  BY <1>0, <1>2, AccessSortable, LoopBegins DEF EmitAccess
<1>3. CASE Loop
  BY <1>3, ReturnKeeps, TurnKeeps DEF Loop
<1>4. CASE UNCHANGED emitVars
  <2>1. /\ asked' = asked /\ left' = left /\ emitted' = emitted /\ totals' = totals
        /\ stage' = stage /\ diagnostics' = diagnostics
    BY <1>4 DEF emitVars
  <2>2. Looked' = Looked /\ ToSet(emitted)' = ToSet(emitted) /\ Allowed' = Allowed /\ WithinCaps' = WithinCaps
    BY <2>1, AskedStays DEF Looked, ToSet
  <2>3. InOrder' /\ Yield' /\ Shares' /\ Counters'
    BY <2>1, <2>2 DEF EmitIInv, InOrder, Yield, Shares, Counters
  <2>4. Diagnostics' = Diagnostics
    BY <2>1 DEF Diagnostics, CapDiagnostic
  <2> QED BY <2>1, <2>3, <2>4 DEF EmitIInv
<1> QED
  BY <1>1, <1>2, <1>3, <1>4 DEF EmitNext

LEMMA InitEmitIInv == EmitInit => EmitIInv
<1> SUFFICES ASSUME EmitInit PROVE EmitIInv
  OBVIOUS
<1>1. /\ stage = "idle" /\ asked.items = {} /\ asked.cap = 0 /\ left = {} /\ emitted = <<>> /\ totals = <<>>
  BY DEF EmitInit
<1>2. Looked = {} /\ ToSet(emitted) = {} /\ Len(emitted) = 0 /\ DOMAIN emitted = {} /\ Sources(asked.items) = {}
  BY <1>1 DEF Looked, ToSet, Sources
<1>3. Sortable(asked.items)
  BY <1>1, FS_EmptySet DEF Sortable
<1>4. Yield
  <2>1. emitted \in Seq(Looked)
    <3>1. <<>> \in Seq(Looked)
      OBVIOUS
    <3> QED BY <1>1, <3>1
  <2>2. Cardinality(ToSet(emitted)) = 0
    BY <1>2, FS_EmptySet
  <2> QED BY <1>1, <1>2, <2>1, <2>2 DEF Yield
<1>5. Counters
  <2>1. totals \in [{} -> [candidates : Nat, emitted : Nat]]
    BY <1>1
  <2> QED BY <1>2, <2>1 DEF Counters
<1>6. InOrder /\ Shares
  BY <1>1, <1>2 DEF InOrder, Shares
<1> QED
  BY <1>1, <1>3, <1>4, <1>5, <1>6 DEF EmitIInv

\* The emission loop's invariant, for any candidates and any caps: what has
\* been looked at comes first, and the counters say how much of it was let in.
THEOREM EmissionInvariantHolds == EmitSpec => []EmitIInv
  BY InitEmitIInv, NextEmitIInv, PTL DEF EmitSpec

\* What emitExcelDraftCandidates and emitAccessDraftCandidates emit is what the
\* caps mean, in canonical order, and a throw is a conflict of names.
THEOREM EmissionCutsRight == EmitSpec => []EmissionIsTheCut
<1>1. EmitIInv => EmissionIsTheCut
  <2> SUFFICES ASSUME EmitIInv PROVE EmissionIsTheCut
    OBVIOUS
  <2>1. CASE stage = "returned"
    <3>1. Looked = asked.items
      BY <2>1 DEF EmitIInv, Looked
    <3>2. ToSet(emitted) = WithinCaps
      BY <3>1 DEF EmitIInv, Yield, WithinCaps, Allowed
    <3>3. \A i, j \in DOMAIN emitted : i < j => Precedes(emitted[i].rank, emitted[j].rank)
      BY DEF EmitIInv, Yield
    <3>4. \A x, y \in asked.items : x.source = y.source => x.name = y.name
      BY <3>1 DEF EmitIInv, InOrder
    <3> QED BY <2>1, <3>2, <3>3, <3>4 DEF EmissionIsTheCut
  <2>2. CASE stage # "returned"
    BY <2>2 DEF EmitIInv, EmissionIsTheCut
  <2> QED BY <2>1, <2>2
<1> QED BY <1>1, EmissionInvariantHolds, PTL

------------------------------------------------------------------------------
\* What a source lost is what its counters say.
LEMMA LostBySource ==
    ASSUME EmitIInv, stage = "returned", NEW s \in Sources(asked.items)
    PROVE  /\ totals[s].candidates \in Nat /\ totals[s].emitted \in Nat
           /\ Cardinality(From(asked.items \ ToSet(emitted), s)) = totals[s].candidates - totals[s].emitted
           /\ Cardinality(From(asked.items \ ToSet(emitted), s)) \in Nat
<1> DEFINE W == ToSet(emitted)
<1>1. Looked = asked.items /\ W \subseteq asked.items
  BY LookedFacts DEF EmitIInv, Looked
<1>2. /\ totals[s].candidates = Cardinality(From(asked.items, s)) /\ totals[s].emitted = Cardinality(From(W, s))
      /\ totals[s].candidates \in Nat /\ totals[s].emitted \in Nat
  BY <1>1 DEF EmitIInv, Counters
<1>3. From(asked.items \ W, s) = From(asked.items, s) \ From(W, s) /\ From(asked.items, s) \cap From(W, s) = From(W, s)
  BY <1>1 DEF From
<1>4. IsFiniteSet(From(asked.items, s))
  BY LookedFacts
<1> HIDE DEF W
<1>5. Cardinality(From(asked.items \ W, s)) = Cardinality(From(asked.items, s)) - Cardinality(From(W, s))
  <2>1. /\ Cardinality(From(asked.items, s) \ From(W, s))
           = Cardinality(From(asked.items, s)) - Cardinality(From(asked.items, s) \cap From(W, s))
    BY <1>4, FS_Difference
  <2> QED BY <1>3, <2>1
<1>6. Cardinality(From(asked.items \ W, s)) \in Nat
  <2>1. From(asked.items \ W, s) \in SUBSET asked.items
    BY DEF From
  <2> QED BY <2>1, LookedFacts
<1> QED BY <1>2, <1>5, <1>6 DEF W

LEMMA OmissionsAddUp ==
    ASSUME EmitIInv, stage = "returned"
    PROVE  NothingOmittedSilently
<1> DEFINE lost == asked.items \ ToSet(emitted)
           D == diagnostics.sources
           omitted == [d \in D |-> d.omitted]
           Short == {s \in Sources(asked.items) : totals[s].candidates > totals[s].emitted}
           diag == [s \in Short |-> [source |-> s, candidates |-> totals[s].candidates,
                                     emitted |-> totals[s].emitted, omitted |-> totals[s].candidates - totals[s].emitted]]
<1>1. /\ lost \subseteq asked.items /\ IsFiniteSet(lost) /\ Cardinality(lost) \in Nat
      /\ \A x \in asked.items : x.source \in Sources(asked.items)
  BY LookedFacts DEF Sources
<1>2. D = {diag[s] : s \in Short}
  <2>1. D = UNION {CapDiagnostic(s, totals[s].candidates, totals[s].emitted) : s \in Sources(asked.items)}
    BY DEF EmitIInv, Diagnostics
  <2>2. \A s \in Short : CapDiagnostic(s, totals[s].candidates, totals[s].emitted) = {diag[s]}
    BY DEF CapDiagnostic
  <2>3. \A s \in Sources(asked.items) \ Short : CapDiagnostic(s, totals[s].candidates, totals[s].emitted) = {}
    BY DEF CapDiagnostic
  <2>4. Short \subseteq Sources(asked.items)
    OBVIOUS
  <2> HIDE DEF D, diag, Short
  <2>5. D = UNION {IF s \in Short THEN {diag[s]} ELSE {} : s \in Sources(asked.items)}
    BY <2>1, <2>2, <2>3
  <2> QED BY <2>4, <2>5
<1>3. \A s \in Short : diag[s].source = s /\ diag[s].omitted = Cardinality(From(lost, s)) /\ diag[s].omitted \in Nat
  BY LostBySource
<1>4. \A x \in lost : x.source \in Short
  <2> SUFFICES ASSUME NEW x \in lost PROVE x.source \in Short
    OBVIOUS
  <2>1. x \in From(lost, x.source) /\ From(lost, x.source) \in SUBSET asked.items /\ x.source \in Sources(asked.items)
    BY <1>1 DEF From
  <2>2. Cardinality(From(lost, x.source)) # 0
    BY <2>1, LookedFacts, FS_EmptySet
  <2>3. /\ totals[x.source].candidates \in Nat /\ totals[x.source].emitted \in Nat
        /\ Cardinality(From(lost, x.source)) = totals[x.source].candidates - totals[x.source].emitted
        /\ Cardinality(From(lost, x.source)) \in Nat
    BY <2>1, LostBySource
  <2>4. totals[x.source].candidates > totals[x.source].emitted
    BY <2>2, <2>3
  <2> QED BY <2>1, <2>4
<1>5. \A x \in lost : \E d \in D : d.source = x.source /\ d.omitted = Cardinality(From(lost, x.source))
  <2> HIDE DEF D, diag, Short, lost
  <2> QED BY <1>2, <1>3, <1>4
<1>6. Total(omitted, D) = Cardinality(lost)
  <2> DEFINE one == [x \in lost |-> 1]
             part == [d \in D |-> From(lost, d.source)]
  <2>1. IsFiniteSet(D)
    <3>1. IsFiniteSet(Sources(asked.items))
      <4> DEFINE g == [x \in asked.items |-> x.source]
      <4>1. Sources(asked.items) = {g[x] : x \in asked.items}
        BY DEF Sources
      <4> HIDE DEF g
      <4> QED BY <4>1, LookedFacts, ImageIsFinite
    <3>2. IsFiniteSet(Short)
      BY <3>1, FS_Subset
    <3> HIDE DEF D, diag, Short
    <3> QED BY <1>2, <3>2, ImageIsFinite
  <2>2. \A d \in D : part[d] \subseteq lost /\ omitted[d] = Cardinality(part[d])
    <3>1. \A d \in D : d.omitted = Cardinality(From(lost, d.source))
      <4> HIDE DEF D, diag, Short, lost
      <4> QED BY <1>2, <1>3
    <3> QED BY <3>1 DEF From
  <2>3. \A d, e \in D : d # e => part[d] \cap part[e] = {}
    <3>1. \A d, e \in D : d # e => d.source # e.source
      <4> HIDE DEF D, diag, Short, lost
      <4> QED BY <1>2, <1>3
    <3>2. \A d \in D : part[d] = From(lost, d.source)
      OBVIOUS
    <3> HIDE DEF D, part, lost
    <3> QED BY <3>1, <3>2 DEF From
  <2>4. UNION {part[d] : d \in D} = lost
    <3>1. \A x \in lost : \E d \in D : x \in part[d]
      <4>1. \A x \in lost : \E d \in D : x \in From(lost, d.source)
        <5> HIDE DEF D, lost
        <5> QED BY <1>5 DEF From
      <4> QED BY <4>1
    <3> HIDE DEF D, part, lost
    <3> QED BY <2>2, <3>1
  <2>5. \A x \in lost : one[x] \in Nat /\ one[x] = 1
    OBVIOUS
  <2>6. Total(one, UNION {part[d] : d \in D}) = Total([d \in D |-> Total(one, part[d])], D)
    <3> HIDE DEF D, part, lost, one
    <3> QED BY <1>1, <2>1, <2>2, <2>3, <2>5, TotalParts
  <2>7. \A d \in D : Total(one, part[d]) = omitted[d]
    <3> HIDE DEF D, part, lost, one, omitted
    <3> QED BY <1>1, <2>2, <2>5, TotalCount, FS_Subset
  <2>8. Total([d \in D |-> Total(one, part[d])], D) = Total(omitted, D)
    <3> DEFINE h == [d \in D |-> Total(one, part[d])]
    <3>1. \A d \in D : h[d] = omitted[d]
      BY <2>7
    <3> HIDE DEF h, D, omitted
    <3>2. Total(h, D) = Total(omitted, D)
      BY <2>1, <3>1, TotalAgree
    <3> QED BY <3>2 DEF h
  <2>9. Total(one, lost) = Cardinality(lost)
    <3> HIDE DEF lost, one
    <3> QED BY <1>1, <2>5, TotalCount
  <2> HIDE DEF D, part, lost, one, omitted
  <2> QED BY <2>4, <2>6, <2>8, <2>9
<1>7. MapThenSumSet(LAMBDA d : omitted[d], D) = Total(omitted, D)
  <2> HIDE DEF omitted, D
  <2> QED BY DEF Total, MapThenSumSet, MapThenFoldSet
<1>8. {d.omitted : d \in diagnostics.whole} = {Cardinality(lost)} \ {0}
  <2> DEFINE n == Cardinality(asked.items)
             m == Len(emitted)
  <2>1. diagnostics.whole = CapDiagnostic(asked.whole, n, m)
    BY DEF EmitIInv, Diagnostics
  <2>2. Cardinality(lost) = n - m /\ n \in Nat /\ m \in Nat
    <3>1. asked.items \cap ToSet(emitted) = ToSet(emitted) /\ Len(emitted) = Cardinality(ToSet(emitted)) /\ Len(emitted) \in Nat
      BY LookedFacts DEF EmitIInv, Yield
    <3>2. IsFiniteSet(asked.items) /\ Cardinality(asked.items) \in Nat
      BY LookedFacts
    <3>3. Cardinality(asked.items \ ToSet(emitted)) = Cardinality(asked.items) - Cardinality(asked.items \cap ToSet(emitted))
      BY <3>2, FS_Difference
    <3> QED BY <3>1, <3>2, <3>3
  <2> HIDE DEF n, m, lost
  <2>3. CASE n > m
    <3>1. diagnostics.whole = {[source |-> asked.whole, candidates |-> n, emitted |-> m, omitted |-> n - m]}
      BY <2>1, <2>3 DEF CapDiagnostic
    <3>2. {d.omitted : d \in diagnostics.whole} = {n - m}
      BY <3>1
    <3>3. n - m # 0
      BY <2>2, <2>3
    <3> QED BY <2>2, <3>2, <3>3
  <2>4. CASE ~(n > m)
    <3>1. diagnostics.whole = {}
      BY <2>1, <2>4 DEF CapDiagnostic
    <3>2. Cardinality(lost) = 0
      BY <1>1, <2>2, <2>4
    <3> QED BY <3>1, <3>2
  <2> QED BY <2>3, <2>4
<1> QED
  <2>1. \A s : From(lost, s) = {y \in lost : y.source = s}
    BY DEF From
  <2> QED BY <1>5, <1>6, <1>7, <1>8, <2>1 DEF NothingOmittedSilently

\* No candidate is dropped without a diagnostic that counts it, and the
\* diagnostics of the sources add up to what the whole lost.
THEOREM OmissionsAreReported == EmitSpec => []NothingOmittedSilently
<1>1. EmitIInv => NothingOmittedSilently
  BY OmissionsAddUp DEF NothingOmittedSilently
<1> QED BY <1>1, EmissionInvariantHolds, PTL

==============================================================================
