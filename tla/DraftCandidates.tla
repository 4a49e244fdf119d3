--------------------------- MODULE DraftCandidates ---------------------------
(* packages/domain/src/draft.ts: which check candidates a workbook or a       *)
(* database yields under the cap of each source and the cap of the whole, and *)
(* the diagnostics of what was left out, one turn of the loop at a time.      *)
(* Texts are numbers, 0 the missing name: their order is all the code uses.   *)
(* A row stands for a cell's row and column.                                  *)
EXTENDS Integers, FiniteSets, FiniteSetsExt, Sequences, SequencesExt

CONSTANTS SheetCap,       \* EXCEL_SHEET_CANDIDATE_CAP
          WorkbookCap,    \* EXCEL_WORKBOOK_CANDIDATE_CAP
          TableCap,       \* ACCESS_TABLE_CANDIDATE_CAP
          QueryCap,       \* ACCESS_QUERY_CANDIDATE_CAP
          DatabaseCap,    \* ACCESS_DATABASE_CANDIDATE_CAP
          ExcelUniverse,  \* the candidates a workbook is made of
          AccessUniverse  \* the candidates a database is made of

VARIABLES asked,       \* what the loop looks at in the candidates, and the whole's cap and name
          left,        \* the candidates whose turn is to come
          emitted,     \* emitted
          totals,      \* totals: of each source, the candidates and the emitted
          stage,       \* "idle", "loop", "thrown" or "returned"
          diagnostics  \* diagnostics

emitVars == <<asked, left, emitted, totals, stage, diagnostics>>

AccessKindOrder == [table |-> 0, field |-> 1, primaryKey |-> 2, index |-> 3, relationship |-> 4, query |-> 5]

ASSUME DraftCandidatesAssumption ==
    /\ {SheetCap, WorkbookCap, TableCap, QueryCap, DatabaseCap} \subseteq Nat
    /\ IsFiniteSet(ExcelUniverse) /\ IsFiniteSet(AccessUniverse)
    /\ ExcelUniverse \subseteq [sheetIndex : Nat, sheetName : Nat, row : Nat, kind : Nat, id : Nat]
    /\ AccessUniverse \subseteq [kind : DOMAIN AccessKindOrder, sourceName : Nat, id : Nat]

\* Lexicographic order of two tuples of numbers.
Precedes(s, t) == \E i \in DOMAIN s : s[i] < t[i] /\ \A j \in 1..(i - 1) : s[j] = t[j]

ExcelItems(candidates) ==
    {[candidate |-> c, rank |-> <<c.sheetIndex, c.row, c.kind, c.id>>,
      source |-> <<"sheet", c.sheetIndex>>, name |-> c.sheetName, cap |-> SheetCap] : c \in candidates}

\* A candidate without a source's name is its own source.
AccessSource(c) ==
    LET name == IF c.sourceName = 0 THEN c.id ELSE c.sourceName
    IN  CASE c.kind = "query"        -> <<"query", name>>
          [] c.kind = "relationship" -> <<"database", 0>>
          [] OTHER                   -> <<"table", name>>

AccessCap == [table |-> TableCap, field |-> TableCap, primaryKey |-> TableCap, index |-> TableCap,
              relationship |-> DatabaseCap, query |-> QueryCap]

AccessItems(candidates) ==
    {[candidate |-> c, rank |-> <<AccessKindOrder[c.kind], c.sourceName, c.id>>,
      source |-> AccessSource(c), name |-> 0, cap |-> AccessCap[c.kind]] : c \in candidates}

Sources(items) == {x.source : x \in items}

EmitInit ==
    /\ asked = [items |-> {}, cap |-> 0, whole |-> <<"none", 0>>]
    /\ left = {} /\ emitted = <<>> /\ totals = <<>>
    /\ stage = "idle" /\ diagnostics = [sources |-> {}, whole |-> {}]

\* The sort decides only whose turn comes first; the loop starts from nothing.
Sorted(items, cap, whole) ==
    /\ stage = "idle" /\ stage' = "loop"
    /\ asked' = [items |-> items, cap |-> cap, whole |-> whole]
    /\ left' = items /\ emitted' = <<>>
    /\ totals' = [s \in Sources(items) |-> [candidates |-> 0, emitted |-> 0]]
    /\ UNCHANGED diagnostics

EmitExcel == \E c \in SUBSET ExcelUniverse : Sorted(ExcelItems(c), WorkbookCap, <<"workbook", 0>>)
EmitAccess == \E c \in SUBSET AccessUniverse : Sorted(AccessItems(c), DatabaseCap, <<"database", 0>>)

\* Mutated: a source yields one candidate more than its cap.
HasRoom_OneMore(x) == totals[x.source].emitted <= x.cap /\ Len(emitted) < asked.cap

HasRoom(x) == totals[x.source].emitted < x.cap /\ Len(emitted) < asked.cap

\* One turn of the loop, for a first of those that are left: emitted while its
\* source and the whole have room; a sheet index under a second name throws.
Turn(x) ==
    /\ \A y \in left : ~Precedes(y.rank, x.rank)
    /\ IF \E y \in asked.items \ left : y.source = x.source /\ y.name # x.name
       THEN stage' = "thrown" /\ UNCHANGED <<asked, left, emitted, totals, diagnostics>>
       ELSE /\ left' = left \ {x}
            /\ emitted' = IF HasRoom(x) THEN Append(emitted, x) ELSE emitted
            /\ totals' = [totals EXCEPT
                   ![x.source] = [candidates |-> @.candidates + 1, emitted |-> @.emitted + IF HasRoom(x) THEN 1 ELSE 0]]
            /\ UNCHANGED <<asked, stage, diagnostics>>

CapDiagnostic(source, candidates, yielded) ==
    IF candidates > yielded
    THEN {[source |-> source, candidates |-> candidates, emitted |-> yielded, omitted |-> candidates - yielded]}
    ELSE {}

\* Mutated: a source is reported when its own cap was met, not when the whole's was.
Diagnostics_OwnCap ==
    [sources |-> UNION {CapDiagnostic(x.source, totals[x.source].candidates,
                            IF totals[x.source].candidates > x.cap THEN x.cap ELSE totals[x.source].candidates) :
                        x \in asked.items},
     whole |-> CapDiagnostic(asked.whole, Cardinality(asked.items), Len(emitted))]

\* One for each source that lost candidates, one for the whole.
Diagnostics ==
    [sources |-> UNION {CapDiagnostic(s, totals[s].candidates, totals[s].emitted) : s \in Sources(asked.items)},
     whole |-> CapDiagnostic(asked.whole, Cardinality(asked.items), Len(emitted))]

ReturnEmission ==
    /\ left = {} /\ stage' = "returned"
    /\ diagnostics' = Diagnostics
    /\ UNCHANGED <<asked, left, emitted, totals>>

Loop == stage = "loop" /\ (ReturnEmission \/ \E x \in left : Turn(x))

EmitNext == EmitExcel \/ EmitAccess \/ Loop

EmitSpec == EmitInit /\ [][EmitNext]_emitVars

------------------------------------------------------------------------------
\* What the caps mean: of each source its first candidates up to its cap, and
\* of those the first up to the cap of the whole.
Earlier(x) == {y \in asked.items : Precedes(y.rank, x.rank)}
Allowed == {x \in asked.items : Cardinality({y \in Earlier(x) : y.source = x.source}) < x.cap}
WithinCaps == {x \in Allowed : Cardinality(Earlier(x) \cap Allowed) < asked.cap}

\* What is emitted is what the caps mean, in canonical order, though the loop
\* decides candidate by candidate and never looks back; and a workbook is
\* refused only when one of its sheets comes under two names.
EmissionIsTheCut ==
    /\ stage = "returned" =>
           /\ ToSet(emitted) = WithinCaps
           /\ \A i, j \in DOMAIN emitted : i < j => Precedes(emitted[i].rank, emitted[j].rank)
    /\ stage \in {"thrown", "returned"} =>
           (stage = "thrown" <=> \E x, y \in asked.items : x.source = y.source /\ x.name # y.name)

\* No candidate is dropped without a diagnostic of its source that counts it,
\* whichever of the two caps dropped it, and each is counted once.
NothingOmittedSilently ==
    stage = "returned" =>
        LET lost    == asked.items \ ToSet(emitted)
            omitted == [d \in diagnostics.sources |-> d.omitted]
        IN  /\ \A x \in lost : \E d \in diagnostics.sources :
                   d.source = x.source /\ d.omitted = Cardinality({y \in lost : y.source = x.source})
            /\ MapThenSumSet(LAMBDA d : omitted[d], diagnostics.sources) = Cardinality(lost)
            /\ {d.omitted : d \in diagnostics.whole} = {Cardinality(lost)} \ {0}

==============================================================================
