----------------------------- MODULE MCFunctions -----------------------------
(* The functions of the domain, the intake and the classifier, one call of    *)
(* one of them: a workbook or a database, a compound file, or a query.        *)
EXTENDS DraftCandidates, CompoundFile, ClosureClassifier

VARIABLE called  \* "draft", "compound" or "closure"

------------------------------------------------------------------------------
\* draft.ts.

\* Two sheets, two cells and two kinds each, and two names that conflict, one
\* of them of a candidate that is like another in all but the name.
MCExcelUniverse ==
    {[sheetIndex |-> s, sheetName |-> s, row |-> r, kind |-> k, id |-> 1] : s \in 0..1, r \in 0..1, k \in 0..1}
    \cup {[sheetIndex |-> 1, sheetName |-> 2, row |-> 0, kind |-> 0, id |-> i] : i \in 1..2}

\* A table with a field, a key and an index, two fields elsewhere, one of them
\* without a source's name, a relationship, and queries that share a name.
MCAccessUniverse ==
    {[kind |-> "table", sourceName |-> 1, id |-> 1]}
    \cup {[kind |-> "field", sourceName |-> n, id |-> 3] : n \in 0..2}
    \cup {[kind |-> k, sourceName |-> 1, id |-> 4] : k \in {"primaryKey", "index"}}
    \cup {[kind |-> "relationship", sourceName |-> 0, id |-> 5]}
    \cup {[kind |-> "query", sourceName |-> 6, id |-> i] : i \in {7, 8}}
    \cup {[kind |-> "query", sourceName |-> 0, id |-> 6]}

------------------------------------------------------------------------------
\* intake.ts: three sectors, every table of two or three entries, with no, one or
\* two streams.
MCStream == [first : -1..2, required : 1..3]
MCStreams == {<<>>} \cup {<<s>> : s \in MCStream}
             \cup {<<[first |-> 1, required |-> r], s>> : r \in 1..2, s \in MCStream}
MCFiles == UNION {[sectors : {3}, fat : [0..(n - 1) -> -3..2], fatIds : {{0}, {2}, {0, 3}},
                   directory : -2..3, streams : MCStreams] : n \in 2..3}

------------------------------------------------------------------------------
\* closure-classifier.mjs: three queries whose dependencies may repeat, share,
\* cycle or lead nowhere.

\* Identifiers "q2" and "Q2" are one.
MCKey == [q1 |-> "q1", q2 |-> "q2", Q2 |-> "q2", q3 |-> "q3", t |-> "t", l |-> "l", gone |-> "gone"]

Anything == {[kind |-> "query", id |-> i] : i \in {"q1", "Q2", "q3"}}
             \cup {[kind |-> "table", id |-> i] : i \in {"t", "l", "gone"}}
             \cup {[kind |-> "macro", id |-> "t"]}
Local == {[kind |-> "query", id |-> i] : i \in {"q1", "q2", "q3"}} \cup {[kind |-> "table", id |-> i] : i \in {"t", "l"}}
Upto(n, set) == UNION {[1..k -> set] : k \in 0..n}

Query(id, fault, dependencies) == [id |-> id, fault |-> fault, dependencies |-> dependencies]
Table(id, linked) == [id |-> id, linked |-> linked]
Tables == <<Table("t", FALSE), Table("l", TRUE)>>

MCCatalogs ==
    {[queries |-> <<Query("q1", "none", a), Query("q2", fault, b), Query("q3", "none", c)>>, tables |-> Tables] :
        a \in Upto(2, Anything), b \in Upto(2, Local), c \in Upto(1, Local), fault \in {"none", "VOLATILE_FUNCTION"}}
    \cup {[queries |-> <<Query("q1", "none", a), Query("q2", "none", <<>>)>> \o more, tables |-> Tables] :
            a \in Upto(2, Anything), more \in {<<>>, <<Query("Q2", "none", <<>>)>>}}
    \cup {[queries |-> <<Query("q1", "none", <<>>)>>, tables |-> Tables \o <<Table("t", TRUE)>>]}

Column(id, nullable, unique) == [id |-> id, nullable |-> nullable, unique |-> unique]
MCOptions ==
    {[queryResult |-> FALSE, orderBy |-> <<>>]} \cup
    {[queryResult |-> TRUE, orderBy |-> order] :
        order \in {<<>>, <<Column("t", FALSE, TRUE)>>, <<Column("t", FALSE, FALSE)>>,
                   <<Column("q2", FALSE, TRUE), Column("Q2", FALSE, TRUE)>>}}

------------------------------------------------------------------------------
\* One function is called, and the others' inputs are any.
AnyFile    == CHOOSE f \in Files : TRUE
AnyCatalog == CHOOSE c \in Catalogs : TRUE
AnyOptions == CHOOSE o \in Options : TRUE

FunctionsInit ==
    /\ called \in {"draft", "compound", "closure"}
    /\ EmitInit
    /\ IF called = "compound" THEN ReadInit ELSE Opened(AnyFile)
    /\ IF called = "closure" THEN WalkInit ELSE Given(AnyCatalog, AnyOptions)

FunctionsNext ==
    /\ UNCHANGED called
    /\ \/ called = "draft" /\ EmitNext /\ UNCHANGED <<readVars, walkVars>>
       \/ called = "compound" /\ ReadNext /\ UNCHANGED <<emitVars, walkVars>>
       \/ called = "closure" /\ WalkNext /\ UNCHANGED <<emitVars, readVars>>

FunctionsSpec == FunctionsInit /\ [][FunctionsNext]_<<called, emitVars, readVars, walkVars>>

==============================================================================
