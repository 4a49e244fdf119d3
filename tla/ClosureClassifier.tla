-------------------------- MODULE ClosureClassifier --------------------------
(* tools/gate-probes/access/closure-classifier.mjs, and with one more kind of *)
(* dependency the inspector's ClosureClassifier.java: whether a query and all *)
(* it depends on form a closed, static, local SELECT or UNION, one turn of    *)
(* the walk at a time.  What a query is refused for by itself (type, flags,   *)
(* tokens of its text) is its fault.                                          *)
EXTENDS Integers, FiniteSets, Sequences, SequencesExt

CONSTANTS Key,       \* key(): identifiers differing in case or form are one
          Catalogs,  \* the catalogs of queries and tables
          Options,   \* whether a query's result is asked for, and in which order
          Root       \* the query asked for

VARIABLES catalog,  \* the catalog
          options,  \* the options
          path,     \* the calls of walk(): each a query and its dependency in turn
          visited,  \* visited
          reason    \* "unread", "walking", "none" when supported, or the reason

walkVars == <<catalog, options, path, visited, reason>>

Keys == {Key[n] : n \in DOMAIN Key}

ASSUME ClosureAssumption ==
    /\ Root \in DOMAIN Key
    /\ \A c \in Catalogs : \A n \in DOMAIN c.queries :
           LET q == c.queries[n]
           IN  /\ q.id \in DOMAIN Key
               /\ q.dependencies \in Seq([kind : STRING, id : DOMAIN Key])
               /\ q.fault \notin {"unread", "walking"}

Duplicated(things) == \E i, j \in DOMAIN things : i # j /\ Key[things[i].id] = Key[things[j].id]
Named(things, id) == {t \in ToSet(things) : Key[t.id] = Key[id]}

\* validateOrder of the result's columns.
OrderFailure(orderBy) ==
    IF orderBy = <<>> THEN "ORDER_REQUIRED"
    ELSE IF Duplicated(orderBy) \/ \E c \in ToSet(orderBy) : c.nullable \/ ~c.unique THEN "AMBIGUOUS_ORDER_KEY"
    ELSE "none"

\* A dependency that is not a query.
TableFailure(tables, d) ==
    IF d.kind # "table" \/ Named(tables, d.id) = {} THEN "UNRESOLVED_REFERENCE"
    ELSE IF \E t \in Named(tables, d.id) : t.linked THEN "EXTERNAL_OR_LINKED_REFERENCE"
    ELSE "none"

Given(c, o) == catalog = c /\ options = o /\ path = <<>> /\ visited = {} /\ reason = "unread"

WalkInit == \E c \in Catalogs, o \in Options : Given(c, o)

Visiting == {Key[path[i].query.id] : i \in DOMAIN path}

Refuse(why) == reason' = why /\ UNCHANGED <<path, visited>>

\* The call on top of the path goes on to its next dependency.
Advance(calls) == [calls EXCEPT ![Len(calls)].next = @ + 1]

\* What walk() does before a query's dependencies.  A query that was visited is
\* left at once, and its caller goes on.
Pushed(id) ==
    LET found == Named(catalog.queries, id)
    IN  \/ found = {} /\ Refuse("UNRESOLVED_REFERENCE")
        \/ \E q \in found :
               IF q.fault # "none" THEN Refuse(q.fault)
               ELSE /\ path' = Append(path, [query |-> q, next |-> 1])
                    /\ reason' = "walking" /\ UNCHANGED visited

\* Mutated: a query is marked as visited when its walk begins.
Enter_MarksEarly(id) ==
    IF Key[id] \in visited \cup Visiting THEN path' = Advance(path) /\ UNCHANGED <<visited, reason>>
    ELSE Pushed(id)

Enter(id) ==
    IF Key[id] \in Visiting THEN Refuse("DEPENDENCY_CYCLE")
    ELSE IF Key[id] \in visited THEN path' = Advance(path) /\ UNCHANGED <<visited, reason>>
    ELSE Pushed(id)

\* The maps, the order of the result, and the walk's first call.
Begin ==
    /\ reason = "unread"
    /\ IF Duplicated(catalog.queries) THEN Refuse("AMBIGUOUS_QUERY_IDENTIFIER")
       ELSE IF Duplicated(catalog.tables) THEN Refuse("AMBIGUOUS_TABLE_IDENTIFIER")
       ELSE IF options.queryResult /\ OrderFailure(options.orderBy) # "none" THEN Refuse(OrderFailure(options.orderBy))
       ELSE Enter(Root)

Top == path[Len(path)]

Dependency ==
    /\ reason = "walking" /\ Top.next <= Len(Top.query.dependencies)
    /\ LET d == Top.query.dependencies[Top.next]
       IN  IF d.kind = "query" THEN Enter(d.id)
           ELSE IF TableFailure(catalog.tables, d) # "none" THEN Refuse(TableFailure(catalog.tables, d))
           ELSE path' = Advance(path) /\ UNCHANGED <<visited, reason>>

\* walk() returns to its caller, which goes on, or to classifyClosure.
Return ==
    /\ reason = "walking" /\ Top.next > Len(Top.query.dependencies)
    /\ visited' = visited \cup {Key[Top.query.id]}
    /\ IF Len(path) = 1 THEN path' = <<>> /\ reason' = "none"
       ELSE path' = Advance(Front(path)) /\ UNCHANGED reason

WalkNext == (Begin \/ Dependency \/ Return) /\ UNCHANGED <<catalog, options>>

WalkSpec == WalkInit /\ [][WalkNext]_walkVars

------------------------------------------------------------------------------
\* The reference: the graph of queries, what can be reached in it, and every
\* reason a reachable query or reference gives.
DependsOn(k) ==
    {Key[d.id] : d \in {e \in UNION {ToSet(q.dependencies) : q \in {r \in ToSet(catalog.queries) : Key[r.id] = k}} :
                            e.kind = "query"}}

\* The least set that holds what k depends on, and what its members depend on.
Below(k) ==
    {n \in Keys : \A closed \in SUBSET Keys :
        (\A m \in closed \cup {k} : DependsOn(m) \subseteq closed) => n \in closed}

Reach == {Key[Root]} \cup Below(Key[Root])

Reasons ==
    LET here == {q \in ToSet(catalog.queries) : Key[q.id] \in Reach}
        uses == {d \in UNION {ToSet(q.dependencies) : q \in here} : d.kind # "query"}
    IN  (({q.fault : q \in here} \cup {TableFailure(catalog.tables, d) : d \in uses}) \ {"none"})
        \cup {"UNRESOLVED_REFERENCE" : k \in Reach \ {Key[q.id] : q \in here}}
        \cup {"DEPENDENCY_CYCLE" : k \in {n \in Reach : n \in Below(n)}}

\* A query is supported only when nothing it can reach gives a reason against
\* it, and the reason it is refused for is one of those: whatever was visited
\* before, shared or depended on twice.
ClosureIsSound ==
    reason \notin {"unread", "walking"} =>
        IF Duplicated(catalog.queries) \/ Duplicated(catalog.tables)
        THEN reason \in {"AMBIGUOUS_QUERY_IDENTIFIER", "AMBIGUOUS_TABLE_IDENTIFIER"}
        ELSE IF options.queryResult /\ OrderFailure(options.orderBy) # "none"
        THEN reason = OrderFailure(options.orderBy)
        ELSE IF reason = "none" THEN Reasons = {}
        ELSE reason \in Reasons

==============================================================================
