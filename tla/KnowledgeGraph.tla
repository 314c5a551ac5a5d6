--------------------------- MODULE KnowledgeGraph ---------------------------
(***************************************************************************)
(* The relations between knowledge entries and the questions               *)
(* app/knowledge/graph.py answers about them: neighbours, a traversal of   *)
(* bounded depth, a path, an ordered list, the relations that are broken.  *)
(* The service writes nothing; its searches are translated with their      *)
(* queue, and compared below with what they are meant to compute.          *)
(***************************************************************************)
EXTENDS KnowledgeMatch

CONSTANTS
    MaxRelation,             \* bound: the highest id of knowledge_relations
    RelationTypes,           \* the texts a relation type or an order may have
    NormType,                \* normalize_relation_type
    InverseType,             \* INVERSE_RELATION_TYPES, on a part of RelationTypes
    NoOrder, NoPosition,
    Notes                    \* what a note may say; a note is a subset of it

\* A text with a letter or a digit has a normal form of that kind; the other
\* texts, which normalise to the empty one, are left out.
ASSUME RelationAssumption ==
    /\ MaxRelation \in Nat \ {0}
    /\ NormType \in [RelationTypes \cup {NoOrder} -> RelationTypes \cup {NoOrder}]
    /\ NormType[NoOrder] = NoOrder
    /\ \A t \in RelationTypes : NormType[t] \in RelationTypes /\ NormType[NormType[t]] = NormType[t]

RelationIds == 1..MaxRelation
RelationRow == [id : RelationIds, source : Ids, target : Ids,
                type : RelationTypes, order : RelationTypes \cup {NoOrder},
                position : Nat \cup {NoPosition}, notes : SUBSET Notes]

\* The key of uq_knowledge_relation.  SQL holds a key with a NULL to be unlike
\* any other, so the constraint binds only rows with an order type.
KeyOf(r) == <<r.source, r.target, r.type, r.order>>
Unique(relations) ==
    \A r, q \in relations : r.id # q.id /\ KeyOf(r) = KeyOf(q) => r.order = NoOrder

\* The row of an id.
RowAt(relations, n) == CHOOSE r \in relations : r.id = n

\* _find_existing_relation: a row with this key other than the one excluded.
ExistingRelation(relations, key, exclude) ==
    LET twins == {r \in relations : KeyOf(r) = key /\ r.id # exclude}
    IN IF twins = {} THEN {} ELSE {CHOOSE r \in twins : \A q \in twins : r.id <= q.id}

----------------------------------------------------------------------------
(* Neighbours. *)

RelationsFor(relations, i) == {r \in relations : i \in {r.source, r.target}}

\* The other end, seen from i.
Connected(r, i) == IF r.source = i THEN r.target ELSE r.source

\* _relation_with_direction: how a relation reads from i.
EffectiveType(r, i) ==
    IF r.source # i /\ r.type \in DOMAIN InverseType THEN InverseType[r.type] ELSE r.type

\* get_direct_relations with its direction and type filters.
DirectRelations(relations, i, types, incoming, outgoing) ==
    {r \in relations : /\ \/ outgoing /\ r.source = i
                          \/ incoming /\ r.target = i
                       /\ types = {} \/ r.type \in types}

\* describe_item: how many direct relations read as each type.
RelationCounts(relations, i) ==
    LET direct == DirectRelations(relations, i, {}, TRUE, TRUE)
    IN [t \in {EffectiveType(r, i) : r \in direct} |->
          Cardinality({r \in direct : EffectiveType(r, i) = t})]

----------------------------------------------------------------------------
(* The searches.  A state is the queue, the entries visited with their     *)
(* depth, the entry and relation each was reached by, and the nodes and    *)
(* edges collected.                                                        *)

\* f with x mapped to v, whether f had x or not.
With(f, x, v) == [y \in DOMAIN f \cup {x} |-> IF y = x THEN v ELSE f[y]]

Begun(i) == [queue |-> <<i>>, depth |-> [x \in {i} |-> 0], from |-> <<>>,
             nodes |-> {i}, edges |-> {}]

\* A slip: a neighbour gets the depth of the entry it was reached from.
FollowSameDepth(items, current, st, r) ==
    LET next == Connected(r, current)
        seen == [st EXCEPT !.edges = @ \cup {r.id},
                           !.nodes = @ \cup ({next} \cap Live(items))]
    IN IF next \in DOMAIN st.depth THEN seen
       ELSE [seen EXCEPT !.queue = Append(@, next),
                         !.depth = With(@, next, st.depth[current]),
                         !.from = With(@, next, [item |-> current, relation |-> r])]

\* The body of the loop over one entry's relations, in the order of their ids.
Follow(items, current, st, r) ==
    LET next == Connected(r, current)
        seen == [st EXCEPT !.edges = @ \cup {r.id},
                           !.nodes = @ \cup ({next} \cap Live(items))]
    IN IF next \in DOMAIN st.depth THEN seen
       ELSE [seen EXCEPT !.queue = Append(@, next),
                         !.depth = With(@, next, st.depth[current] + 1),
                         !.from = With(@, next, [item |-> current, relation |-> r])]

ExpandSteps(items, relations, types, current, st) ==
    LET due == {r.id : r \in {q \in RelationsFor(relations, current) : types = {} \/ q.type \in types}}
        done[n \in 0 .. MaxRelation] ==
            IF n = 0 THEN st
            ELSE IF n \in due THEN Follow(items, current, done[n - 1], RowAt(relations, n))
            ELSE done[n - 1]
    IN done

\* traverse: one entry leaves the queue per turn, and those at the depth asked
\* for are not expanded.
Turn(items, relations, types, maxDepth, st) ==
    LET current == Head(st.queue)
        rest == [st EXCEPT !.queue = Tail(@)]
    IN IF st.depth[current] >= maxDepth THEN rest
       ELSE ExpandSteps(items, relations, types, current, rest)[MaxRelation]

\* The loop ends with the queue; no entry enters it twice.
SearchSteps(items, relations, i, maxDepth, types) ==
    LET done[n \in 0 .. MaxItem] ==
            IF n = 0 THEN Begun(i)
            ELSE LET st == done[n - 1]
                 IN IF st.queue = <<>> THEN st ELSE Turn(items, relations, types, maxDepth, st)
    IN done
Search(items, relations, i, maxDepth, types) ==
    SearchSteps(items, relations, i, maxDepth, types)[MaxItem]

DepthLimit == 20
Traverse(items, relations, i, maxDepth, types) ==
    Search(items, relations, i, Clamp(0, DepthLimit, maxDepth), types)

\* The way a search came to j, read back to its start.
PathSteps(st, i, j) ==
    LET back[n \in 0 .. MaxItem] ==
            IF n = 0 THEN <<j>>
            ELSE LET path == back[n - 1]
                 IN IF Head(path) = i THEN path ELSE <<st.from[Head(path)].item>> \o path
    IN back
PathTo(st, i, j) == IF j \in DOMAIN st.depth THEN PathSteps(st, i, j)[MaxItem] ELSE <<>>

\* get_relation_path: the same search until the target is reached; what follows
\* it does not change how it was reached.
RelationPath(items, relations, i, j, maxDepth, types) ==
    PathTo(Search(items, relations, i, Clamp(1, DepthLimit, maxDepth), types), i, j)

\* The members of S, the first ones first; before is a set of pairs.
First(S, before) == CHOOSE x \in S : \A y \in S : <<x, y>> \in before
Remaining(S, before) ==
    LET left[n \in 0 .. Cardinality(S)] ==
            IF n = 0 THEN S ELSE left[n - 1] \ {First(left[n - 1], before)}
    IN left
InOrder(S, before) ==
    [n \in 1 .. Cardinality(S) |-> First(Remaining(S, before)[n - 1], before)]

\* SQL lists the relations without a position first.
Rank(r) == IF r.position = NoPosition THEN -1 ELSE r.position
ByPosition(relations) ==
    {p \in relations \X relations :
       Rank(p[1]) < Rank(p[2]) \/ (Rank(p[1]) = Rank(p[2]) /\ p[1].id <= p[2].id)}

\* The loop of get_ordered_items over its relations: the entry itself at 0, each
\* neighbour at the smallest of its positions, a relation without one taking the
\* number of entries so far.
Enter(i, entries, r) ==
    LET other == Connected(r, i)
        position == IF r.position = NoPosition THEN Cardinality(DOMAIN entries) ELSE r.position
    IN IF other \in DOMAIN entries /\ position >= entries[other] THEN entries
       ELSE With(entries, other, position)
EnterSteps(i, sorted) ==
    LET done[n \in 0 .. Len(sorted)] ==
            IF n = 0 THEN [x \in {i} |-> 0] ELSE Enter(i, done[n - 1], sorted[n])
    IN done

ByEntry(entries) ==
    {p \in (DOMAIN entries) \X (DOMAIN entries) :
       entries[p[1]] < entries[p[2]] \/ (entries[p[1]] = entries[p[2]] /\ p[1] <= p[2])}

\* get_ordered_items: the entries that exist, by position and id.
OrderedItems(items, relations, i, order) ==
    LET found == {r \in RelationsFor(relations, i) : r.order = order}
        entries == EnterSteps(i, InOrder(found, ByPosition(found)))[Cardinality(found)]
    IN InOrder(DOMAIN entries \cap Live(items), ByEntry(entries))

\* find_invalid_relations: rows that relate an entry to itself or name an entry
\* that is gone, and rows that repeat the key of an earlier one.
InvalidRelations(items, relations) ==
    {r \in relations : r.source = r.target \/ {r.source, r.target} \cap Live(items) # {r.source, r.target}}
RepeatedRelations(relations) ==
    {r \in relations : \E q \in relations : q.id < r.id /\ KeyOf(q) = KeyOf(r)}

----------------------------------------------------------------------------
(* What the searches are meant to compute. *)

Adjacent(relations, types, a, b) ==
    \E r \in relations : {r.source, r.target} = {a, b} /\ (types = {} \/ r.type \in types)

Wider(relations, types, ball) ==
    ball \cup {b \in Ids : \E a \in ball : Adjacent(relations, types, a, b)}

\* The entries at most n relations away.
Balls(relations, types, i) ==
    LET ball[n \in 0 .. DepthLimit] == IF n = 0 THEN {i} ELSE Wider(relations, types, ball[n - 1])
    IN ball
Within(relations, types, i, n) == Balls(relations, types, i)[n]

\* A traversal lists exactly the entries that exist within its depth, with every
\* relation among those it expanded.
TraversalIsExact(items, relations, i, n, types) ==
    \E st \in {Traverse(items, relations, i, n, types)} :
       /\ st.queue = <<>>
       /\ st.nodes = Within(relations, types, i, n) \cap Live(items)
       /\ \A r \in relations : (types = {} \/ r.type \in types) =>
            (r.id \in st.edges <=>
               n > 0 /\ {r.source, r.target} \cap Within(relations, types, i, n - 1) # {})

\* A path starts at the source, follows relations, ends at the target, and no
\* shorter one exists; it is empty only when the target is out of reach.
PathIsShortest(items, relations, i, j, n, types) ==
    \E path \in {RelationPath(items, relations, i, j, n, types)} :
       IF j \notin Within(relations, types, i, n) THEN path = <<>>
       ELSE /\ path[1] = i /\ path[Len(path)] = j
            /\ \A k \in 1..(Len(path) - 1) : Adjacent(relations, types, path[k], path[k + 1])
            /\ Len(path) = 1 \/ j \notin Within(relations, types, i, Len(path) - 2)

\* A list names every neighbour of its order type once, and one placed by
\* every relation it has stands behind those with smaller positions.
OrderIsKept(items, relations, i, order) ==
    \E list \in {OrderedItems(items, relations, i, order)} :
    LET found == {r \in RelationsFor(relations, i) : r.order = order}
        placed(x) == {r.position : r \in {q \in found : Connected(q, i) = x}}
    IN /\ ToSet(list) = ({i} \cup {Connected(r, i) : r \in found}) \cap Live(items)
       /\ IsInjective(list)
       /\ \A a, b \in 1..Len(list) :
            LET p == placed(list[a])  q == placed(list[b])
            IN (/\ i \notin {list[a], list[b]} /\ NoPosition \notin p \cup q
                /\ Min(p) < Min(q)) => a < b
=============================================================================
