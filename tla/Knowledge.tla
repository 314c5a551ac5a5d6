----------------------------- MODULE Knowledge -----------------------------
(***************************************************************************)
(* The knowledge database of the AI node and the requests that change it:  *)
(* app/api/knowledge.py, app/api/knowledge_import.py, app/knowledge/       *)
(* service.py, importer.py, relation_importer.py and merge.py, and the     *)
(* migration of relation types.                                            *)
(*                                                                         *)
(* A request has a session of its own.  Its SELECTs run outside of any     *)
(* transaction; the first flush opens one, and everything up to the commit *)
(* holds SQLite's write lock.  So a request is two steps: it reads, and    *)
(* works out its changes (a plan); then it writes them, whatever others    *)
(* wrote in between.  An UPDATE of a row that is gone fails and rolls the  *)
(* request back, a DELETE of one does not; an attribute set to the value   *)
(* it had is no UPDATE; foreign keys are not enforced; and a new row takes *)
(* the highest id of its table plus one, which may be one a deleted row    *)
(* had.  Refused requests and dry runs change nothing and are not steps.   *)
(***************************************************************************)
EXTENDS KnowledgeGraph

CONSTANTS
    Sessions,      \* request threads at work at the same time
    Requests,      \* what clients may ask for
    MaxRequests,   \* bound: requests made
    Items, Aliases, Relations    \* the tables at the start

ASSUME TablesAssumption ==
    /\ Items \in [Ids -> ItemRow \cup {NoItem}]
    /\ Aliases \subseteq AliasRow /\ IsFiniteSet(Aliases)
    /\ Relations \subseteq RelationRow /\ Unique(Relations)
    /\ \A r, q \in Relations : r.id = q.id => r = q
    /\ \A a \in Aliases : a.item \in Live(Items)
    /\ InvalidRelations(Items, Relations) = {}

\* What the schemas of the endpoints let through.
ASSUME RequestsAssumption ==
    /\ MaxRequests \in Nat
    /\ \A r \in Requests :
         /\ r.op \in {"create", "alias", "link", "import", "import_link", "merge"}
         /\ r.op = "create" => r.row \in ItemRow
         /\ r.op = "alias" => r.title \in Titles /\ r.lang \in Langs \cup {NoLang}
         /\ r.op \in {"link", "import_link"} =>
              /\ r.type \in RelationTypes /\ r.order \in RelationTypes \cup {NoOrder}
              /\ r.position \in Nat \cup {NoPosition} /\ r.notes \subseteq Notes
         /\ r.op = "import" =>
              /\ [title |-> r.title, original |-> r.original, kind |-> r.kind,
                  year |-> r.year, ext |-> r.ext] \in ItemRow
              /\ r.overwrite \in BOOLEAN /\ IsFiniteSet(r.aliases)
              /\ \A w \in r.aliases : w.title \in Titles /\ w.lang \in Langs \cup {NoLang}

VARIABLES
    items,        \* knowledge_items: the row of each id, or NoItem
    aliases,      \* knowledge_aliases, without their ids
    relations,    \* knowledge_relations
    session,      \* of each thread: the plan between its reads and its commit
    raced,        \* history: a plan was written after another request's commit
    left          \* requests still to be made

vars == <<items, aliases, relations, session, raced, left>>

\* What one request writes: an UPDATE of item, a new item, alias rows (of item
\* 0: the new one), a new relation, UPDATEs and DELETEs of relations, and the
\* item deleted with the alias rows read with it.
NoPlan == [op |-> "none", item |-> 0, put |-> <<>>, new |-> NoItem, words |-> {},
           link |-> {}, relPut |-> <<>>, relDrop |-> {}, gone |-> 0,
           goneWords |-> {}, overwrite |-> FALSE]
Idle == [plan |-> NoPlan, overtaken |-> FALSE]

\* What an UPDATE sets, and the row it leaves.
Over(fields, row) ==
    [f \in DOMAIN fields \cup DOMAIN row |-> IF f \in DOMAIN fields THEN fields[f] ELSE row[f]]
Changed(old, new) == [f \in {g \in DOMAIN old : old[g] # new[g]} |-> new[f]]
NextItem == IF Live(items) = {} THEN 1 ELSE Max(Live(items)) + 1
NextRelation(rels) == IF rels = {} THEN 1 ELSE Max({r.id : r \in rels}) + 1

----------------------------------------------------------------------------
(* Aliases and dictionaries. *)

\* The loop of _add_aliases and of _merge_aliases: a title of which nothing is
\* left, one the entry has, or an alias it has in that language, is skipped, and
\* of equal ones the first counts.
NewWords(text, taken, existing, wanted) ==
    LET key(w) == <<text[w.title], w.lang>>
        fresh == {w \in wanted : /\ text[w.title] \notin taken \cup {NoText}
                                 /\ key(w) \notin {key(e) : e \in existing}}
    IN {CHOOSE w \in fresh : key(w) = k : k \in {key(w) : w \in fresh}}

RowsFor(i, words) == {[item |-> i, title |-> w.title, lang |-> w.lang] : w \in words}
WordsOf(i) == {a \in aliases : a.item = i}

\* merge_dicts: what the first lacks is taken from the second.
MergeDicts(a, b) == [k \in Keys |-> IF a[k] = NoValue THEN b[k] ELSE a[k]]

\* A slip: the primary's position stands even where the duplicate's is smaller.
MergePositionKept(p, q) == IF p = NoPosition THEN q ELSE p

\* merge_notes and the position rule of _merge_relation_data.
MergePosition(p, q) ==
    IF p = NoPosition THEN q ELSE IF q = NoPosition THEN p ELSE Min({p, q})

----------------------------------------------------------------------------
(* The plans. *)

AliasPlan(r) ==
    IF r.item \notin Live(items) THEN NoPlan
    ELSE [NoPlan EXCEPT !.op = "alias", !.words = RowsFor(r.item, {r})]

LinkRow(r, source, target) ==
    [id |-> 1, source |-> source, target |-> target, type |-> NormType[r.type],
     order |-> NormType[r.order], position |-> r.position, notes |-> r.notes]

\* create_relation_endpoint: both ends exist and differ.
LinkPlan(r) ==
    IF r.source = r.target \/ ~({r.source, r.target} \subseteq Live(items)) THEN NoPlan
    ELSE [NoPlan EXCEPT !.op = "link", !.link = {LinkRow(r, r.source, r.target)}]

\* A slip: overwrite_existing is not asked for.
NewFieldAlways(current, incoming, empty, overwrite) ==
    IF incoming # empty THEN incoming ELSE current

\* _calculate_changes of one field: filled when empty, replaced when asked to.
NewField(current, incoming, empty, overwrite) ==
    IF incoming # empty /\ (current = empty \/ overwrite) THEN incoming ELSE current

\* _calculate_changes of the external ids: both sides are normalised, and what
\* is stored is rewritten only when that adds or replaces a value.
NewExt(current, incoming, overwrite) ==
    LET old == NormExt(current)
        new == NormExt(incoming)
        merged == IF overwrite THEN MergeDicts(new, old) ELSE MergeDicts(old, new)
    IN IF merged = old THEN current ELSE merged

\* import_item, once the matches have decided.
ImportAs(r, decision) ==
    LET i == decision.item
        created == [title |-> r.title, original |-> r.original, kind |-> r.kind,
                    year |-> r.year, ext |-> NormExt(r.ext)]
        updated == [title    |-> NewField(items[i].title, r.title, NoText, r.overwrite),
                    original |-> NewField(items[i].original, r.original, NoText, r.overwrite),
                    kind     |-> NewField(items[i].kind, r.kind, NoText, r.overwrite),
                    year     |-> NewField(items[i].year, r.year, NoYear, r.overwrite),
                    ext      |-> NewExt(items[i].ext, r.ext, r.overwrite)]
        words(row, id, existing) ==
            RowsFor(id, NewWords(Norm, NormOf(row.title) \cup NormOf(row.original),
                                 existing, r.aliases))
        plan == [NoPlan EXCEPT !.op = "import", !.overwrite = r.overwrite]
    IN CASE decision.status = "conflict" -> NoPlan
         [] decision.status = "create" ->
              [plan EXCEPT !.new = created, !.words = words(created, 0, {})]
         [] OTHER ->
              [plan EXCEPT !.item = i, !.put = Changed(items[i], updated),
                           !.words = words(updated, i, WordsOf(i))]

ImportPlan(r) == ImportAs(r, DecideMatch(FindMatches(items, aliases, r, ImportMatches)))

\* An end of a relation import: by id, or by what the matcher makes of it.
Reference(ref) ==
    IF ref.id # 0 THEN IF ref.id \in Live(items) THEN ref.id ELSE 0
    ELSE Resolved(items, aliases, ref)

\* import_relation, with the rows that have its key: an existing row gets a
\* position it lacks and the new notes.
ImportLinkAs(row, existing) ==
    LET plan == [NoPlan EXCEPT !.op = "import_link"]
        old == CHOOSE e \in existing : TRUE
        new == [old EXCEPT !.position = IF @ = NoPosition THEN row.position ELSE @,
                           !.notes = @ \cup row.notes]
    IN IF row.source = 0 \/ row.target = 0 \/ row.source = row.target THEN NoPlan
         ELSE IF existing = {} THEN [plan EXCEPT !.link = {row}]
         ELSE [plan EXCEPT !.relPut = [n \in IF new = old THEN {} ELSE {old.id} |-> Changed(old, new)]]

ImportLinkPlan(r) ==
    LET as(row) == ImportLinkAs(row, ExistingRelation(relations, KeyOf(row), 0))
    IN as(LinkRow(r, Reference(r.from), Reference(r.to)))

----------------------------------------------------------------------------
(* Merging two entries. *)

\* _validate_items.
MergeAllowed(p, d) ==
    p # d /\ {p, d} \subseteq Live(items) /\ items[p].kind = items[d].kind

\* _merge_basic_fields.
MergedRow(p, d) ==
    LET a == items[p]  b == items[d]
    IN [a EXCEPT !.original = IF @ = NoText THEN b.original ELSE @,
                 !.year = IF @ = NoYear THEN b.year ELSE @,
                 !.ext = MergeDicts(@, b.ext)]

\* What entry d is called, as aliases of another: possible_aliases.
NamesOf(d) ==
    LET unspoken(t) == IF t = NoText THEN {} ELSE {[title |-> t, lang |-> NoLang]}
    IN unspoken(items[d].title) \cup unspoken(items[d].original)
         \cup {[title |-> a.title, lang |-> a.lang] : a \in WordsOf(d)}

\* _merge_aliases: the names of d, measured against the titles of p as
\* _merge_basic_fields left them.
MergedWords(p, d) ==
    NewWords(Text, TextOf(items[p].title) \cup TextOf(MergedRow(p, d).original),
             WordsOf(p), NamesOf(d))

\* A slip: the end a relation points to is forgotten.
RedirectedSource(r, p, d) ==
    [r EXCEPT !.source = IF @ = d THEN p ELSE @,
              !.type = NormType[@], !.order = NormType[@]]

Redirected(r, p, d) ==
    LET end(i) == IF i = d THEN p ELSE i
    IN [r EXCEPT !.source = end(@), !.target = end(@),
                 !.type = NormType[@], !.order = NormType[@]]

\* What a session with autoflush would show.
SeenAfterFlush(st) == {st.now[n] : n \in DOMAIN st.now \ st.drop}

\* The rows of the database a relation of the duplicate is compared with: the
\* session does not flush while the loop runs.
SeenByLoop(st) == relations

\* _merge_relations, one relation of the duplicate at a time, in the order of their
\* ids: st.now holds the rows in memory, st.drop the ones to delete.
MergeRelation(p, d, st, r) ==
    LET moved == Redirected(r, p, d)
        twin == ExistingRelation(SeenByLoop(st), KeyOf(moved), r.id)
    IN IF moved.source = moved.target THEN [st EXCEPT !.drop = @ \cup {r.id}]
         ELSE IF twin # {} THEN
              LET e == CHOOSE t \in twin : TRUE
                  row == st.now[e.id]
                  grown == [row EXCEPT !.position = MergePosition(@, r.position),
                                       !.notes = @ \cup r.notes]
              IN [st EXCEPT !.now[e.id] = grown, !.drop = @ \cup {r.id}]
         ELSE [st EXCEPT !.now[r.id] = moved]

RowOf(n) == RowAt(relations, n)
MergeSteps(p, d) ==
    LET due == {r.id : r \in RelationsFor(relations, d)}
        done[n \in 0 .. MaxRelation] ==
            IF n = 0 THEN [now |-> [i \in {r.id : r \in relations} |-> RowOf(i)], drop |-> {}]
            ELSE IF n \in due THEN MergeRelation(p, d, done[n - 1], RowOf(n))
            ELSE done[n - 1]
    IN done
MergeRelations(p, d) == MergeSteps(p, d)[MaxRelation]

\* merge_items, once the loop over the relations is done.
MergeWith(p, d, done) ==
    LET changed == {q \in relations : q.id \notin done.drop /\ done.now[q.id] # q}
    IN [NoPlan EXCEPT !.op = "merge", !.item = p, !.gone = d,
               !.put = Changed(items[p], MergedRow(p, d)),
               !.words = RowsFor(p, MergedWords(p, d)),
               !.relPut = [n \in {q.id : q \in changed} |->
                             Changed(CHOOSE q \in changed : q.id = n, done.now[n])],
               !.relDrop = done.drop,
               !.goneWords = WordsOf(d)]

MergePlan(r) ==
    IF ~MergeAllowed(r.primary, r.duplicate) THEN NoPlan
    ELSE MergeWith(r.primary, r.duplicate, MergeRelations(r.primary, r.duplicate))

\* preview_merge: the aliases that would be added, measured against the titles p
\* has now, and what would become of each relation of the duplicate.
PreviewAliases(p, d) ==
    NewWords(Text, TextOf(items[p].title) \cup TextOf(items[p].original),
             WordsOf(p), NamesOf(d))
PreviewRelations(p, d) ==
    [n \in {r.id : r \in RelationsFor(relations, d)} |->
       LET moved == Redirected(CHOOSE r \in relations : r.id = n, p, d)
       IN IF moved.source = moved.target THEN "remove_self_relation"
          ELSE IF ExistingRelation(relations, KeyOf(moved), n) # {} THEN "merge_with_existing"
          ELSE "move_to_primary"]

PlanOf(r) ==
    CASE r.op = "alias"       -> AliasPlan(r)
      [] r.op = "link"        -> LinkPlan(r)
      [] r.op = "import"      -> ImportPlan(r)
      [] r.op = "import_link" -> ImportLinkPlan(r)
      [] r.op = "merge"       -> MergePlan(r)

----------------------------------------------------------------------------
(* The steps. *)

Init ==
    /\ items = Items /\ aliases = Aliases /\ relations = Relations
    /\ session = [s \in Sessions |-> Idle]
    /\ raced = FALSE /\ left = MaxRequests

\* Someone else's commit falls between the reads and the writes of the others.
Overtake(s) ==
    session' = [t \in Sessions |->
                  IF t = s THEN Idle
                  ELSE [session[t] EXCEPT !.overtaken = session[t].plan # NoPlan \/ @]]

\* create_item reads nothing: it is one write.
CreateItem(s, r) ==
    /\ r.op = "create" /\ left > 0 /\ session[s] = Idle /\ NextItem <= MaxItem
    /\ items' = [items EXCEPT ![NextItem] = r.row]
    /\ left' = left - 1
    /\ Overtake(s)
    /\ UNCHANGED <<aliases, relations, raced>>

Read(s, r) ==
    /\ r.op # "create" /\ left > 0 /\ session[s] = Idle
    /\ \E plan \in {PlanOf(r)} \ {NoPlan} :
         session' = [session EXCEPT ![s] = [plan |-> plan, overtaken |-> FALSE]]
    /\ left' = left - 1
    /\ UNCHANGED <<items, aliases, relations, raced>>

\* The tables after the plan's statements: UPDATEs and INSERTs before DELETEs.
ItemsAfter(p) ==
    [i \in Ids |-> IF i = p.gone THEN NoItem
                     ELSE IF p.new # NoItem /\ i = NextItem THEN p.new
                     ELSE IF i = p.item /\ DOMAIN p.put # {} THEN Over(p.put, items[i])
                     ELSE items[i]]
WordsWritten(p) == {[w EXCEPT !.item = IF @ = 0 THEN NextItem ELSE @] : w \in p.words}
RelationsAfter(p) ==
    {IF r.id \in DOMAIN p.relPut THEN Over(p.relPut[r.id], r) ELSE r :
       r \in {q \in relations : q.id \notin p.relDrop}}
      \cup {[l EXCEPT !.id = NextRelation(relations)] : l \in p.link}

\* StaleDataError: an UPDATE finds its row gone.
Stale(p) ==
    \/ DOMAIN p.put # {} /\ p.item \notin Live(items)
    \/ ~(DOMAIN p.relPut \subseteq {r.id : r \in relations})

\* IntegrityError: an alias repeats one with a language, or a relation repeats
\* one with an order type.
Refused(p) ==
    \/ \E w \in WordsWritten(p) : w.lang # NoLang /\ w \in aliases
    \/ ~Unique(RelationsAfter(p))

\* Bound: the highest ids.
Fits(p) == (p.new = NoItem \/ NextItem <= MaxItem)
             /\ (p.link = {} \/ NextRelation(relations) <= MaxRelation)

Write(s) ==
    LET p == session[s].plan
    IN /\ p # NoPlan /\ ~Stale(p) /\ ~Refused(p) /\ Fits(p)
       /\ items' = ItemsAfter(p)
       /\ aliases' = (aliases \ p.goneWords) \cup WordsWritten(p)
       /\ relations' = RelationsAfter(p)
       /\ raced' = (raced \/ session[s].overtaken)
       /\ Overtake(s)
       /\ UNCHANGED left

\* rollback(): nothing of the request stays.
Rollback(s) ==
    LET p == session[s].plan
    IN /\ p # NoPlan /\ (Stale(p) \/ Refused(p))
       /\ session' = [session EXCEPT ![s] = Idle]
       /\ UNCHANGED <<items, aliases, relations, raced, left>>

Normal(r) == [r EXCEPT !.type = NormType[@], !.order = NormType[@]]

\* A slip: the row in conflict is taken for a duplicate and dropped.
MigrateRowDrops(st, r) ==
    LET new == Normal(r)
        rows == (st.rows \ {r}) \cup {new}
    IN IF Unique(rows) THEN [st EXCEPT !.rows = rows]
       ELSE [st EXCEPT !.rows = @ \ {r}, !.conflicts = @ + 1]

\* migrate_relation_types: one transaction over all rows in the order of their
\* ids; a conflict rolls back every row changed before it, not only its own.
MigrateRow(st, r) ==
    LET new == Normal(r)
        rows == (st.rows \ {r}) \cup {new}
    IN IF new = r      THEN st
         ELSE IF Unique(rows) THEN [st EXCEPT !.rows = rows]
         ELSE [st EXCEPT !.rows = relations, !.conflicts = @ + 1]
MigrateSteps ==
    LET done[n \in 0 .. MaxRelation] ==
            IF n = 0 THEN [rows |-> relations, conflicts |-> 0]
            ELSE IF n \in {r.id : r \in relations} THEN MigrateRow(done[n - 1], RowOf(n))
            ELSE done[n - 1]
    IN done
Migrated == MigrateSteps[MaxRelation]

\* The script of migrations/: reading and writing are one step.  What a request
\* of the node commits between its SELECT and its first flush is left out.
Migrate ==
    /\ left > 0 /\ Migrated.rows # relations
    /\ relations' = Migrated.rows
    /\ session' = [t \in Sessions |->
                     [session[t] EXCEPT !.overtaken = session[t].plan # NoPlan \/ @]]
    /\ left' = left - 1
    /\ UNCHANGED <<items, aliases, raced>>

Next == \/ \E s \in Sessions : \/ \E r \in Requests : CreateItem(s, r) \/ Read(s, r)
                               \/ Write(s) \/ Rollback(s)
        \/ Migrate

Spec == Init /\ [][Next]_vars

----------------------------------------------------------------------------
(* Properties. *)

\* The tables hold rows, and no two relations with an order type have one key.
TypeOK ==
    /\ items \in [Ids -> ItemRow \cup {NoItem}]
    /\ aliases \subseteq AliasRow
    /\ relations \subseteq RelationRow
    /\ \A r, q \in relations : r.id = q.id => r = q
    /\ Unique(relations)
    /\ raced \in BOOLEAN /\ left \in 0..MaxRequests

\* As long as no request wrote on top of another's commit, nothing dangles: an
\* alias has its entry and a relation two different ones that exist, through
\* every merge, deletion and reuse of an id (merge.py:282-350).
NothingDangles ==
    ~raced => /\ \A a \in aliases : a.item \in Live(items)
              /\ InvalidRelations(items, relations) = {}

\* What holds of the database at any moment: what its tables accept, and that
\* rows only name rows that are there.
Consistent == TypeOK /\ NothingDangles

\* Session s commits its plan, and no one committed since it read.
Commits(s, op) ==
    /\ session[s].plan.op = op /\ ~session[s].overtaken
    /\ session'[s] = Idle
    /\ <<items, aliases, relations>>' # <<items, aliases, relations>>

\* A row with the key of m, at least its notes and no later a position.
Covers(q, m) ==
    /\ KeyOf(q) = KeyOf(m) /\ m.notes \subseteq q.notes
    /\ m.position # NoPosition => q.position # NoPosition /\ q.position <= m.position

\* The step that merges entry d into entry p loses nothing of either.
LosesNothing(p, d) ==
    /\ items'[d] = NoItem /\ items'[p] # NoItem
    /\ CollectTitles(items, aliases, p) \cup CollectTitles(items, aliases, d)
         \subseteq CollectTitles(items', aliases', p)
    /\ \A k \in Keys : items'[p].ext[k] = IF items[p].ext[k] # NoValue
                                          THEN items[p].ext[k] ELSE items[d].ext[k]
    /\ \A r \in relations :
         IF d \notin {r.source, r.target}
         THEN \E q \in relations' : q.id = r.id /\ KeyOf(q) = KeyOf(r)
         ELSE LET m == Redirected(r, p, d)
              IN m.source # m.target => \E q \in relations' : Covers(q, m)

\* A merge not overtaken loses nothing: the primary answers to every name of
\* both entries, keeps its own external ids and takes the missing ones, and
\* every relation of the duplicate to a third entry is one of the primary, with
\* its notes and at no later position; the other relations stay (merge.py:159-393).
MergeKeepsKnowledge ==
    [][\A s \in Sessions : Commits(s, "merge") =>
         LosesNothing(session[s].plan.item, session[s].plan.gone)]_vars

\* An original title p has not, and _merge_basic_fields gives it.
TakenOver(p, d) == IF items[p].original = NoText THEN TextOf(items[d].original) ELSE {}

\* What a merge's preview says of each relation is what the merge then does, and
\* the aliases it announces are the ones added, save the names that become the
\* primary's original title instead: the preview measures them against the titles
\* before the merge (merge.py:395-528), for every pair in every database.
PreviewIsWhatMergeDoes ==
    \A p, d \in Live(items) : MergeAllowed(p, d) =>
        \E plan \in {MergePlan([primary |-> p, duplicate |-> d])}, preview \in {PreviewRelations(p, d)} :
        LET told(action) == {n \in DOMAIN preview : preview[n] = action}
        IN /\ plan.relDrop = told("remove_self_relation") \cup told("merge_with_existing")
           /\ told("move_to_primary") = DOMAIN plan.relPut \cap DOMAIN preview
           /\ {<<Text[w.title], w.lang>> : w \in plan.words} =
                {<<Text[w.title], w.lang>> :
                   w \in {v \in PreviewAliases(p, d) : Text[v.title] \notin TakenOver(p, d)}}

\* An entry that keeps what it had; its external ids as the matcher reads them.
KeepsValues(new, old) ==
    /\ new.title = old.title /\ new.kind = old.kind
    /\ old.original # NoText => new.original = old.original
    /\ old.year # NoYear => new.year = old.year
    /\ \A k \in Keys : NormExt(old.ext)[k] # NoValue => NormExt(new.ext)[k] = NormExt(old.ext)[k]

\* The step takes no entry, value, alias or relation away.
TakesNothing ==
    /\ aliases \subseteq aliases' /\ relations' = relations
    /\ \A i \in Live(items) : items'[i] # NoItem /\ KeepsValues(items'[i], items[i])

\* An import without overwrite_existing that is not overtaken takes nothing
\* away: every entry keeps its fields, its aliases, and a value for every
\* external id it could be recognised by, be its spelling changed
\* (importer.py:81, 353-475).
ImportKeepsValues ==
    [][\A s \in Sessions :
         Commits(s, "import") /\ ~session[s].plan.overwrite => TakesNothing]_vars

\* Entry j is of row's kind and year and goes by its title.
KnownAs(I, A, j, row) ==
    /\ I[j].kind = row.kind /\ I[j].year = row.year /\ I[j].year # NoYear
    /\ Norm[row.title] \in CollectTitles(I, A, j)

\* So many of the entries a search for row's titles finds sort before j that
\* LIMIT cuts it off.
CutOff(I, A, j, row) ==
    Cardinality({k \in Named(I, A, row) : <<k, j>> \in ByTitle(I)}) >= MaxCandidates

\* An entry the step adds is none that the search for its title finds.
NewIsUnknown ==
    \A i \in Ids : items[i] = NoItem /\ items'[i] # NoItem =>
      \A j \in Hits(items, aliases, items'[i].title) :
        KnownAs(items, aliases, j, items'[i]) => CutOff(items, aliases, j, items'[i])

\* An import not overtaken adds an entry only when none of its kind and year
\* goes by its title, among those its search for the title finds and looks at:
\* an entry that answers to the title is recognised unless MaxCandidates other
\* finds sort before it, whatever else is stored (importer.py:195-252,
\* matcher.py:67-118, 251-322).  A title that normalises to nothing is nobody's
\* name: its import always adds an entry.
CreateMeansNew ==
    [][\A s \in Sessions : Commits(s, "import") => NewIsUnknown]_vars

\* In every database traversals, paths and ordered lists are what they are
\* meant to be (graph.py:159-450), even over relations that dangle.
GraphAnswersAreExact ==
    \A i \in Live(items) :
        /\ \A n \in 0..2, types \in {{}, {NormType[t] : t \in RelationTypes}} :
             TraversalIsExact(items, relations, i, n, types)
        /\ \A j \in Live(items), n \in 1..3 : PathIsShortest(items, relations, i, j, n, {})
        /\ \A order \in RelationTypes : OrderIsKept(items, relations, i, order)

\* Every row is still there, as it was or normalised.
RowsKept ==
    /\ \A r \in relations : \E q \in relations' : q \in {r, Normal(r)}
    /\ Cardinality(relations') = Cardinality(relations)
    /\ Migrated.conflicts = 0 =>
         \A q \in relations' : NormType[q.type] = q.type /\ NormType[q.order] = q.order

\* The migration changes no relation's ends, position or notes, leaves a type
\* as it was or normalises it, and when it meets no conflict leaves none as it
\* was (migrations/normalize_knowledge_relations.py:9-57).
MigrationKeepsRelations == [][Migrate => RowsKept]_vars
=============================================================================
