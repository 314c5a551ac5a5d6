--------------------------- MODULE KnowledgeProofs ---------------------------
(* Proofs about Knowledge, for every table, set of titles, of sessions and of *)
(* requests: what a plan says and what writing it does, then the tables.     *)
EXTENDS Knowledge, FiniteSetTheorems, WellFoundedInduction, TLAPS

-----------------------------------------------------------------------------
(* Numbers and rows. *)

(* Every set of natural numbers has a least one. *)
LEMMA LeastElement ==
    ASSUME NEW T \in SUBSET Nat, T # {}
    PROVE  \E x \in T : \A y \in T : x <= y
<1>1. IsWellFoundedOn(OpToRel(<, Nat), Nat)
  BY NatLessThanWellFounded
<1>2. PICK x \in T : \A y \in T : ~(<<y, x>> \in OpToRel(<, Nat))
  BY <1>1, WFMin
<1>3. \A y \in T : ~(y < x)
  BY <1>2 DEF OpToRel
<1> QED BY <1>3

(* A set of natural numbers with a bound has a greatest one. *)
LEMMA GreatestElement ==
    ASSUME NEW T, T # {}, NEW N \in Nat, \A t \in T : t \in Nat /\ t <= N
    PROVE  Max(T) \in T /\ \A y \in T : Max(T) >= y
<1> DEFINE U == {n \in Nat : \A t \in T : t <= n}
<1>1. U \in SUBSET Nat /\ N \in U
  OBVIOUS
<1>2. PICK u \in U : \A v \in U : u <= v
  <2> HIDE DEF U
  <2> QED BY <1>1, LeastElement
<1>3. u \in T
  <2> SUFFICES ASSUME u \notin T PROVE FALSE
    OBVIOUS
  <2>1. \A t \in T : t < u
    BY <1>2
  <2>2. u - 1 \in U
    <3>1. PICK t \in T : TRUE
      OBVIOUS
    <3>2. t \in Nat /\ t < u /\ u \in Nat
      BY <1>2, <2>1
    <3>3. u - 1 \in Nat
      BY <3>2
    <3>4. \A s \in T : s <= u - 1
      BY <2>1, <3>2
    <3> QED BY <3>3, <3>4
  <2>3. u <= u - 1 /\ u \in Nat
    BY <1>2, <2>2
  <2> QED BY <2>3
<1>4. \E x \in T : \A y \in T : x >= y
  BY <1>2, <1>3
<1> QED BY <1>4 DEF Max

(* The next id is new. *)
LEMMA NextItemIsNew ==
    ASSUME NextItem <= MaxItem
    PROVE  NextItem \in Ids /\ NextItem \notin Live(items)
<1>1. MaxItem \in Nat /\ \A i \in Live(items) : i \in Nat /\ i <= MaxItem /\ i >= 1
  BY MaxItemAssumption DEF Live, Ids
<1>2. CASE Live(items) = {}
  BY <1>1, <1>2, MaxItemAssumption DEF NextItem, Ids
<1>3. CASE Live(items) # {}
  <2>1. Max(Live(items)) \in Live(items) /\ \A y \in Live(items) : Max(Live(items)) >= y
    BY <1>1, <1>3, GreatestElement
  <2>2. NextItem = Max(Live(items)) + 1
    BY <1>3 DEF NextItem
  <2> HIDE DEF NextItem
  <2>3. Max(Live(items)) \in Nat
    BY <1>1, <2>1
  <2>4. NextItem \in Ids
    BY <2>2, <2>3, <1>1 DEF Ids
  <2>5. \A y \in Live(items) : y # NextItem
    BY <1>1, <2>1, <2>2, <2>3
  <2> QED BY <2>4, <2>5
<1> QED BY <1>2, <1>3

(* The id a new relation gets is no other row's. *)
LEMMA NextRelationIsNew ==
    ASSUME NEW rels, \A r \in rels : r.id \in RelationIds,
           NextRelation(rels) <= MaxRelation
    PROVE  NextRelation(rels) \in RelationIds /\ \A r \in rels : r.id # NextRelation(rels)
<1> DEFINE ids == {r.id : r \in rels}
<1>1. MaxRelation \in Nat /\ MaxRelation >= 1 /\ \A i \in ids : i \in Nat /\ i <= MaxRelation /\ i >= 1
  BY RelationAssumption DEF RelationIds
<1>2. CASE rels = {}
  BY <1>1, <1>2 DEF NextRelation, RelationIds
<1>3. CASE rels # {}
  <2>1. Max(ids) \in ids /\ \A y \in ids : Max(ids) >= y
    <3>1. ids # {}
      BY <1>3
    <3> HIDE DEF ids
    <3> QED BY <1>1, <3>1, GreatestElement
  <2>2. NextRelation(rels) = Max(ids) + 1
    BY <1>3 DEF NextRelation
  <2> DEFINE next == NextRelation(rels)
  <2>3. \A r \in rels : r.id \in ids
    OBVIOUS
  <2> HIDE DEF ids, next
  <2>4. Max(ids) \in Nat
    BY <1>1, <2>1
  <2>5. next = Max(ids) + 1 /\ next <= MaxRelation
    BY <2>2 DEF next
  <2>6. next \in RelationIds
    BY <2>4, <2>5, <1>1 DEF RelationIds
  <2>7. \A y \in ids : y # next
    BY <1>1, <2>1, <2>4, <2>5
  <2> QED BY <2>3, <2>6, <2>7 DEF next
<1> QED BY <1>2, <1>3

\* Fields of a row that an UPDATE sets; the id is none of them.
SomeOfItem(u) ==
    /\ DOMAIN u \subseteq {"title", "original", "kind", "year", "ext"}
    /\ "title" \in DOMAIN u => u.title \in Titles
    /\ "original" \in DOMAIN u => u.original \in Titles \cup {NoText}
    /\ "kind" \in DOMAIN u => u.kind \in Kinds
    /\ "year" \in DOMAIN u => u.year \in Years \cup {NoYear}
    /\ "ext" \in DOMAIN u => u.ext \in [Keys -> Values \cup {NoValue}]
SomeOfRelation(u) ==
    /\ DOMAIN u \subseteq {"source", "target", "type", "order", "position", "notes"}
    /\ "source" \in DOMAIN u => u.source \in Ids
    /\ "target" \in DOMAIN u => u.target \in Ids
    /\ "type" \in DOMAIN u => u.type \in RelationTypes
    /\ "order" \in DOMAIN u => u.order \in RelationTypes \cup {NoOrder}
    /\ "position" \in DOMAIN u => u.position \in Nat \cup {NoPosition}
    /\ "notes" \in DOMAIN u => u.notes \in SUBSET Notes

(* What a row of knowledge_items is, field by field. *)
LEMMA ItemRowIs ==
    ASSUME NEW x
    PROVE  x \in ItemRow <=>
             /\ x = [f \in {"title", "original", "kind", "year", "ext"} |-> x[f]]
             /\ x.title \in Titles /\ x.original \in Titles \cup {NoText}
             /\ x.kind \in Kinds /\ x.year \in Years \cup {NoYear}
             /\ x.ext \in [Keys -> Values \cup {NoValue}]
  BY DEF ItemRow

(* What a row of knowledge_relations is, field by field. *)
LEMMA RelationRowIs ==
    ASSUME NEW x
    PROVE  x \in RelationRow <=>
             /\ x = [f \in {"id", "source", "target", "type", "order", "position", "notes"} |-> x[f]]
             /\ x.id \in RelationIds
             /\ x.source \in Ids /\ x.target \in Ids /\ x.type \in RelationTypes
             /\ x.order \in RelationTypes \cup {NoOrder}
             /\ x.position \in Nat \cup {NoPosition} /\ x.notes \in SUBSET Notes
  BY DEF RelationRow

(* An UPDATE of some fields of an item leaves an item. *)
LEMMA OverItem ==
    ASSUME NEW u, SomeOfItem(u), NEW row \in ItemRow
    PROVE  Over(u, row) \in ItemRow
<1> DEFINE x == Over(u, row)
           F == {"title", "original", "kind", "year", "ext"}
<1>1. DOMAIN row = F
  BY ItemRowIs
<1>2. x = [f \in F |-> IF f \in DOMAIN u THEN u[f] ELSE row[f]]
  BY <1>1 DEF Over, SomeOfItem
<1>3. x = [f \in F |-> x[f]]
  BY <1>2
<1>4. /\ x.title = IF "title" \in DOMAIN u THEN u.title ELSE row.title
      /\ x.original = IF "original" \in DOMAIN u THEN u.original ELSE row.original
      /\ x.kind = IF "kind" \in DOMAIN u THEN u.kind ELSE row.kind
      /\ x.year = IF "year" \in DOMAIN u THEN u.year ELSE row.year
      /\ x.ext = IF "ext" \in DOMAIN u THEN u.ext ELSE row.ext
  BY <1>2
<1>5. /\ row.title \in Titles /\ row.original \in Titles \cup {NoText}
      /\ row.kind \in Kinds /\ row.year \in Years \cup {NoYear}
      /\ row.ext \in [Keys -> Values \cup {NoValue}]
  BY ItemRowIs
<1> HIDE DEF x
<1>6. /\ x.title \in Titles /\ x.original \in Titles \cup {NoText}
      /\ x.kind \in Kinds /\ x.year \in Years \cup {NoYear}
      /\ x.ext \in [Keys -> Values \cup {NoValue}]
  BY <1>4, <1>5 DEF SomeOfItem
<1>7. x \in ItemRow
  BY <1>3, <1>6, ItemRowIs
<1> QED BY <1>7 DEF x

(* An UPDATE of some fields of a relation leaves a relation with its id. *)
LEMMA OverRelation ==
    ASSUME NEW u, SomeOfRelation(u), NEW row \in RelationRow
    PROVE  Over(u, row) \in RelationRow /\ Over(u, row).id = row.id
<1> DEFINE x == Over(u, row)
           F == {"id", "source", "target", "type", "order", "position", "notes"}
<1>1. DOMAIN row = F
  BY RelationRowIs
<1>2. x = [f \in F |-> IF f \in DOMAIN u THEN u[f] ELSE row[f]]
  BY <1>1 DEF Over, SomeOfRelation
<1>3. x = [f \in F |-> x[f]]
  BY <1>2
<1>4. /\ x.id = row.id
      /\ x.source = IF "source" \in DOMAIN u THEN u.source ELSE row.source
      /\ x.target = IF "target" \in DOMAIN u THEN u.target ELSE row.target
      /\ x.type = IF "type" \in DOMAIN u THEN u.type ELSE row.type
      /\ x.order = IF "order" \in DOMAIN u THEN u.order ELSE row.order
      /\ x.position = IF "position" \in DOMAIN u THEN u.position ELSE row.position
      /\ x.notes = IF "notes" \in DOMAIN u THEN u.notes ELSE row.notes
  BY <1>2 DEF SomeOfRelation
<1>5. /\ row.id \in RelationIds
      /\ row.source \in Ids /\ row.target \in Ids /\ row.type \in RelationTypes
      /\ row.order \in RelationTypes \cup {NoOrder}
      /\ row.position \in Nat \cup {NoPosition} /\ row.notes \in SUBSET Notes
  BY RelationRowIs
<1> HIDE DEF x
<1>6. /\ x.id \in RelationIds
      /\ x.source \in Ids /\ x.target \in Ids /\ x.type \in RelationTypes
      /\ x.order \in RelationTypes \cup {NoOrder}
      /\ x.position \in Nat \cup {NoPosition} /\ x.notes \in SUBSET Notes
  BY <1>4, <1>5 DEF SomeOfRelation
<1>7. x \in RelationRow
  BY <1>3, <1>6, RelationRowIs
<1> QED BY <1>4, <1>7 DEF x

HasFields(row, F) == row = [f \in F |-> row[f]]

(* An UPDATE of what differs leaves the new row. *)
LEMMA OverChanged ==
    ASSUME NEW F, NEW old, NEW new,
           HasFields(old, F), HasFields(new, F)
    PROVE  /\ Over(Changed(old, new), old) = new
           /\ \A f \in DOMAIN Changed(old, new) :
                f \in F /\ old[f] # new[f] /\ Changed(old, new)[f] = new[f]
           /\ DOMAIN Changed(old, new) = {} => old = new
<1>1. DOMAIN old = F
  BY DEF HasFields
<1>2. Changed(old, new) = [f \in {g \in F : old[g] # new[g]} |-> new[f]]
  BY <1>1 DEF Changed
<1>3. Over(Changed(old, new), old) = [f \in F |-> new[f]]
  BY <1>1, <1>2 DEF Over
<1>4. DOMAIN Changed(old, new) = {} => \A f \in F : old[f] = new[f]
  BY <1>2
<1>5. (\A f \in F : old[f] = new[f]) => old = new
  BY DEF HasFields
<1>6. [f \in F |-> new[f]] = new
  BY DEF HasFields
<1> QED BY <1>2, <1>3, <1>4, <1>5, <1>6

(* The fields that changed, and what writing them to the old row leaves. *)
LEMMA ChangedItem ==
    ASSUME NEW old \in ItemRow, NEW new \in ItemRow
    PROVE  /\ Over(Changed(old, new), old) = new
           /\ SomeOfItem(Changed(old, new))
           /\ DOMAIN Changed(old, new) = {} => old = new
<1> DEFINE F == {"title", "original", "kind", "year", "ext"}
           u == Changed(old, new)
<1>1. /\ Over(u, old) = new
      /\ DOMAIN u \subseteq F
      /\ \A f \in DOMAIN u : u[f] = new[f]
      /\ DOMAIN u = {} => old = new
  <2>1. HasFields(old, F) /\ HasFields(new, F)
    BY ItemRowIs DEF HasFields
  <2> HIDE DEF F
  <2>2. /\ Over(Changed(old, new), old) = new
        /\ \A f \in DOMAIN Changed(old, new) :
             f \in F /\ old[f] # new[f] /\ Changed(old, new)[f] = new[f]
        /\ DOMAIN Changed(old, new) = {} => old = new
    BY <2>1, OverChanged
  <2> QED BY <2>2 DEF u
<1> HIDE DEF u
<1>2. SomeOfItem(u)
  BY <1>1, ItemRowIs DEF SomeOfItem
<1> QED BY <1>1, <1>2 DEF u

(* The fields of a relation that changed, and what writing them leaves. *)
LEMMA ChangedRelation ==
    ASSUME NEW old \in RelationRow, NEW new \in RelationRow, old.id = new.id
    PROVE  /\ Over(Changed(old, new), old) = new
           /\ SomeOfRelation(Changed(old, new))
<1> DEFINE F == {"id", "source", "target", "type", "order", "position", "notes"}
           u == Changed(old, new)
<1>1. /\ Over(u, old) = new
      /\ DOMAIN u \subseteq F \ {"id"}
      /\ \A f \in DOMAIN u : u[f] = new[f]
  <2>1. HasFields(old, F) /\ HasFields(new, F)
    BY RelationRowIs DEF HasFields
  <2>2. Over(u, old) = new /\ \A f \in DOMAIN u : f \in F /\ old[f] # new[f] /\ u[f] = new[f]
    <3> HIDE DEF F
    <3>2. /\ Over(Changed(old, new), old) = new
          /\ \A f \in DOMAIN Changed(old, new) :
               f \in F /\ old[f] # new[f] /\ Changed(old, new)[f] = new[f]
      BY <2>1, OverChanged
    <3> QED BY <3>2 DEF u
  <2> QED BY <2>2
<1> HIDE DEF u
<1>2. SomeOfRelation(u)
  BY <1>1, RelationRowIs DEF SomeOfRelation
<1> QED BY <1>1, <1>2 DEF u
-----------------------------------------------------------------------------
(* The matcher. *)

\* What an import or a reference asks the matcher for.
MatchRequest(req) ==
    /\ req.title \in Titles /\ req.original \in Titles \cup {NoText}
    /\ req.year \in Years \cup {NoYear}

\* The tables as the matcher reads them.
Readable ==
    /\ items \in [Ids -> ItemRow \cup {NoItem}]
    /\ aliases \subseteq AliasRow

(* An id in use has a row. *)
LEMMA LiveRows ==
    ASSUME Readable, NEW i \in Live(items)
    PROVE  i \in Ids /\ items[i] \in ItemRow
  BY DEF Readable, Live

(* What an entry is called is a set of titles. *)
LEMMA TitlesAreTitles ==
    ASSUME Readable, NEW i \in Live(items)
    PROVE  CollectTitles(items, aliases, i) \subseteq Titles
<1>1. items[i].title \in Titles /\ items[i].original \in Titles \cup {NoText}
  BY LiveRows, ItemRowIs
<1>2. \A t \in Titles : Norm[t] \in Titles \cup {NoText}
  BY TextAssumption
<1>3. \A a \in aliases : a.title \in Titles
  BY DEF Readable, AliasRow
<1>4. NormOf(items[i].title) \subseteq Titles /\ NormOf(items[i].original) \subseteq Titles
  BY <1>1, <1>2 DEF NormOf
<1>5. {Norm[a.title] : a \in {b \in aliases : b.item = i}} \ {NoText} \subseteq Titles
  BY <1>2, <1>3
<1> QED BY <1>4, <1>5 DEF CollectTitles

Scores == 0 .. 1000
AnyYear == Years \cup {NoYear}

(* The score of a title that is similar is at most 970. *)
LEMMA FuzzyRange ==
    ASSUME NEW ratio \in Scores, NEW year \in AnyYear, NEW other \in AnyYear
    PROVE  FuzzyScore(ratio, year, other).score \in 0 .. 970
<1> USE DEF Scores, AnyYear
<1> DEFINE off == Abs(year - other)
           bonus == IF NoYear \in {year, other} THEN 0
                    ELSE IF off = 0 THEN 80 ELSE IF off = 1 THEN -40 ELSE -Min({250, 40 * off})
           n == ratio + bonus
<1>1. bonus \in Int
  <2>1. CASE NoYear \in {year, other}
    BY <2>1
  <2>2. CASE NoYear \notin {year, other}
    <3>1. year \in Int /\ other \in Int
      BY <2>2, NumberAssumption
    <3>2. year - other \in Int
      BY <3>1
    <3>3. off \in Int
      BY <3>2 DEF Abs
    <3> HIDE DEF off
    <3>4. \A x, y \in Int : Min({x, y}) \in Int
      <4> SUFFICES ASSUME NEW x \in Int, NEW y \in Int PROVE Min({x, y}) \in Int
        OBVIOUS
      <4>1. \E z \in {x, y} : \A v \in {x, y} : z <= v
        OBVIOUS
      <4> QED BY <4>1 DEF Min
    <3>5. Min({250, 40 * off}) \in Int
      BY <3>3, <3>4
    <3> QED BY <3>3, <3>5
  <2> QED BY <2>1, <2>2
<1>2. n \in Int
  <2> HIDE DEF bonus
  <2> QED BY <1>1
<1>3. Clamp(0, 970, n) \in 0 .. 970
  <2> HIDE DEF n
  <2>1. \E z \in {970, n} : \A v \in {970, n} : z <= v
    BY <1>2
  <2>2. Min({970, n}) \in {970, n} /\ Min({970, n}) <= 970
    BY <2>1 DEF Min
  <2> DEFINE m == Min({970, n})
  <2>3. m \in Int /\ m <= 970
    BY <1>2, <2>2
  <2> HIDE DEF m
  <2>4. \E z \in {0, m} : \A v \in {0, m} : z >= v
    BY <2>3
  <2>5. Max({0, m}) \in {0, m} /\ Max({0, m}) >= 0
    BY <2>4 DEF Max
  <2>6. Max({0, m}) \in 0 .. 970
    BY <2>3, <2>5
  <2> QED BY <2>6 DEF m, Clamp
<1>4. FuzzyScore(ratio, year, other) = NoMatch
      \/ FuzzyScore(ratio, year, other) = [score |-> Clamp(0, 970, n), type |-> "fuzzy_title"]
  BY DEF FuzzyScore
<1> HIDE DEF n
<1> QED BY <1>3, <1>4 DEF NoMatch

(* A comparison scores between 0 and 1000, and above 970 only what is exact. *)
LEMMA ScoreRange ==
    ASSUME Readable, NEW i \in Live(items), NEW req, MatchRequest(req)
    PROVE  /\ CompareItem(items, aliases, i, req).score \in 0 .. 1000
           /\ CompareItem(items, aliases, i, req).score > 970 =>
                CompareItem(items, aliases, i, req).type \in ExactTypes
<1> DEFINE T == NormOf(req.title) \cup NormOf(req.original)
           C == CollectTitles(items, aliases, i)
           Q == {Ratio[<<a, b>>] : a \in T, b \in C}
           R == {0} \cup Q
<1>1. T \subseteq Titles
  BY TextAssumption DEF MatchRequest, NormOf
<1>2. C \subseteq Titles
  BY TitlesAreTitles
<1>3. Max(R) \in 0 .. 1000
  <2>1. \A a \in T, b \in C : Ratio[<<a, b>>] \in 0 .. 1000
    <3> HIDE DEF T, C
    <3> SUFFICES ASSUME NEW a \in T, NEW b \in C PROVE Ratio[<<a, b>>] \in 0 .. 1000
      OBVIOUS
    <3>1. <<a, b>> \in Titles \X Titles
      BY <1>1, <1>2
    <3> QED BY <3>1, NumberAssumption
  <2>2. R # {} /\ \A x \in R : x \in 0 .. 1000
    <3> HIDE DEF T, C
    <3>1. \A x : x \in Q <=> \E a \in T, b \in C : x = Ratio[<<a, b>>]
      OBVIOUS
    <3> HIDE DEF Q
    <3>2. ASSUME NEW x \in Q PROVE x \in 0 .. 1000
      <4>1. PICK t \in T, c \in C : x = Ratio[<<t, c>>]
        BY <3>1
      <4> QED BY <2>1, <4>1
    <3> QED BY <3>2
  <2> HIDE DEF R
  <2>3. \A x \in R : x \in Nat /\ x <= 1000
    BY <2>2
  <2>4. Max(R) \in R
    BY <2>2, <2>3, GreatestElement
  <2> QED BY <2>2, <2>4
<1>4. items[i].year \in Years \cup {NoYear} /\ req.year \in Years \cup {NoYear}
  <2>1. items[i] \in ItemRow
    BY LiveRows
  <2> QED BY <2>1, ItemRowIs DEF MatchRequest
<1>5. FuzzyMatch(items, aliases, i, req) = FuzzyScore(Max(R), req.year, items[i].year)
  BY DEF FuzzyMatch
<1>6. FuzzyMatch(items, aliases, i, req).score \in 0 .. 970
  <2> HIDE DEF R
  <2> DEFINE ratio == Max(R)
             other == items[i].year
  <2>1. ratio \in 0 .. 1000 /\ other \in Years \cup {NoYear}
    BY <1>3, <1>4
  <2>2. FuzzyMatch(items, aliases, i, req) = FuzzyScore(ratio, req.year, other)
    BY <1>5
  <2> HIDE DEF ratio, other
  <2>3. req.year \in AnyYear /\ ratio \in Scores /\ other \in AnyYear
    BY <1>4, <2>1 DEF AnyYear, Scores
  <2>4. FuzzyScore(ratio, req.year, other).score \in 0 .. 970
    BY <2>3, FuzzyRange
  <2> QED BY <2>2, <2>4
<1> HIDE DEF T, C, Q, R
<1> DEFINE f == FuzzyMatch(items, aliases, i, req)
           x == CompareItem(items, aliases, i, req)
<1>7. \/ x = NoMatch \/ x = f \/ x.score = 930
      \/ x.score \in {1000, 990, 985} /\ x.type \in ExactTypes
  <2> HIDE DEF f
  <2> QED BY DEF CompareItem, f, ExactTypes
<1> HIDE DEF f, x
<1>8. NoMatch.score = 0
  BY DEF NoMatch
<1>9. f.score \in 0 .. 970
  BY <1>6 DEF f
<1>10. x.score \in 0 .. 1000 /\ (x.score > 970 => x.type \in ExactTypes)
  <2>1. CASE x = NoMatch \/ x.score = 930
    BY <1>8, <2>1
  <2>2. CASE x = f
    BY <1>9, <2>2
  <2>3. CASE x.score \in {1000, 990, 985} /\ x.type \in ExactTypes
    BY <2>3
  <2> QED BY <1>7, <2>1, <2>2, <2>3
<1> QED BY <1>10 DEF x

(* What comes first under an order is some of what there is, and what nothing  *)
(* sorts before comes first.                                                   *)
LEMMA FirstOfIs ==
    ASSUME NEW n, NEW S, NEW order
    PROVE  /\ FirstOf(n, S, order) \subseteq S
           /\ \A x \in S : Cardinality({y \in S : <<y, x>> \in order}) < n => x \in FirstOf(n, S, order)
  BY DEF FirstOf

\* The candidates that match, before the limit of find_matches.
Compared(req) ==
    Found([i \in Candidates(items, aliases, req) |-> CompareItem(items, aliases, i, req)])

(* The candidates are entries that exist. *)
LEMMA CandidatesAreLive ==
    ASSUME NEW req
    PROVE  Candidates(items, aliases, req) \subseteq Live(items)
<1>1. /\ Named(items, aliases, req) \subseteq Live(items)
      /\ Eligible(items, req) \subseteq Live(items)
  BY DEF Named, Eligible
<1> QED BY <1>1, FirstOfIs DEF Candidates

(* What the matcher answers is among them. *)
LEMMA MatchesAreCompared ==
    ASSUME NEW req, NEW limit
    PROVE  FindMatches(items, aliases, req, limit) \subseteq Compared(req)
  BY FirstOfIs DEF FindMatches, Compared

(* They are entries that exist, with a score; above 970 the match is exact. *)
LEMMA ComparedAre ==
    ASSUME Readable, NEW req, MatchRequest(req)
    PROVE  \A m \in Compared(req) :
              /\ m.item \in Live(items) /\ m.item \in 1 .. MaxItem /\ m.score \in 0 .. 1000
              /\ m.score > 970 => m.type \in ExactTypes
<1> DEFINE match == [i \in Candidates(items, aliases, req) |-> CompareItem(items, aliases, i, req)]
<1>2. /\ DOMAIN match \subseteq Live(items)
      /\ \A i \in DOMAIN match : /\ match[i].score \in 0 .. 1000
                                 /\ match[i].score > 970 => match[i].type \in ExactTypes
  BY CandidatesAreLive, ScoreRange
<1>3. Compared(req) = Found(match)
  BY DEF Compared
<1> HIDE DEF match
<1>4. Live(items) \subseteq 1 .. MaxItem
  BY DEF Live, Ids
<1>5. ASSUME NEW m \in Compared(req)
      PROVE  /\ m.item \in Live(items) /\ m.score \in 0 .. 1000
             /\ m.score > 970 => m.type \in ExactTypes
  <2>1. PICK i \in DOMAIN match :
               m = [item |-> i, score |-> match[i].score, type |-> match[i].type]
    BY <1>3 DEF Found
  <2>2. m.item = i /\ m.score = match[i].score /\ m.type = match[i].type
    BY <2>1
  <2> QED BY <1>2, <2>2
<1> QED BY <1>4, <1>5

\* Matches as the decision reads them.
Scored(M) == M # {} /\ \A m \in M : m.score \in 0 .. 1000 /\ m.item \in 1 .. MaxItem

(* The first match exists where there is any, and none is better. *)
LEMMA BestOfMatches ==
    ASSUME NEW M, Scored(M)
    PROVE  /\ Best(M) \in M
           /\ \A y \in M : \/ Best(M).score > y.score
                           \/ Best(M).score = y.score /\ Best(M).item <= y.item
<1> DEFINE S == {m.score : m \in M}
<1>0. M # {} /\ \A m \in M : m.score \in 0 .. 1000 /\ m.item \in 1 .. MaxItem
  BY DEF Scored
<1>1. ASSUME NEW m \in M PROVE m.score \in Nat /\ m.score <= 1000 /\ m.item \in Nat
  <2>0. PICK score, item : score = m.score /\ item = m.item
    OBVIOUS
  <2>1. score \in 0 .. 1000 /\ item \in 1 .. MaxItem
    BY <1>0, <2>0
  <2>2. score \in Nat /\ score <= 1000
    BY <2>1
  <2>3. item \in Nat
    BY <2>1
  <2> QED BY <2>0, <2>2, <2>3
<1>2. Max(S) \in S /\ \A y \in S : Max(S) >= y
  <2>1. S # {} /\ \A x \in S : x \in Nat /\ x <= 1000
    BY <1>0, <1>1
  <2> HIDE DEF S
  <2> QED BY <2>1, GreatestElement
<1> DEFINE top == {m \in M : m.score = Max(S)}
           I == {m.item : m \in top}
<1>3. I \in SUBSET Nat /\ I # {}
  <2>1. ASSUME NEW i \in I PROVE i \in Nat
    <3>1. PICK m \in M : i = m.item
      OBVIOUS
    <3> QED BY <1>1, <3>1
  <2>2. PICK m \in M : m.score = Max(S)
    BY <1>2
  <2> QED BY <2>1, <2>2
<1>4. PICK n \in I : \A k \in I : n <= k
  <2> HIDE DEF I
  <2> QED BY <1>3, LeastElement
<1>5. PICK m \in top : m.item = n
  BY <1>4
<1>6. \A k \in M : k.score <= m.score
  BY <1>1, <1>2, <1>5
<1>7. \A k \in M : k.score = m.score => m.item <= k.item
  BY <1>4, <1>5
<1>8. \E x \in M : \A y \in M : x.score > y.score \/ (x.score = y.score /\ x.item <= y.item)
  <2>1. m \in M
    BY <1>5
  <2>2. \A k \in M : m.score > k.score \/ (m.score = k.score /\ m.item <= k.item)
    BY <1>1, <1>6, <1>7, <2>1
  <2> QED BY <2>1, <2>2
<1> QED BY <1>8 DEF Best

(* What is decided: an update is of an entry that exists. *)
LEMMA DecisionIs ==
    ASSUME Readable, NEW req, MatchRequest(req), NEW limit
    PROVE  LET d == DecideMatch(FindMatches(items, aliases, req, limit))
           IN d.status \in {"create", "update", "conflict"}
                /\ (d.status = "update" => d.item \in Live(items))
<1> DEFINE M == FindMatches(items, aliases, req, limit)
           strong == {m \in M : m.score >= 900}
           exact  == {m \in strong : m.type \in ExactTypes}
           byId   == {m \in exact : m.type = "external_id"}
           only(S) == [status |-> "update", item |-> (CHOOSE m \in S : TRUE).item]
<1>1. \A m \in M : m.item \in Live(items) /\ m.score \in 0 .. 1000 /\ m.item \in 1 .. MaxItem
  BY MatchesAreCompared, ComparedAre
<1>2. \A S \in SUBSET M : Cardinality(S) = 1 => (CHOOSE m \in S : TRUE) \in M
  <2> HIDE DEF M
  <2> SUFFICES ASSUME NEW S \in SUBSET M, Cardinality(S) = 1 PROVE (CHOOSE m \in S : TRUE) \in M
    OBVIOUS
  <2>1. S # {}
    BY FS_EmptySet
  <2> QED BY <2>1
<1>3. M # {} => Best(M) \in M
  <2> HIDE DEF M
  <2> QED BY <1>1, BestOfMatches DEF Scored
<1>4. (CHOOSE m \in {Best(M)} : TRUE) = Best(M)
  OBVIOUS
<1> DEFINE d == DecideMatch(M)
<1>5. \/ d.status \in {"create", "conflict"}
      \/ Cardinality(exact) = 1 /\ d = only(exact)
      \/ Cardinality(byId) = 1 /\ d = only(byId)
      \/ M # {} /\ d = only({Best(M)})
  <2> HIDE DEF M
  <2> QED BY DEF DecideMatch
<1>6. exact \in SUBSET M /\ byId \in SUBSET M
  OBVIOUS
<1> HIDE DEF M, d, exact, byId
<1> QED BY <1>1, <1>2, <1>3, <1>4, <1>5, <1>6 DEF d, M
-----------------------------------------------------------------------------
(* Rows of the relations. *)

\* The tables hold rows, as TypeOK says.
Tables ==
    /\ Readable
    /\ relations \subseteq RelationRow
    /\ \A r, q \in relations : r.id = q.id => r = q
    /\ Unique(relations)

\* Numbers up to N: what holds of 0 and of the next of each.
LEMMA Upward ==
    ASSUME NEW N \in Nat, NEW T, 0 \in T, \A n \in 1 .. N : n - 1 \in T => n \in T
    PROVE  0 .. N \subseteq T
<1> DEFINE bad == {n \in 0 .. N : n \notin T}
<1>1. CASE bad = {}
  BY <1>1
<1>2. CASE bad # {}
  <2>1. bad \in SUBSET Nat
    OBVIOUS
  <2>2. PICK n \in bad : \A m \in bad : n <= m
    <3> HIDE DEF bad
    <3> QED BY <1>2, <2>1, LeastElement
  <2>3. n \in 1 .. N /\ n - 1 \in 0 .. N
    BY <2>2
  <2>4. n - 1 \notin bad
    <3> HIDE DEF bad
    <3> QED BY <2>2, <2>3
  <2>5. n - 1 \in T
    BY <2>3, <2>4
  <2> QED BY <2>2, <2>3, <2>5
<1> QED BY <1>1, <1>2

(* The row of an id is the one with that id. *)
LEMMA RowOfIs ==
    ASSUME Tables
    PROVE  /\ \A r \in relations : RowOf(r.id) = r
           /\ \A n \in {r.id : r \in relations} : RowOf(n) \in relations /\ RowOf(n).id = n
<1>1. ASSUME NEW r \in relations PROVE RowOf(r.id) = r
  <2>1. RowOf(r.id) \in relations /\ RowOf(r.id).id = r.id
    BY DEF RowOf, RowAt
  <2> QED BY <2>1 DEF Tables
<1> QED BY <1>1

(* The row of a key is one, or there is none. *)
LEMMA TwinIs ==
    ASSUME Tables, NEW key, NEW n
    PROVE  LET E == ExistingRelation(relations, key, n)
           IN /\ E # {} => \E e \in relations : E = {e} /\ KeyOf(e) = key /\ e.id # n
              /\ E = {} => \A e \in relations : KeyOf(e) = key => e.id = n
<1> DEFINE twins == {r \in relations : KeyOf(r) = key /\ r.id # n}
           ids == {r.id : r \in twins}
           first == CHOOSE r \in twins : \A q \in twins : r.id <= q.id
<1>1. CASE twins = {}
  BY <1>1 DEF ExistingRelation
<1>2. CASE twins # {}
  <2>1. \A r \in relations : r.id \in Nat
    BY RelationRowIs DEF Tables, RelationIds
  <2>2. ids \in SUBSET Nat /\ ids # {}
    BY <1>2, <2>1
  <2>3. PICK i \in ids : \A j \in ids : i <= j
    <3> HIDE DEF ids
    <3> QED BY <2>2, LeastElement
  <2>4. first \in twins
    <3>1. \E r \in twins : \A q \in twins : r.id <= q.id
      BY <2>3
    <3> HIDE DEF twins
    <3> QED BY <3>1
  <2>5. ExistingRelation(relations, key, n) = {first}
    BY <1>2 DEF ExistingRelation
  <2> HIDE DEF first
  <2>6. first \in relations /\ KeyOf(first) = key /\ first.id # n
    BY <2>4
  <2> QED BY <2>5, <2>6
<1> QED BY <1>1, <1>2

(* The key of a row is its ends, its type and its order type. *)
LEMMA SameKey ==
    ASSUME NEW r, NEW q
    PROVE  KeyOf(r) = KeyOf(q) <=> /\ r.source = q.source /\ r.target = q.target
                                  /\ r.type = q.type /\ r.order = q.order
  BY DEF KeyOf

(* A redirected relation, field by field: the primary stands for the duplicate. *)
LEMMA RedirectedIs ==
    ASSUME NEW r \in RelationRow, NEW p \in Ids, NEW d \in Ids
    PROVE  LET m == Redirected(r, p, d)
           IN /\ m \in RelationRow /\ m.id = r.id
              /\ m.source = (IF r.source = d THEN p ELSE r.source)
              /\ m.target = (IF r.target = d THEN p ELSE r.target)
              /\ m.type = NormType[r.type] /\ m.order = NormType[r.order]
              /\ m.position = r.position /\ m.notes = r.notes
<1> DEFINE m == Redirected(r, p, d)
           F == {"id", "source", "target", "type", "order", "position", "notes"}
<1>1. /\ r = [f \in F |-> r[f]] /\ r.id \in RelationIds
      /\ r.source \in Ids /\ r.target \in Ids /\ r.type \in RelationTypes
      /\ r.order \in RelationTypes \cup {NoOrder}
      /\ r.position \in Nat \cup {NoPosition} /\ r.notes \in SUBSET Notes
  BY RelationRowIs
<1>2. /\ m = [f \in F |-> m[f]] /\ m.id = r.id
      /\ m.source = (IF r.source = d THEN p ELSE r.source)
      /\ m.target = (IF r.target = d THEN p ELSE r.target)
      /\ m.type = NormType[r.type] /\ m.order = NormType[r.order]
      /\ m.position = r.position /\ m.notes = r.notes
  <2>1. DOMAIN r = F
    BY <1>1
  <2> QED BY <2>1 DEF Redirected
<1>3. NormType[r.type] \in RelationTypes /\ NormType[r.order] \in RelationTypes \cup {NoOrder}
  BY <1>1, RelationAssumption
<1> HIDE DEF m
<1>4. m \in RelationRow
  <2>1. m.source \in Ids /\ m.target \in Ids
    BY <1>1, <1>2
  <2> QED BY <1>1, <1>2, <1>3, <2>1, RelationRowIs
<1> QED BY <1>2, <1>4 DEF m

(* The merged position is the smaller of those there are. *)
LEMMA MergedPosition ==
    ASSUME NEW p \in Nat \cup {NoPosition}, NEW q \in Nat \cup {NoPosition}
    PROVE  LET m == MergePosition(p, q)
           IN /\ m \in Nat \cup {NoPosition}
              /\ p # NoPosition => m # NoPosition /\ m <= p
              /\ q # NoPosition => m # NoPosition /\ m <= q
<1>1. CASE p = NoPosition \/ q = NoPosition
  BY <1>1 DEF MergePosition
<1>2. CASE p # NoPosition /\ q # NoPosition
  <2>1. p \in Nat /\ q \in Nat
    BY <1>2
  <2>2. \E x \in {p, q} : \A y \in {p, q} : x <= y
    BY <2>1
  <2>3. Min({p, q}) \in {p, q} /\ Min({p, q}) <= p /\ Min({p, q}) <= q
    BY <2>2 DEF Min
  <2>4. MergePosition(p, q) = Min({p, q})
    BY <1>2 DEF MergePosition
  <2> QED BY <1>2, <2>1, <2>3, <2>4
<1> QED BY <1>1, <1>2
-----------------------------------------------------------------------------
(* The loop of a merge over the relations of the duplicate. *)

\* The ids the loop looks at, and what it begins with.
DueIds(d) == {r.id : r \in RelationsFor(relations, d)}
MergeStart == [now |-> [i \in {r.id : r \in relations} |-> RowOf(i)], drop |-> {}]

(* The steps of the merge loop, one per id. *)
LEMMA MergeStepsAre ==
    ASSUME NEW p, NEW d
    PROVE  \A n \in 0 .. MaxRelation :
             MergeSteps(p, d)[n] = IF n = 0 THEN MergeStart
                                   ELSE IF n \in DueIds(d)
                                        THEN MergeRelation(p, d, MergeSteps(p, d)[n - 1], RowOf(n))
                                   ELSE MergeSteps(p, d)[n - 1]
<1> DEFINE due == {r.id : r \in RelationsFor(relations, d)}
           start == [now |-> [i \in {r.id : r \in relations} |-> RowOf(i)], drop |-> {}]
           turn(st, n) == IF n \in due THEN MergeRelation(p, d, st, RowOf(n)) ELSE st
           Upto(g, k) == g = [n \in 0 .. k |-> IF n = 0 THEN start ELSE turn(g[n - 1], n)]
           T == {k \in 0 .. MaxRelation : \E g : Upto(g, k)}
<1>0. MaxRelation \in Nat
  BY RelationAssumption
<1>1. 0 \in T
  <2> HIDE DEF start, turn
  <2>1. Upto([n \in 0 .. 0 |-> start], 0)
    OBVIOUS
  <2>2. 0 \in 0 .. MaxRelation
    BY <1>0
  <2> HIDE DEF Upto
  <2> QED BY <2>1, <2>2
<1>2. ASSUME NEW k \in 1 .. MaxRelation, k - 1 \in T
      PROVE  k \in T
  <2> HIDE DEF start, turn
  <2>1. PICK g : Upto(g, k - 1)
    BY <1>2
  <2>2. k \in Nat /\ k >= 1 /\ k \in 0 .. MaxRelation
    BY <1>0
  <2> DEFINE h == [n \in 0 .. k |-> IF n < k THEN g[n] ELSE turn(g[k - 1], k)]
  <2>3. ASSUME NEW n \in 0 .. k
        PROVE  h[n] = IF n = 0 THEN start ELSE turn(h[n - 1], n)
    <3>1. CASE n = k
      <4>1. h[n] = turn(g[k - 1], k) /\ h[n - 1] = g[k - 1]
        BY <2>2, <3>1
      <4> QED BY <2>2, <3>1, <4>1
    <3>2. CASE n # k
      <4>1. n \in 0 .. k - 1 /\ n < k /\ (n # 0 => n - 1 \in 0 .. k - 1 /\ n - 1 \in 0 .. k /\ n - 1 < k)
        BY <2>2, <3>2
      <4>2. g[n] = IF n = 0 THEN start ELSE turn(g[n - 1], n)
        BY <2>1, <4>1
      <4>3. h[n] = g[n] /\ (n # 0 => h[n - 1] = g[n - 1])
        BY <4>1
      <4> QED BY <4>2, <4>3
    <3> QED BY <3>1, <3>2
  <2>4. Upto(h, k)
    BY <2>3
  <2> QED BY <2>2, <2>4
<1>3. MaxRelation \in T
  <2>1. 0 .. MaxRelation \subseteq T
    <3> HIDE DEF T
    <3> QED BY <1>0, <1>1, <1>2, Upward
  <2> HIDE DEF T
  <2>2. MaxRelation \in 0 .. MaxRelation
    BY <1>0
  <2> QED BY <2>1, <2>2
<1>4. PICK g : Upto(g, MaxRelation)
  BY <1>3
<1>5. \E f : f = [n \in 0 .. MaxRelation |->
                    IF n = 0 THEN start
                    ELSE IF n \in due THEN MergeRelation(p, d, f[n - 1], RowOf(n)) ELSE f[n - 1]]
  BY <1>4
<1>6. MergeSteps(p, d) = [n \in 0 .. MaxRelation |->
                            IF n = 0 THEN start
                            ELSE IF n \in due THEN MergeRelation(p, d, MergeSteps(p, d)[n - 1], RowOf(n))
                            ELSE MergeSteps(p, d)[n - 1]]
  BY <1>5 DEF MergeSteps
<1> DEFINE steps == MergeSteps(p, d)
<1> HIDE DEF start, due, steps
<1>7. \A n \in 0 .. MaxRelation :
         steps[n] = IF n = 0 THEN start
                    ELSE IF n \in due THEN MergeRelation(p, d, steps[n - 1], RowOf(n)) ELSE steps[n - 1]
  BY <1>6 DEF steps
<1>8. start = MergeStart /\ due = DueIds(d)
  BY DEF start, due, MergeStart, DueIds
<1> QED BY <1>7, <1>8 DEF steps

\* The row r and more.
Grown(r, q) == q \in RelationRow /\ q.id = r.id /\ Covers(q, r)

(* Covering is transitive. *)
LEMMA CoversAgain ==
    ASSUME NEW a \in RelationRow, NEW b \in RelationRow, NEW c \in RelationRow,
           Covers(b, a), Covers(c, b)
    PROVE  Covers(c, a)
<1>1. /\ a.position \in Nat \cup {NoPosition} /\ b.position \in Nat \cup {NoPosition}
      /\ c.position \in Nat \cup {NoPosition}
  BY RelationRowIs
<1>2. ASSUME a.position # NoPosition PROVE c.position # NoPosition /\ c.position <= a.position
  <2>1. b.position # NoPosition /\ b.position <= a.position
    BY <1>2 DEF Covers
  <2>2. c.position # NoPosition /\ c.position <= b.position
    BY <2>1 DEF Covers
  <2>3. a.position \in Nat /\ b.position \in Nat /\ c.position \in Nat
    BY <1>1, <1>2, <2>1, <2>2
  <2> QED BY <2>1, <2>2, <2>3
<1>3. KeyOf(c) = KeyOf(a) /\ a.notes \subseteq c.notes
  BY DEF Covers
<1> QED BY <1>2, <1>3 DEF Covers

(* A row covers itself. *)
LEMMA CoversItself ==
    ASSUME NEW a \in RelationRow
    PROVE  Covers(a, a) /\ Grown(a, a)
<1>1. a.position \in Nat \cup {NoPosition}
  BY RelationRowIs
<1> QED BY <1>1 DEF Covers, Grown

(* A row that absorbs another covers both. *)
LEMMA AbsorbedIs ==
    ASSUME NEW e \in RelationRow, NEW m \in RelationRow, KeyOf(e) = KeyOf(m)
    PROVE  LET q == [e EXCEPT !.position = MergePosition(@, m.position), !.notes = @ \cup m.notes]
           IN Grown(e, q) /\ Covers(q, m)
<1> DEFINE F == {"id", "source", "target", "type", "order", "position", "notes"}
           q == [e EXCEPT !.position = MergePosition(@, m.position), !.notes = @ \cup m.notes]
<1>1. /\ e = [f \in F |-> e[f]] /\ e.id \in RelationIds
      /\ e.source \in Ids /\ e.target \in Ids /\ e.type \in RelationTypes
      /\ e.order \in RelationTypes \cup {NoOrder}
      /\ e.position \in Nat \cup {NoPosition} /\ e.notes \in SUBSET Notes
  BY RelationRowIs
<1>2. m.position \in Nat \cup {NoPosition} /\ m.notes \in SUBSET Notes
  BY RelationRowIs
<1>3. /\ q = [f \in F |-> q[f]] /\ q.id = e.id /\ q.source = e.source /\ q.target = e.target
      /\ q.type = e.type /\ q.order = e.order
      /\ q.position = MergePosition(e.position, m.position) /\ q.notes = e.notes \cup m.notes
  <2>1. DOMAIN e = F
    BY <1>1
  <2> QED BY <2>1
<1> HIDE DEF q
<1> DEFINE x == e.position
           y == m.position
<1>4. LET z == MergePosition(x, y)
      IN /\ z \in Nat \cup {NoPosition}
         /\ x # NoPosition => z # NoPosition /\ z <= x
         /\ y # NoPosition => z # NoPosition /\ z <= y
  <2>1. x \in Nat \cup {NoPosition} /\ y \in Nat \cup {NoPosition}
    BY <1>1, <1>2
  <2> HIDE DEF x, y
  <2> QED BY <2>1, MergedPosition
<1>5. /\ q.position \in Nat \cup {NoPosition}
      /\ e.position # NoPosition => q.position # NoPosition /\ q.position <= e.position
      /\ m.position # NoPosition => q.position # NoPosition /\ q.position <= m.position
  BY <1>3, <1>4
<1>6. q \in RelationRow
  BY <1>1, <1>2, <1>3, <1>5, RelationRowIs
<1>7. KeyOf(q) = KeyOf(e) /\ KeyOf(q) = KeyOf(m)
  BY <1>3, SameKey
<1> QED BY <1>3, <1>5, <1>6, <1>7 DEF q, Grown, Covers

\* A relation of the duplicate that a merge deletes: it would relate the primary
\* to itself, or the primary has its key already.
Drops(r, p, d) ==
    LET m == Redirected(r, p, d)
    IN m.source = m.target \/ ExistingRelation(relations, KeyOf(m), r.id) # {}
Kept(d) == relations \ RelationsFor(relations, d)

\* The rows in memory when the relations up to n are done.
MergeInv(st, p, d, n) ==
    /\ HasFields(st, {"now", "drop"})
    /\ HasFields(st.now, {r.id : r \in relations})
    /\ st.drop = {r.id : r \in {q \in RelationsFor(relations, d) : q.id <= n /\ Drops(q, p, d)}}
    /\ \A r \in RelationsFor(relations, d) :
         st.now[r.id] = IF r.id <= n /\ ~Drops(r, p, d) THEN Redirected(r, p, d) ELSE r
    /\ \A r \in Kept(d) : Grown(r, st.now[r.id])
    /\ \A r \in RelationsFor(relations, d) :
         LET m == Redirected(r, p, d)
         IN r.id <= n /\ Drops(r, p, d) /\ m.source # m.target =>
              \E e \in Kept(d) : Covers(st.now[e.id], m)

(* The loop's invariant holds before its first relation. *)
LEMMA MergeBegins ==
    ASSUME Tables, NEW p, NEW d
    PROVE  MergeInv(MergeSteps(p, d)[0], p, d, 0)
<1> DEFINE ids == {r.id : r \in relations}
           st == [now |-> [i \in ids |-> RowOf(i)], drop |-> {}]
<1>1. MergeSteps(p, d)[0] = st
  <2>1. 0 \in 0 .. MaxRelation
    BY RelationAssumption
  <2>2. MergeSteps(p, d)[0] = MergeStart
    BY <2>1, MergeStepsAre
  <2> QED BY <2>2 DEF MergeStart
<1>2. \A r \in relations : ~(r.id <= 0) /\ r \in RelationRow
  <2>1. \A r \in relations : r.id \in RelationIds
    BY RelationRowIs DEF Tables
  <2> QED BY <2>1 DEF Tables, RelationIds
<1>3. \A r \in relations : st.now[r.id] = r
  BY RowOfIs
<1>4. HasFields(st, {"now", "drop"}) /\ HasFields(st.now, ids) /\ st.drop = {}
  BY DEF HasFields
<1>5. \A r \in relations : Grown(r, r)
  BY <1>2, CoversItself
<1> HIDE DEF st
<1>6. RelationsFor(relations, d) \subseteq relations /\ Kept(d) \subseteq relations
  BY DEF RelationsFor, Kept
<1>7. st.drop = {r.id : r \in {q \in RelationsFor(relations, d) : q.id <= 0 /\ Drops(q, p, d)}}
  <2>1. {q \in RelationsFor(relations, d) : q.id <= 0 /\ Drops(q, p, d)} = {}
    BY <1>2, <1>6
  <2> QED BY <2>1, <1>4
<1>8. MergeInv(st, p, d, 0)
  BY <1>2, <1>3, <1>4, <1>5, <1>6, <1>7 DEF MergeInv
<1> QED BY <1>1, <1>8

(* The row a relation of the duplicate gets is of no relation of the duplicate. *)
LEMMA TwinIsKept ==
    ASSUME Tables, NEW p \in Ids, NEW d \in Ids, p # d, NEW r \in RelationsFor(relations, d),
           NEW e \in relations, KeyOf(e) = KeyOf(Redirected(r, p, d))
    PROVE  e \in Kept(d)
<1>1. r \in RelationRow
  BY DEF Tables, RelationsFor
<1> DEFINE m == Redirected(r, p, d)
<1>2. m.source # d /\ m.target # d
  BY <1>1, RedirectedIs
<1> HIDE DEF m
<1>3. KeyOf(e) = KeyOf(m)
  BY DEF m
<1>4. e.source # d /\ e.target # d
  BY <1>2, <1>3, SameKey
<1> QED BY <1>4 DEF Kept, RelationsFor

(* One relation more. *)
LEMMA MergeRelationKeeps ==
    ASSUME Tables, NEW p \in Ids, NEW d \in Ids, p # d, NEW n \in 1 .. MaxRelation,
           NEW st, MergeInv(st, p, d, n - 1),
           NEW r \in RelationsFor(relations, d), r.id = n
    PROVE  MergeInv(MergeRelation(p, d, st, r), p, d, n)
<1> DEFINE m == Redirected(r, p, d)
           twin == ExistingRelation(relations, KeyOf(m), r.id)
           new == MergeRelation(p, d, st, r)
           ids == {q.id : q \in relations}
           Due == RelationsFor(relations, d)
<1>1. /\ r \in relations /\ r \in RelationRow /\ Due \subseteq relations /\ Kept(d) \subseteq relations
      /\ relations \subseteq RelationRow /\ \A a, b \in relations : a.id = b.id => a = b
  BY DEF Tables, RelationsFor, Kept
<1>2. \A q \in relations : q.id \in Nat
  BY <1>1, RelationRowIs DEF RelationIds
<1>3. n \in Nat /\ \A q \in relations : (q.id <= n <=> q.id <= n - 1 \/ q = r)
  <2>0. n \in Nat
    OBVIOUS
  <2>1. ASSUME NEW q \in relations PROVE q.id <= n <=> q.id <= n - 1 \/ q = r
    <3>1. q.id = n <=> q = r
      BY <1>1
    <3>2. q.id \in Nat
      BY <1>2
    <3> QED BY <2>0, <3>1, <3>2
  <2> QED BY <2>0, <2>1
<1>4. ~(r.id <= n - 1) /\ r.id <= n
  BY <1>3
<1>5. m \in RelationRow /\ m.id = n
  BY <1>1, RedirectedIs
<1>6. Drops(r, p, d) <=> m.source = m.target \/ twin # {}
  BY DEF Drops
<1>7. /\ HasFields(st, {"now", "drop"}) /\ HasFields(st.now, ids)
      /\ st.drop = {q.id : q \in {x \in Due : x.id <= n - 1 /\ Drops(x, p, d)}}
      /\ \A q \in Due : st.now[q.id] = IF q.id <= n - 1 /\ ~Drops(q, p, d) THEN Redirected(q, p, d) ELSE q
      /\ \A q \in Kept(d) : Grown(q, st.now[q.id])
      /\ \A q \in Due :
           q.id <= n - 1 /\ Drops(q, p, d) /\ Redirected(q, p, d).source # Redirected(q, p, d).target =>
              \E e \in Kept(d) : Covers(st.now[e.id], Redirected(q, p, d))
  BY DEF MergeInv
<1>8. st.now[r.id] = r
  BY <1>4, <1>7
<1>9. Kept(d) \cap Due = {}
  BY DEF Kept
<1> DEFINE Dropped(k) == {q.id : q \in {x \in Due : x.id <= k /\ Drops(x, p, d)}}
<1>10. Dropped(n) = IF Drops(r, p, d) THEN Dropped(n - 1) \cup {r.id} ELSE Dropped(n - 1)
  <2>1. ASSUME NEW q \in Due PROVE (q.id <= n <=> q.id <= n - 1 \/ q = r)
    BY <1>1, <1>3
  <2> HIDE DEF Due
  <2>2. {x \in Due : x.id <= n /\ Drops(x, p, d)} =
          IF Drops(r, p, d) THEN {x \in Due : x.id <= n - 1 /\ Drops(x, p, d)} \cup {r}
          ELSE {x \in Due : x.id <= n - 1 /\ Drops(x, p, d)}
    <3>1. r \in Due
      BY DEF Due
    <3> QED BY <2>1, <3>1
  <2> QED BY <2>2
<1>11. CASE m.source = m.target
  <2>1. new = [st EXCEPT !.drop = @ \cup {r.id}]
    BY <1>11 DEF MergeRelation
  <2>2. new.now = st.now /\ new.drop = st.drop \cup {r.id} /\ HasFields(new, {"now", "drop"})
    BY <2>1, <1>7 DEF HasFields
  <2> HIDE DEF new
  <2>3. Drops(r, p, d)
    BY <1>11, <1>6
  <2>4. new.drop = Dropped(n)
    BY <2>2, <2>3, <1>7, <1>10
  <2> HIDE DEF Due
  <2>5. \A q \in Due : new.now[q.id] = IF q.id <= n /\ ~Drops(q, p, d) THEN Redirected(q, p, d) ELSE q
    BY <1>1, <1>3, <1>7, <2>2, <2>3
  <2>6. ASSUME NEW q \in Due, q.id <= n, Drops(q, p, d), Redirected(q, p, d).source # Redirected(q, p, d).target
        PROVE  \E e \in Kept(d) : Covers(new.now[e.id], Redirected(q, p, d))
    <3>1. q # r
      BY <1>11, <2>6
    <3>2. q.id <= n - 1
      BY <1>1, <1>3, <2>6, <3>1
    <3> QED BY <1>7, <2>2, <2>6, <3>2
  <2> HIDE DEF Dropped
  <2>7. new.drop = {q.id : q \in {x \in Due : x.id <= n /\ Drops(x, p, d)}}
    BY <2>4 DEF Dropped
  <2> QED BY <1>7, <2>2, <2>5, <2>6, <2>7 DEF MergeInv, Due, new
<1>12. CASE m.source # m.target /\ twin # {}
  <2> DEFINE e == CHOOSE t \in twin : TRUE
             old == st.now[e.id]
             big == [old EXCEPT !.position = MergePosition(@, r.position), !.notes = @ \cup r.notes]
  <2>4. new = [st EXCEPT !.now[e.id] = big, !.drop = @ \cup {r.id}]
    <3>1. MergeRelation(p, d, st, r) =
            IF m.source = m.target THEN [st EXCEPT !.drop = @ \cup {r.id}]
            ELSE IF twin # {} THEN [st EXCEPT !.now[e.id] = big, !.drop = @ \cup {r.id}]
            ELSE [st EXCEPT !.now[r.id] = m]
      BY DEF MergeRelation, SeenByLoop
    <3> HIDE DEF m, twin, e, big
    <3> QED BY <1>12, <3>1
  <2>1. e \in relations /\ KeyOf(e) = KeyOf(m) /\ e.id # r.id
    <3>1. PICK f \in relations : twin = {f} /\ KeyOf(f) = KeyOf(m) /\ f.id # r.id
      <4> HIDE DEF m
      <4> QED BY <1>12, TwinIs
    <3>2. e = f
      <4> HIDE DEF twin
      <4> QED BY <3>1
    <3> HIDE DEF e
    <3> QED BY <3>1, <3>2
  <2> HIDE DEF e
  <2>3. e \in Kept(d)
    BY <2>1, TwinIsKept
  <2> HIDE DEF big
  <2>5. /\ new.now = [st.now EXCEPT ![e.id] = big] /\ new.drop = st.drop \cup {r.id}
        /\ HasFields(new, {"now", "drop"})
    BY <2>4, <1>7 DEF HasFields
  <2> HIDE DEF new
  <2>6. HasFields(new.now, ids) /\ new.now[e.id] = big /\ \A i \in ids : i # e.id => new.now[i] = st.now[i]
    BY <2>5, <1>7, <1>1, <2>3 DEF HasFields
  <2>7. Grown(e, old) /\ old \in RelationRow /\ e \in RelationRow
    BY <1>1, <1>7, <2>1, <2>3 DEF Grown
  <2>8. m.position = r.position /\ m.notes = r.notes
    BY <1>1, RedirectedIs
  <2>9. Grown(old, big) /\ Covers(big, m)
    <3> HIDE DEF m, old
    <3>1. KeyOf(old) = KeyOf(m)
      BY <2>1, <2>7 DEF Grown, Covers
    <3> QED BY <1>5, <2>7, <2>8, <3>1, AbsorbedIs DEF big
  <2>10. Grown(e, big)
    <3> HIDE DEF old
    <3> QED BY <2>7, <2>9, CoversAgain DEF Grown
  <2>11. \A q \in Kept(d) : Grown(q, new.now[q.id])
    <3>1. ASSUME NEW q \in Kept(d) PROVE Grown(q, new.now[q.id])
      <4>1. CASE q = e
        BY <4>1, <2>6, <2>10
      <4>2. CASE q # e
        <5>1. q.id # e.id /\ q.id \in ids
          BY <1>1, <4>2, <2>1
        <5> QED BY <5>1, <2>6, <1>7
      <4> QED BY <4>1, <4>2
    <3> QED BY <3>1
  <2>12. Drops(r, p, d)
    BY <1>12, <1>6
  <2>13. new.drop = Dropped(n)
    BY <2>5, <2>12, <1>7, <1>10
  <2>14. \A q \in Due : new.now[q.id] = st.now[q.id]
    <3>1. ASSUME NEW q \in Due PROVE new.now[q.id] = st.now[q.id]
      <4>1. q # e
        BY <1>9, <2>3
      <4>2. q.id # e.id /\ q.id \in ids
        BY <1>1, <4>1, <2>1
      <4> QED BY <4>2, <2>6
    <3> QED BY <3>1
  <2> HIDE DEF Due
  <2>15. \A q \in Due : new.now[q.id] = IF q.id <= n /\ ~Drops(q, p, d) THEN Redirected(q, p, d) ELSE q
    BY <1>1, <1>3, <1>7, <2>14, <2>12
  <2>16. \A q \in Kept(d) : Covers(new.now[q.id], st.now[q.id])
    <3>1. ASSUME NEW q \in Kept(d) PROVE Covers(new.now[q.id], st.now[q.id])
      <4>1. CASE q = e
        BY <4>1, <2>6, <2>9 DEF Grown
      <4>2. CASE q # e
        <5>1. q.id # e.id /\ q.id \in ids
          BY <1>1, <4>2, <2>1
        <5>2. st.now[q.id] \in RelationRow
          BY <1>7 DEF Grown
        <5> QED BY <5>1, <5>2, <2>6, CoversItself
      <4> QED BY <4>1, <4>2
    <3> QED BY <3>1
  <2>17. ASSUME NEW q \in Due, q.id <= n, Drops(q, p, d), Redirected(q, p, d).source # Redirected(q, p, d).target
         PROVE  \E x \in Kept(d) : Covers(new.now[x.id], Redirected(q, p, d))
    <3>1. CASE q = r
      BY <3>1, <2>3, <2>6, <2>9
    <3>2. CASE q # r
      <4>1. q.id <= n - 1
        BY <1>1, <1>3, <2>17, <3>2
      <4>2. PICK x \in Kept(d) : Covers(st.now[x.id], Redirected(q, p, d))
        BY <1>7, <2>17, <4>1
      <4>3. Redirected(q, p, d) \in RelationRow
        BY <1>1, RedirectedIs
      <4>4. st.now[x.id] \in RelationRow /\ new.now[x.id] \in RelationRow
        BY <1>7, <2>11 DEF Grown
      <4>5. Covers(new.now[x.id], st.now[x.id])
        BY <2>16
      <4>6. Covers(new.now[x.id], Redirected(q, p, d))
        BY <4>2, <4>3, <4>4, <4>5, CoversAgain
      <4> QED BY <4>6
    <3> QED BY <3>1, <3>2
  <2> HIDE DEF Dropped
  <2>18. new.drop = {q.id : q \in {x \in Due : x.id <= n /\ Drops(x, p, d)}}
    BY <2>13 DEF Dropped
  <2> QED BY <1>7, <2>5, <2>6, <2>11, <2>15, <2>17, <2>18 DEF MergeInv, Due, new
<1>13. CASE m.source # m.target /\ twin = {}
  <2>1. new = [st EXCEPT !.now[r.id] = m]
    <3>1. ExistingRelation(SeenByLoop(st), KeyOf(Redirected(r, p, d)), r.id) = {}
      BY <1>13 DEF SeenByLoop
    <3> QED BY <1>13, <3>1 DEF MergeRelation
  <2> HIDE DEF m
  <2>2. /\ new.now = [st.now EXCEPT ![r.id] = m] /\ new.drop = st.drop
        /\ HasFields(new, {"now", "drop"})
    BY <2>1, <1>7 DEF HasFields
  <2> HIDE DEF new
  <2>3. HasFields(new.now, ids) /\ new.now[r.id] = m /\ \A i \in ids : i # r.id => new.now[i] = st.now[i]
    BY <2>2, <1>7, <1>1 DEF HasFields
  <2>4. ~Drops(r, p, d)
    BY <1>6, <1>13
  <2>5. new.drop = Dropped(n)
    BY <2>2, <2>4, <1>7, <1>10
  <2>6. \A q \in relations : q # r => new.now[q.id] = st.now[q.id]
    <3>1. ASSUME NEW q \in relations, q # r PROVE new.now[q.id] = st.now[q.id]
      <4>1. q.id # r.id /\ q.id \in ids
        BY <1>1, <3>1
      <4> QED BY <4>1, <2>3
    <3> QED BY <3>1
  <2>7. \A q \in Kept(d) : new.now[q.id] = st.now[q.id]
    BY <1>1, <1>9, <2>6
  <2>8. r \in Due
    OBVIOUS
  <2> HIDE DEF Due
  <2>9. \A q \in Due : new.now[q.id] = IF q.id <= n /\ ~Drops(q, p, d) THEN Redirected(q, p, d) ELSE q
    <3>1. ASSUME NEW q \in Due
          PROVE  new.now[q.id] = IF q.id <= n /\ ~Drops(q, p, d) THEN Redirected(q, p, d) ELSE q
      <4>1. CASE q = r
        BY <4>1, <2>3, <2>4, <1>4 DEF m
      <4>2. CASE q # r
        BY <4>2, <1>1, <1>3, <1>7, <2>6
      <4> QED BY <4>1, <4>2
    <3> QED BY <3>1
  <2>10. ASSUME NEW q \in Due, q.id <= n, Drops(q, p, d), Redirected(q, p, d).source # Redirected(q, p, d).target
         PROVE  \E e \in Kept(d) : Covers(new.now[e.id], Redirected(q, p, d))
    <3>1. q # r
      BY <2>4, <2>10
    <3>2. q.id <= n - 1
      BY <1>1, <1>3, <2>10, <3>1
    <3>3. PICK e \in Kept(d) : Covers(st.now[e.id], Redirected(q, p, d))
      BY <1>7, <2>10, <3>2
    <3> QED BY <2>7, <3>3
  <2>11. \A q \in Kept(d) : Grown(q, new.now[q.id])
    BY <1>7, <2>7
  <2> HIDE DEF Dropped
  <2>12. new.drop = {q.id : q \in {x \in Due : x.id <= n /\ Drops(x, p, d)}}
    BY <2>5 DEF Dropped
  <2> QED BY <1>7, <2>2, <2>3, <2>9, <2>10, <2>11, <2>12 DEF MergeInv, Due, new
<1> QED BY <1>11, <1>12, <1>13

(* All of them. *)
LEMMA MergedRelationsAre ==
    ASSUME Tables, NEW p \in Ids, NEW d \in Ids, p # d
    PROVE  MergeInv(MergeRelations(p, d), p, d, MaxRelation)
<1> DEFINE steps == MergeSteps(p, d)
           due == DueIds(d)
           T == {n \in 0 .. MaxRelation : MergeInv(steps[n], p, d, n)}
<1>0. MaxRelation \in Nat
  BY RelationAssumption
<1>1. 0 \in T
  <2>1. 0 \in 0 .. MaxRelation
    BY <1>0
  <2> QED BY <2>1, MergeBegins
<1>a. \A n \in 0 .. MaxRelation :
         steps[n] = IF n = 0 THEN MergeStart
                    ELSE IF n \in due THEN MergeRelation(p, d, steps[n - 1], RowOf(n)) ELSE steps[n - 1]
  BY MergeStepsAre
<1>2. ASSUME NEW n \in 1 .. MaxRelation, n - 1 \in T PROVE n \in T
  <2>1. n \in 0 .. MaxRelation /\ n # 0
    BY <1>0
  <2> HIDE DEF steps
  <2>2. steps[n] = IF n \in due THEN MergeRelation(p, d, steps[n - 1], RowOf(n)) ELSE steps[n - 1]
    <3> HIDE DEF due
    <3> QED BY <2>1, <1>a
  <2> DEFINE st == steps[n - 1]
  <2>3. MergeInv(st, p, d, n - 1)
    BY <1>2
  <2>4. CASE n \in due
    <3>1. PICK r \in RelationsFor(relations, d) : r.id = n
      BY <2>4 DEF DueIds
    <3>2. RowOf(n) = r
      <4>1. r \in relations
        BY DEF RelationsFor
      <4> QED BY <3>1, <4>1, RowOfIs
    <3>3. steps[n] = MergeRelation(p, d, st, r)
      BY <2>2, <2>4, <3>2
    <3> HIDE DEF st
    <3>4. MergeInv(MergeRelation(p, d, st, r), p, d, n)
      BY <2>3, <3>1, MergeRelationKeeps
    <3> QED BY <2>1, <3>3, <3>4
  <2>5. CASE n \notin due
    <3>1. \A r \in RelationsFor(relations, d) : r.id <= n <=> r.id <= n - 1
      <4>1. ASSUME NEW r \in RelationsFor(relations, d) PROVE r.id <= n <=> r.id <= n - 1
        <5>1. r \in RelationRow
          BY DEF RelationsFor, Tables
        <5>2. r.id \in Nat /\ r.id # n
          BY <2>5, <5>1, RelationRowIs DEF RelationIds, DueIds
        <5> QED BY <1>0, <5>2
      <4> QED BY <4>1
    <3>2. steps[n] = st
      BY <2>2, <2>5
    <3> HIDE DEF st
    <3>3. {q \in RelationsFor(relations, d) : q.id <= n /\ Drops(q, p, d)} =
            {q \in RelationsFor(relations, d) : q.id <= n - 1 /\ Drops(q, p, d)}
      BY <3>1
    <3>4. MergeInv(st, p, d, n)
      BY <2>3, <3>1, <3>3 DEF MergeInv
    <3> QED BY <2>1, <3>2, <3>4
  <2> QED BY <2>4, <2>5
<1>3. MaxRelation \in T
  <2> HIDE DEF T
  <2>1. 0 .. MaxRelation \subseteq T
    BY <1>0, <1>1, <1>2, Upward
  <2>2. MaxRelation \in 0 .. MaxRelation
    BY <1>0
  <2> QED BY <2>1, <2>2
<1> QED BY <1>3 DEF MergeRelations

\* The loop when it is done.
MergeDone(st, p, d) ==
    /\ st.drop = {r.id : r \in {q \in RelationsFor(relations, d) : Drops(q, p, d)}}
    /\ \A r \in RelationsFor(relations, d) : ~Drops(r, p, d) => st.now[r.id] = Redirected(r, p, d)
    /\ \A r \in Kept(d) : Grown(r, st.now[r.id])
    /\ \A r \in RelationsFor(relations, d) :
         LET m == Redirected(r, p, d)
         IN Drops(r, p, d) /\ m.source # m.target =>
              \E e \in Kept(d) : Covers(st.now[e.id], m)

(* What the loop leaves, seen from the rows of the table. *)
LEMMA MergeIsDone ==
    ASSUME Tables, NEW p \in Ids, NEW d \in Ids, p # d
    PROVE  MergeDone(MergeRelations(p, d), p, d)
<1>1. MergeInv(MergeRelations(p, d), p, d, MaxRelation)
  BY MergedRelationsAre
<1>2. \A r \in RelationsFor(relations, d) : r.id <= MaxRelation
  <2>1. ASSUME NEW r \in RelationsFor(relations, d) PROVE r.id <= MaxRelation
    <3>1. r \in RelationRow
      BY DEF RelationsFor, Tables
    <3> QED BY <3>1, RelationRowIs, RelationAssumption DEF RelationIds
  <2> QED BY <2>1
<1>3. {q \in RelationsFor(relations, d) : q.id <= MaxRelation /\ Drops(q, p, d)} =
        {q \in RelationsFor(relations, d) : Drops(q, p, d)}
  BY <1>2
<1> QED BY <1>1, <1>2, <1>3 DEF MergeInv, MergeDone

-----------------------------------------------------------------------------
(* What a preview says. *)

(* The relations a merge deletes and the ones it updates. *)
LEMMA MergeOfRelations ==
    ASSUME Tables, NEW p \in Ids, NEW d \in Ids, p # d
    PROVE  LET plan == MergeWith(p, d, MergeRelations(p, d))
           IN /\ plan.relDrop = {r.id : r \in {q \in RelationsFor(relations, d) : Drops(q, p, d)}}
              /\ DOMAIN plan.relPut \subseteq {r.id : r \in relations}
              /\ \A r \in RelationsFor(relations, d) :
                   ~Drops(r, p, d) => /\ r.id \in DOMAIN plan.relPut
                                      /\ plan.relPut[r.id] = Changed(r, Redirected(r, p, d))
              /\ \A r \in RelationsFor(relations, d) :
                   Drops(r, p, d) => r.id \notin DOMAIN plan.relPut
              /\ \A r \in relations : r.id \in DOMAIN plan.relPut =>
                   plan.relPut[r.id] = Changed(r, MergeRelations(p, d).now[r.id])
              /\ \A r \in Kept(d) : r.id \notin DOMAIN plan.relPut => MergeRelations(p, d).now[r.id] = r
<1> DEFINE done == MergeRelations(p, d)
           changed == {q \in relations : q.id \notin done.drop /\ done.now[q.id] # q}
           plan == MergeWith(p, d, done)
<1>1. MergeDone(done, p, d)
  BY MergeIsDone
<1> HIDE DEF done
<1>2. /\ plan.relPut = [n \in {q.id : q \in changed} |->
                          Changed(CHOOSE q \in changed : q.id = n, done.now[n])]
      /\ plan.relDrop = done.drop
  BY DEF MergeWith, NoPlan
<1> HIDE DEF plan
<1>3. /\ RelationsFor(relations, d) \subseteq relations /\ Kept(d) \subseteq relations
      /\ Kept(d) \cap RelationsFor(relations, d) = {} /\ changed \subseteq relations
      /\ \A a, b \in relations : a.id = b.id => a = b
      /\ relations \subseteq RelationRow
  BY DEF RelationsFor, Kept, Tables
<1>4. \A r \in relations : r \in changed <=> r.id \in DOMAIN plan.relPut
  BY <1>2, <1>3
<1>5. ASSUME NEW r \in relations, r.id \in DOMAIN plan.relPut
      PROVE  plan.relPut[r.id] = Changed(r, done.now[r.id])
  <2>1. r \in changed
    BY <1>4, <1>5
  <2> HIDE DEF changed
  <2>2. (CHOOSE q \in changed : q.id = r.id) = r
    BY <1>3, <2>1
  <2> QED BY <1>2, <1>5, <2>2
<1>6. \A r \in RelationsFor(relations, d) : r.id \in done.drop <=> Drops(r, p, d)
  BY <1>1, <1>3 DEF MergeDone
<1>7. \A r \in Kept(d) : r.id \notin done.drop
  BY <1>1, <1>3 DEF MergeDone
<1>8. ASSUME NEW r \in RelationsFor(relations, d), ~Drops(r, p, d)
      PROVE  /\ r.id \in DOMAIN plan.relPut
             /\ plan.relPut[r.id] = Changed(r, Redirected(r, p, d))
  <2>1. done.now[r.id] = Redirected(r, p, d)
    BY <1>1, <1>8 DEF MergeDone
  <2> DEFINE m == Redirected(r, p, d)
  <2>2. r \in RelationRow /\ r \in relations
    BY <1>3
  <2>3. m.source # d /\ m.target # d
    BY <2>2, RedirectedIs
  <2> HIDE DEF m
  <2>4. m # r
    BY <2>3 DEF RelationsFor
  <2>5. r \in changed
    BY <1>6, <1>8, <2>1, <2>2, <2>4 DEF m
  <2> QED BY <1>4, <1>5, <2>1, <2>2, <2>5 DEF m
<1>9. ASSUME NEW r \in RelationsFor(relations, d), Drops(r, p, d) PROVE r.id \notin DOMAIN plan.relPut
  <2>1. r \notin changed
    BY <1>6, <1>9
  <2> QED BY <1>3, <1>4, <2>1
<1>10. ASSUME NEW r \in Kept(d), r.id \notin DOMAIN plan.relPut PROVE done.now[r.id] = r
  <2>1. r \notin changed /\ r \in relations
    BY <1>3, <1>4, <1>10
  <2> QED BY <1>7, <2>1
<1>11. DOMAIN plan.relPut \subseteq {r.id : r \in relations}
  BY <1>2, <1>3
<1>12. plan.relDrop = {r.id : r \in {q \in RelationsFor(relations, d) : Drops(q, p, d)}}
  BY <1>1, <1>2 DEF MergeDone
<1> HIDE DEF changed
<1> QED BY <1>5, <1>8, <1>9, <1>10, <1>11, <1>12 DEF done, plan

(* Sets in a one-to-one correspondence are of one size. *)
LEMMA SameSize ==
    ASSUME NEW S, IsFiniteSet(S), NEW f, f = [x \in S |-> f[x]],
           \A x, y \in S : f[x] = f[y] => x = y,
           NEW T, T = {f[x] : x \in S}
    PROVE  IsFiniteSet(T) /\ Cardinality(T) = Cardinality(S)
<1>1. f \in [S -> T]
  OBVIOUS
<1>2. f \in Surjection(S, T)
  BY <1>1 DEF Surjection
<1>3. f \in Injection(S, T)
  BY <1>1 DEF Injection, IsInjective
<1> QED BY <1>2, <1>3, FS_Surjection

(* The image of a finite set is finite. *)
LEMMA FiniteImage ==
    ASSUME NEW S, IsFiniteSet(S), NEW f, f = [x \in S |-> f[x]],
           NEW T, T = {f[x] : x \in S}
    PROVE  IsFiniteSet(T)
<1>1. f \in [S -> T]
  OBVIOUS
<1>2. f \in Surjection(S, T)
  BY <1>1 DEF Surjection
<1> QED BY <1>2, FS_Surjection

-----------------------------------------------------------------------------
(* Aliases. *)

(* The words to add are wanted ones, and cover every wanted one that is new. *)
LEMMA NewWordsAre ==
    ASSUME NEW text, NEW taken, NEW existing, NEW wanted
    PROVE  LET W == NewWords(text, taken, existing, wanted)
           IN /\ W \subseteq wanted
              /\ \A w \in wanted : \/ text[w.title] \in taken \cup {NoText}
                                   \/ \E e \in existing : text[e.title] = text[w.title]
                                   \/ \E v \in W : text[v.title] = text[w.title]
              /\ IsFiniteSet(wanted) => IsFiniteSet(W)
              /\ {<<text[w.title], w.lang>> : w \in W} =
                   {<<text[w.title], w.lang>> :
                      w \in {v \in wanted : /\ text[v.title] \notin taken \cup {NoText}
                                            /\ <<text[v.title], v.lang>> \notin
                                                 {<<text[e.title], e.lang>> : e \in existing}}}
<1> DEFINE key(w) == <<text[w.title], w.lang>>
           fresh == {w \in wanted : /\ text[w.title] \notin taken \cup {NoText}
                                    /\ key(w) \notin {key(e) : e \in existing}}
           one(k) == CHOOSE w \in fresh : key(w) = k
           W == NewWords(text, taken, existing, wanted)
<1>1. W = {one(k) : k \in {key(w) : w \in fresh}}
  BY DEF NewWords
<1>2. \A w \in fresh : one(key(w)) \in fresh /\ key(one(key(w))) = key(w)
  <2> HIDE DEF fresh
  <2> QED OBVIOUS
<1>3. \A v \in W : \E w \in fresh : v = one(key(w))
  <2> HIDE DEF one, key
  <2> QED BY <1>1
<1>4. W \subseteq fresh
  <2> HIDE DEF one
  <2> QED BY <1>2, <1>3
<1>5. ASSUME NEW w \in fresh
      PROVE  /\ one(key(w)) \in W /\ key(one(key(w))) = key(w)
             /\ text[one(key(w)).title] = text[w.title]
  <2>1. one(key(w)) \in W
    <3> HIDE DEF one, key, fresh
    <3> QED BY <1>1, <1>5
  <2>2. key(one(key(w))) = key(w)
    BY <1>2, <1>5
  <2> HIDE DEF one
  <2> QED BY <2>1, <2>2
<1>6. ASSUME NEW w \in wanted, w \notin fresh, text[w.title] \notin taken \cup {NoText}
      PROVE  \E e \in existing : text[e.title] = text[w.title]
  BY <1>6
<1>7. IsFiniteSet(wanted) => IsFiniteSet(W)
  BY <1>4, FS_Subset
<1>8. {key(w) : w \in W} = {key(w) : w \in fresh}
  <2> HIDE DEF W, one, fresh, key
  <2>1. \A w \in W : w \in fresh
    BY <1>4
  <2>2. \A w \in fresh : \E v \in W : key(v) = key(w)
    BY <1>5
  <2> QED BY <2>1, <2>2
<1> HIDE DEF W, one
<1>9. \A w \in W : w \in wanted
  BY <1>4
<1>10. \A w \in wanted : w \notin fresh => \/ text[w.title] \in taken \cup {NoText}
                                           \/ \E e \in existing : text[e.title] = text[w.title]
  BY <1>6
<1>11. \A w \in fresh : \E v \in W : text[v.title] = text[w.title]
  BY <1>5
<1>12. \A w \in wanted : \/ text[w.title] \in taken \cup {NoText}
                         \/ \E e \in existing : text[e.title] = text[w.title]
                         \/ \E v \in W : text[v.title] = text[w.title]
  <2> HIDE DEF fresh
  <2> QED BY <1>10, <1>11
<1> QED BY <1>7, <1>8, <1>9, <1>12 DEF W

\* A name of an entry as an alias.
Unspoken(t) == IF t = NoText THEN {} ELSE {[title |-> t, lang |-> NoLang]}

(* The words a merge wants are the duplicate's titles and aliases, and finite. *)
LEMMA WantedIs ==
    ASSUME Readable, IsFiniteSet(aliases), NEW d \in Live(items)
    PROVE  /\ IsFiniteSet(NamesOf(d))
           /\ \A w \in NamesOf(d) : /\ w = [title |-> w.title, lang |-> w.lang]
                                   /\ w.title \in Titles /\ w.lang \in Langs \cup {NoLang}
<1>1. items[d].title \in Titles /\ items[d].original \in Titles \cup {NoText}
  <2>1. items[d] \in ItemRow
    BY LiveRows
  <2> QED BY <2>1, ItemRowIs
<1> DEFINE S == WordsOf(d)
           f == [a \in S |-> [title |-> a.title, lang |-> a.lang]]
           T == {[title |-> a.title, lang |-> a.lang] : a \in S}
<1>2. S \subseteq aliases
  BY DEF WordsOf
<1>3. IsFiniteSet(S)
  <2> HIDE DEF S
  <2> QED BY <1>2, FS_Subset
<1>4. f = [x \in S |-> f[x]] /\ T = {f[x] : x \in S}
  <2> HIDE DEF S
  <2> QED OBVIOUS
<1>5. IsFiniteSet(T)
  <2> HIDE DEF S, f, T
  <2> QED BY <1>3, <1>4, FiniteImage
<1>6. IsFiniteSet(Unspoken(items[d].title)) /\ IsFiniteSet(Unspoken(items[d].original))
  BY FS_EmptySet, FS_Singleton DEF Unspoken
<1>7. IsFiniteSet(NamesOf(d))
  <2> HIDE DEF T
  <2>1. NamesOf(d) = (Unspoken(items[d].title) \cup Unspoken(items[d].original)) \cup T
    BY DEF NamesOf, Unspoken, T
  <2> DEFINE A == Unspoken(items[d].title)  B == Unspoken(items[d].original)
  <2> HIDE DEF A, B
  <2>2. IsFiniteSet(A \cup B)
    BY <1>6, FS_Union DEF A, B
  <2>3. IsFiniteSet((A \cup B) \cup T)
    BY <1>5, <2>2, FS_Union
  <2> QED BY <2>1, <2>3 DEF A, B
<1>8. ASSUME NEW w \in NamesOf(d)
      PROVE  /\ w = [title |-> w.title, lang |-> w.lang]
             /\ w.title \in Titles /\ w.lang \in Langs \cup {NoLang}
  <2>1. CASE w \in Unspoken(items[d].title) \/ w \in Unspoken(items[d].original)
    BY <1>1, <2>1 DEF Unspoken
  <2>2. CASE w \in T
    <3>1. PICK a \in S : w = [title |-> a.title, lang |-> a.lang]
      BY <2>2
    <3>2. a \in AliasRow
      BY <1>2, <3>1 DEF Readable
    <3>3. a.title \in Titles /\ a.lang \in Langs \cup {NoLang}
      BY <3>2 DEF AliasRow
    <3> QED BY <3>1, <3>3
  <2>3. w \in Unspoken(items[d].title) \/ w \in Unspoken(items[d].original) \/ w \in T
    BY <1>8 DEF NamesOf, Unspoken
  <2> QED BY <2>1, <2>2, <2>3
<1> QED BY <1>7, <1>8

(* The words a merge adds are the wanted ones that are new. *)
LEMMA MergedWordsAre ==
    ASSUME NEW p, NEW d
    PROVE  MergedWords(p, d) =
             NewWords(Text, TextOf(MergedRow(p, d).title) \cup TextOf(MergedRow(p, d).original),
                      WordsOf(p), NamesOf(d))
<1>1. MergedRow(p, d).title = items[p].title
  BY DEF MergedRow
<1> QED BY <1>1 DEF MergedWords

(* The alias rows of words: as many, and of the entry. *)
LEMMA RowsForAre ==
    ASSUME NEW i, NEW W, IsFiniteSet(W), \A w \in W : w = [title |-> w.title, lang |-> w.lang]
    PROVE  /\ IsFiniteSet(RowsFor(i, W)) /\ Cardinality(RowsFor(i, W)) = Cardinality(W)
           /\ \A w \in W : \E v \in RowsFor(i, W) : v.title = w.title
<1> DEFINE f == [w \in W |-> [item |-> i, title |-> w.title, lang |-> w.lang]]
<1>1. f = [x \in W |-> f[x]] /\ RowsFor(i, W) = {f[x] : x \in W}
  BY DEF RowsFor
<1>2. \A x, y \in W : f[x] = f[y] => x = y
  <2>1. ASSUME NEW x \in W, NEW y \in W, f[x] = f[y] PROVE x = y
    <3>1. x.title = y.title /\ x.lang = y.lang
      BY <2>1
    <3>2. x = [title |-> x.title, lang |-> x.lang] /\ y = [title |-> y.title, lang |-> y.lang]
      OBVIOUS
    <3> QED BY <3>1, <3>2
  <2> QED BY <2>1
<1>3. \A w \in W : f[w] \in RowsFor(i, W) /\ f[w].title = w.title
  BY DEF RowsFor
<1> HIDE DEF f
<1> QED BY <1>1, <1>2, <1>3, SameSize

(* The row a merge leaves: the primary's, with what it lacked. *)
LEMMA MergedRowIs ==
    ASSUME Readable, NEW p \in Live(items), NEW d \in Live(items)
    PROVE  LET row == MergedRow(p, d)
           IN /\ row \in ItemRow
              /\ row.title = items[p].title /\ row.kind = items[p].kind
              /\ row.original = IF items[p].original = NoText THEN items[d].original
                                ELSE items[p].original
              /\ row.ext = MergeDicts(items[p].ext, items[d].ext)
<1> DEFINE F == {"title", "original", "kind", "year", "ext"}
           a == items[p]
           b == items[d]
           row == MergedRow(p, d)
<1>1. a \in ItemRow /\ b \in ItemRow
  BY LiveRows
<1>2. row = [a EXCEPT !.original = IF a.original = NoText THEN b.original ELSE a.original,
                      !.year = IF a.year = NoYear THEN b.year ELSE a.year,
                      !.ext = MergeDicts(a.ext, b.ext)]
  BY DEF MergedRow
<1> HIDE DEF a, b, row
<1>3. /\ a = [f \in F |-> a[f]] /\ a.title \in Titles /\ a.original \in Titles \cup {NoText}
      /\ a.kind \in Kinds /\ a.year \in Years \cup {NoYear} /\ a.ext \in [Keys -> Values \cup {NoValue}]
      /\ b.original \in Titles \cup {NoText}
      /\ b.year \in Years \cup {NoYear} /\ b.ext \in [Keys -> Values \cup {NoValue}]
  BY <1>1, ItemRowIs
<1>4. /\ row = [f \in F |-> row[f]] /\ row.title = a.title /\ row.kind = a.kind
      /\ row.original = IF a.original = NoText THEN b.original ELSE a.original
      /\ row.year = IF a.year = NoYear THEN b.year ELSE a.year
      /\ row.ext = MergeDicts(a.ext, b.ext)
  <2>1. DOMAIN a = F
    BY <1>3
  <2> QED BY <1>2, <2>1
<1>5. MergeDicts(a.ext, b.ext) \in [Keys -> Values \cup {NoValue}]
  BY <1>3 DEF MergeDicts
<1>6. row \in ItemRow
  BY <1>3, <1>4, <1>5, ItemRowIs
<1> QED BY <1>4, <1>6 DEF a, b, row

(* What a merge adds: finitely many names, all of the primary. *)
LEMMA MergeAddsWords ==
    ASSUME Readable, IsFiniteSet(aliases), NEW p, NEW d \in Live(items)
    PROVE  LET W == MergedWords(p, d)
           IN /\ IsFiniteSet(W) /\ W \subseteq NamesOf(d)
              /\ \A w \in W : /\ w = [title |-> w.title, lang |-> w.lang]
                              /\ w.title \in Titles /\ w.lang \in Langs \cup {NoLang}
              /\ IsFiniteSet(RowsFor(p, W))
<1> DEFINE W == MergedWords(p, d)
           taken == TextOf(MergedRow(p, d).title) \cup TextOf(MergedRow(p, d).original)
           own == WordsOf(p)
<1>1. W = NewWords(Text, taken, own, NamesOf(d))
  BY MergedWordsAre
<1>2. /\ IsFiniteSet(NamesOf(d))
      /\ \A w \in NamesOf(d) : /\ w = [title |-> w.title, lang |-> w.lang]
                              /\ w.title \in Titles /\ w.lang \in Langs \cup {NoLang}
  BY WantedIs
<1> HIDE DEF W, taken, own
<1>3. W \subseteq NamesOf(d) /\ IsFiniteSet(W)
  BY <1>1, <1>2, NewWordsAre
<1>4. \A w \in W : w = [title |-> w.title, lang |-> w.lang]
  BY <1>2, <1>3
<1>5. IsFiniteSet(RowsFor(p, W))
  BY <1>3, <1>4, RowsForAre
<1> QED BY <1>2, <1>3, <1>5 DEF W

\* How a merge tells two aliases apart.
Spoken(W) == {<<Text[w.title], w.lang>> : w \in W}

(* The aliases a merge adds are the ones its preview announces, save the names   *)
(* it makes the primary's original title.                                       *)
LEMMA PreviewedWords ==
    ASSUME Readable, NEW p \in Live(items), NEW d \in Live(items)
    PROVE  Spoken(RowsFor(p, MergedWords(p, d))) =
             Spoken({v \in PreviewAliases(p, d) : Text[v.title] \notin TakenOver(p, d)})
<1> DEFINE own == WordsOf(p)
           names == NamesOf(d)
           before == TextOf(items[p].title) \cup TextOf(items[p].original)
           after == TextOf(items[p].title) \cup TextOf(MergedRow(p, d).original)
           old == {<<Text[e.title], e.lang>> : e \in own}
           M == MergedWords(p, d)
           P == PreviewAliases(p, d)
           T == TakenOver(p, d)
<1>1. after = before \cup T
  <2>1. MergedRow(p, d).original = IF items[p].original = NoText THEN items[d].original
                                   ELSE items[p].original
    BY MergedRowIs
  <2>2. CASE items[p].original = NoText
    BY <2>1, <2>2 DEF TakenOver, TextOf
  <2>3. CASE items[p].original # NoText
    BY <2>1, <2>3 DEF TakenOver
  <2> QED BY <2>2, <2>3
<1>2. M = NewWords(Text, after, own, names) /\ P = NewWords(Text, before, own, names)
  BY DEF MergedWords, PreviewAliases
<1>3. /\ Spoken(M) = Spoken({v \in names : /\ Text[v.title] \notin after \cup {NoText}
                                           /\ <<Text[v.title], v.lang>> \notin old})
      /\ Spoken(P) = Spoken({v \in names : /\ Text[v.title] \notin before \cup {NoText}
                                           /\ <<Text[v.title], v.lang>> \notin old})
  <2> HIDE DEF own, names, before, after, M, P
  <2> QED BY <1>2, NewWordsAre DEF Spoken
<1>4. Spoken(RowsFor(p, M)) = Spoken(M)
  <2> HIDE DEF M
  <2>1. \A w \in M : \E v \in RowsFor(p, M) : v.title = w.title /\ v.lang = w.lang
    <3>1. ASSUME NEW w \in M PROVE \E v \in RowsFor(p, M) : v.title = w.title /\ v.lang = w.lang
      <4>1. [item |-> p, title |-> w.title, lang |-> w.lang] \in RowsFor(p, M)
        BY DEF RowsFor
      <4> QED BY <4>1
    <3> QED BY <3>1
  <2>2. \A v \in RowsFor(p, M) : \E w \in M : v.title = w.title /\ v.lang = w.lang
    BY DEF RowsFor
  <2> QED BY <2>1, <2>2 DEF Spoken
<1> HIDE DEF own, names, before, after, old, M, P, T
<1>5. \A k : k \in Spoken(M) <=> \E w \in names : /\ k = <<Text[w.title], w.lang>>
                                                 /\ Text[w.title] \notin before \cup T \cup {NoText}
                                                 /\ k \notin old
  BY <1>1, <1>3 DEF Spoken
<1>6. \A k : k \in Spoken(P) <=> \E w \in names : /\ k = <<Text[w.title], w.lang>>
                                                 /\ Text[w.title] \notin before \cup {NoText}
                                                 /\ k \notin old
  BY <1>3 DEF Spoken
<1>7. \A k : k \in Spoken({v \in P : Text[v.title] \notin T}) <=> k \in Spoken(P) /\ k[1] \notin T
  <2>1. \A k : k \in Spoken(P) <=> \E v \in P : k = <<Text[v.title], v.lang>>
    BY DEF Spoken
  <2>2. \A k : k \in Spoken({v \in P : Text[v.title] \notin T})
                 <=> \E v \in P : Text[v.title] \notin T /\ k = <<Text[v.title], v.lang>>
    BY DEF Spoken
  <2> QED BY <2>1, <2>2
<1>8. \A k : k \in Spoken(M) <=> k \in Spoken(P) /\ k[1] \notin T
  <2>1. ASSUME NEW k PROVE k \in Spoken(M) <=> k \in Spoken(P) /\ k[1] \notin T
    BY <1>5, <1>6
  <2> QED BY <2>1
<1>9. Spoken(M) = Spoken({v \in P : Text[v.title] \notin T})
  BY <1>7, <1>8
<1> QED BY <1>4, <1>9 DEF M, P, T

(* A merge does what its preview says, in every database. *)
LEMMA PreviewHolds ==
    ASSUME Tables, IsFiniteSet(aliases)
    PROVE  PreviewIsWhatMergeDoes
<1>0. SUFFICES ASSUME NEW p \in Live(items), NEW d \in Live(items), MergeAllowed(p, d)
      PROVE  LET plan == MergePlan([primary |-> p, duplicate |-> d])
                 preview == PreviewRelations(p, d)
                 told(action) == {n \in DOMAIN preview : preview[n] = action}
             IN /\ plan.relDrop = told("remove_self_relation") \cup told("merge_with_existing")
                /\ told("move_to_primary") = DOMAIN plan.relPut \cap DOMAIN preview
                /\ Spoken(plan.words) =
                     Spoken({v \in PreviewAliases(p, d) : Text[v.title] \notin TakenOver(p, d)})
  BY DEF PreviewIsWhatMergeDoes, Spoken
<1> DEFINE plan == MergePlan([primary |-> p, duplicate |-> d])
           preview == PreviewRelations(p, d)
           told(action) == {n \in DOMAIN preview : preview[n] = action}
           Due == RelationsFor(relations, d)
<1>1. plan = MergeWith(p, d, MergeRelations(p, d)) /\ p # d /\ p \in Ids /\ d \in Ids /\ Readable
  BY <1>0 DEF MergePlan, MergeAllowed, Live, Tables
<1>2. /\ plan.relDrop = {r.id : r \in {q \in Due : Drops(q, p, d)}}
      /\ \A r \in Due : ~Drops(r, p, d) => r.id \in DOMAIN plan.relPut
      /\ \A r \in Due : Drops(r, p, d) => r.id \notin DOMAIN plan.relPut
  BY <1>1, MergeOfRelations
<1>3. plan.words = RowsFor(p, MergedWords(p, d))
  BY <1>1 DEF MergeWith, NoPlan
<1>4. Spoken(plan.words) =
        Spoken({v \in PreviewAliases(p, d) : Text[v.title] \notin TakenOver(p, d)})
  BY <1>1, <1>3, PreviewedWords
<1>5. Due \subseteq relations /\ \A r \in Due : (CHOOSE q \in relations : q.id = r.id) = r
  BY RowOfIs DEF RelationsFor, RowOf, RowAt
<1>6. DOMAIN preview = {r.id : r \in Due}
  BY DEF PreviewRelations
<1>7. ASSUME NEW r \in Due
      PROVE  /\ preview[r.id] \in {"remove_self_relation", "merge_with_existing", "move_to_primary"}
             /\ preview[r.id] = "move_to_primary" <=> ~Drops(r, p, d)
  <2> DEFINE m == Redirected(r, p, d)
  <2>1. preview[r.id] = IF m.source = m.target THEN "remove_self_relation"
                        ELSE IF ExistingRelation(relations, KeyOf(m), r.id) # {} THEN "merge_with_existing"
                        ELSE "move_to_primary"
    <3> DEFINE row(n) == CHOOSE q \in relations : q.id = n
    <3>1. row(r.id) = r /\ r.id \in {q.id : q \in Due}
      BY <1>5
    <3>2. preview = [n \in {q.id : q \in Due} |->
                       LET x == Redirected(row(n), p, d)
                       IN IF x.source = x.target THEN "remove_self_relation"
                          ELSE IF ExistingRelation(relations, KeyOf(x), n) # {} THEN "merge_with_existing"
                          ELSE "move_to_primary"]
      BY DEF PreviewRelations
    <3> HIDE DEF row, preview, Due
    <3> QED BY <3>1, <3>2
  <2>2. Drops(r, p, d) <=> m.source = m.target \/ ExistingRelation(relations, KeyOf(m), r.id) # {}
    BY DEF Drops
  <2> HIDE DEF m, preview
  <2> QED BY <2>1, <2>2
<1> HIDE DEF preview, plan
<1>8. plan.relDrop = told("remove_self_relation") \cup told("merge_with_existing")
  <2>1. \A n \in DOMAIN preview : n \in plan.relDrop <=> preview[n] # "move_to_primary"
    <3>1. ASSUME NEW n \in DOMAIN preview PROVE n \in plan.relDrop <=> preview[n] # "move_to_primary"
      <4>1. PICK r \in Due : r.id = n
        BY <1>6
      <4>2. n \in plan.relDrop <=> Drops(r, p, d)
        <5>1. \A q \in Due : q.id = n => q = r
          BY <1>5, <4>1 DEF Tables
        <5> QED BY <1>2, <4>1, <5>1
      <4> QED BY <1>7, <4>1, <4>2
    <3> QED BY <3>1
  <2>2. plan.relDrop \subseteq DOMAIN preview
    BY <1>2, <1>6
  <2>3. \A n \in DOMAIN preview :
           preview[n] \in {"remove_self_relation", "merge_with_existing", "move_to_primary"}
    BY <1>6, <1>7
  <2> QED BY <2>1, <2>2, <2>3
<1>9. told("move_to_primary") = DOMAIN plan.relPut \cap DOMAIN preview
  <2>1. \A n \in DOMAIN preview : n \in DOMAIN plan.relPut <=> preview[n] = "move_to_primary"
    <3>1. ASSUME NEW n \in DOMAIN preview
          PROVE n \in DOMAIN plan.relPut <=> preview[n] = "move_to_primary"
      <4>1. PICK r \in Due : r.id = n
        BY <1>6
      <4> QED BY <1>2, <1>7, <4>1
    <3> QED BY <3>1
  <2> QED BY <2>1
<1> QED BY <1>4, <1>8, <1>9 DEF plan, preview

-----------------------------------------------------------------------------
(* The inductive invariant.  What a plan promises is said of the tables it   *)
(* was made from: they are parameters, and the invariant says it of the      *)
(* tables as they are for every plan that nobody overtook.                   *)

\* The types of what a plan writes.
PlanTyped(p) ==
    /\ SomeOfItem(p.put)
    /\ p.new = NoItem \/ (p.new \in ItemRow /\ p.gone = 0)
    /\ IsFiniteSet(p.words)
    /\ \A w \in p.words : /\ HasFields(w, {"item", "title", "lang"})
                          /\ w.item \in Ids \/ (w.item = 0 /\ p.new # NoItem)
                          /\ w.title \in Titles /\ w.lang \in Langs \cup {NoLang}
    /\ p.link \subseteq RelationRow
    /\ \A l, k \in p.link : l = k
    /\ \A n \in DOMAIN p.relPut : SomeOfRelation(p.relPut[n])

\* The rows a plan's UPDATEs leave.
PutRow(p, row) == IF DOMAIN p.put # {} THEN Over(p.put, row) ELSE row
Updated(p, r) == IF r.id \in DOMAIN p.relPut THEN Over(p.relPut[r.id], r) ELSE r

\* A relation that is not broken once the entry with id gone is deleted.
Fine(r, I, gone) ==
    r.source # r.target /\ {r.source, r.target} \subseteq Live(I) \ {gone}

\* The plan leaves no alias and no relation without its entries.
LeavesNoneDangling(p, I, A, R) ==
    /\ \A w \in p.words : w.item \in Live(I) \ {p.gone} \/ (w.item = 0 /\ p.new # NoItem)
    /\ \A a \in A : a.item = p.gone => a \in p.goneWords
    /\ \A l \in p.link : Fine(l, I, p.gone)
    /\ \A r \in R : r.id \notin p.relDrop /\ Fine(r, I, 0) => Fine(Updated(p, r), I, p.gone)

\* A merge: one entry takes what two had.
MergePromise(p, I, A, R) ==
    LET i == p.item  d == p.gone  row == PutRow(p, I[i])
    IN /\ i # d /\ i \in Live(I) /\ d \in Live(I) /\ p.new = NoItem
       /\ CollectTitles(I, A, i) \cup CollectTitles(I, A, d) \subseteq
            {Norm[row.title]} \cup NormOf(row.original)
              \cup {Norm[a.title] : a \in {b \in A : b.item = i}}
              \cup {Norm[w.title] : w \in {v \in p.words : v.item = i}}
       /\ \A k \in Keys : row.ext[k] = IF I[i].ext[k] # NoValue THEN I[i].ext[k] ELSE I[d].ext[k]
       /\ \A a \in p.goneWords : a.item = d
       /\ \A r \in R :
            IF d \notin {r.source, r.target}
            THEN r.id \notin p.relDrop /\ KeyOf(Updated(p, r)) = KeyOf(r)
            ELSE LET m == Redirected(r, i, d)
                 IN m.source # m.target => \E e \in R : e.id \notin p.relDrop /\ Covers(Updated(p, e), m)

\* An import: no row goes, values go only when asked to, and a new entry is one
\* nothing stored answers to that the search looks at.
ImportPromise(p, I, A) ==
    /\ p.goneWords = {} /\ p.relDrop = {} /\ p.link = {} /\ DOMAIN p.relPut = {} /\ p.gone = 0
    /\ ~p.overwrite /\ DOMAIN p.put # {} => KeepsValues(Over(p.put, I[p.item]), I[p.item])
    /\ p.new # NoItem =>
         \A j \in Hits(I, A, p.new.title) : KnownAs(I, A, j, p.new) => CutOff(I, A, j, p.new)

Promise(p, I, A, R) ==
    /\ LeavesNoneDangling(p, I, A, R)
    /\ p.op = "merge" => MergePromise(p, I, A, R)
    /\ p.op = "import" => ImportPromise(p, I, A)

PlansHold ==
    /\ session = [s \in Sessions |-> session[s]]
    /\ \A s \in Sessions :
         /\ session[s] = [plan |-> session[s].plan, overtaken |-> session[s].overtaken]
         /\ session[s].overtaken \in BOOLEAN
         /\ PlanTyped(session[s].plan)
         /\ session[s].plan # NoPlan /\ ~session[s].overtaken =>
              Promise(session[s].plan, items, aliases, relations)

IInv == Consistent /\ IsFiniteSet(aliases) /\ PlansHold

-----------------------------------------------------------------------------
(* Every plan holds when it is made. *)

(* A plan without an UPDATE of an item. *)
LEMMA NoFields == DOMAIN <<>> = {} /\ SomeOfItem(<<>>)
<1>1. DOMAIN <<>> = {}
  OBVIOUS
<1> QED BY <1>1 DEF SomeOfItem

(* A plan that deletes nothing. *)
LEMMA NothingGoes ==
    ASSUME Tables, NEW p, p.gone = 0, p.relDrop = {}, DOMAIN p.relPut = {},
           \A w \in p.words : w.item \in Live(items) \/ (w.item = 0 /\ p.new # NoItem),
           \A l \in p.link : l.source # l.target /\ l.source \in Live(items) /\ l.target \in Live(items)
    PROVE  LeavesNoneDangling(p, items, aliases, relations)
<1>1. \A i \in Live(items) : i # 0
  BY DEF Live, Ids
<1>2. \A a \in aliases : a.item # 0
  BY DEF Tables, Readable, AliasRow, Ids
<1>3. \A l \in p.link : Fine(l, items, p.gone)
  BY <1>1 DEF Fine
<1>4. \A r \in relations : Updated(p, r) = r
  BY DEF Updated
<1> QED BY <1>1, <1>2, <1>3, <1>4 DEF LeavesNoneDangling

(* The plan of a new alias keeps its promise. *)
LEMMA AliasPlanHolds ==
    ASSUME Tables, NEW r \in Requests, r.op = "alias", AliasPlan(r) # NoPlan
    PROVE  PlanTyped(AliasPlan(r)) /\ Promise(AliasPlan(r), items, aliases, relations)
<1> DEFINE p == AliasPlan(r)
<1>1. /\ r.item \in Live(items)
      /\ p = [NoPlan EXCEPT !.op = "alias", !.words = RowsFor(r.item, {r})]
  BY DEF AliasPlan
<1>2. /\ p.op = "alias" /\ p.gone = 0 /\ p.relDrop = {} /\ p.relPut = <<>> /\ p.put = <<>>
      /\ p.new = NoItem /\ p.link = {} /\ p.words = RowsFor(r.item, {r})
  BY <1>1 DEF NoPlan
<1> HIDE DEF p
<1>3. p.words = {[item |-> r.item, title |-> r.title, lang |-> r.lang]}
  BY <1>2 DEF RowsFor
<1>4. r.title \in Titles /\ r.lang \in Langs \cup {NoLang} /\ r.item \in Ids
  BY <1>1, RequestsAssumption DEF Live
<1>5. PlanTyped(p)
  <2>1. IsFiniteSet(p.words)
    BY <1>3, FS_Singleton
  <2>2. \A w \in p.words : /\ HasFields(w, {"item", "title", "lang"}) /\ w.item \in Ids
                           /\ w.title \in Titles /\ w.lang \in Langs \cup {NoLang}
    BY <1>3, <1>4 DEF HasFields
  <2> QED BY <1>2, <2>1, <2>2, NoFields DEF PlanTyped
<1>6. LeavesNoneDangling(p, items, aliases, relations)
  <2>1. \A w \in p.words : w.item \in Live(items)
    BY <1>1, <1>3
  <2> QED BY <1>2, <2>1, NoFields, NothingGoes
<1> QED BY <1>2, <1>5, <1>6 DEF Promise, p

(* The row of a new relation is a relation. *)
LEMMA LinkRowIs ==
    ASSUME NEW r \in Requests, r.op \in {"link", "import_link"}, NEW i \in Ids, NEW j \in Ids
    PROVE  LET l == LinkRow(r, i, j)
           IN l \in RelationRow /\ l.source = i /\ l.target = j
<1>1. 1 \in RelationIds
  BY RelationAssumption DEF RelationIds
<1>2. NormType[r.type] \in RelationTypes /\ NormType[r.order] \in RelationTypes \cup {NoOrder}
  <2>1. r.type \in RelationTypes /\ r.order \in RelationTypes \cup {NoOrder}
    BY RequestsAssumption
  <2> QED BY <2>1, RelationAssumption
<1>3. r.position \in Nat \cup {NoPosition} /\ r.notes \in SUBSET Notes
  BY RequestsAssumption
<1> QED BY <1>1, <1>2, <1>3 DEF LinkRow, RelationRow

(* A plan that adds one relation between two entries keeps its promise. *)
LEMMA OneLinkHolds ==
    ASSUME Tables, NEW p, NEW l \in RelationRow, p.op \in {"link", "import_link"},
           l.source # l.target, l.source \in Live(items), l.target \in Live(items),
           p.link = {l}, p.gone = 0, p.relDrop = {}, p.relPut = <<>>, p.put = <<>>,
           p.new = NoItem, p.words = {}
    PROVE  PlanTyped(p) /\ Promise(p, items, aliases, relations)
<1>1. PlanTyped(p)
  BY NoFields, FS_EmptySet DEF PlanTyped
<1>2. LeavesNoneDangling(p, items, aliases, relations)
  BY NoFields, NothingGoes
<1> QED BY <1>1, <1>2 DEF Promise

(* The plan of a new relation keeps its promise. *)
LEMMA LinkPlanHolds ==
    ASSUME Tables, NEW r \in Requests, r.op = "link", LinkPlan(r) # NoPlan
    PROVE  PlanTyped(LinkPlan(r)) /\ Promise(LinkPlan(r), items, aliases, relations)
<1> DEFINE p == LinkPlan(r)
           l == LinkRow(r, r.source, r.target)
<1>1. /\ r.source # r.target /\ r.source \in Live(items) /\ r.target \in Live(items)
      /\ p = [NoPlan EXCEPT !.op = "link", !.link = {l}]
  BY DEF LinkPlan
<1>2. l \in RelationRow /\ l.source = r.source /\ l.target = r.target
  BY <1>1, LinkRowIs DEF Live
<1>3. /\ p.op = "link" /\ p.gone = 0 /\ p.relDrop = {} /\ p.relPut = <<>> /\ p.put = <<>>
      /\ p.new = NoItem /\ p.link = {l} /\ p.words = {}
  BY <1>1 DEF NoPlan
<1> HIDE DEF p, l
<1>4. l.source # l.target /\ l.source \in Live(items) /\ l.target \in Live(items)
  BY <1>1, <1>2
<1> QED BY <1>2, <1>3, <1>4, OneLinkHolds DEF p

(* What the matcher resolves is an entry. *)
LEMMA FoundAreLive ==
    ASSUME NEW req, NEW limit
    PROVE  \A m \in FindMatches(items, aliases, req, limit) : m.item \in Live(items)
<1> DEFINE match == [i \in Candidates(items, aliases, req) |-> CompareItem(items, aliases, i, req)]
<1>1. DOMAIN match \subseteq Live(items)
  BY CandidatesAreLive
<1>2. FindMatches(items, aliases, req, limit) \subseteq Found(match)
  BY MatchesAreCompared DEF Compared
<1> HIDE DEF match
<1>3. \A m \in Found(match) : m.item \in DOMAIN match
  BY DEF Found
<1> QED BY <1>1, <1>2, <1>3

\* An end of a relation import is an entry that exists, or none.
LEMMA ReferenceIs ==
    ASSUME NEW ref
    PROVE  Reference(ref) \in Live(items) \/ Reference(ref) = 0
<1> DEFINE M == FindMatches(items, aliases, ref, ReferenceMatches)
           S == Strong(M)
<1>1. \A i \in S : i \in Live(items)
  <2>1. \A m \in M : m.item \in Live(items)
    BY FoundAreLive
  <2> HIDE DEF M
  <2> QED BY <2>1 DEF Strong
<1>2. Cardinality(S) = 1 => S # {}
  BY FS_EmptySet
<1>3. Resolved(items, aliases, ref) = IF Cardinality(S) = 1 THEN CHOOSE i \in S : TRUE ELSE 0
  BY DEF Resolved
<1> HIDE DEF S
<1>4. Resolved(items, aliases, ref) \in Live(items) \/ Resolved(items, aliases, ref) = 0
  <2>1. S # {} => (CHOOSE i \in S : TRUE) \in S
    OBVIOUS
  <2> QED BY <1>1, <1>2, <1>3, <2>1
<1> QED BY <1>4 DEF Reference

(* The plan of a relation import keeps its promise. *)
LEMMA ImportLinkPlanHolds ==
    ASSUME Tables, NEW r \in Requests, r.op = "import_link", ImportLinkPlan(r) # NoPlan
    PROVE  PlanTyped(ImportLinkPlan(r)) /\ Promise(ImportLinkPlan(r), items, aliases, relations)
<1> DEFINE from == Reference(r.from)
           to == Reference(r.to)
           row == LinkRow(r, from, to)
           existing == ExistingRelation(relations, KeyOf(row), 0)
           old == CHOOSE e \in existing : TRUE
           new == [old EXCEPT !.position = IF @ = NoPosition THEN row.position ELSE @,
                              !.notes = @ \cup row.notes]
           p == ImportLinkPlan(r)
<1>0. p = ImportLinkAs(row, existing)
  BY DEF ImportLinkPlan
<1>1. row.source = from /\ row.target = to
  BY DEF LinkRow
<1>2. row.source # 0 /\ row.target # 0 /\ row.source # row.target
  <2> HIDE DEF row, existing
  <2> QED BY <1>0 DEF ImportLinkAs
<1>3. from \in Live(items) /\ to \in Live(items) /\ from # to
  <2>1. from \in Live(items) \/ from = 0
    BY ReferenceIs
  <2>2. to \in Live(items) \/ to = 0
    BY ReferenceIs
  <2> HIDE DEF from, to, row
  <2> QED BY <1>1, <1>2, <2>1, <2>2
<1>4. row \in RelationRow
  <2>1. from \in Ids /\ to \in Ids
    BY <1>3 DEF Live
  <2> HIDE DEF from, to
  <2> QED BY <2>1, LinkRowIs
<1>5. p = IF existing = {} THEN [NoPlan EXCEPT !.op = "import_link", !.link = {row}]
          ELSE [NoPlan EXCEPT !.op = "import_link",
                  !.relPut = [n \in IF new = old THEN {} ELSE {old.id} |-> Changed(old, new)]]
  <2> HIDE DEF row, existing
  <2> QED BY <1>0, <1>2 DEF ImportLinkAs
<1> HIDE DEF p, from, to, row
<1>6. CASE existing = {}
  <2>1. /\ p.op = "import_link" /\ p.gone = 0 /\ p.relDrop = {} /\ p.relPut = <<>> /\ p.put = <<>>
        /\ p.new = NoItem /\ p.link = {row} /\ p.words = {}
    BY <1>5, <1>6 DEF NoPlan
  <2>2. row.source # row.target /\ row.source \in Live(items) /\ row.target \in Live(items)
    BY <1>1, <1>3
  <2>3. p.op \in {"link", "import_link"}
    BY <2>1
  <2>4. PlanTyped(p) /\ Promise(p, items, aliases, relations)
    BY <1>4, <2>1, <2>2, <2>3, OneLinkHolds
  <2> QED BY <2>4 DEF p
<1>7. CASE existing # {}
  <2>1. old \in relations
    <3>1. \E e \in relations : existing = {e}
      BY <1>7, TwinIs
    <3> HIDE DEF existing
    <3> QED BY <3>1
  <2> DEFINE put == [n \in IF new = old THEN {} ELSE {old.id} |-> Changed(old, new)]
  <2>2. /\ p.op = "import_link" /\ p.gone = 0 /\ p.relDrop = {} /\ p.relPut = put
        /\ p.put = <<>> /\ p.new = NoItem /\ p.link = {} /\ p.words = {}
    <3> HIDE DEF new, old, existing
    <3> QED BY <1>5, <1>7 DEF NoPlan
  <2> HIDE DEF old, existing
  <2>3. old \in RelationRow
    BY <2>1 DEF Tables
  <2>4. new \in RelationRow /\ new.id = old.id /\ new.source = old.source /\ new.target = old.target
    <3> DEFINE F == {"id", "source", "target", "type", "order", "position", "notes"}
    <3>1. /\ old = [f \in F |-> old[f]] /\ old.id \in RelationIds
          /\ old.source \in Ids /\ old.target \in Ids /\ old.type \in RelationTypes
          /\ old.order \in RelationTypes \cup {NoOrder}
          /\ old.position \in Nat \cup {NoPosition} /\ old.notes \in SUBSET Notes
      BY <2>3, RelationRowIs
    <3>2. row.position \in Nat \cup {NoPosition} /\ row.notes \in SUBSET Notes
      BY <1>4, RelationRowIs
    <3>3. /\ new = [f \in F |-> new[f]] /\ new.id = old.id /\ new.source = old.source
          /\ new.target = old.target /\ new.type = old.type /\ new.order = old.order
          /\ new.position = IF old.position = NoPosition THEN row.position ELSE old.position
          /\ new.notes = old.notes \cup row.notes
      <4>1. DOMAIN old = F
        BY <3>1
      <4> QED BY <4>1
    <3> HIDE DEF new
    <3> QED BY <3>1, <3>2, <3>3, RelationRowIs
  <2> HIDE DEF new
  <2>5. Over(Changed(old, new), old) = new /\ SomeOfRelation(Changed(old, new))
    BY <2>3, <2>4, ChangedRelation
  <2>6. DOMAIN put \subseteq {old.id} /\ \A n \in DOMAIN put : put[n] = Changed(old, new)
    OBVIOUS
  <2> HIDE DEF put
  <2>7. PlanTyped(p)
    <3>1. \A n \in DOMAIN p.relPut : SomeOfRelation(p.relPut[n])
      BY <2>2, <2>5, <2>6
    <3> QED BY <2>2, <3>1, NoFields, FS_EmptySet DEF PlanTyped
  <2>8. LeavesNoneDangling(p, items, aliases, relations)
    <3>1. \A a \in aliases : a.item # 0
      BY DEF Tables, Readable, AliasRow, Ids
    <3>2. ASSUME NEW q \in relations, Fine(q, items, 0) PROVE Fine(Updated(p, q), items, 0)
      <4>1. CASE q.id \notin DOMAIN put
        BY <2>2, <3>2, <4>1 DEF Updated
      <4>2. CASE q.id \in DOMAIN put
        <5>1. q = old
          BY <2>1, <2>6, <4>2 DEF Tables
        <5>2. Updated(p, q) = new
          BY <2>2, <2>5, <2>6, <4>2, <5>1 DEF Updated
        <5> QED BY <2>4, <3>2, <5>1, <5>2 DEF Fine
      <4> QED BY <4>1, <4>2
    <3> QED BY <2>2, <3>1, <3>2 DEF LeavesNoneDangling
  <2> QED BY <2>2, <2>7, <2>8 DEF Promise, p
<1> QED BY <1>6, <1>7

(* The rows a merge leaves: moved to the primary, or grown. *)
LEMMA MergeUpdates ==
    ASSUME Tables, NEW p \in Ids, NEW d \in Ids, p # d
    PROVE  LET plan == MergeWith(p, d, MergeRelations(p, d))
               now == MergeRelations(p, d).now
           IN /\ \A r \in RelationsFor(relations, d) :
                   ~Drops(r, p, d) => /\ Updated(plan, r) = Redirected(r, p, d)
                                      /\ r.id \notin plan.relDrop
              /\ \A r \in Kept(d) : /\ Updated(plan, r) = now[r.id] /\ Grown(r, now[r.id])
                                    /\ r.id \notin plan.relDrop
              /\ \A n \in DOMAIN plan.relPut : SomeOfRelation(plan.relPut[n])
<1> DEFINE plan == MergeWith(p, d, MergeRelations(p, d))
           now == MergeRelations(p, d).now
           Due == RelationsFor(relations, d)
<1>1. /\ plan.relDrop = {r.id : r \in {q \in Due : Drops(q, p, d)}}
      /\ DOMAIN plan.relPut \subseteq {r.id : r \in relations}
      /\ \A r \in Due : ~Drops(r, p, d) => /\ r.id \in DOMAIN plan.relPut
                                           /\ plan.relPut[r.id] = Changed(r, Redirected(r, p, d))
      /\ \A r \in Due : Drops(r, p, d) => r.id \notin DOMAIN plan.relPut
      /\ \A r \in relations : r.id \in DOMAIN plan.relPut => plan.relPut[r.id] = Changed(r, now[r.id])
      /\ \A r \in Kept(d) : r.id \notin DOMAIN plan.relPut => now[r.id] = r
  BY MergeOfRelations
<1>2. \A r \in Kept(d) : Grown(r, now[r.id])
  BY MergeIsDone DEF MergeDone
<1>3. /\ Due \subseteq relations /\ Kept(d) \subseteq relations /\ Kept(d) \cup Due = relations
      /\ Kept(d) \cap Due = {}
      /\ relations \subseteq RelationRow /\ \A a, b \in relations : a.id = b.id => a = b
  BY DEF RelationsFor, Kept, Tables
<1> HIDE DEF plan, now, Due
<1>4. ASSUME NEW r \in Due, ~Drops(r, p, d)
      PROVE  /\ Updated(plan, r) = Redirected(r, p, d) /\ r.id \notin plan.relDrop
             /\ SomeOfRelation(plan.relPut[r.id])
  <2> DEFINE m == Redirected(r, p, d)
  <2>1. r \in RelationRow
    BY <1>3
  <2>2. m \in RelationRow /\ m.id = r.id
    BY <2>1, RedirectedIs
  <2> HIDE DEF m
  <2>3. Over(Changed(r, m), r) = m /\ SomeOfRelation(Changed(r, m))
    BY <2>1, <2>2, ChangedRelation
  <2>4. r.id \in DOMAIN plan.relPut /\ plan.relPut[r.id] = Changed(r, m)
    BY <1>1, <1>4 DEF m
  <2>5. r.id \notin plan.relDrop
    BY <1>1, <1>3, <1>4
  <2> QED BY <2>3, <2>4, <2>5 DEF Updated, m
<1>5. ASSUME NEW r \in Kept(d)
      PROVE  /\ Updated(plan, r) = now[r.id] /\ r.id \notin plan.relDrop
             /\ r.id \in DOMAIN plan.relPut => SomeOfRelation(plan.relPut[r.id])
  <2>1. r \in RelationRow /\ now[r.id] \in RelationRow /\ now[r.id].id = r.id /\ r \in relations
    BY <1>2, <1>3 DEF Grown
  <2>2. Over(Changed(r, now[r.id]), r) = now[r.id] /\ SomeOfRelation(Changed(r, now[r.id]))
    BY <2>1, ChangedRelation
  <2>3. r.id \notin plan.relDrop
    BY <1>1, <1>3
  <2> QED BY <1>1, <2>1, <2>2, <2>3 DEF Updated
<1>6. ASSUME NEW n \in DOMAIN plan.relPut PROVE SomeOfRelation(plan.relPut[n])
  <2>1. PICK r \in relations : r.id = n
    BY <1>1
  <2>2. CASE r \in Due
    BY <1>1, <1>4, <2>1, <2>2
  <2>3. CASE r \in Kept(d)
    BY <1>5, <2>1, <2>3
  <2> QED BY <1>3, <2>1, <2>2, <2>3
<1> QED BY <1>2, <1>4, <1>5, <1>6 DEF plan, now, Due

(* Every name of both entries is one of the merged entry. *)
LEMMA MergeKeepsNames ==
    ASSUME Readable, IsFiniteSet(aliases), NEW p \in Live(items), NEW d \in Live(items)
    PROVE  CollectTitles(items, aliases, p) \cup CollectTitles(items, aliases, d) \subseteq
             {Norm[MergedRow(p, d).title]} \cup NormOf(MergedRow(p, d).original)
               \cup {Norm[a.title] : a \in {b \in aliases : b.item = p}}
               \cup {Norm[w.title] : w \in MergedWords(p, d)}
<1> DEFINE row == MergedRow(p, d)
           W == MergedWords(p, d)
           own == WordsOf(p)
           taken == TextOf(row.title) \cup TextOf(row.original)
           names == {Norm[row.title]} \cup NormOf(row.original)
                      \cup {Norm[a.title] : a \in own} \cup {Norm[w.title] : w \in W} \cup {NoText}
<1>1. /\ row \in ItemRow /\ row.title = items[p].title
      /\ row.original = IF items[p].original = NoText THEN items[d].original ELSE items[p].original
  BY MergedRowIs
<1>2. row.title \in Titles /\ row.original \in Titles \cup {NoText}
  BY <1>1, ItemRowIs
<1>3. W = NewWords(Text, taken, own, NamesOf(d))
  BY MergedWordsAre
<1>4. /\ W \subseteq NamesOf(d)
      /\ \A w \in NamesOf(d) : w.title \in Titles
  BY WantedIs, MergeAddsWords
<1>5. \A a \in own : a.title \in Titles
  BY DEF WordsOf, Readable, AliasRow
<1>6. items[p].original \in Titles \cup {NoText} /\ items[d].original \in Titles \cup {NoText}
      /\ items[d].title \in Titles
  <2>1. items[p] \in ItemRow /\ items[d] \in ItemRow
    BY LiveRows
  <2> QED BY <2>1, ItemRowIs
<1> HIDE DEF row, W, own
<1>7. \A a, b \in Titles : Text[a] = Text[b] => Norm[a] = Norm[b]
  BY TextAssumption
<1>8. ASSUME NEW w \in NamesOf(d) PROVE Norm[w.title] \in names
  <2>1. w.title \in Titles
    BY <1>4
  <2>2. \/ Text[w.title] \in taken \cup {NoText}
        \/ \E e \in own : Text[e.title] = Text[w.title]
        \/ \E v \in W : Text[v.title] = Text[w.title]
    <3> HIDE DEF taken
    <3> QED BY <1>3, NewWordsAre
  <2>3. CASE Text[w.title] \in taken
    <3>1. \/ Text[w.title] = Text[row.title]
          \/ row.original # NoText /\ Text[w.title] = Text[row.original]
      BY <2>3 DEF TextOf
    <3>2. row.original # NoText => row.original \in Titles
      BY <1>2
    <3>3. \/ Norm[w.title] = Norm[row.title]
          \/ row.original # NoText /\ Norm[w.title] = Norm[row.original]
      BY <1>2, <1>7, <2>1, <3>1, <3>2
    <3> QED BY <3>3 DEF NormOf
  <2>4. CASE \E e \in own : Text[e.title] = Text[w.title]
    <3>1. PICK e \in own : Text[e.title] = Text[w.title]
      BY <2>4
    <3>2. Norm[e.title] = Norm[w.title]
      BY <1>5, <1>7, <2>1, <3>1
    <3> QED BY <3>2
  <2>5. CASE \E v \in W : Text[v.title] = Text[w.title]
    <3>1. PICK v \in W : Text[v.title] = Text[w.title]
      BY <2>5
    <3>2. Norm[v.title] = Norm[w.title]
      BY <1>4, <1>7, <2>1, <3>1
    <3> QED BY <3>2
  <2>6. CASE Text[w.title] = NoText
    BY <2>1, <2>6, TextAssumption
  <2> HIDE DEF names
  <2> QED BY <2>2, <2>3, <2>4, <2>5, <2>6
<1>9. \A a \in WordsOf(d) : [title |-> a.title, lang |-> a.lang] \in NamesOf(d)
  BY DEF NamesOf
<1>10. ASSUME NEW t \in Titles, [title |-> t, lang |-> NoLang] \in NamesOf(d) PROVE Norm[t] \in names
  <2> DEFINE w == [title |-> t, lang |-> NoLang]
  <2>1. w.title = t
    OBVIOUS
  <2> HIDE DEF w, names
  <2>2. w \in NamesOf(d)
    BY <1>10 DEF w
  <2> QED BY <1>8, <2>1, <2>2
<1>11. Norm[items[d].title] \in names
  <2>1. [title |-> items[d].title, lang |-> NoLang] \in NamesOf(d)
    <3>1. items[d].title # NoText
      BY <1>6, TextAssumption
    <3> QED BY <3>1 DEF NamesOf
  <2> HIDE DEF names
  <2> QED BY <1>6, <1>10, <2>1
<1>12. NormOf(items[d].original) \subseteq names
  <2>1. CASE items[d].original = NoText
    BY <2>1 DEF NormOf
  <2>2. CASE items[d].original # NoText
    <3>1. [title |-> items[d].original, lang |-> NoLang] \in NamesOf(d)
      BY <2>2 DEF NamesOf
    <3>2. items[d].original \in Titles
      BY <1>6, <2>2
    <3> HIDE DEF names
    <3>3. Norm[items[d].original] \in names
      BY <1>10, <3>1, <3>2
    <3> QED BY <2>2, <3>3 DEF NormOf
  <2> QED BY <2>1, <2>2
<1>13. ASSUME NEW a \in WordsOf(d) PROVE Norm[a.title] \in names
  <2> DEFINE w == [title |-> a.title, lang |-> a.lang]
  <2>1. w \in NamesOf(d) /\ w.title = a.title
    BY <1>9
  <2> HIDE DEF w, names
  <2> QED BY <1>8, <2>1
<1>14. CollectTitles(items, aliases, d) \subseteq names
  <2>1. NormOf(items[d].title) \subseteq names
    BY <1>11 DEF NormOf
  <2> HIDE DEF names
  <2> QED BY <1>12, <1>13, <2>1 DEF CollectTitles, WordsOf
<1>15. CollectTitles(items, aliases, p) \subseteq names
  <2>1. NormOf(items[p].original) \subseteq NormOf(row.original)
    BY <1>1 DEF NormOf
  <2>2. NormOf(items[p].title) \subseteq {Norm[row.title]}
    BY <1>1 DEF NormOf
  <2> QED BY <2>1, <2>2 DEF CollectTitles, own, WordsOf
<1>16. NoText \notin CollectTitles(items, aliases, p) \cup CollectTitles(items, aliases, d)
  BY TitlesAreTitles, TextAssumption
<1>17. CollectTitles(items, aliases, p) \cup CollectTitles(items, aliases, d) \subseteq names \ {NoText}
  <2> HIDE DEF names
  <2> QED BY <1>14, <1>15, <1>16
<1> QED BY <1>17 DEF row, W, own, WordsOf

(* The plan of a merge keeps its promise. *)
LEMMA MergePlanHolds ==
    ASSUME Tables, IsFiniteSet(aliases), NEW r, MergePlan(r) # NoPlan
    PROVE  PlanTyped(MergePlan(r)) /\ Promise(MergePlan(r), items, aliases, relations)
<1> DEFINE p == r.primary
           d == r.duplicate
           plan == MergePlan(r)
           now == MergeRelations(p, d).now
           W == MergedWords(p, d)
           row == MergedRow(p, d)
           Due == RelationsFor(relations, d)
<1>1. p # d /\ p \in Live(items) /\ d \in Live(items) /\ plan = MergeWith(p, d, MergeRelations(p, d))
  BY DEF MergePlan, MergeAllowed
<1> HIDE DEF plan, p, d
<1>2. /\ plan.op = "merge" /\ plan.item = p /\ plan.gone = d /\ plan.new = NoItem
      /\ plan.put = Changed(items[p], row) /\ plan.words = RowsFor(p, W)
      /\ plan.link = {} /\ plan.goneWords = WordsOf(d)
  BY <1>1 DEF MergeWith, NoPlan
<1>3. Readable /\ p \in Ids /\ d \in Ids
  BY <1>1 DEF Tables, Live
<1>4. /\ \A q \in Due : ~Drops(q, p, d) => /\ Updated(plan, q) = Redirected(q, p, d)
                                           /\ q.id \notin plan.relDrop
      /\ \A q \in Kept(d) : /\ Updated(plan, q) = now[q.id] /\ Grown(q, now[q.id])
                            /\ q.id \notin plan.relDrop
      /\ \A n \in DOMAIN plan.relPut : SomeOfRelation(plan.relPut[n])
  BY <1>1, <1>3, MergeUpdates
<1>5. /\ plan.relDrop = {q.id : q \in {x \in Due : Drops(x, p, d)}}
      /\ \A q \in Due :
           LET m == Redirected(q, p, d)
           IN Drops(q, p, d) /\ m.source # m.target => \E e \in Kept(d) : Covers(now[e.id], m)
  BY <1>1, <1>3, MergeIsDone, MergeOfRelations DEF MergeDone
<1>6. Due \subseteq relations /\ Kept(d) \subseteq relations /\ Kept(d) \cup Due = relations
      /\ relations \subseteq RelationRow
  BY DEF RelationsFor, Kept, Tables
<1>7. items[p] \in ItemRow /\ items[d] \in ItemRow
  BY <1>1, <1>3, LiveRows
<1>8. row \in ItemRow /\ row.ext = MergeDicts(items[p].ext, items[d].ext)
  BY <1>1, <1>3, MergedRowIs
<1>9. PutRow(plan, items[p]) = row /\ SomeOfItem(plan.put)
  <2> DEFINE old == items[p]
  <2> HIDE DEF row, old
  <2>1. /\ Over(Changed(old, row), old) = row /\ SomeOfItem(Changed(old, row))
        /\ DOMAIN Changed(old, row) = {} => old = row
    BY <1>7, <1>8, ChangedItem DEF old
  <2> QED BY <1>2, <2>1 DEF PutRow, old
<1>10. /\ IsFiniteSet(W)
       /\ \A w \in W : /\ w = [title |-> w.title, lang |-> w.lang]
                       /\ w.title \in Titles /\ w.lang \in Langs \cup {NoLang}
       /\ IsFiniteSet(RowsFor(p, W))
  BY <1>1, <1>3, MergeAddsWords
<1>11. \A w \in plan.words : /\ HasFields(w, {"item", "title", "lang"}) /\ w.item = p
                             /\ w.title \in Titles /\ w.lang \in Langs \cup {NoLang}
  <2> HIDE DEF W
  <2>1. ASSUME NEW w \in plan.words
        PROVE  /\ HasFields(w, {"item", "title", "lang"}) /\ w.item = p
               /\ w.title \in Titles /\ w.lang \in Langs \cup {NoLang}
    <3>1. PICK v \in W : w = [item |-> p, title |-> v.title, lang |-> v.lang]
      BY <1>2 DEF RowsFor
    <3> QED BY <1>10, <3>1 DEF HasFields
  <2> QED BY <2>1
<1> HIDE DEF Due, now, row
<1>12. PlanTyped(plan)
  <2>1. IsFiniteSet(plan.words)
    BY <1>2, <1>10
  <2> HIDE DEF W
  <2> QED BY <1>2, <1>3, <1>4, <1>9, <1>11, <2>1 DEF PlanTyped
<1>13. LeavesNoneDangling(plan, items, aliases, relations)
  <2>1. \A w \in plan.words : w.item \in Live(items) \ {plan.gone}
    BY <1>1, <1>2, <1>11
  <2>2. \A a \in aliases : a.item = plan.gone => a \in plan.goneWords
    BY <1>2 DEF WordsOf
  <2>3. ASSUME NEW q \in relations, q.id \notin plan.relDrop, Fine(q, items, 0)
        PROVE  Fine(Updated(plan, q), items, d)
    <3>1. q.source # q.target /\ q.source \in Live(items) /\ q.target \in Live(items)
      BY <2>3 DEF Fine
    <3>2. CASE q \in Due
      <4> DEFINE m == Redirected(q, p, d)
      <4>1. ~Drops(q, p, d)
        BY <1>5, <2>3, <3>2
      <4>2. m.source # m.target
        BY <4>1 DEF Drops
      <4>3. /\ m.source = (IF q.source = d THEN p ELSE q.source)
            /\ m.target = (IF q.target = d THEN p ELSE q.target)
        BY <1>3, <1>6, RedirectedIs
      <4>4. Updated(plan, q) = m
        BY <1>4, <3>2, <4>1
      <4> HIDE DEF m
      <4> QED BY <1>1, <3>1, <4>2, <4>3, <4>4 DEF Fine
    <3>3. CASE q \in Kept(d)
      <4>1. Updated(plan, q) = now[q.id] /\ KeyOf(now[q.id]) = KeyOf(q)
        BY <1>4, <3>3 DEF Grown, Covers
      <4>2. Updated(plan, q).source = q.source /\ Updated(plan, q).target = q.target
        <5> DEFINE u == Updated(plan, q)
        <5>1. KeyOf(u) = KeyOf(q)
          BY <4>1
        <5> HIDE DEF u
        <5>2. u.source = q.source /\ u.target = q.target
          BY <5>1, SameKey
        <5> QED BY <5>2 DEF u
      <4>3. q.source # d /\ q.target # d
        BY <3>3 DEF Kept, RelationsFor
      <4> QED BY <3>1, <4>2, <4>3 DEF Fine
    <3> QED BY <1>6, <3>2, <3>3
  <2> QED BY <1>2, <2>1, <2>2, <2>3 DEF LeavesNoneDangling
<1>14. MergePromise(plan, items, aliases, relations)
  <2>1. CollectTitles(items, aliases, p) \cup CollectTitles(items, aliases, d) \subseteq
          {Norm[row.title]} \cup NormOf(row.original)
            \cup {Norm[a.title] : a \in {b \in aliases : b.item = p}}
            \cup {Norm[w.title] : w \in {v \in plan.words : v.item = p}}
    <3>1. CollectTitles(items, aliases, p) \cup CollectTitles(items, aliases, d) \subseteq
            {Norm[row.title]} \cup NormOf(row.original)
              \cup {Norm[a.title] : a \in {b \in aliases : b.item = p}}
              \cup {Norm[w.title] : w \in W}
      BY <1>1, <1>3, MergeKeepsNames DEF row
    <3> HIDE DEF W
    <3>2. ASSUME NEW w \in W PROVE \E v \in {u \in plan.words : u.item = p} : v.title = w.title
      <4> DEFINE v == [item |-> p, title |-> w.title, lang |-> w.lang]
      <4>1. v \in plan.words /\ v.item = p /\ v.title = w.title
        BY <1>2 DEF RowsFor
      <4> HIDE DEF v
      <4> QED BY <4>1
    <3>3. {Norm[w.title] : w \in W} \subseteq {Norm[v.title] : v \in {u \in plan.words : u.item = p}}
      BY <3>2
    <3> QED BY <3>1, <3>3
  <2>2. \A k \in Keys : row.ext[k] = IF items[p].ext[k] # NoValue THEN items[p].ext[k] ELSE items[d].ext[k]
    BY <1>8 DEF MergeDicts
  <2>3. \A a \in plan.goneWords : a.item = d
    BY <1>2 DEF WordsOf
  <2>4. ASSUME NEW q \in relations, d \notin {q.source, q.target}
        PROVE  q.id \notin plan.relDrop /\ KeyOf(Updated(plan, q)) = KeyOf(q)
    <3>1. q \in Kept(d)
      BY <2>4 DEF Kept, RelationsFor
    <3> QED BY <1>4, <3>1 DEF Grown, Covers
  <2>5. ASSUME NEW q \in relations, d \in {q.source, q.target}, NEW m, m = Redirected(q, p, d),
               m.source # m.target
        PROVE  \E e \in relations : e.id \notin plan.relDrop /\ Covers(Updated(plan, e), m)
    <3>1. q \in Due
      BY <2>5 DEF Due, RelationsFor
    <3>2. CASE Drops(q, p, d)
      <4>1. PICK e \in Kept(d) : Covers(now[e.id], m)
        BY <1>5, <2>5, <3>1, <3>2
      <4> QED BY <1>4, <1>6, <4>1
    <3>3. CASE ~Drops(q, p, d)
      <4>1. m \in RelationRow
        BY <1>3, <1>6, <2>5, RedirectedIs
      <4>2. Covers(m, m)
        BY <4>1, CoversItself
      <4> QED BY <1>4, <2>5, <3>1, <3>3, <4>2
    <3> QED BY <3>2, <3>3
  <2> QED BY <1>1, <1>2, <1>9, <2>1, <2>2, <2>3, <2>4, <2>5 DEF MergePromise
<1> QED BY <1>2, <1>12, <1>13, <1>14 DEF Promise, plan

(* There are finitely many matches. *)
LEMMA MatchesAreFinite ==
    ASSUME NEW req, NEW limit
    PROVE  IsFiniteSet(Compared(req)) /\ IsFiniteSet(FindMatches(items, aliases, req, limit))
<1> DEFINE match == [i \in Candidates(items, aliases, req) |-> CompareItem(items, aliases, i, req)]
           S == {j \in DOMAIN match : match[j] # NoMatch}
           f == [i \in S |-> [item |-> i, score |-> match[i].score, type |-> match[i].type]]
           T == {[item |-> i, score |-> match[i].score, type |-> match[i].type] : i \in S}
<1>1. MaxItem \in Nat /\ S \subseteq 1 .. MaxItem
  BY MaxItemAssumption, CandidatesAreLive DEF Live, Ids
<1>2. Compared(req) = T
  BY DEF Compared, Found
<1> HIDE DEF match
<1>3. IsFiniteSet(S)
  <2> HIDE DEF S
  <2>1. S \in SUBSET Nat /\ \A x \in S : x <= MaxItem
    BY <1>1
  <2> QED BY <1>1, <2>1, FS_BoundedSetOfNaturals
<1> HIDE DEF S
<1>4. f = [x \in S |-> f[x]] /\ T = {f[x] : x \in S}
  OBVIOUS
<1> HIDE DEF f, T
<1>5. IsFiniteSet(Compared(req))
  BY <1>2, <1>3, <1>4, FiniteImage
<1> QED BY <1>5, MatchesAreCompared, FS_Subset

(* The best of the matches stays, whatever the limit. *)
LEMMA BestStays ==
    ASSUME Readable, NEW req, MatchRequest(req), NEW limit \in Nat \ {0},
           Compared(req) # {}, NormOf(req.title) # {}
    PROVE  \E m \in FindMatches(items, aliases, req, limit) :
              \A n \in Compared(req) : m.score >= n.score
<1> DEFINE M == Compared(req)
           best == Best(M)
           before == {y \in M : <<y, best>> \in ByScore(M)}
<1>1. \A m \in M : m.score \in 0 .. 1000 /\ m.item \in 1 .. MaxItem
  BY ComparedAre
<1>2. Scored(M)
  <2> HIDE DEF M
  <2>1. M # {}
    BY DEF M
  <2> QED BY <1>1, <2>1 DEF Scored
<1> HIDE DEF M
<1>3. /\ best \in M
      /\ \A y \in M : best.score > y.score \/ (best.score = y.score /\ best.item <= y.item)
  BY <1>2, BestOfMatches
<1> HIDE DEF best
<1>4. before = {}
  <2>1. ASSUME NEW y \in M, <<y, best>> \in ByScore(M) PROVE FALSE
    <3>1. y.score > best.score \/ (y.score = best.score /\ y.item < best.item)
      BY <2>1 DEF ByScore
    <3>2. best.score > y.score \/ (best.score = y.score /\ best.item <= y.item)
      BY <1>3
    <3>3. PICK a, b, c, e : a = y.score /\ b = best.score /\ c = y.item /\ e = best.item
      OBVIOUS
    <3>4. a \in 0 .. 1000 /\ c \in 1 .. MaxItem
      BY <1>1, <3>3
    <3>5. b \in 0 .. 1000 /\ e \in 1 .. MaxItem
      BY <1>1, <1>3, <3>3
    <3>6. a \in Int /\ b \in Int /\ c \in Int /\ e \in Int
      BY <3>4, <3>5
    <3>7. (a > b \/ (a = b /\ c < e)) /\ (b > a \/ (b = a /\ e <= c))
      BY <3>1, <3>2, <3>3
    <3> QED BY <3>6, <3>7
  <2> QED BY <2>1
<1>5. best \in FirstOf(limit, M, ByScore(M))
  <2>1. Cardinality(before) = 0
    BY <1>4, FS_EmptySet
  <2>2. Cardinality(before) < limit
    BY <2>1
  <2> QED BY <1>3, <2>2, FirstOfIs
<1>6. FindMatches(items, aliases, req, limit) = FirstOf(limit, M, ByScore(M))
  BY DEF FindMatches, Compared, M
<1>7. \A n \in M : best.score >= n.score
  <2>1. ASSUME NEW n \in M PROVE best.score >= n.score
    <3>1. PICK a, b : a = n.score /\ b = best.score
      OBVIOUS
    <3>2. a \in 0 .. 1000 /\ b \in 0 .. 1000
      BY <1>1, <1>3, <3>1
    <3>3. b > a \/ b = a
      BY <1>3, <3>1
    <3>4. b >= a
      BY <3>2, <3>3
    <3> QED BY <3>1, <3>4
  <2> QED BY <2>1
<1> QED BY <1>5, <1>6, <1>7 DEF M

(* An import that creates an entry found none of its kind and year among those *)
(* its title finds that goes by its title, or the limit cut it off.            *)
LEMMA CreatedIsNew ==
    ASSUME Readable, NEW r, MatchRequest(r), NEW limit \in Nat \ {0},
           DecideMatch(FindMatches(items, aliases, r, limit)).status = "create",
           NEW j \in Hits(items, aliases, r.title), KnownAs(items, aliases, j, r)
    PROVE  CutOff(items, aliases, j, r)
<1> SUFFICES ASSUME ~CutOff(items, aliases, j, r)
             PROVE  FALSE
  OBVIOUS
<1> DEFINE M == FindMatches(items, aliases, r, limit)
           C == Candidates(items, aliases, r)
           x == CompareItem(items, aliases, j, r)
<1>0. /\ items[j].kind = r.kind /\ items[j].year = r.year /\ items[j].year # NoYear
      /\ Norm[r.title] \in CollectTitles(items, aliases, j)
  BY DEF KnownAs
<1>1. j \in C
  <2> DEFINE named == Named(items, aliases, r)
             before == {k \in named : <<k, j>> \in ByTitle(items)}
  <2>1. j \in Live(items)
    BY DEF Hits
  <2>2. j \in named
    BY <1>0, <2>1 DEF Named, Eligible
  <2>3. Cardinality(before) < MaxCandidates
    <3>0. \A y \in named : y \in Live(items)
      BY DEF Named, Eligible
    <3> HIDE DEF named
    <3>1. \A y \in before : y \in 1 .. MaxItem
      BY <3>0 DEF Live, Ids
    <3> HIDE DEF before
    <3>2. before \in SUBSET Nat /\ MaxItem \in Nat /\ \A y \in before : y <= MaxItem
      BY <3>1, MaxItemAssumption
    <3>3. IsFiniteSet(before)
      BY <3>2, FS_BoundedSetOfNaturals
    <3>4. Cardinality(before) \in Nat /\ MaxCandidates \in Nat
      BY <3>3, FS_CardinalityType, LimitAssumption
    <3>5. ~(Cardinality(before) >= MaxCandidates)
      BY DEF CutOff, before, named
    <3> QED BY <3>4, <3>5
  <2>4. j \in FirstOf(MaxCandidates, named, ByTitle(items))
    <3> HIDE DEF named
    <3> QED BY <2>2, <2>3, FirstOfIs
  <2>5. C = FirstOf(MaxCandidates, named, ByTitle(items))
    BY <2>2 DEF Candidates
  <2> HIDE DEF C, named
  <2> QED BY <2>4, <2>5
<1>2. x.score \in {1000, 990}
  <2> DEFINE sameId == \E k \in Keys : /\ NormExt(r.ext)[k] # NoValue
                                        /\ NormExt(items[j].ext)[k] = NormExt(r.ext)[k]
             exact == [score |-> 990, type |-> IF Norm[items[j].title] = Norm[r.title]
                                               THEN "exact_title_year" ELSE "exact_alias_year"]
             id == [score |-> 1000, type |-> "external_id"]
  <2>1. x = IF sameId THEN id ELSE exact
    <3>1. r.kind \in {items[j].kind, NoText} /\ r.year # NoYear /\ r.year = items[j].year
      BY <1>0
    <3> HIDE DEF exact
    <3>2. CompareItem(items, aliases, j, r) = IF sameId THEN id ELSE exact
      BY <1>0, <3>1 DEF CompareItem, exact
    <3> QED BY <3>2
  <2>2. exact.score = 990 /\ id.score = 1000
    OBVIOUS
  <2> HIDE DEF x, exact, sameId, id
  <2> QED BY <2>1, <2>2
<1> DEFINE m == [item |-> j, score |-> x.score, type |-> x.type]
<1>3. m \in Compared(r)
  <2> DEFINE match == [i \in C |-> CompareItem(items, aliases, i, r)]
  <2>1. j \in DOMAIN match /\ match[j] = x
    BY <1>1
  <2>2. x # NoMatch
    BY <1>2 DEF NoMatch
  <2>3. Compared(r) = Found(match)
    BY DEF Compared
  <2> HIDE DEF match, x, M
  <2> QED BY <2>1, <2>2, <2>3 DEF Found
<1>4. NormOf(r.title) # {}
  <2>1. j \in Live(items)
    BY DEF Hits
  <2>2. Norm[r.title] \in Titles
    BY <1>0, <2>1, TitlesAreTitles
  <2>3. Norm[r.title] # NoText /\ r.title # NoText
    BY <2>2, TextAssumption DEF MatchRequest
  <2> QED BY <2>3 DEF NormOf
<1>5. PICK best \in M : \A n \in Compared(r) : best.score >= n.score
  BY <1>3, <1>4, BestStays
<1> DEFINE exact == {n \in {k \in M : k.score >= 900} : n.type \in ExactTypes}
<1>6. best \in exact
  <2>1. best \in Compared(r)
    BY <1>5, MatchesAreCompared
  <2>2. best.score \in 0 .. 1000 /\ (best.score > 970 => best.type \in ExactTypes)
    BY <2>1, ComparedAre
  <2>3. m.score = x.score
    OBVIOUS
  <2> HIDE DEF x, m
  <2>4. m.score \in {1000, 990} /\ best.score >= m.score
    BY <1>2, <1>3, <1>5, <2>3
  <2>5. best.score >= 900 /\ best.type \in ExactTypes
    <3>1. PICK b, n : b = best.score /\ n = m.score
      OBVIOUS
    <3>2. b \in 0 .. 1000 /\ n \in {1000, 990} /\ b >= n
      BY <2>2, <2>4, <3>1
    <3>3. b >= 900 /\ b > 970
      BY <3>2
    <3> QED BY <2>2, <3>1, <3>3
  <2> QED BY <1>5, <2>5
<1>7. Cardinality(exact) = 1 \/ Cardinality(exact) > 1
  <2>1. exact \in SUBSET M /\ IsFiniteSet(M)
    BY MatchesAreFinite
  <2> HIDE DEF exact, M, m
  <2>2. IsFiniteSet(exact)
    BY <2>1, FS_Subset
  <2>3. Cardinality(exact) \in Nat /\ Cardinality(exact) # 0
    BY <1>6, <2>2, FS_CardinalityType, FS_EmptySet
  <2> QED BY <2>3
<1>8. M # {}
  BY <1>5
<1>9. DecideMatch(M).status # "create"
  <2> HIDE DEF M
  <2> QED BY <1>7, <1>8 DEF DecideMatch
<1> QED BY <1>9

(* The alias rows an import adds are finitely many, of the entry. *)
LEMMA ImportedWordsAre ==
    ASSUME NEW r \in Requests, r.op = "import", NEW i, NEW taken, NEW existing
    PROVE  LET words == RowsFor(i, NewWords(Norm, taken, existing, r.aliases))
           IN /\ IsFiniteSet(words)
              /\ \A w \in words : /\ HasFields(w, {"item", "title", "lang"}) /\ w.item = i
                                  /\ w.title \in Titles /\ w.lang \in Langs \cup {NoLang}
<1> DEFINE W == NewWords(Norm, taken, existing, r.aliases)
           f == [w \in W |-> [item |-> i, title |-> w.title, lang |-> w.lang]]
<1>1. IsFiniteSet(r.aliases) /\ \A w \in r.aliases : w.title \in Titles /\ w.lang \in Langs \cup {NoLang}
  BY RequestsAssumption
<1>2. W \subseteq r.aliases /\ IsFiniteSet(W)
  BY <1>1, NewWordsAre
<1> HIDE DEF W
<1>3. f = [x \in W |-> f[x]] /\ RowsFor(i, W) = {f[x] : x \in W}
  BY DEF RowsFor
<1>4. \A w \in RowsFor(i, W) : /\ HasFields(w, {"item", "title", "lang"}) /\ w.item = i
                               /\ w.title \in Titles /\ w.lang \in Langs \cup {NoLang}
  <2>1. ASSUME NEW w \in RowsFor(i, W)
        PROVE  /\ HasFields(w, {"item", "title", "lang"}) /\ w.item = i
               /\ w.title \in Titles /\ w.lang \in Langs \cup {NoLang}
    <3>1. PICK v \in W : w = [item |-> i, title |-> v.title, lang |-> v.lang]
      BY <2>1 DEF RowsFor
    <3>2. v.title \in Titles /\ v.lang \in Langs \cup {NoLang}
      BY <1>1, <1>2
    <3> QED BY <3>1, <3>2 DEF HasFields
  <2> QED BY <2>1
<1> HIDE DEF f
<1>5. IsFiniteSet(RowsFor(i, W))
  BY <1>2, <1>3, FiniteImage
<1> QED BY <1>4, <1>5 DEF W

(* A field of an entry an import updates. *)
LEMMA NewFieldIs ==
    ASSUME NEW old, NEW incoming, NEW empty, NEW overwrite \in BOOLEAN
    PROVE  /\ NewField(old, incoming, empty, overwrite) \in {old, incoming}
           /\ NewField(old, incoming, empty, overwrite) # old => incoming # empty
           /\ ~overwrite /\ old # empty => NewField(old, incoming, empty, overwrite) = old
  BY DEF NewField

\* External ids, and those an import leaves: spellings and values are normal.
ExtRow == [Keys -> Values \cup {NoValue}]
NormalExt(e) == e \in ExtRow /\ \A k \in Keys : e[k] # NoValue => NormKey[k] = k /\ NormValue[e[k]] = e[k]

(* What normalize_external_ids returns is normal. *)
LEMMA NormExtIs ==
    ASSUME NEW ext \in ExtRow
    PROVE  NormalExt(NormExt(ext))
<1> DEFINE spelt(k) == {q \in Keys : NormKey[q] = k /\ ext[q] # NoValue}
           e == NormExt(ext)
<1>1. e = [k \in Keys |-> IF spelt(k) = {} THEN NoValue ELSE NormValue[ext[LastKey[spelt(k)]]]]
  BY DEF NormExt
<1> HIDE DEF e
<1>2. ASSUME NEW k \in Keys, spelt(k) # {}
      PROVE  e[k] \in Values /\ NormKey[k] = k /\ NormValue[e[k]] = e[k]
  <2>1. PICK q : q = LastKey[spelt(k)]
    OBVIOUS
  <2>2. q \in spelt(k)
    <3>1. spelt(k) \in (SUBSET Keys) \ {{}}
      BY <1>2
    <3> HIDE DEF spelt
    <3> QED BY <2>1, <3>1, KeyAssumption
  <2>3. q \in Keys /\ NormKey[q] = k /\ ext[q] \in Values
    BY <2>2 DEF ExtRow
  <2>4. e[k] = NormValue[ext[q]]
    <3> HIDE DEF spelt
    <3> QED BY <1>1, <1>2, <2>1
  <2> QED BY <2>3, <2>4, KeyAssumption
<1>3. ASSUME NEW k \in Keys, spelt(k) = {} PROVE e[k] = NoValue
  <2> HIDE DEF spelt
  <2> QED BY <1>1, <1>3
<1>4. e = [k \in Keys |-> e[k]]
  <2> HIDE DEF spelt
  <2> QED BY <1>1
<1> HIDE DEF spelt
<1>5. e \in ExtRow
  BY <1>2, <1>3, <1>4 DEF ExtRow
<1>6. \A k \in Keys : e[k] # NoValue => NormKey[k] = k /\ NormValue[e[k]] = e[k]
  BY <1>2, <1>3
<1> QED BY <1>5, <1>6 DEF NormalExt, e

(* It leaves what is normal as it is. *)
LEMMA NormalStays ==
    ASSUME NEW e, NormalExt(e)
    PROVE  NormExt(e) = e
<1> DEFINE spelt(k) == {q \in Keys : NormKey[q] = k /\ e[q] # NoValue}
<1>1. /\ e \in ExtRow
      /\ \A k \in Keys : e[k] # NoValue => NormKey[k] = k /\ NormValue[e[k]] = e[k]
  BY DEF NormalExt
<1>2. ASSUME NEW k \in Keys
      PROVE  (IF spelt(k) = {} THEN NoValue ELSE NormValue[e[LastKey[spelt(k)]]]) = e[k]
  <2>1. CASE e[k] = NoValue
    <3>1. spelt(k) = {}
      BY <1>1, <2>1
    <3> QED BY <2>1, <3>1
  <2>2. CASE e[k] # NoValue
    <3>1. spelt(k) = {k}
      BY <1>1, <2>2
    <3>2. LastKey[{k}] = k
      <4>1. {k} \in (SUBSET Keys) \ {{}}
        OBVIOUS
      <4> QED BY <4>1, KeyAssumption
    <3>3. NormValue[e[k]] = e[k]
      BY <1>1, <2>2
    <3> HIDE DEF spelt
    <3> QED BY <3>1, <3>2, <3>3
  <2> QED BY <2>1, <2>2
<1>3. NormExt(e) = [k \in Keys |-> IF spelt(k) = {} THEN NoValue ELSE NormValue[e[LastKey[spelt(k)]]]]
  BY DEF NormExt
<1> HIDE DEF spelt
<1>4. NormExt(e) = [k \in Keys |-> e[k]]
  BY <1>2, <1>3
<1> QED BY <1>1, <1>4 DEF ExtRow

(* The external ids an import leaves: without overwrite, no id the matcher could *)
(* read is lost or changed.                                                      *)
LEMMA NewExtIs ==
    ASSUME NEW current \in ExtRow, NEW incoming \in ExtRow, NEW overwrite \in BOOLEAN
    PROVE  LET new == NewExt(current, incoming, overwrite)
           IN /\ new \in ExtRow
              /\ ~overwrite => \A k \in Keys : NormExt(current)[k] # NoValue =>
                                 NormExt(new)[k] = NormExt(current)[k]
<1> DEFINE a == NormExt(current)
           b == NormExt(incoming)
           merged == IF overwrite THEN MergeDicts(b, a) ELSE MergeDicts(a, b)
           new == NewExt(current, incoming, overwrite)
<1>1. NormalExt(a) /\ NormalExt(b)
  BY NormExtIs
<1>2. new = IF merged = a THEN current ELSE merged
  BY DEF NewExt
<1> HIDE DEF a, b, new
<1>3. NormalExt(merged)
  <2>1. \A c, d : NormalExt(c) /\ NormalExt(d) => NormalExt(MergeDicts(c, d))
    BY DEF NormalExt, ExtRow, MergeDicts
  <2> QED BY <1>1, <2>1
<1>4. ~overwrite => \A k \in Keys : a[k] # NoValue => merged[k] = a[k]
  BY DEF MergeDicts
<1> HIDE DEF merged
<1>5. NormExt(merged) = merged
  BY <1>3, NormalStays
<1>6. CASE merged = a
  BY <1>2, <1>6 DEF a, new
<1>7. CASE merged # a
  <2>1. new = merged /\ new \in ExtRow
    BY <1>2, <1>3, <1>7 DEF NormalExt
  <2> QED BY <1>4, <1>5, <2>1 DEF a, new
<1> QED BY <1>6, <1>7

(* The plan of an item import keeps its promise. *)
LEMMA ImportPlanHolds ==
    ASSUME Tables, NEW r \in Requests, r.op = "import", ImportPlan(r) # NoPlan
    PROVE  PlanTyped(ImportPlan(r)) /\ Promise(ImportPlan(r), items, aliases, relations)
<1> DEFINE decision == DecideMatch(FindMatches(items, aliases, r, ImportMatches))
           i == decision.item
           created == [title |-> r.title, original |-> r.original, kind |-> r.kind,
                       year |-> r.year, ext |-> NormExt(r.ext)]
           updated == [title    |-> NewField(items[i].title, r.title, NoText, r.overwrite),
                       original |-> NewField(items[i].original, r.original, NoText, r.overwrite),
                       kind     |-> NewField(items[i].kind, r.kind, NoText, r.overwrite),
                       year     |-> NewField(items[i].year, r.year, NoYear, r.overwrite),
                       ext      |-> NewExt(items[i].ext, r.ext, r.overwrite)]
           words(row, id, existing) ==
               RowsFor(id, NewWords(Norm, NormOf(row.title) \cup NormOf(row.original),
                                    existing, r.aliases))
           plan == [NoPlan EXCEPT !.op = "import", !.overwrite = r.overwrite]
           p == ImportPlan(r)
<1> DEFINE asked == [title |-> r.title, original |-> r.original, kind |-> r.kind,
                     year |-> r.year, ext |-> r.ext]
<1>0. asked \in ItemRow /\ r.overwrite \in BOOLEAN
  BY RequestsAssumption
<1>2. /\ r.title \in Titles /\ r.original \in Titles \cup {NoText} /\ r.kind \in Kinds
      /\ r.year \in Years \cup {NoYear} /\ r.ext \in ExtRow
  BY <1>0 DEF ItemRow, ExtRow
<1>1. created \in ItemRow /\ r.overwrite \in BOOLEAN
  <2>1. NormExt(r.ext) \in [Keys -> Values \cup {NoValue}]
    BY <1>2, NormExtIs DEF NormalExt, ExtRow
  <2> QED BY <1>0, <1>2, <2>1 DEF ItemRow
<1>3. MatchRequest(r) /\ Readable
  BY <1>2 DEF MatchRequest, Tables
<1>4. /\ decision.status \in {"create", "update", "conflict"}
      /\ decision.status = "update" => i \in Live(items)
  BY <1>3, DecisionIs
<1>5. p = CASE decision.status = "conflict" -> NoPlan
            [] decision.status = "create" ->
                 [plan EXCEPT !.new = created, !.words = words(created, 0, {})]
            [] OTHER -> [plan EXCEPT !.item = i, !.put = Changed(items[i], updated),
                                     !.words = words(updated, i, WordsOf(i))]
  BY DEF ImportPlan, ImportAs
<1>6. \A row, id, existing :
         /\ IsFiniteSet(words(row, id, existing))
         /\ \A w \in words(row, id, existing) :
              /\ HasFields(w, {"item", "title", "lang"}) /\ w.item = id
              /\ w.title \in Titles /\ w.lang \in Langs \cup {NoLang}
  BY ImportedWordsAre
<1> HIDE DEF p, words, updated, created
<1>7. CASE decision.status = "create"
  <2>0. p = [plan EXCEPT !.new = created, !.words = words(created, 0, {})]
    <3> HIDE DEF decision, plan
    <3> QED BY <1>5, <1>7
  <2>1. /\ p.op = "import" /\ p.gone = 0 /\ p.relDrop = {} /\ p.relPut = <<>> /\ p.put = <<>>
        /\ p.new = created /\ p.link = {} /\ p.words = words(created, 0, {}) /\ p.goneWords = {}
    BY <2>0 DEF NoPlan
  <2>2. p.new # NoItem
    BY <1>1, <2>1, NoItemAssumption
  <2>3. IsFiniteSet(p.words) /\ \A w \in p.words : /\ HasFields(w, {"item", "title", "lang"}) /\ w.item = 0
                                                  /\ w.title \in Titles /\ w.lang \in Langs \cup {NoLang}
    BY <1>6, <2>1
  <2>4. PlanTyped(p)
    BY <1>1, <2>1, <2>2, <2>3, NoFields DEF PlanTyped
  <2>5. LeavesNoneDangling(p, items, aliases, relations)
    BY <2>1, <2>2, <2>3, NoFields, NothingGoes
  <2>6. ImportPromise(p, items, aliases)
    <3>1. p.new.title = r.title /\ p.new.original = r.original /\ p.new.kind = r.kind
          /\ p.new.year = r.year
      BY <2>1 DEF created
    <3>2. ASSUME NEW j \in Hits(items, aliases, p.new.title), KnownAs(items, aliases, j, p.new)
          PROVE  CutOff(items, aliases, j, p.new)
      <4>1. KnownAs(items, aliases, j, r) /\ j \in Hits(items, aliases, r.title)
        BY <3>1, <3>2 DEF KnownAs
      <4>2. CutOff(items, aliases, j, r)
        BY <1>3, <1>7, <4>1, CreatedIsNew, LimitAssumption
      <4>3. Named(items, aliases, p.new) = Named(items, aliases, r)
        BY <3>1 DEF Named, Eligible
      <4> QED BY <4>2, <4>3 DEF CutOff
    <3> QED BY <2>1, <3>2, NoFields DEF ImportPromise
  <2> QED BY <2>1, <2>4, <2>5, <2>6 DEF Promise, p
<1>8. CASE decision.status = "update"
  <2>0. p = [plan EXCEPT !.item = i, !.put = Changed(items[i], updated),
                         !.words = words(updated, i, WordsOf(i))]
    <3> HIDE DEF decision, plan
    <3> QED BY <1>5, <1>8
  <2>1. i \in Live(items)
    BY <1>4, <1>8
  <2> HIDE DEF decision
  <2> DEFINE k == decision.item
             old == items[k]
  <2>a. k \in Live(items)
    BY <2>1
  <2>2. /\ p.op = "import" /\ p.gone = 0 /\ p.relDrop = {} /\ p.relPut = <<>> /\ p.item = k
        /\ p.put = Changed(old, updated) /\ p.new = NoItem /\ p.link = {}
        /\ p.words = words(updated, k, WordsOf(k)) /\ p.goneWords = {} /\ p.overwrite = r.overwrite
    BY <2>0 DEF NoPlan
  <2>3. old \in ItemRow /\ k \in Ids
    BY <1>3, <2>1, LiveRows
  <2>4. /\ updated = [title    |-> NewField(old.title, r.title, NoText, r.overwrite),
                      original |-> NewField(old.original, r.original, NoText, r.overwrite),
                      kind     |-> NewField(old.kind, r.kind, NoText, r.overwrite),
                      year     |-> NewField(old.year, r.year, NoYear, r.overwrite),
                      ext      |-> NewExt(old.ext, r.ext, r.overwrite)]
    BY DEF updated
  <2> HIDE DEF old, k
  <2>5. /\ old.title \in Titles /\ old.original \in Titles \cup {NoText} /\ old.kind \in Kinds
        /\ old.year \in Years \cup {NoYear} /\ old.ext \in ExtRow
    BY <2>3, ItemRowIs DEF ExtRow
  <2>6. /\ updated.title \in {old.title, r.title} /\ updated.original \in {old.original, r.original}
        /\ updated.kind \in {old.kind, r.kind} /\ updated.year \in {old.year, r.year}
        /\ updated.ext = NewExt(old.ext, r.ext, r.overwrite)
    BY <1>1, <2>4, NewFieldIs
  <2>7. updated \in ItemRow
    <3>2. updated.ext \in [Keys -> Values \cup {NoValue}]
      BY <1>1, <1>2, <2>5, <2>6, NewExtIs DEF ExtRow
    <3>3. updated = [f \in {"title", "original", "kind", "year", "ext"} |-> updated[f]]
      BY <2>4
    <3> QED BY <1>2, <2>5, <2>6, <3>2, <3>3, ItemRowIs
  <2>8. /\ Over(Changed(old, updated), old) = updated
        /\ SomeOfItem(Changed(old, updated))
    BY <2>3, <2>7, ChangedItem
  <2>9. ASSUME ~r.overwrite PROVE KeepsValues(updated, old)
    <3>1. old.title # NoText /\ old.kind # NoText
      BY <2>5, TextAssumption
    <3>2. /\ updated.title = NewField(old.title, r.title, NoText, r.overwrite)
          /\ updated.original = NewField(old.original, r.original, NoText, r.overwrite)
          /\ updated.kind = NewField(old.kind, r.kind, NoText, r.overwrite)
          /\ updated.year = NewField(old.year, r.year, NoYear, r.overwrite)
          /\ updated.ext = NewExt(old.ext, r.ext, r.overwrite)
      BY <2>4, <2>9
    <3>3. updated.title = old.title /\ updated.kind = old.kind
      BY <1>1, <2>9, <3>1, <3>2, NewFieldIs
    <3>4. /\ old.original # NoText => updated.original = old.original
          /\ old.year # NoYear => updated.year = old.year
      BY <1>1, <2>9, <3>2, NewFieldIs
    <3>5. \A x \in Keys : NormExt(old.ext)[x] # NoValue => NormExt(updated.ext)[x] = NormExt(old.ext)[x]
      <4> DEFINE c == old.ext  n == r.ext  o == r.overwrite
      <4>1. c \in ExtRow /\ n \in ExtRow /\ o \in BOOLEAN /\ ~o /\ updated.ext = NewExt(c, n, o)
        BY <1>1, <1>2, <2>5, <2>9, <3>2
      <4> HIDE DEF c, n, o
      <4>2. \A x \in Keys : NormExt(c)[x] # NoValue => NormExt(NewExt(c, n, o))[x] = NormExt(c)[x]
        BY <4>1, NewExtIs
      <4> QED BY <4>1, <4>2 DEF c
    <3> QED BY <3>3, <3>4, <3>5 DEF KeepsValues
  <2>10. IsFiniteSet(p.words) /\ \A w \in p.words : /\ HasFields(w, {"item", "title", "lang"}) /\ w.item = k
                                                   /\ w.title \in Titles /\ w.lang \in Langs \cup {NoLang}
    BY <1>6, <2>2
  <2>11. PlanTyped(p)
    BY <2>2, <2>3, <2>8, <2>10, NoFields DEF PlanTyped
  <2>12. LeavesNoneDangling(p, items, aliases, relations)
    BY <2>a, <2>2, <2>10, NoFields, NothingGoes
  <2>13. ImportPromise(p, items, aliases)
    <3>1. items[p.item] = old
      BY <2>2 DEF old
    <3> QED BY <2>2, <2>8, <2>9, <3>1, NoFields DEF ImportPromise
  <2> QED BY <2>2, <2>11, <2>12, <2>13 DEF Promise, p
<1>9. decision.status # "conflict"
  <2> HIDE DEF decision, plan
  <2> QED BY <1>5 DEF p
<1> QED BY <1>4, <1>7, <1>8, <1>9

(* Every plan keeps its promise to the tables it was made from. *)
LEMMA PlanOfHolds ==
    ASSUME Tables, IsFiniteSet(aliases), NEW r \in Requests, r.op # "create", PlanOf(r) # NoPlan
    PROVE  PlanTyped(PlanOf(r)) /\ Promise(PlanOf(r), items, aliases, relations)
<1>1. r.op \in {"alias", "link", "import", "import_link", "merge"}
  BY RequestsAssumption
<1>2. CASE r.op = "alias"
  <2>1. PlanOf(r) = AliasPlan(r)
    BY <1>2 DEF PlanOf
  <2>2. AliasPlan(r) # NoPlan
    BY <2>1
  <2>3. PlanTyped(AliasPlan(r)) /\ Promise(AliasPlan(r), items, aliases, relations)
    BY <1>2, <2>2, AliasPlanHolds
  <2> QED BY <2>1, <2>3
<1>3. CASE r.op = "link"
  <2>1. PlanOf(r) = LinkPlan(r)
    BY <1>3 DEF PlanOf
  <2>2. LinkPlan(r) # NoPlan
    BY <2>1
  <2>3. PlanTyped(LinkPlan(r)) /\ Promise(LinkPlan(r), items, aliases, relations)
    BY <1>3, <2>2, LinkPlanHolds
  <2> QED BY <2>1, <2>3
<1>4. CASE r.op = "import"
  <2>1. PlanOf(r) = ImportPlan(r)
    BY <1>4 DEF PlanOf
  <2>2. ImportPlan(r) # NoPlan
    BY <2>1
  <2>3. PlanTyped(ImportPlan(r)) /\ Promise(ImportPlan(r), items, aliases, relations)
    BY <1>4, <2>2, ImportPlanHolds
  <2> QED BY <2>1, <2>3
<1>5. CASE r.op = "import_link"
  <2>1. PlanOf(r) = ImportLinkPlan(r)
    BY <1>5 DEF PlanOf
  <2>2. ImportLinkPlan(r) # NoPlan
    BY <2>1
  <2>3. PlanTyped(ImportLinkPlan(r)) /\ Promise(ImportLinkPlan(r), items, aliases, relations)
    BY <1>5, <2>2, ImportLinkPlanHolds
  <2> QED BY <2>1, <2>3
<1>6. CASE r.op = "merge"
  <2>1. PlanOf(r) = MergePlan(r)
    BY <1>6 DEF PlanOf
  <2>2. MergePlan(r) # NoPlan
    BY <2>1
  <2>3. PlanTyped(MergePlan(r)) /\ Promise(MergePlan(r), items, aliases, relations)
    BY <2>2, MergePlanHolds
  <2> QED BY <2>1, <2>3
<1> QED BY <1>1, <1>2, <1>3, <1>4, <1>5, <1>6

(* No plan is a plan that writes nothing. *)
LEMMA NoPlanIsTyped == PlanTyped(NoPlan)
<1>1. /\ NoPlan.put = <<>> /\ NoPlan.new = NoItem /\ NoPlan.words = {} /\ NoPlan.link = {}
      /\ NoPlan.relPut = <<>>
  BY DEF NoPlan
<1> HIDE DEF NoPlan
<1> QED BY <1>1, NoFields, FS_EmptySet DEF PlanTyped

-----------------------------------------------------------------------------
(* What writing a plan leaves. *)

(* No relation is broken when each has two different ends that exist. *)
LEMMA NothingInvalid ==
    ASSUME NEW I, NEW R
    PROVE  InvalidRelations(I, R) = {} <=> \A r \in R : Fine(r, I, 0)
<1>1. \A i \in Live(I) : i # 0
  BY DEF Live, Ids
<1>2. \A r \in R : Fine(r, I, 0) <=> ~(r.source = r.target \/ {r.source, r.target} \cap Live(I) # {r.source, r.target})
  BY <1>1 DEF Fine
<1> QED BY <1>2 DEF InvalidRelations

(* Writing a plan leaves items, and of those there were all but the one it deletes. *)
LEMMA ItemsWritten ==
    ASSUME Tables, NEW p, PlanTyped(p), ~Stale(p), Fits(p)
    PROVE  /\ ItemsAfter(p) \in [Ids -> ItemRow \cup {NoItem}]
           /\ Live(items) \ {p.gone} \subseteq Live(ItemsAfter(p))
           /\ p.new # NoItem => NextItem \in Live(ItemsAfter(p))
<1>1. items \in [Ids -> ItemRow \cup {NoItem}]
  BY DEF Tables, Readable
<1>2. ASSUME NEW i \in Ids, i # p.gone, ~(p.new # NoItem /\ i = NextItem), i = p.item, DOMAIN p.put # {}
      PROVE  Over(p.put, items[i]) \in ItemRow
  <2>1. items[i] \in ItemRow
    BY <1>1, <1>2 DEF Stale, Live
  <2> QED BY <2>1, OverItem DEF PlanTyped
<1>3. ASSUME NEW i \in Ids
      PROVE  /\ ItemsAfter(p)[i] \in ItemRow \cup {NoItem}
             /\ items[i] # NoItem /\ i # p.gone => ItemsAfter(p)[i] # NoItem
  <2>1. ItemsAfter(p)[i] = IF i = p.gone THEN NoItem
                           ELSE IF p.new # NoItem /\ i = NextItem THEN p.new
                           ELSE IF i = p.item /\ DOMAIN p.put # {} THEN Over(p.put, items[i])
                           ELSE items[i]
    BY DEF ItemsAfter
  <2>2. CASE i = p.gone
    BY <2>1, <2>2
  <2>3. CASE i # p.gone /\ p.new # NoItem /\ i = NextItem
    BY <2>1, <2>3 DEF PlanTyped
  <2>4. CASE i # p.gone /\ ~(p.new # NoItem /\ i = NextItem) /\ i = p.item /\ DOMAIN p.put # {}
    BY <1>2, <2>1, <2>4, NoItemAssumption
  <2>5. CASE i # p.gone /\ ~(p.new # NoItem /\ i = NextItem) /\ ~(i = p.item /\ DOMAIN p.put # {})
    BY <1>1, <2>1, <2>5
  <2> QED BY <2>2, <2>3, <2>4, <2>5
<1>4. ItemsAfter(p) = [i \in Ids |-> ItemsAfter(p)[i]]
  BY DEF ItemsAfter
<1>5. ItemsAfter(p) \in [Ids -> ItemRow \cup {NoItem}]
  BY <1>3, <1>4
<1>6. Live(items) \ {p.gone} \subseteq Live(ItemsAfter(p))
  BY <1>3 DEF Live
<1>7. ASSUME p.new # NoItem PROVE NextItem \in Live(ItemsAfter(p))
  <2>1. NextItem \in Ids
    BY <1>7, NextItemIsNew DEF Fits
  <2>2. NextItem # p.gone
    BY <1>7, <2>1 DEF PlanTyped, Ids
  <2>3. ItemsAfter(p)[NextItem] = p.new
    <3> DEFINE n == NextItem
    <3>1. n \in Ids /\ n # p.gone /\ n = NextItem
      BY <2>1, <2>2
    <3> HIDE DEF n
    <3>2. ItemsAfter(p)[n] = p.new
      BY <1>7, <3>1 DEF ItemsAfter
    <3> QED BY <3>1, <3>2
  <2> QED BY <1>7, <2>1, <2>3 DEF Live
<1> QED BY <1>5, <1>6, <1>7

(* The aliases a plan writes are those it names, the new entry's under its id. *)
LEMMA WordsWrittenAre ==
    ASSUME Tables, NEW p, PlanTyped(p), Fits(p)
    PROVE  /\ WordsWritten(p) \subseteq AliasRow /\ IsFiniteSet(WordsWritten(p))
           /\ \A v \in WordsWritten(p) : \E w \in p.words :
                v.item = (IF w.item = 0 THEN NextItem ELSE w.item) /\ v.title = w.title
           /\ \A w \in p.words : w.item # 0 => w \in WordsWritten(p)
<1> DEFINE f == [w \in p.words |-> [w EXCEPT !.item = IF @ = 0 THEN NextItem ELSE @]]
<1>1. f = [w \in p.words |-> f[w]] /\ WordsWritten(p) = {f[w] : w \in p.words}
  BY DEF WordsWritten
<1>2. IsFiniteSet(p.words)
  BY DEF PlanTyped
<1>3. ASSUME NEW w \in p.words
      PROVE  /\ f[w] \in AliasRow
             /\ f[w].item = (IF w.item = 0 THEN NextItem ELSE w.item) /\ f[w].title = w.title
             /\ w.item # 0 => f[w] = w
  <2> DEFINE v == f[w]
             n == NextItem
  <2>1. v = [w EXCEPT !.item = IF w.item = 0 THEN n ELSE w.item]
    OBVIOUS
  <2>2. /\ HasFields(w, {"item", "title", "lang"}) /\ w.title \in Titles /\ w.lang \in Langs \cup {NoLang}
        /\ w.item \in Ids \/ (w.item = 0 /\ p.new # NoItem)
    BY DEF PlanTyped
  <2>3. w.item = 0 => n \in Ids
    <3>1. \A i \in Ids : i # 0
      BY DEF Ids
    <3> QED BY <2>2, <3>1, NextItemIsNew DEF Fits
  <2> HIDE DEF v, n
  <2>4. w = [x \in {"item", "title", "lang"} |-> w[x]]
    BY <2>2 DEF HasFields
  <2>5. /\ v = [x \in {"item", "title", "lang"} |-> v[x]]
        /\ v.item = (IF w.item = 0 THEN n ELSE w.item) /\ v.title = w.title /\ v.lang = w.lang
    <3>1. DOMAIN w = {"item", "title", "lang"}
      BY <2>4
    <3> QED BY <2>1, <3>1
  <2>6. v.item \in Ids
    BY <2>2, <2>3, <2>5
  <2>7. v \in AliasRow
    BY <2>2, <2>5, <2>6 DEF AliasRow
  <2>8. ASSUME w.item # 0 PROVE v = w
    BY <2>4, <2>5, <2>8
  <2> QED BY <2>5, <2>7, <2>8 DEF v, n
<1> HIDE DEF f
<1>4. IsFiniteSet(WordsWritten(p))
  BY <1>1, <1>2, FiniteImage
<1>5. \A w \in p.words : w.item # 0 => w \in WordsWritten(p)
  BY <1>1, <1>3
<1>6. ASSUME NEW v \in WordsWritten(p)
      PROVE  /\ v \in AliasRow
             /\ \E w \in p.words :
                  v.item = (IF w.item = 0 THEN NextItem ELSE w.item) /\ v.title = w.title
  <2>1. PICK w \in p.words : v = f[w]
    BY <1>1, <1>6
  <2> QED BY <1>3, <2>1
<1> QED BY <1>4, <1>5, <1>6

(* Writing a plan leaves relations: those it keeps, as it updates them, and the new one. *)
LEMMA RelationsWritten ==
    ASSUME Tables, NEW p, PlanTyped(p), Fits(p), ~Refused(p)
    PROVE  /\ RelationsAfter(p) \subseteq RelationRow
           /\ \A r, q \in RelationsAfter(p) : r.id = q.id => r = q
           /\ Unique(RelationsAfter(p))
           /\ \A q \in RelationsAfter(p) :
                \/ \E r \in relations : r.id \notin p.relDrop /\ q = Updated(p, r)
                \/ \E l \in p.link : q.source = l.source /\ q.target = l.target
           /\ \A r \in relations : r.id \notin p.relDrop =>
                Updated(p, r) \in RelationsAfter(p) /\ Updated(p, r).id = r.id
<1> DEFINE stay == {q \in relations : q.id \notin p.relDrop}
           n == NextRelation(relations)
           old == {Updated(p, r) : r \in stay}
           new == {[l EXCEPT !.id = n] : l \in p.link}
<1>1. RelationsAfter(p) = old \cup new
  BY DEF RelationsAfter, Updated
<1>2. relations \subseteq RelationRow /\ \A r, q \in relations : r.id = q.id => r = q
  BY DEF Tables
<1>3. ASSUME NEW r \in relations PROVE Updated(p, r) \in RelationRow /\ Updated(p, r).id = r.id
  <2>1. r \in RelationRow
    BY <1>2
  <2>2. CASE r.id \in DOMAIN p.relPut
    <3> DEFINE u == p.relPut[r.id]
    <3>1. SomeOfRelation(u)
      BY <2>2 DEF PlanTyped
    <3> HIDE DEF u
    <3>2. Over(u, r) \in RelationRow /\ Over(u, r).id = r.id
      BY <2>1, <3>1, OverRelation
    <3> QED BY <2>2, <3>2 DEF Updated, u
  <2>3. CASE r.id \notin DOMAIN p.relPut
    BY <2>1, <2>3 DEF Updated
  <2> QED BY <2>2, <2>3
<1>4. ASSUME NEW l \in p.link
      PROVE  LET q == [l EXCEPT !.id = n]
             IN /\ q \in RelationRow /\ q.id = n /\ q.source = l.source /\ q.target = l.target
                /\ \A r \in relations : r.id # n
  <2> DEFINE F == {"id", "source", "target", "type", "order", "position", "notes"}
             q == [l EXCEPT !.id = n]
  <2>0. n \in RelationIds /\ \A r \in relations : r.id # n
    <3>1. \A r \in relations : r.id \in RelationIds
      BY <1>2, RelationRowIs
    <3>2. NextRelation(relations) <= MaxRelation
      BY <1>4 DEF Fits
    <3> QED BY <3>1, <3>2, NextRelationIsNew
  <2> HIDE DEF n
  <2>1. /\ l = [f \in F |-> l[f]] /\ l.source \in Ids /\ l.target \in Ids /\ l.type \in RelationTypes
        /\ l.order \in RelationTypes \cup {NoOrder}
        /\ l.position \in Nat \cup {NoPosition} /\ l.notes \in SUBSET Notes
    <3>1. l \in RelationRow
      BY DEF PlanTyped
    <3> QED BY <3>1, RelationRowIs
  <2>2. /\ q = [f \in F |-> q[f]] /\ q.id = n /\ q.source = l.source /\ q.target = l.target
        /\ q.type = l.type /\ q.order = l.order /\ q.position = l.position /\ q.notes = l.notes
    <3>1. DOMAIN l = F
      BY <2>1
    <3> QED BY <3>1
  <2> HIDE DEF q
  <2>3. q \in RelationRow
    BY <2>0, <2>1, <2>2, RelationRowIs
  <2> QED BY <2>0, <2>2, <2>3 DEF q
<1> HIDE DEF n
<1>5. RelationsAfter(p) \subseteq RelationRow
  BY <1>1, <1>3, <1>4
<1>6. ASSUME NEW r \in RelationsAfter(p), NEW q \in RelationsAfter(p), r.id = q.id PROVE r = q
  <2>1. CASE r \in old /\ q \in old
    <3>1. PICK a \in stay : r = Updated(p, a)
      BY <2>1
    <3>2. PICK b \in stay : q = Updated(p, b)
      BY <2>1
    <3>3. a.id = b.id
      BY <1>3, <1>6, <3>1, <3>2
    <3>4. a = b
      BY <1>2, <3>3
    <3> QED BY <3>1, <3>2, <3>4
  <2>2. CASE r \in new /\ q \in new
    BY <2>2 DEF PlanTyped
  <2>3. CASE r \in old /\ q \in new
    <3>1. PICK a \in stay : r = Updated(p, a)
      BY <2>3
    <3>2. q.id = n /\ a.id # n
      BY <1>4, <2>3
    <3> QED BY <1>3, <1>6, <3>1, <3>2
  <2>4. CASE r \in new /\ q \in old
    <3>1. PICK a \in stay : q = Updated(p, a)
      BY <2>4
    <3>2. r.id = n /\ a.id # n
      BY <1>4, <2>4
    <3> QED BY <1>3, <1>6, <3>1, <3>2
  <2> QED BY <1>1, <1>6, <2>1, <2>2, <2>3, <2>4
<1>7. Unique(RelationsAfter(p))
  BY DEF Refused
<1>8. ASSUME NEW q \in RelationsAfter(p)
      PROVE  \/ \E r \in relations : r.id \notin p.relDrop /\ q = Updated(p, r)
             \/ \E l \in p.link : q.source = l.source /\ q.target = l.target
  BY <1>1, <1>4
<1>9. \A r \in relations : r.id \notin p.relDrop =>
        Updated(p, r) \in RelationsAfter(p) /\ Updated(p, r).id = r.id
  BY <1>1, <1>3
<1> QED BY <1>5, <1>6, <1>7, <1>8, <1>9

-----------------------------------------------------------------------------
(* The steps. *)

(* The consistency of the database gives the types of its tables. *)
LEMMA ConsistentTables ==
    ASSUME Consistent
    PROVE  Tables
  BY DEF Consistent, TypeOK, Tables, Readable

(* Writing a plan keeps the database consistent. *)
LEMMA WriteHolds ==
    ASSUME Consistent, IsFiniteSet(aliases), PlansHold, NEW s \in Sessions, Write(s)
    PROVE  Consistent' /\ IsFiniteSet(aliases')
<1>1. PICK p : p = session[s].plan
  OBVIOUS
<1>2. /\ p # NoPlan /\ ~Stale(p) /\ ~Refused(p) /\ Fits(p)
      /\ items' = ItemsAfter(p)
      /\ aliases' = (aliases \ p.goneWords) \cup WordsWritten(p)
      /\ relations' = RelationsAfter(p)
      /\ raced' = (raced \/ session[s].overtaken)
      /\ left' = left
  BY <1>1 DEF Write
<1>3. /\ PlanTyped(p) /\ session[s].overtaken \in BOOLEAN
      /\ ~session[s].overtaken => Promise(p, items, aliases, relations)
  BY <1>1, <1>2 DEF PlansHold
<1>4. Tables
  BY ConsistentTables
<1>5. aliases \subseteq AliasRow /\ raced \in BOOLEAN /\ left \in 0 .. MaxRequests
  BY DEF Consistent, TypeOK
<1>6. /\ ItemsAfter(p) \in [Ids -> ItemRow \cup {NoItem}]
      /\ Live(items) \ {p.gone} \subseteq Live(ItemsAfter(p))
      /\ p.new # NoItem => NextItem \in Live(ItemsAfter(p))
  BY <1>2, <1>3, <1>4, ItemsWritten
<1>7. /\ WordsWritten(p) \subseteq AliasRow /\ IsFiniteSet(WordsWritten(p))
      /\ \A v \in WordsWritten(p) : \E w \in p.words :
           v.item = (IF w.item = 0 THEN NextItem ELSE w.item)
  BY <1>2, <1>3, <1>4, WordsWrittenAre
<1>8. /\ RelationsAfter(p) \subseteq RelationRow
      /\ \A r, q \in RelationsAfter(p) : r.id = q.id => r = q
      /\ Unique(RelationsAfter(p))
      /\ \A q \in RelationsAfter(p) :
           \/ \E r \in relations : r.id \notin p.relDrop /\ q = Updated(p, r)
           \/ \E l \in p.link : q.source = l.source /\ q.target = l.target
  BY <1>2, <1>3, <1>4, RelationsWritten
<1>9. TypeOK'
  <2>1. aliases' \subseteq AliasRow /\ raced' \in BOOLEAN
    BY <1>2, <1>3, <1>5, <1>7
  <2> QED BY <1>2, <1>5, <1>6, <1>8, <2>1 DEF TypeOK
<1>10. IsFiniteSet(aliases')
  <2>1. IsFiniteSet(aliases \ p.goneWords)
    BY FS_Subset
  <2>2. IsFiniteSet((aliases \ p.goneWords) \cup WordsWritten(p))
    BY <1>7, <2>1, FS_Union
  <2> QED BY <1>2, <2>2
<1>11. ASSUME ~raced' PROVE (\A a \in aliases' : a.item \in Live(items')) /\ InvalidRelations(items', relations') = {}
  <2>1. ~raced /\ ~session[s].overtaken
    BY <1>2, <1>11
  <2>2. LeavesNoneDangling(p, items, aliases, relations)
    BY <1>3, <2>1 DEF Promise
  <2>3. (\A a \in aliases : a.item \in Live(items)) /\ InvalidRelations(items, relations) = {}
    BY <2>1 DEF Consistent, NothingDangles
  <2>4. ASSUME NEW a \in aliases' PROVE a.item \in Live(items')
    <3>1. CASE a \in aliases \ p.goneWords
      BY <1>2, <1>6, <2>2, <2>3, <3>1 DEF LeavesNoneDangling
    <3>2. CASE a \in WordsWritten(p)
      <4>1. PICK w \in p.words : a.item = (IF w.item = 0 THEN NextItem ELSE w.item)
        BY <1>7, <3>2
      <4>2. w.item \in Live(items) \ {p.gone} \/ (w.item = 0 /\ p.new # NoItem)
        BY <2>2 DEF LeavesNoneDangling
      <4>3. \A i \in Live(items) : i # 0
        BY DEF Live, Ids
      <4> QED BY <1>2, <1>6, <4>1, <4>2, <4>3
    <3> QED BY <1>2, <2>4, <3>1, <3>2
  <2>5. \A r \in relations : Fine(r, items, 0)
    BY <2>3, NothingInvalid
  <2>6. ASSUME NEW q \in RelationsAfter(p) PROVE Fine(q, ItemsAfter(p), 0)
    <3>1. q.source # q.target /\ {q.source, q.target} \subseteq Live(items) \ {p.gone}
      <4>1. CASE \E r \in relations : r.id \notin p.relDrop /\ q = Updated(p, r)
        BY <2>2, <2>5, <4>1 DEF LeavesNoneDangling, Fine
      <4>2. CASE \E l \in p.link : q.source = l.source /\ q.target = l.target
        BY <2>2, <4>2 DEF LeavesNoneDangling, Fine
      <4> QED BY <1>8, <4>1, <4>2
    <3>2. \A i \in Live(ItemsAfter(p)) : i # 0
      BY DEF Live, Ids
    <3> QED BY <1>6, <3>1, <3>2 DEF Fine
  <2>7. InvalidRelations(ItemsAfter(p), RelationsAfter(p)) = {}
    BY <2>6, NothingInvalid
  <2> QED BY <1>2, <2>4, <2>7
<1>12. NothingDangles'
  BY <1>11 DEF NothingDangles
<1> QED BY <1>9, <1>10, <1>12 DEF Consistent

(* Adding an entry keeps the database consistent. *)
LEMMA CreateHolds ==
    ASSUME Consistent, IsFiniteSet(aliases), NEW s \in Sessions, NEW r \in Requests, CreateItem(s, r)
    PROVE  Consistent' /\ IsFiniteSet(aliases')
<1>1. PICK n : n = NextItem
  OBVIOUS
<1>2. /\ items' = [items EXCEPT ![n] = r.row] /\ left > 0 /\ left' = left - 1
      /\ aliases' = aliases /\ relations' = relations /\ raced' = raced
      /\ n \in Ids /\ n \notin Live(items)
  BY <1>1, NextItemIsNew DEF CreateItem
<1>3. r.row \in ItemRow
  BY RequestsAssumption DEF CreateItem
<1>4. items \in [Ids -> ItemRow \cup {NoItem}]
  BY DEF Consistent, TypeOK
<1>5. items' \in [Ids -> ItemRow \cup {NoItem}] /\ Live(items) \subseteq Live(items')
  BY <1>2, <1>3, <1>4, NoItemAssumption DEF Live
<1>6. left' \in 0 .. MaxRequests
  <2>1. left \in 0 .. MaxRequests
    BY DEF Consistent, TypeOK
  <2>2. MaxRequests \in Nat
    BY RequestsAssumption
  <2> QED BY <1>2, <2>1, <2>2
<1>7. TypeOK'
  BY <1>2, <1>5, <1>6 DEF Consistent, TypeOK
<1>8. ASSUME ~raced PROVE (\A a \in aliases : a.item \in Live(items')) /\ InvalidRelations(items', relations) = {}
  <2>1. (\A a \in aliases : a.item \in Live(items)) /\ \A q \in relations : Fine(q, items, 0)
    BY <1>8, NothingInvalid DEF Consistent, NothingDangles
  <2>2. \A q \in relations : Fine(q, items', 0)
    BY <1>5, <2>1 DEF Fine
  <2>3. PICK I : I = items'
    OBVIOUS
  <2>4. InvalidRelations(I, relations) = {}
    BY <2>2, <2>3, NothingInvalid
  <2> QED BY <1>5, <2>1, <2>3, <2>4
<1>9. NothingDangles'
  BY <1>2, <1>8 DEF NothingDangles
<1> QED BY <1>2, <1>7, <1>9 DEF Consistent

(* Who is overtaken need not promise any more. *)
LEMMA OvertakenHolds ==
    ASSUME PlansHold, NEW done \in SUBSET Sessions,
           session' = [t \in Sessions |->
                         IF t \in done THEN Idle
                         ELSE [session[t] EXCEPT !.overtaken = session[t].plan # NoPlan \/ @]]
    PROVE  PlansHold'
<1>1. session' = [t \in Sessions |-> session'[t]]
  OBVIOUS
<1>2. ASSUME NEW t \in Sessions
      PROVE  /\ session'[t] = [plan |-> session'[t].plan, overtaken |-> session'[t].overtaken]
             /\ session'[t].overtaken \in BOOLEAN
             /\ PlanTyped(session'[t].plan)
             /\ ~(session'[t].plan # NoPlan /\ ~session'[t].overtaken)
  <2>1. CASE t \in done
    <3>1. session'[t] = [plan |-> NoPlan, overtaken |-> FALSE]
      BY <2>1 DEF Idle
    <3>2. session'[t].plan = NoPlan /\ session'[t].overtaken = FALSE
      BY <3>1
    <3>3. PlanTyped(session'[t].plan)
      BY <3>2, NoPlanIsTyped
    <3> QED BY <3>1, <3>2, <3>3
  <2>2. CASE t \notin done
    <3>1. /\ session[t] = [plan |-> session[t].plan, overtaken |-> session[t].overtaken]
          /\ session[t].overtaken \in BOOLEAN /\ PlanTyped(session[t].plan)
      BY DEF PlansHold
    <3>2. PICK x, o : x = session[t].plan /\ o = session[t].overtaken
      OBVIOUS
    <3>3. PICK y \in BOOLEAN : y <=> (x # NoPlan \/ o)
      BY <3>1, <3>2
    <3>4. session'[t] = [plan |-> x, overtaken |-> y]
      <4>1. session'[t] = [session[t] EXCEPT !.overtaken = x # NoPlan \/ o]
        BY <2>2, <3>2
      <4>2. session[t] = [plan |-> x, overtaken |-> o]
        BY <3>1, <3>2
      <4>3. (x # NoPlan \/ o) = y
        BY <3>1, <3>2, <3>3
      <4> QED BY <4>1, <4>2, <4>3
    <3>5. session'[t].plan = x /\ session'[t].overtaken = y
      BY <3>4
    <3>6. PlanTyped(session'[t].plan)
      BY <3>1, <3>2, <3>5
    <3> QED BY <3>3, <3>4, <3>5, <3>6
  <2> QED BY <2>1, <2>2
<1> QED BY <1>1, <1>2 DEF PlansHold

-----------------------------------------------------------------------------
(* The migration of relation types. *)

(* A normalised relation is a relation with the same id and ends, and normal. *)
LEMMA NormalIs ==
    ASSUME NEW r \in RelationRow
    PROVE  /\ Normal(r) \in RelationRow /\ Normal(r).id = r.id
           /\ Normal(r).source = r.source /\ Normal(r).target = r.target
           /\ NormType[Normal(r).type] = Normal(r).type /\ NormType[Normal(r).order] = Normal(r).order
<1> DEFINE F == {"id", "source", "target", "type", "order", "position", "notes"}
           m == Normal(r)
<1>1. /\ r = [f \in F |-> r[f]] /\ r.id \in RelationIds
      /\ r.source \in Ids /\ r.target \in Ids /\ r.type \in RelationTypes
      /\ r.order \in RelationTypes \cup {NoOrder}
      /\ r.position \in Nat \cup {NoPosition} /\ r.notes \in SUBSET Notes
  BY RelationRowIs
<1>2. /\ m = [f \in F |-> m[f]] /\ m.id = r.id /\ m.source = r.source /\ m.target = r.target
      /\ m.type = NormType[r.type] /\ m.order = NormType[r.order]
      /\ m.position = r.position /\ m.notes = r.notes
  <2>1. DOMAIN r = F
    BY <1>1
  <2> QED BY <2>1 DEF Normal
<1>3. NormType[r.type] \in RelationTypes /\ NormType[r.order] \in RelationTypes \cup {NoOrder}
  BY <1>1, RelationAssumption
<1> HIDE DEF m
<1>4. m \in RelationRow
  BY <1>1, <1>2, <1>3, RelationRowIs
<1>5. NormType[m.type] = m.type /\ NormType[m.order] = m.order
  <2>1. NormType[NormType[r.type]] = NormType[r.type]
    BY <1>1, RelationAssumption
  <2>2. NormType[NormType[r.order]] = NormType[r.order]
    BY <1>1, RelationAssumption
  <2> QED BY <1>2, <2>1, <2>2
<1> QED BY <1>2, <1>4, <1>5 DEF m

(* The steps of the migration, one per id. *)
LEMMA MigrateStepsAre ==
    \A n \in 0 .. MaxRelation :
      MigrateSteps[n] = IF n = 0 THEN [rows |-> relations, conflicts |-> 0]
                        ELSE IF n \in {r.id : r \in relations}
                             THEN MigrateRow(MigrateSteps[n - 1], RowOf(n))
                        ELSE MigrateSteps[n - 1]
<1> DEFINE due == {r.id : r \in relations}
           start == [rows |-> relations, conflicts |-> 0]
           turn(st, n) == IF n \in due THEN MigrateRow(st, RowOf(n)) ELSE st
           Upto(g, k) == g = [n \in 0 .. k |-> IF n = 0 THEN start ELSE turn(g[n - 1], n)]
           T == {k \in 0 .. MaxRelation : \E g : Upto(g, k)}
<1>0. MaxRelation \in Nat
  BY RelationAssumption
<1>1. 0 \in T
  <2> HIDE DEF start, turn
  <2>1. Upto([n \in 0 .. 0 |-> start], 0)
    OBVIOUS
  <2>2. 0 \in 0 .. MaxRelation
    BY <1>0
  <2> HIDE DEF Upto
  <2> QED BY <2>1, <2>2
<1>2. ASSUME NEW k \in 1 .. MaxRelation, k - 1 \in T
      PROVE  k \in T
  <2> HIDE DEF start, turn
  <2>1. PICK g : Upto(g, k - 1)
    BY <1>2
  <2>2. k \in Nat /\ k >= 1 /\ k \in 0 .. MaxRelation
    BY <1>0
  <2> DEFINE h == [n \in 0 .. k |-> IF n < k THEN g[n] ELSE turn(g[k - 1], k)]
  <2>3. ASSUME NEW n \in 0 .. k
        PROVE  h[n] = IF n = 0 THEN start ELSE turn(h[n - 1], n)
    <3>1. CASE n = k
      <4>1. h[n] = turn(g[k - 1], k) /\ h[n - 1] = g[k - 1]
        BY <2>2, <3>1
      <4> QED BY <2>2, <3>1, <4>1
    <3>2. CASE n # k
      <4>1. n \in 0 .. k - 1 /\ n < k /\ (n # 0 => n - 1 \in 0 .. k - 1 /\ n - 1 \in 0 .. k /\ n - 1 < k)
        BY <2>2, <3>2
      <4>2. g[n] = IF n = 0 THEN start ELSE turn(g[n - 1], n)
        BY <2>1, <4>1
      <4>3. h[n] = g[n] /\ (n # 0 => h[n - 1] = g[n - 1])
        BY <4>1
      <4> QED BY <4>2, <4>3
    <3> QED BY <3>1, <3>2
  <2>4. Upto(h, k)
    BY <2>3
  <2> QED BY <2>2, <2>4
<1>3. MaxRelation \in T
  <2>1. 0 .. MaxRelation \subseteq T
    <3> HIDE DEF T
    <3> QED BY <1>0, <1>1, <1>2, Upward
  <2> HIDE DEF T
  <2>2. MaxRelation \in 0 .. MaxRelation
    BY <1>0
  <2> QED BY <2>1, <2>2
<1>4. PICK g : Upto(g, MaxRelation)
  BY <1>3
<1>5. \E f : f = [n \in 0 .. MaxRelation |->
                    IF n = 0 THEN start
                    ELSE IF n \in due THEN MigrateRow(f[n - 1], RowOf(n)) ELSE f[n - 1]]
  BY <1>4
<1>6. MigrateSteps = [n \in 0 .. MaxRelation |->
                        IF n = 0 THEN start
                        ELSE IF n \in due THEN MigrateRow(MigrateSteps[n - 1], RowOf(n))
                        ELSE MigrateSteps[n - 1]]
  BY <1>5 DEF MigrateSteps
<1> DEFINE steps == MigrateSteps
<1> HIDE DEF start, due, steps
<1>7. \A n \in 0 .. MaxRelation :
         steps[n] = IF n = 0 THEN start
                    ELSE IF n \in due THEN MigrateRow(steps[n - 1], RowOf(n)) ELSE steps[n - 1]
  BY <1>6 DEF steps
<1> QED BY <1>7 DEF start, due, steps

\* The rows when those up to n are done.
MigrateInv(st, n) ==
    /\ st = [rows |-> st.rows, conflicts |-> st.conflicts] /\ st.conflicts \in Nat
    /\ \A q \in st.rows : \E r \in relations : q = r \/ q = Normal(r)
    /\ \A r \in relations : \E q \in st.rows : q = r \/ q = Normal(r)
    /\ \A q, t \in st.rows : q.id = t.id => q = t
    /\ Unique(st.rows)
    /\ \A r \in relations : r.id > n => r \in st.rows
    /\ st.conflicts = 0 => \A r \in relations : r.id <= n => Normal(r) \in st.rows

(* One row of the migration keeps what is known of those before it. *)
LEMMA MigrateRowKeeps ==
    ASSUME Tables, NEW n \in 1 .. MaxRelation, NEW st, MigrateInv(st, n - 1),
           NEW r \in relations, r.id = n
    PROVE  MigrateInv(MigrateRow(st, r), n)
<1> DEFINE new == Normal(r)
           rows == (st.rows \ {r}) \cup {new}
           next == MigrateRow(st, r)
<1>1. /\ relations \subseteq RelationRow /\ Unique(relations)
      /\ \A a, b \in relations : a.id = b.id => a = b
  BY DEF Tables
<1>2. \A q \in relations : q.id \in Nat
  BY <1>1, RelationRowIs DEF RelationIds
<1>3. \A q \in relations : (q.id <= n <=> q.id <= n - 1 \/ q = r) /\ (q.id > n <=> q.id > n - 1 /\ q # r)
  <2>1. ASSUME NEW q \in relations
        PROVE  (q.id <= n <=> q.id <= n - 1 \/ q = r) /\ (q.id > n <=> q.id > n - 1 /\ q # r)
    <3>1. q.id = n <=> q = r
      BY <1>1
    <3>2. q.id \in Nat /\ n \in Nat
      BY <1>2
    <3> QED BY <3>1, <3>2
  <2> QED BY <2>1
<1>4. /\ st = [rows |-> st.rows, conflicts |-> st.conflicts] /\ st.conflicts \in Nat
      /\ \A q \in st.rows : \E x \in relations : q = x \/ q = Normal(x)
      /\ \A x \in relations : \E q \in st.rows : q = x \/ q = Normal(x)
      /\ \A q, t \in st.rows : q.id = t.id => q = t
      /\ Unique(st.rows)
      /\ \A x \in relations : x.id > n - 1 => x \in st.rows
      /\ st.conflicts = 0 => \A x \in relations : x.id <= n - 1 => Normal(x) \in st.rows
  BY DEF MigrateInv
<1>5. r \in st.rows
  <2>1. r.id > n - 1
    OBVIOUS
  <2> QED BY <1>4, <2>1
<1>6. \A x \in relations : Normal(x).id = x.id
  BY <1>1, NormalIs
<1>7. next = IF new = r THEN st
             ELSE IF Unique(rows) THEN [st EXCEPT !.rows = rows]
             ELSE [st EXCEPT !.rows = relations, !.conflicts = @ + 1]
  BY DEF MigrateRow
<1> HIDE DEF next, new
<1>8. CASE new = r
  <2>1. next = st
    BY <1>7, <1>8
  <2>2. st.conflicts = 0 => \A x \in relations : x.id <= n => Normal(x) \in st.rows
    BY <1>3, <1>4, <1>5, <1>8 DEF new
  <2>3. \A x \in relations : x.id > n => x \in st.rows
    BY <1>3, <1>4
  <2> QED BY <1>4, <2>1, <2>2, <2>3 DEF MigrateInv, next
<1>9. CASE new # r /\ Unique(rows)
  <2>1. next.rows = rows /\ next.conflicts = st.conflicts
        /\ next = [rows |-> next.rows, conflicts |-> next.conflicts]
    <3>1. next = [st EXCEPT !.rows = rows]
      BY <1>7, <1>9
    <3> HIDE DEF rows
    <3> QED BY <1>4, <3>1
  <2>2. \A q \in rows : \E x \in relations : q = x \/ q = Normal(x)
    BY <1>4 DEF new
  <2>3. ASSUME NEW x \in relations, x # r, NEW q \in st.rows, q = x \/ q = Normal(x)
        PROVE  q \in rows
    <3>1. q.id # r.id
      BY <1>1, <1>6, <2>3
    <3> QED BY <3>1
  <2>4. \A x \in relations : \E q \in rows : q = x \/ q = Normal(x)
    <3>1. ASSUME NEW x \in relations PROVE \E q \in rows : q = x \/ q = Normal(x)
      <4>1. CASE x = r
        BY <4>1 DEF new
      <4>2. CASE x # r
        BY <1>4, <2>3, <4>2
      <4> QED BY <4>1, <4>2
    <3> QED BY <3>1
  <2>5. \A q, t \in rows : q.id = t.id => q = t
    <3>1. new.id = r.id
      BY <1>6 DEF new
    <3>2. \A q \in st.rows \ {r} : q.id # r.id
      BY <1>4, <1>5
    <3> QED BY <1>4, <3>1, <3>2
  <2>6. \A x \in relations : x.id > n => x \in rows
    BY <1>3, <1>4
  <2>7. st.conflicts = 0 => \A x \in relations : x.id <= n => Normal(x) \in rows
    <3>1. ASSUME st.conflicts = 0, NEW x \in relations, x.id <= n PROVE Normal(x) \in rows
      <4>1. CASE x = r
        BY <4>1 DEF new
      <4>2. CASE x # r
        <5>1. Normal(x) \in st.rows
          BY <1>3, <1>4, <3>1, <4>2
        <5> QED BY <2>3, <4>2, <5>1
      <4> QED BY <4>1, <4>2
    <3> QED BY <3>1
  <2> HIDE DEF rows
  <2> QED BY <1>4, <1>9, <2>1, <2>2, <2>4, <2>5, <2>6, <2>7 DEF MigrateInv, next
<1>10. CASE new # r /\ ~Unique(rows)
  <2>1. next.rows = relations /\ next.conflicts = st.conflicts + 1
        /\ next = [rows |-> next.rows, conflicts |-> next.conflicts]
    <3>1. next = [st EXCEPT !.rows = relations, !.conflicts = @ + 1]
      BY <1>7, <1>10
    <3> QED BY <1>4, <3>1
  <2>2. next.conflicts \in Nat /\ next.conflicts # 0
    BY <1>4, <2>1
  <2> QED BY <1>1, <2>1, <2>2 DEF MigrateInv, next
<1> QED BY <1>8, <1>9, <1>10

(* What is known when all rows are done. *)
LEMMA MigratedIs ==
    ASSUME Tables
    PROVE  MigrateInv(Migrated, MaxRelation)
<1> DEFINE steps == MigrateSteps
           due == {r.id : r \in relations}
           start == [rows |-> relations, conflicts |-> 0]
           T == {n \in 0 .. MaxRelation : MigrateInv(steps[n], n)}
<1>0. MaxRelation \in Nat
  BY RelationAssumption
<1>1. \A n \in 0 .. MaxRelation :
         steps[n] = IF n = 0 THEN start
                    ELSE IF n \in due THEN MigrateRow(steps[n - 1], RowOf(n)) ELSE steps[n - 1]
  BY MigrateStepsAre
<1>2. 0 \in T
  <2>1. 0 \in 0 .. MaxRelation
    BY <1>0
  <2>2. steps[0] = start
    <3> HIDE DEF steps, start
    <3> QED BY <1>1, <2>1
  <2>3. start.rows = relations /\ start.conflicts = 0
    OBVIOUS
  <2>4. \A r \in relations : r.id \in Nat /\ r.id > 0
    BY RelationRowIs DEF Tables, RelationIds
  <2>5. start = [rows |-> start.rows, conflicts |-> start.conflicts]
    OBVIOUS
  <2> HIDE DEF start, steps
  <2>6. MigrateInv(start, 0)
    BY <2>3, <2>4, <2>5 DEF MigrateInv, Tables
  <2> QED BY <2>1, <2>2, <2>6
<1> HIDE DEF start, steps
<1>3. ASSUME NEW n \in 1 .. MaxRelation, n - 1 \in T PROVE n \in T
  <2>1. n \in 0 .. MaxRelation /\ n # 0
    BY <1>0
  <2>2. steps[n] = IF n \in due THEN MigrateRow(steps[n - 1], RowOf(n)) ELSE steps[n - 1]
    <3> HIDE DEF due
    <3> QED BY <1>1, <2>1
  <2> DEFINE st == steps[n - 1]
  <2>3. MigrateInv(st, n - 1)
    BY <1>3
  <2>4. CASE n \in due
    <3>1. PICK r \in relations : r.id = n
      BY <2>4
    <3>2. steps[n] = MigrateRow(st, r)
      BY <2>2, <2>4, <3>1, RowOfIs
    <3> HIDE DEF st
    <3>3. MigrateInv(MigrateRow(st, r), n)
      BY <2>3, <3>1, MigrateRowKeeps
    <3> QED BY <2>1, <3>2, <3>3
  <2>5. CASE n \notin due
    <3>1. \A r \in relations : (r.id <= n <=> r.id <= n - 1) /\ (r.id > n <=> r.id > n - 1)
      <4>1. ASSUME NEW r \in relations PROVE (r.id <= n <=> r.id <= n - 1) /\ (r.id > n <=> r.id > n - 1)
        <5>1. r.id \in Nat /\ r.id # n
          BY <2>5, RelationRowIs DEF Tables, RelationIds
        <5> QED BY <1>0, <5>1
      <4> QED BY <4>1
    <3>2. steps[n] = st
      BY <2>2, <2>5
    <3> HIDE DEF st
    <3>3. MigrateInv(st, n)
      BY <2>3, <3>1 DEF MigrateInv
    <3> QED BY <2>1, <3>2, <3>3
  <2> QED BY <2>4, <2>5
<1>4. MaxRelation \in T
  <2> HIDE DEF T
  <2>1. 0 .. MaxRelation \subseteq T
    BY <1>0, <1>2, <1>3, Upward
  <2>2. MaxRelation \in 0 .. MaxRelation
    BY <1>0
  <2> QED BY <2>1, <2>2
<1> QED BY <1>4 DEF Migrated, steps

(* What the migration leaves: each row as it was or normalised, as many rows *)
(* as before, and none as it was when no conflict was met.                   *)
LEMMA MigrationLeaves ==
    ASSUME Tables
    PROVE  /\ Migrated.rows \subseteq RelationRow
           /\ \A q, t \in Migrated.rows : q.id = t.id => q = t
           /\ Unique(Migrated.rows)
           /\ \A q \in Migrated.rows : \E r \in relations :
                q.id = r.id /\ q.source = r.source /\ q.target = r.target
           /\ \A r \in relations : \E q \in Migrated.rows : q \in {r, Normal(r)}
           /\ Cardinality(Migrated.rows) = Cardinality(relations)
           /\ Migrated.conflicts = 0 =>
                \A q \in Migrated.rows : NormType[q.type] = q.type /\ NormType[q.order] = q.order
<1>1. PICK rows, c : rows = Migrated.rows /\ c = Migrated.conflicts
  OBVIOUS
<1>2. /\ \A q \in rows : \E r \in relations : q = r \/ q = Normal(r)
      /\ \A r \in relations : \E q \in rows : q = r \/ q = Normal(r)
      /\ \A q, t \in rows : q.id = t.id => q = t
      /\ Unique(rows)
      /\ c = 0 => \A r \in relations : r.id <= MaxRelation => Normal(r) \in rows
  BY <1>1, MigratedIs DEF MigrateInv
<1>3. relations \subseteq RelationRow /\ \A r, q \in relations : r.id = q.id => r = q
  BY DEF Tables
<1>4. \A r \in relations : /\ Normal(r) \in RelationRow /\ Normal(r).id = r.id
                           /\ Normal(r).source = r.source /\ Normal(r).target = r.target
                           /\ NormType[Normal(r).type] = Normal(r).type
                           /\ NormType[Normal(r).order] = Normal(r).order
  BY <1>3, NormalIs
<1>5. \A q \in rows : \E r \in relations :
         q \in RelationRow /\ q.id = r.id /\ q.source = r.source /\ q.target = r.target
  BY <1>2, <1>3, <1>4
<1>6. Cardinality(rows) = Cardinality(relations)
  <2>1. IsFiniteSet(relations)
    <3> DEFINE ids == {n \in 1 .. MaxRelation : \E r \in relations : r.id = n}
               f == [n \in ids |-> RowOf(n)]
    <3>1. MaxRelation \in Nat
      BY RelationAssumption
    <3>2. IsFiniteSet(ids)
      <4>1. IsFiniteSet(1 .. MaxRelation)
        BY <3>1, FS_Interval
      <4>2. ids \in SUBSET (1 .. MaxRelation)
        OBVIOUS
      <4> QED BY <4>1, <4>2, FS_Subset
    <3>3. \A r \in relations : r.id \in ids
      BY <1>3, RelationRowIs DEF RelationIds
    <3>4. \A n \in ids : f[n] \in relations
      BY RowOfIs
    <3>5. \A r \in relations : f[r.id] = r
      BY <3>3, RowOfIs
    <3>6. f = [n \in ids |-> f[n]]
      OBVIOUS
    <3> HIDE DEF f, ids
    <3>7. relations = {f[n] : n \in ids}
      BY <3>3, <3>4, <3>5
    <3> QED BY <3>2, <3>6, <3>7, FiniteImage
  <2> DEFINE f == [r \in relations |-> CHOOSE q \in rows : q = r \/ q = Normal(r)]
  <2>2. \A r \in relations : f[r] \in rows /\ f[r].id = r.id
    <3>1. \A r \in relations : f[r] \in rows /\ (f[r] = r \/ f[r] = Normal(r))
      BY <1>2
    <3> QED BY <1>4, <3>1
  <2>3. f = [r \in relations |-> f[r]]
    OBVIOUS
  <2> HIDE DEF f
  <2>4. \A r, q \in relations : f[r] = f[q] => r = q
    BY <1>3, <2>2
  <2>5. rows = {f[r] : r \in relations}
    <3>1. ASSUME NEW q \in rows PROVE \E r \in relations : q = f[r]
      <4>1. PICK r \in relations : q.id = r.id
        BY <1>5
      <4>2. f[r] \in rows /\ f[r].id = q.id
        BY <2>2, <4>1
      <4> QED BY <1>2, <4>2
    <3> QED BY <2>2, <3>1
  <2> QED BY <2>1, <2>3, <2>4, <2>5, SameSize
<1>7. ASSUME c = 0, NEW q \in rows PROVE NormType[q.type] = q.type /\ NormType[q.order] = q.order
  <2>1. PICK r \in relations : q.id = r.id
    BY <1>5
  <2>2. r.id <= MaxRelation
    <3>1. r.id \in 1 .. MaxRelation
      BY <1>3, RelationRowIs DEF RelationIds
    <3> QED BY <3>1, RelationAssumption
  <2>3. Normal(r) \in rows /\ Normal(r).id = q.id
    BY <1>2, <1>4, <1>7, <2>1, <2>2
  <2>4. q = Normal(r)
    BY <1>2, <2>3
  <2> QED BY <1>4, <2>4
<1> QED BY <1>1, <1>2, <1>5, <1>6, <1>7

(* The migration keeps the database consistent. *)
LEMMA MigrateHolds ==
    ASSUME Consistent, IsFiniteSet(aliases), Migrate
    PROVE  Consistent' /\ IsFiniteSet(aliases')
<1>1. PICK rows : rows = Migrated.rows
  OBVIOUS
<1>2. /\ relations' = rows /\ left > 0 /\ left' = left - 1
      /\ items' = items /\ aliases' = aliases /\ raced' = raced
  BY <1>1 DEF Migrate
<1>3. Tables
  BY ConsistentTables
<1>4. /\ rows \subseteq RelationRow /\ Unique(rows)
      /\ \A q, t \in rows : q.id = t.id => q = t
      /\ \A q \in rows : \E r \in relations :
           q.id = r.id /\ q.source = r.source /\ q.target = r.target
  BY <1>1, <1>3, MigrationLeaves
<1>5. left' \in 0 .. MaxRequests
  <2>1. left \in 0 .. MaxRequests
    BY DEF Consistent, TypeOK
  <2>2. MaxRequests \in Nat
    BY RequestsAssumption
  <2> QED BY <1>2, <2>1, <2>2
<1>6. TypeOK'
  BY <1>2, <1>4, <1>5 DEF Consistent, TypeOK
<1>7. ASSUME ~raced PROVE InvalidRelations(items, rows) = {}
  <2>1. \A r \in relations : Fine(r, items, 0)
    BY <1>7, NothingInvalid DEF Consistent, NothingDangles
  <2>2. \A q \in rows : Fine(q, items, 0)
    BY <1>4, <2>1 DEF Fine
  <2> QED BY <2>2, NothingInvalid
<1>8. NothingDangles'
  BY <1>2, <1>7 DEF Consistent, NothingDangles
<1> QED BY <1>2, <1>6, <1>8 DEF Consistent

-----------------------------------------------------------------------------
(* The invariant of the specification. *)

(* The tables at the start satisfy the invariant. *)
LEMMA InitHolds ==
    ASSUME Init
    PROVE  IInv
<1>1. /\ items = Items /\ aliases = Aliases /\ relations = Relations
      /\ session = [s \in Sessions |-> Idle] /\ raced = FALSE /\ left = MaxRequests
  BY DEF Init
<1>2. left \in 0 .. MaxRequests
  <2>1. MaxRequests \in Nat
    BY RequestsAssumption
  <2> QED BY <1>1, <2>1
<1>3. Consistent /\ IsFiniteSet(aliases)
  <2>1. TypeOK
    BY <1>1, <1>2, TablesAssumption DEF TypeOK
  <2>2. NothingDangles
    BY <1>1, TablesAssumption DEF NothingDangles
  <2> QED BY <1>1, <2>1, <2>2, TablesAssumption DEF Consistent
<1>4. PlansHold
  <2>1. ASSUME NEW s \in Sessions
        PROVE  session[s] = [plan |-> NoPlan, overtaken |-> FALSE]
    BY <1>1 DEF Idle
  <2>2. ASSUME NEW s \in Sessions
        PROVE  session[s].plan = NoPlan /\ session[s].overtaken = FALSE
    BY <2>1
  <2>3. session = [s \in Sessions |-> session[s]]
    BY <1>1
  <2> QED BY <2>1, <2>2, <2>3, NoPlanIsTyped DEF PlansHold
<1> QED BY <1>3, <1>4 DEF IInv

\* A step that leaves the tables as they are.
LEMMA TablesStay ==
    ASSUME Consistent, IsFiniteSet(aliases), left' \in 0 .. MaxRequests,
           UNCHANGED <<items, aliases, relations, raced>>
    PROVE  Consistent' /\ IsFiniteSet(aliases')
  BY DEF Consistent, TypeOK, NothingDangles

\* A thread starts anew while the others keep what they promised.
LEMMA OneStarts ==
    ASSUME PlansHold, NEW s \in Sessions, NEW p, PlanTyped(p),
           p # NoPlan => Promise(p, items, aliases, relations),
           session' = [session EXCEPT ![s] = [plan |-> p, overtaken |-> FALSE]],
           UNCHANGED <<items, aliases, relations>>
    PROVE  PlansHold'
<1>1. session = [t \in Sessions |-> session[t]]
  BY DEF PlansHold
<1>2. session' = [t \in Sessions |-> session'[t]]
  BY <1>1
<1>3. session'[s].plan = p /\ session'[s].overtaken = FALSE
      /\ session'[s] = [plan |-> p, overtaken |-> FALSE]
  BY <1>1
<1>4. \A t \in Sessions \ {s} : session'[t] = session[t]
  BY <1>1
<1>5. ASSUME NEW t \in Sessions
      PROVE  /\ session'[t] = [plan |-> session'[t].plan, overtaken |-> session'[t].overtaken]
             /\ session'[t].overtaken \in BOOLEAN
             /\ PlanTyped(session'[t].plan)
             /\ session'[t].plan # NoPlan /\ ~session'[t].overtaken =>
                  Promise(session'[t].plan, items, aliases, relations)
  <2>1. CASE t = s
    BY <1>3, <2>1
  <2>2. CASE t # s
    BY <1>4, <2>2 DEF PlansHold
  <2> QED BY <2>1, <2>2
<1> QED BY <1>2, <1>5 DEF PlansHold

(* Every step keeps the invariant. *)
LEMMA StepHolds ==
    ASSUME IInv, [Next]_vars
    PROVE  IInv'
<1>1. Consistent /\ IsFiniteSet(aliases) /\ PlansHold /\ Tables
  BY ConsistentTables DEF IInv
<1>2. left \in 0 .. MaxRequests /\ MaxRequests \in Nat
  <2>1. MaxRequests \in Nat
    BY RequestsAssumption
  <2> QED BY <1>1, <2>1 DEF Consistent, TypeOK
<1>3. ASSUME NEW s \in Sessions, NEW r \in Requests, CreateItem(s, r) PROVE IInv'
  <2>1. Consistent' /\ IsFiniteSet(aliases')
    BY <1>1, <1>3, CreateHolds
  <2>2. session' = [t \in Sessions |->
                      IF t \in {s} THEN Idle
                      ELSE [session[t] EXCEPT !.overtaken = session[t].plan # NoPlan \/ @]]
    BY <1>3 DEF CreateItem, Overtake
  <2>3. PlansHold'
    BY <1>1, <2>2, OvertakenHolds
  <2> QED BY <2>1, <2>3 DEF IInv
<1>4. ASSUME NEW s \in Sessions, NEW r \in Requests, Read(s, r) PROVE IInv'
  <2>1. PICK p : p = PlanOf(r)
    OBVIOUS
  <2>2. /\ r.op # "create" /\ left > 0 /\ left' = left - 1 /\ p # NoPlan
        /\ session' = [session EXCEPT ![s] = [plan |-> p, overtaken |-> FALSE]]
        /\ UNCHANGED <<items, aliases, relations, raced>>
    BY <1>4, <2>1 DEF Read
  <2>3. left' \in 0 .. MaxRequests
    BY <1>2, <2>2
  <2>4. Consistent' /\ IsFiniteSet(aliases')
    BY <1>1, <2>2, <2>3, TablesStay
  <2>5. PlanTyped(p) /\ Promise(p, items, aliases, relations)
    BY <1>1, <2>1, <2>2, PlanOfHolds
  <2>6. PlansHold'
    BY <1>1, <2>2, <2>5, OneStarts
  <2> QED BY <2>4, <2>6 DEF IInv
<1>5. ASSUME NEW s \in Sessions, Write(s) PROVE IInv'
  <2>1. Consistent' /\ IsFiniteSet(aliases')
    BY <1>1, <1>5, WriteHolds
  <2>2. session' = [t \in Sessions |->
                      IF t \in {s} THEN Idle
                      ELSE [session[t] EXCEPT !.overtaken = session[t].plan # NoPlan \/ @]]
    BY <1>5 DEF Write, Overtake
  <2>3. PlansHold'
    BY <1>1, <2>2, OvertakenHolds
  <2> QED BY <2>1, <2>3 DEF IInv
<1>6. ASSUME NEW s \in Sessions, Rollback(s) PROVE IInv'
  <2>1. /\ session' = [session EXCEPT ![s] = [plan |-> NoPlan, overtaken |-> FALSE]]
        /\ UNCHANGED <<items, aliases, relations, raced, left>>
    BY <1>6 DEF Rollback, Idle
  <2>2. Consistent' /\ IsFiniteSet(aliases')
    BY <1>1, <1>2, <2>1, TablesStay
  <2>3. PICK p : p = NoPlan
    OBVIOUS
  <2>4. PlansHold'
    BY <1>1, <2>1, <2>3, NoPlanIsTyped, OneStarts
  <2> QED BY <2>2, <2>4 DEF IInv
<1>7. ASSUME Migrate PROVE IInv'
  <2>1. Consistent' /\ IsFiniteSet(aliases')
    BY <1>1, <1>7, MigrateHolds
  <2>2. PICK none : none = {}
    OBVIOUS
  <2>3. session' = [t \in Sessions |->
                      IF t \in none THEN Idle
                      ELSE [session[t] EXCEPT !.overtaken = session[t].plan # NoPlan \/ @]]
    BY <1>7, <2>2 DEF Migrate
  <2>4. PlansHold'
    BY <1>1, <2>2, <2>3, OvertakenHolds
  <2> QED BY <2>1, <2>4 DEF IInv
<1>8. ASSUME UNCHANGED vars PROVE IInv'
  <2>1. UNCHANGED <<items, aliases, relations, raced, left, session>>
    BY <1>8 DEF vars
  <2>2. Consistent' /\ IsFiniteSet(aliases')
    BY <1>1, <1>2, <2>1, TablesStay
  <2>3. PlansHold'
    BY <1>1, <2>1 DEF PlansHold
  <2> QED BY <2>2, <2>3 DEF IInv
<1> QED BY <1>3, <1>4, <1>5, <1>6, <1>7, <1>8 DEF Next

\* The invariant holds of every run: the tables hold rows and nothing dangles,
\* and every plan nobody overtook keeps its promises to the tables as they are.
THEOREM Invariant == Spec => []IInv
<1>1. Init => IInv
  BY InitHolds
<1>2. IInv /\ [Next]_vars => IInv'
  BY StepHolds
<1> QED BY <1>1, <1>2, PTL DEF Spec

\* The tables are consistent, and what dangles was written on top of another
\* request's commit (service.py, importer.py, merge.py:282-350).
THEOREM TablesStayConsistent == Spec => []Consistent
<1>1. IInv => Consistent
  BY DEF IInv
<1> QED BY <1>1, Invariant, PTL

\* In every database a run can reach, a merge does to every relation what its
\* preview says it would, and adds the names the preview announces save those
\* taken over as the original title (merge.py:395-528).
THEOREM PreviewIsExact == Spec => []PreviewIsWhatMergeDoes
<1>1. IInv => PreviewIsWhatMergeDoes
  BY ConsistentTables, PreviewHolds DEF IInv
<1> QED BY <1>1, Invariant, PTL

-----------------------------------------------------------------------------
(* What a commit does to the tables. *)

\* A plan that ends with a change of the tables was written by its own thread.
LEMMA CommitIsWrite ==
    ASSUME PlansHold, [Next]_vars, NEW s \in Sessions, NEW op, op # "none", Commits(s, op)
    PROVE  Write(s)
<1>1. /\ session[s].plan.op = op /\ session'[s] = Idle
      /\ <<items, aliases, relations>>' # <<items, aliases, relations>>
  BY DEF Commits
<1>2. session[s].plan # NoPlan
  BY <1>1 DEF NoPlan
<1>3. session[s] # Idle /\ session'[s].plan = NoPlan
  BY <1>1, <1>2 DEF Idle
<1>4. session[s] = [plan |-> session[s].plan, overtaken |-> session[s].overtaken]
  BY DEF PlansHold
<1>5. ASSUME session'[s] = [session[s] EXCEPT !.overtaken = session[s].plan # NoPlan \/ @]
      PROVE  FALSE
  <2>1. session'[s].plan = session[s].plan
    BY <1>4, <1>5
  <2> QED BY <1>2, <1>3, <2>1
<1>6. ASSUME NEW t \in Sessions, NEW r \in Requests, CreateItem(t, r) PROVE FALSE
  <2>1. session[t] = Idle /\ Overtake(t)
    BY <1>6 DEF CreateItem
  <2>2. t # s
    BY <1>3, <2>1
  <2> QED BY <1>5, <2>1, <2>2 DEF Overtake
<1>7. ASSUME NEW t \in Sessions, t # s, Write(t) PROVE FALSE
  <2>1. Overtake(t)
    BY <1>7 DEF Write
  <2> QED BY <1>5, <1>7, <2>1 DEF Overtake
<1>8. ASSUME NEW t \in Sessions, NEW r \in Requests, Read(t, r) PROVE FALSE
  BY <1>1, <1>8 DEF Read
<1>9. ASSUME NEW t \in Sessions, Rollback(t) PROVE FALSE
  BY <1>1, <1>9 DEF Rollback
<1>10. ASSUME Migrate PROVE FALSE
  BY <1>5, <1>10 DEF Migrate
<1>11. ASSUME UNCHANGED vars PROVE FALSE
  BY <1>1, <1>11 DEF vars
<1> QED BY <1>6, <1>7, <1>8, <1>9, <1>10, <1>11 DEF Next

\* What is known of a commit nobody overtook.
Committed(p) ==
    /\ PlanTyped(p) /\ Promise(p, items, aliases, relations)
    /\ ~Stale(p) /\ ~Refused(p) /\ Fits(p)
    /\ items' = ItemsAfter(p)
    /\ aliases' = (aliases \ p.goneWords) \cup WordsWritten(p)
    /\ relations' = RelationsAfter(p)

(* A commit nobody overtook writes a plan whose promise still stands. *)
LEMMA CommitIs ==
    ASSUME IInv, [Next]_vars, NEW s \in Sessions, NEW op, op # "none", Commits(s, op)
    PROVE  Committed(session[s].plan)
<1>1. Write(s)
  BY CommitIsWrite DEF IInv
<1>2. session[s].plan # NoPlan /\ ~session[s].overtaken
  BY <1>1 DEF Commits, Write
<1>3. PlanTyped(session[s].plan) /\ Promise(session[s].plan, items, aliases, relations)
  BY <1>2 DEF IInv, PlansHold
<1> QED BY <1>1, <1>3 DEF Committed, Write

(* A merge written as promised loses nothing. *)
LEMMA MergeCommitted ==
    ASSUME Tables, NEW p, Committed(p), p.op = "merge"
    PROVE  LosesNothing(p.item, p.gone)
<1>1. PICK i, d, row : i = p.item /\ d = p.gone /\ row = PutRow(p, items[i])
  OBVIOUS
<1>2. PICK I, A, R : I = items' /\ A = aliases' /\ R = relations'
  OBVIOUS
<1>3. /\ PlanTyped(p) /\ ~Stale(p) /\ ~Refused(p) /\ Fits(p)
      /\ I = ItemsAfter(p) /\ R = RelationsAfter(p)
      /\ A = (aliases \ p.goneWords) \cup WordsWritten(p)
      /\ MergePromise(p, items, aliases, relations)
  BY <1>2 DEF Committed, Promise
<1>4. /\ i # d /\ i \in Live(items) /\ d \in Live(items) /\ p.new = NoItem
      /\ CollectTitles(items, aliases, i) \cup CollectTitles(items, aliases, d) \subseteq
            {Norm[row.title]} \cup NormOf(row.original)
              \cup {Norm[a.title] : a \in {b \in aliases : b.item = i}}
              \cup {Norm[w.title] : w \in {v \in p.words : v.item = i}}
      /\ \A k \in Keys : row.ext[k] = IF items[i].ext[k] # NoValue THEN items[i].ext[k]
                                      ELSE items[d].ext[k]
      /\ \A a \in p.goneWords : a.item = d
      /\ \A r \in relations :
            IF d \notin {r.source, r.target}
            THEN r.id \notin p.relDrop /\ KeyOf(Updated(p, r)) = KeyOf(r)
            ELSE LET m == Redirected(r, i, d)
                 IN m.source # m.target =>
                      \E e \in relations : e.id \notin p.relDrop /\ Covers(Updated(p, e), m)
  BY <1>1, <1>3 DEF MergePromise
<1>5. i \in Ids /\ d \in Ids /\ items[i] # NoItem /\ i # 0
  BY <1>4 DEF Live, Ids
<1>6. I[i] = row /\ I[d] = NoItem
  BY <1>1, <1>3, <1>4, <1>5 DEF ItemsAfter, PutRow
<1>7. I[i] # NoItem
  <2>1. i \in Live(ItemsAfter(p))
    BY <1>1, <1>3, <1>4, ItemsWritten
  <2> QED BY <1>3, <2>1 DEF Live
<1>8. CollectTitles(items, aliases, i) \cup CollectTitles(items, aliases, d)
        \subseteq CollectTitles(I, A, i)
  <2>1. ASSUME NEW a \in aliases, a.item = i PROVE a \in A
    BY <1>3, <1>4, <2>1
  <2>2. ASSUME NEW w \in p.words, w.item = i PROVE w \in A
    <3>1. w \in WordsWritten(p)
      BY <1>3, <1>5, <2>2, WordsWrittenAre
    <3> QED BY <1>3, <3>1
  <2>a. row.title \in Titles
    <3>1. row \in ItemRow
      BY <1>3, <1>5, <1>6, <1>7, ItemsWritten
    <3> QED BY <3>1, ItemRowIs
  <2>3. {Norm[row.title]} \cup NormOf(row.original) \subseteq CollectTitles(I, A, i) \cup {NoText}
    <3>1. row.title # NoText
      BY <2>a, TextAssumption
    <3>2. NormOf(I[i].title) = {Norm[row.title]} \ {NoText}
      BY <1>6, <3>1 DEF NormOf
    <3> QED BY <1>6, <3>2 DEF CollectTitles
  <2>4. {Norm[a.title] : a \in {b \in aliases : b.item = i}} \subseteq CollectTitles(I, A, i) \cup {NoText}
    BY <2>1 DEF CollectTitles
  <2>5. {Norm[w.title] : w \in {v \in p.words : v.item = i}} \subseteq CollectTitles(I, A, i) \cup {NoText}
    BY <2>2 DEF CollectTitles
  <2>6. NoText \notin CollectTitles(items, aliases, i) \cup CollectTitles(items, aliases, d)
    BY <1>4, TitlesAreTitles, TextAssumption DEF Tables
  <2> QED BY <1>4, <2>3, <2>4, <2>5, <2>6
<1>9. \A r \in relations : r.id \notin p.relDrop => Updated(p, r) \in R /\ Updated(p, r).id = r.id
  BY <1>3, RelationsWritten
<1>10. ASSUME NEW r \in relations
       PROVE  IF d \notin {r.source, r.target}
              THEN \E q \in R : q.id = r.id /\ KeyOf(q) = KeyOf(r)
              ELSE LET m == Redirected(r, i, d)
                   IN m.source # m.target => \E q \in R : Covers(q, m)
  <2>1. CASE d \notin {r.source, r.target}
    BY <1>4, <1>9, <2>1
  <2>2. CASE d \in {r.source, r.target}
    <3> DEFINE m == Redirected(r, i, d)
    <3>1. m.source # m.target =>
            \E e \in relations : e.id \notin p.relDrop /\ Covers(Updated(p, e), m)
      BY <1>4, <2>2
    <3> HIDE DEF m
    <3>2. m.source # m.target => \E q \in R : Covers(q, m)
      BY <1>9, <3>1
    <3> QED BY <2>2, <3>2 DEF m
  <2> QED BY <2>1, <2>2
<1>11. \A k \in Keys : I[i].ext[k] = IF items[i].ext[k] # NoValue THEN items[i].ext[k]
                                     ELSE items[d].ext[k]
  BY <1>4, <1>6
<1>12. LosesNothing(i, d)
  BY <1>2, <1>6, <1>7, <1>8, <1>10, <1>11 DEF LosesNothing
<1> QED BY <1>1, <1>12

(* An import written as promised takes nothing away and repeats no entry. *)
LEMMA ImportCommitted ==
    ASSUME Tables, NEW p, Committed(p), p.op = "import"
    PROVE  (~p.overwrite => TakesNothing) /\ NewIsUnknown
<1>1. PICK I : I = items'
  OBVIOUS
<1>2. /\ PlanTyped(p) /\ ~Stale(p) /\ Fits(p) /\ I = ItemsAfter(p)
      /\ relations' = RelationsAfter(p)
      /\ aliases' = (aliases \ p.goneWords) \cup WordsWritten(p)
      /\ ImportPromise(p, items, aliases)
  BY <1>1 DEF Committed, Promise
<1>3. p.goneWords = {} /\ p.relDrop = {} /\ p.link = {} /\ DOMAIN p.relPut = {} /\ p.gone = 0
  BY <1>2 DEF ImportPromise
<1>4. p.new # NoItem => NextItem \in Ids /\ NextItem \notin Live(items)
  BY <1>2, NextItemIsNew DEF Fits
<1>5. ASSUME NEW i \in Ids
      PROVE  I[i] = IF p.new # NoItem /\ i = NextItem THEN p.new
                    ELSE IF i = p.item /\ DOMAIN p.put # {} THEN Over(p.put, items[i])
                    ELSE items[i]
  <2>1. i # p.gone
    BY <1>3 DEF Ids
  <2> QED BY <1>2, <2>1 DEF ItemsAfter
<1>6. ASSUME ~p.overwrite PROVE TakesNothing
  <2>1. relations' = relations
    <3>1. RelationsAfter(p) = relations
      BY <1>3 DEF RelationsAfter
    <3> QED BY <1>2, <3>1
  <2>2. aliases \subseteq aliases'
    BY <1>2, <1>3
  <2>3. ASSUME NEW i \in Live(items) PROVE I[i] # NoItem /\ KeepsValues(I[i], items[i])
    <3>1. i \in Ids /\ i # p.gone
      BY <1>3 DEF Live, Ids
    <3>2. I[i] # NoItem
      <4>1. i \in Live(ItemsAfter(p))
        BY <1>2, <3>1, ItemsWritten
      <4> QED BY <1>2, <4>1 DEF Live
    <3>3. ~(p.new # NoItem /\ i = NextItem)
      BY <1>4
    <3>4. CASE i = p.item /\ DOMAIN p.put # {}
      <4>1. I[i] = Over(p.put, items[i])
        BY <1>5, <3>1, <3>3, <3>4
      <4>2. KeepsValues(Over(p.put, items[p.item]), items[p.item])
        BY <1>2, <1>6, <3>4 DEF ImportPromise
      <4> QED BY <3>2, <3>4, <4>1, <4>2
    <3>5. CASE ~(i = p.item /\ DOMAIN p.put # {})
      <4>1. I[i] = items[i]
        BY <1>5, <3>1, <3>3, <3>5
      <4> QED BY <3>2, <4>1 DEF KeepsValues
    <3> QED BY <3>4, <3>5
  <2> QED BY <1>1, <2>1, <2>2, <2>3 DEF TakesNothing
<1>7. ASSUME NEW i \in Ids, items[i] = NoItem, I[i] # NoItem,
             NEW j \in Hits(items, aliases, I[i].title)
      PROVE  KnownAs(items, aliases, j, I[i]) => CutOff(items, aliases, j, I[i])
  <2>1. ~(i = p.item /\ DOMAIN p.put # {})
    BY <1>2, <1>7 DEF Stale, Live
  <2>2. p.new # NoItem /\ I[i] = p.new
    BY <1>5, <1>7, <2>1
  <2> QED BY <1>2, <1>7, <2>2 DEF ImportPromise
<1>8. NewIsUnknown
  BY <1>1, <1>7 DEF NewIsUnknown
<1> QED BY <1>6, <1>8

\* A merge nobody overtook keeps every name, external id and relation of both
\* entries (merge.py:159-393).
THEOREM MergesKeepKnowledge == Spec => MergeKeepsKnowledge
<1>1. IInv /\ [Next]_vars =>
        [\A s \in Sessions : Commits(s, "merge") =>
           LosesNothing(session[s].plan.item, session[s].plan.gone)]_vars
  <2> SUFFICES ASSUME IInv, [Next]_vars, NEW s \in Sessions, Commits(s, "merge")
               PROVE  LosesNothing(session[s].plan.item, session[s].plan.gone)
    OBVIOUS
  <2>1. PICK p : p = session[s].plan
    OBVIOUS
  <2>2. Committed(p)
    <3>1. Committed(session[s].plan)
      BY CommitIs
    <3> QED BY <2>1, <3>1 DEF Committed
  <2>3. p.op = "merge"
    BY <2>1 DEF Commits
  <2>4. Tables
    BY ConsistentTables DEF IInv
  <2>5. LosesNothing(p.item, p.gone)
    BY <2>2, <2>3, <2>4, MergeCommitted
  <2> QED BY <2>1, <2>5 DEF LosesNothing
<1> QED BY <1>1, Invariant, PTL DEF Spec, MergeKeepsKnowledge

\* An import nobody overtook, and not asked to overwrite, takes no entry,
\* value, alias or relation away, nor an external id as the matcher reads it
\* (importer.py:81, 353-475).
THEOREM ImportsKeepValues == Spec => ImportKeepsValues
<1>1. IInv /\ [Next]_vars =>
        [\A s \in Sessions :
           Commits(s, "import") /\ ~session[s].plan.overwrite => TakesNothing]_vars
  <2> SUFFICES ASSUME IInv, [Next]_vars, NEW s \in Sessions, Commits(s, "import"),
                      ~session[s].plan.overwrite
               PROVE  TakesNothing
    OBVIOUS
  <2>1. PICK p : p = session[s].plan
    OBVIOUS
  <2>2. Committed(p)
    <3>1. Committed(session[s].plan)
      BY CommitIs
    <3> QED BY <2>1, <3>1 DEF Committed
  <2>3. p.op = "import" /\ ~p.overwrite
    BY <2>1 DEF Commits
  <2>4. Tables
    BY ConsistentTables DEF IInv
  <2> QED BY <2>2, <2>3, <2>4, ImportCommitted
<1> QED BY <1>1, Invariant, PTL DEF Spec, ImportKeepsValues

\* An import nobody overtook adds no entry that a search for the title, looking
\* at its first MaxCandidates finds, would have recognised (importer.py:195-252,
\* matcher.py:67-118, 251-322).
THEOREM NewEntriesAreNew == Spec => CreateMeansNew
<1>1. IInv /\ [Next]_vars =>
        [\A s \in Sessions : Commits(s, "import") => NewIsUnknown]_vars
  <2> SUFFICES ASSUME IInv, [Next]_vars, NEW s \in Sessions, Commits(s, "import")
               PROVE  NewIsUnknown
    OBVIOUS
  <2>1. PICK p : p = session[s].plan
    OBVIOUS
  <2>2. Committed(p)
    <3>1. Committed(session[s].plan)
      BY CommitIs
    <3> QED BY <2>1, <3>1 DEF Committed
  <2>3. p.op = "import"
    BY <2>1 DEF Commits
  <2>4. Tables
    BY ConsistentTables DEF IInv
  <2> QED BY <2>2, <2>3, <2>4, ImportCommitted
<1> QED BY <1>1, Invariant, PTL DEF Spec, CreateMeansNew

\* The migration keeps every relation, as it was or with normalised types, and
\* leaves none as it was when it meets no conflict
\* (migrations/normalize_knowledge_relations.py:9-57).
THEOREM MigrationKeepsRows == Spec => MigrationKeepsRelations
<1>1. IInv /\ [Next]_vars => [Migrate => RowsKept]_vars
  <2> SUFFICES ASSUME IInv, Migrate
               PROVE  RowsKept
    OBVIOUS
  <2>1. Tables
    BY ConsistentTables DEF IInv
  <2>2. relations' = Migrated.rows
    BY DEF Migrate
  <2> QED BY <2>1, <2>2, MigrationLeaves DEF RowsKept
<1> QED BY <1>1, Invariant, PTL DEF Spec, MigrationKeepsRelations

-----------------------------------------------------------------------------
(* The graph: what the loops of a search and of a list compute. *)

(* The balls around an entry, one per depth. *)
LEMMA BallsAre ==
    ASSUME NEW types, NEW i
    PROVE  \A n \in 0 .. DepthLimit :
             Balls(relations, types, i)[n] =
               IF n = 0 THEN {i} ELSE Wider(relations, types, Balls(relations, types, i)[n - 1])
<1> DEFINE start == {i}
           turn(st, n) == Wider(relations, types, st)
           Upto(g, k) == g = [n \in 0 .. k |-> IF n = 0 THEN start ELSE turn(g[n - 1], n)]
           N == DepthLimit
           T == {k \in 0 .. N : \E g : Upto(g, k)}
<1>0. N \in Nat
  BY DEF DepthLimit
<1> HIDE DEF N, start
<1>1. 0 \in T
  <2> HIDE DEF turn
  <2>1. Upto([n \in 0 .. 0 |-> start], 0)
    OBVIOUS
  <2> HIDE DEF Upto
  <2> QED BY <2>1, <1>0
<1>2. ASSUME NEW k \in 1 .. N, k - 1 \in T
      PROVE  k \in T
  <2> HIDE DEF turn
  <2>1. PICK g : Upto(g, k - 1)
    BY <1>2
  <2>2. k \in Nat /\ k >= 1 /\ k \in 0 .. N
    BY <1>0
  <2> DEFINE h == [n \in 0 .. k |-> IF n < k THEN g[n] ELSE turn(g[k - 1], k)]
  <2>3. ASSUME NEW n \in 0 .. k
        PROVE  h[n] = IF n = 0 THEN start ELSE turn(h[n - 1], n)
    <3>1. CASE n = k
      <4>1. h[n] = turn(g[k - 1], k) /\ h[n - 1] = g[k - 1]
        BY <2>2, <3>1
      <4> QED BY <2>2, <3>1, <4>1
    <3>2. CASE n # k
      <4>1. n \in 0 .. k - 1 /\ n < k /\ (n # 0 => n - 1 \in 0 .. k - 1 /\ n - 1 \in 0 .. k /\ n - 1 < k)
        BY <2>2, <3>2
      <4>2. g[n] = IF n = 0 THEN start ELSE turn(g[n - 1], n)
        BY <2>1, <4>1
      <4>3. h[n] = g[n] /\ (n # 0 => h[n - 1] = g[n - 1])
        BY <4>1
      <4> QED BY <4>2, <4>3
    <3> QED BY <3>1, <3>2
  <2>4. Upto(h, k)
    BY <2>3
  <2> QED BY <2>2, <2>4
<1>3. N \in T
  <2>1. 0 .. N \subseteq T
    <3> HIDE DEF T
    <3> QED BY <1>0, <1>1, <1>2, Upward
  <2> HIDE DEF T
  <2> QED BY <2>1, <1>0
<1>4. \E f : f = [n \in 0 .. N |-> IF n = 0 THEN start ELSE turn(f[n - 1], n)]
  <2> HIDE DEF turn
  <2> QED BY <1>3
<1> DEFINE done == Balls(relations, types, i)
<1>5. done = [n \in 0 .. N |-> IF n = 0 THEN start ELSE turn(done[n - 1], n)]
  BY <1>4, Zenon DEF Balls, N, start
<1> HIDE DEF turn, done
<1>6. \A n \in 0 .. N : done[n] = IF n = 0 THEN start ELSE turn(done[n - 1], n)
  BY <1>5
<1> QED BY <1>6 DEF done, turn, N, start

DueAt(types, c) == {r.id : r \in {q \in RelationsFor(relations, c) : types = {} \/ q.type \in types}}

(* The loop over the relations of an entry, one step per id. *)
LEMMA ExpandStepsAre ==
    ASSUME NEW types, NEW c, NEW s
    PROVE  \A n \in 0 .. MaxRelation :
             ExpandSteps(items, relations, types, c, s)[n] =
               IF n = 0 THEN s ELSE IF n \in DueAt(types, c)
                    THEN Follow(items, c, ExpandSteps(items, relations, types, c, s)[n - 1], RowAt(relations, n))
               ELSE ExpandSteps(items, relations, types, c, s)[n - 1]
<1> DEFINE start == s
           turn(st, n) == IF n \in DueAt(types, c) THEN Follow(items, c, st, RowAt(relations, n)) ELSE st
           Upto(g, k) == g = [n \in 0 .. k |-> IF n = 0 THEN start ELSE turn(g[n - 1], n)]
           N == MaxRelation
           T == {k \in 0 .. N : \E g : Upto(g, k)}
<1>0. N \in Nat
  BY RelationAssumption
<1> HIDE DEF N, start
<1>1. 0 \in T
  <2> HIDE DEF turn
  <2>1. Upto([n \in 0 .. 0 |-> start], 0)
    OBVIOUS
  <2> HIDE DEF Upto
  <2> QED BY <2>1, <1>0
<1>2. ASSUME NEW k \in 1 .. N, k - 1 \in T
      PROVE  k \in T
  <2> HIDE DEF turn
  <2>1. PICK g : Upto(g, k - 1)
    BY <1>2
  <2>2. k \in Nat /\ k >= 1 /\ k \in 0 .. N
    BY <1>0
  <2> DEFINE h == [n \in 0 .. k |-> IF n < k THEN g[n] ELSE turn(g[k - 1], k)]
  <2>3. ASSUME NEW n \in 0 .. k
        PROVE  h[n] = IF n = 0 THEN start ELSE turn(h[n - 1], n)
    <3>1. CASE n = k
      <4>1. h[n] = turn(g[k - 1], k) /\ h[n - 1] = g[k - 1]
        BY <2>2, <3>1
      <4> QED BY <2>2, <3>1, <4>1
    <3>2. CASE n # k
      <4>1. n \in 0 .. k - 1 /\ n < k /\ (n # 0 => n - 1 \in 0 .. k - 1 /\ n - 1 \in 0 .. k /\ n - 1 < k)
        BY <2>2, <3>2
      <4>2. g[n] = IF n = 0 THEN start ELSE turn(g[n - 1], n)
        BY <2>1, <4>1
      <4>3. h[n] = g[n] /\ (n # 0 => h[n - 1] = g[n - 1])
        BY <4>1
      <4> QED BY <4>2, <4>3
    <3> QED BY <3>1, <3>2
  <2>4. Upto(h, k)
    BY <2>3
  <2> QED BY <2>2, <2>4
<1>3. N \in T
  <2>1. 0 .. N \subseteq T
    <3> HIDE DEF T
    <3> QED BY <1>0, <1>1, <1>2, Upward
  <2> HIDE DEF T
  <2> QED BY <2>1, <1>0
<1>4. \E f : f = [n \in 0 .. N |-> IF n = 0 THEN start ELSE turn(f[n - 1], n)]
  <2> HIDE DEF turn
  <2> QED BY <1>3
<1> DEFINE done == ExpandSteps(items, relations, types, c, s)
<1>5. done = [n \in 0 .. N |-> IF n = 0 THEN start ELSE turn(done[n - 1], n)]
  BY <1>4, Zenon DEF ExpandSteps, DueAt, N, start
<1> HIDE DEF turn, done
<1>6. \A n \in 0 .. N : done[n] = IF n = 0 THEN start ELSE turn(done[n - 1], n)
  BY <1>5
<1> QED BY <1>6 DEF done, turn, N, start

(* The turns of a search. *)
LEMMA SearchStepsAre ==
    ASSUME NEW types, NEW i, NEW d
    PROVE  \A n \in 0 .. MaxItem :
             SearchSteps(items, relations, i, d, types)[n] =
               IF n = 0 THEN Begun(i) ELSE IF SearchSteps(items, relations, i, d, types)[n - 1].queue = <<>>
                    THEN SearchSteps(items, relations, i, d, types)[n - 1]
               ELSE Turn(items, relations, types, d, SearchSteps(items, relations, i, d, types)[n - 1])
<1> DEFINE start == Begun(i)
           turn(st, n) == IF st.queue = <<>> THEN st ELSE Turn(items, relations, types, d, st)
           Upto(g, k) == g = [n \in 0 .. k |-> IF n = 0 THEN start ELSE turn(g[n - 1], n)]
           N == MaxItem
           T == {k \in 0 .. N : \E g : Upto(g, k)}
<1>0. N \in Nat
  BY MaxItemAssumption
<1> HIDE DEF N, start
<1>1. 0 \in T
  <2> HIDE DEF turn
  <2>1. Upto([n \in 0 .. 0 |-> start], 0)
    OBVIOUS
  <2> HIDE DEF Upto
  <2> QED BY <2>1, <1>0
<1>2. ASSUME NEW k \in 1 .. N, k - 1 \in T
      PROVE  k \in T
  <2> HIDE DEF turn
  <2>1. PICK g : Upto(g, k - 1)
    BY <1>2
  <2>2. k \in Nat /\ k >= 1 /\ k \in 0 .. N
    BY <1>0
  <2> DEFINE h == [n \in 0 .. k |-> IF n < k THEN g[n] ELSE turn(g[k - 1], k)]
  <2>3. ASSUME NEW n \in 0 .. k
        PROVE  h[n] = IF n = 0 THEN start ELSE turn(h[n - 1], n)
    <3>1. CASE n = k
      <4>1. h[n] = turn(g[k - 1], k) /\ h[n - 1] = g[k - 1]
        BY <2>2, <3>1
      <4> QED BY <2>2, <3>1, <4>1
    <3>2. CASE n # k
      <4>1. n \in 0 .. k - 1 /\ n < k /\ (n # 0 => n - 1 \in 0 .. k - 1 /\ n - 1 \in 0 .. k /\ n - 1 < k)
        BY <2>2, <3>2
      <4>2. g[n] = IF n = 0 THEN start ELSE turn(g[n - 1], n)
        BY <2>1, <4>1
      <4>3. h[n] = g[n] /\ (n # 0 => h[n - 1] = g[n - 1])
        BY <4>1
      <4> QED BY <4>2, <4>3
    <3> QED BY <3>1, <3>2
  <2>4. Upto(h, k)
    BY <2>3
  <2> QED BY <2>2, <2>4
<1>3. N \in T
  <2>1. 0 .. N \subseteq T
    <3> HIDE DEF T
    <3> QED BY <1>0, <1>1, <1>2, Upward
  <2> HIDE DEF T
  <2> QED BY <2>1, <1>0
<1>4. \E f : f = [n \in 0 .. N |-> IF n = 0 THEN start ELSE turn(f[n - 1], n)]
  <2> HIDE DEF turn
  <2> QED BY <1>3
<1> DEFINE done == SearchSteps(items, relations, i, d, types)
<1>5. done = [n \in 0 .. N |-> IF n = 0 THEN start ELSE turn(done[n - 1], n)]
  BY <1>4, Zenon DEF SearchSteps, N, start
<1> HIDE DEF turn, done
<1>6. \A n \in 0 .. N : done[n] = IF n = 0 THEN start ELSE turn(done[n - 1], n)
  BY <1>5
<1> QED BY <1>6 DEF done, turn, N, start

(* The way back, entry by entry. *)
LEMMA PathStepsAre ==
    ASSUME NEW s, NEW i, NEW j
    PROVE  \A n \in 0 .. MaxItem :
             PathSteps(s, i, j)[n] =
               IF n = 0 THEN <<j>> ELSE IF Head(PathSteps(s, i, j)[n - 1]) = i THEN PathSteps(s, i, j)[n - 1]
               ELSE <<s.from[Head(PathSteps(s, i, j)[n - 1])].item>> \o PathSteps(s, i, j)[n - 1]
<1> DEFINE start == <<j>>
           turn(st, n) == IF Head(st) = i THEN st ELSE <<s.from[Head(st)].item>> \o st
           Upto(g, k) == g = [n \in 0 .. k |-> IF n = 0 THEN start ELSE turn(g[n - 1], n)]
           N == MaxItem
           T == {k \in 0 .. N : \E g : Upto(g, k)}
<1>0. N \in Nat
  BY MaxItemAssumption
<1> HIDE DEF N, start
<1>1. 0 \in T
  <2> HIDE DEF turn
  <2>1. Upto([n \in 0 .. 0 |-> start], 0)
    OBVIOUS
  <2> HIDE DEF Upto
  <2> QED BY <2>1, <1>0
<1>2. ASSUME NEW k \in 1 .. N, k - 1 \in T
      PROVE  k \in T
  <2> HIDE DEF turn
  <2>1. PICK g : Upto(g, k - 1)
    BY <1>2
  <2>2. k \in Nat /\ k >= 1 /\ k \in 0 .. N
    BY <1>0
  <2> DEFINE h == [n \in 0 .. k |-> IF n < k THEN g[n] ELSE turn(g[k - 1], k)]
  <2>3. ASSUME NEW n \in 0 .. k
        PROVE  h[n] = IF n = 0 THEN start ELSE turn(h[n - 1], n)
    <3>1. CASE n = k
      <4>1. h[n] = turn(g[k - 1], k) /\ h[n - 1] = g[k - 1]
        BY <2>2, <3>1
      <4> QED BY <2>2, <3>1, <4>1
    <3>2. CASE n # k
      <4>1. n \in 0 .. k - 1 /\ n < k /\ (n # 0 => n - 1 \in 0 .. k - 1 /\ n - 1 \in 0 .. k /\ n - 1 < k)
        BY <2>2, <3>2
      <4>2. g[n] = IF n = 0 THEN start ELSE turn(g[n - 1], n)
        BY <2>1, <4>1
      <4>3. h[n] = g[n] /\ (n # 0 => h[n - 1] = g[n - 1])
        BY <4>1
      <4> QED BY <4>2, <4>3
    <3> QED BY <3>1, <3>2
  <2>4. Upto(h, k)
    BY <2>3
  <2> QED BY <2>2, <2>4
<1>3. N \in T
  <2>1. 0 .. N \subseteq T
    <3> HIDE DEF T
    <3> QED BY <1>0, <1>1, <1>2, Upward
  <2> HIDE DEF T
  <2> QED BY <2>1, <1>0
<1>4. \E f : f = [n \in 0 .. N |-> IF n = 0 THEN start ELSE turn(f[n - 1], n)]
  <2> HIDE DEF turn
  <2> QED BY <1>3
<1> DEFINE done == PathSteps(s, i, j)
<1>5. done = [n \in 0 .. N |-> IF n = 0 THEN start ELSE turn(done[n - 1], n)]
  BY <1>4, Zenon DEF PathSteps, N, start
<1> HIDE DEF turn, done
<1>6. \A n \in 0 .. N : done[n] = IF n = 0 THEN start ELSE turn(done[n - 1], n)
  BY <1>5
<1> QED BY <1>6 DEF done, turn, N, start

(* The loop over a list of relations. *)
LEMMA EnterStepsAre ==
    ASSUME NEW i, NEW sorted, Len(sorted) \in Nat
    PROVE  \A n \in 0 .. Len(sorted) :
             EnterSteps(i, sorted)[n] =
               IF n = 0 THEN [x \in {i} |-> 0] ELSE Enter(i, EnterSteps(i, sorted)[n - 1], sorted[n])
<1> DEFINE start == [x \in {i} |-> 0]
           turn(st, n) == Enter(i, st, sorted[n])
           Upto(g, k) == g = [n \in 0 .. k |-> IF n = 0 THEN start ELSE turn(g[n - 1], n)]
           N == Len(sorted)
           T == {k \in 0 .. N : \E g : Upto(g, k)}
<1>0. N \in Nat
  BY Zenon
<1> HIDE DEF N, start
<1>1. 0 \in T
  <2> HIDE DEF turn
  <2>1. Upto([n \in 0 .. 0 |-> start], 0)
    OBVIOUS
  <2> HIDE DEF Upto
  <2> QED BY <2>1, <1>0
<1>2. ASSUME NEW k \in 1 .. N, k - 1 \in T
      PROVE  k \in T
  <2> HIDE DEF turn
  <2>1. PICK g : Upto(g, k - 1)
    BY <1>2
  <2>2. k \in Nat /\ k >= 1 /\ k \in 0 .. N
    BY <1>0
  <2> DEFINE h == [n \in 0 .. k |-> IF n < k THEN g[n] ELSE turn(g[k - 1], k)]
  <2>3. ASSUME NEW n \in 0 .. k
        PROVE  h[n] = IF n = 0 THEN start ELSE turn(h[n - 1], n)
    <3>1. CASE n = k
      <4>1. h[n] = turn(g[k - 1], k) /\ h[n - 1] = g[k - 1]
        BY <2>2, <3>1
      <4> QED BY <2>2, <3>1, <4>1
    <3>2. CASE n # k
      <4>1. n \in 0 .. k - 1 /\ n < k /\ (n # 0 => n - 1 \in 0 .. k - 1 /\ n - 1 \in 0 .. k /\ n - 1 < k)
        BY <2>2, <3>2
      <4>2. g[n] = IF n = 0 THEN start ELSE turn(g[n - 1], n)
        BY <2>1, <4>1
      <4>3. h[n] = g[n] /\ (n # 0 => h[n - 1] = g[n - 1])
        BY <4>1
      <4> QED BY <4>2, <4>3
    <3> QED BY <3>1, <3>2
  <2>4. Upto(h, k)
    BY <2>3
  <2> QED BY <2>2, <2>4
<1>3. N \in T
  <2>1. 0 .. N \subseteq T
    <3> HIDE DEF T
    <3> QED BY <1>0, <1>1, <1>2, Upward
  <2> HIDE DEF T
  <2> QED BY <2>1, <1>0
<1>4. \E f : f = [n \in 0 .. N |-> IF n = 0 THEN start ELSE turn(f[n - 1], n)]
  <2> HIDE DEF turn
  <2> QED BY <1>3
<1> DEFINE done == EnterSteps(i, sorted)
<1>5. done = [n \in 0 .. N |-> IF n = 0 THEN start ELSE turn(done[n - 1], n)]
  BY <1>4, Zenon DEF EnterSteps, N, start
<1> HIDE DEF turn, done
<1>6. \A n \in 0 .. N : done[n] = IF n = 0 THEN start ELSE turn(done[n - 1], n)
  BY <1>5
<1> QED BY <1>6 DEF done, turn, N, start

(* What is left of a set when its first members are taken. *)
LEMMA RemainingAre ==
    ASSUME NEW S, NEW before, Cardinality(S) \in Nat
    PROVE  \A n \in 0 .. Cardinality(S) :
             Remaining(S, before)[n] =
               IF n = 0 THEN S ELSE Remaining(S, before)[n - 1] \ {First(Remaining(S, before)[n - 1], before)}
<1> DEFINE start == S
           turn(st, n) == st \ {First(st, before)}
           Upto(g, k) == g = [n \in 0 .. k |-> IF n = 0 THEN start ELSE turn(g[n - 1], n)]
           N == Cardinality(S)
           T == {k \in 0 .. N : \E g : Upto(g, k)}
<1>0. N \in Nat
  BY Zenon
<1> HIDE DEF N, start
<1>1. 0 \in T
  <2> HIDE DEF turn
  <2>1. Upto([n \in 0 .. 0 |-> start], 0)
    OBVIOUS
  <2> HIDE DEF Upto
  <2> QED BY <2>1, <1>0
<1>2. ASSUME NEW k \in 1 .. N, k - 1 \in T
      PROVE  k \in T
  <2> HIDE DEF turn
  <2>1. PICK g : Upto(g, k - 1)
    BY <1>2
  <2>2. k \in Nat /\ k >= 1 /\ k \in 0 .. N
    BY <1>0
  <2> DEFINE h == [n \in 0 .. k |-> IF n < k THEN g[n] ELSE turn(g[k - 1], k)]
  <2>3. ASSUME NEW n \in 0 .. k
        PROVE  h[n] = IF n = 0 THEN start ELSE turn(h[n - 1], n)
    <3>1. CASE n = k
      <4>1. h[n] = turn(g[k - 1], k) /\ h[n - 1] = g[k - 1]
        BY <2>2, <3>1
      <4> QED BY <2>2, <3>1, <4>1
    <3>2. CASE n # k
      <4>1. n \in 0 .. k - 1 /\ n < k /\ (n # 0 => n - 1 \in 0 .. k - 1 /\ n - 1 \in 0 .. k /\ n - 1 < k)
        BY <2>2, <3>2
      <4>2. g[n] = IF n = 0 THEN start ELSE turn(g[n - 1], n)
        BY <2>1, <4>1
      <4>3. h[n] = g[n] /\ (n # 0 => h[n - 1] = g[n - 1])
        BY <4>1
      <4> QED BY <4>2, <4>3
    <3> QED BY <3>1, <3>2
  <2>4. Upto(h, k)
    BY <2>3
  <2> QED BY <2>2, <2>4
<1>3. N \in T
  <2>1. 0 .. N \subseteq T
    <3> HIDE DEF T
    <3> QED BY <1>0, <1>1, <1>2, Upward
  <2> HIDE DEF T
  <2> QED BY <2>1, <1>0
<1>4. \E f : f = [n \in 0 .. N |-> IF n = 0 THEN start ELSE turn(f[n - 1], n)]
  <2> HIDE DEF turn
  <2> QED BY <1>3
<1> DEFINE done == Remaining(S, before)
<1>5. done = [n \in 0 .. N |-> IF n = 0 THEN start ELSE turn(done[n - 1], n)]
  BY <1>4, Zenon DEF Remaining, N, start
<1> HIDE DEF turn, done
<1>6. \A n \in 0 .. N : done[n] = IF n = 0 THEN start ELSE turn(done[n - 1], n)
  BY <1>5
<1> QED BY <1>6 DEF done, turn, N, start

-----------------------------------------------------------------------------
(* The graph: what a search keeps. *)

\* The relations a search may use, and the other end of one.
Usable(types) == {r \in relations : types = {} \/ r.type \in types}
Ends(r) == {r.source, r.target}

(* The other end of a relation, and what it means for two entries to be adjacent. *)
LEMMA ConnectedIs ==
    ASSUME Tables, NEW types, NEW r \in Usable(types), NEW c \in Ends(r)
    PROVE  /\ c \in Ids /\ Connected(r, c) \in Ids /\ Ends(r) = {c, Connected(r, c)}
           /\ Adjacent(relations, types, c, Connected(r, c))
<1>1. r \in relations /\ r.source \in Ids /\ r.target \in Ids
  BY RelationRowIs DEF Tables, Usable
<1>2. Ends(r) = {c, Connected(r, c)} /\ Connected(r, c) \in Ids
  BY <1>1 DEF Ends, Connected
<1> QED BY <1>1, <1>2 DEF Usable, Ends, Adjacent

(* Adjacent entries are the two ends of a usable relation. *)
LEMMA AdjacentIs ==
    ASSUME Tables, NEW types, NEW a, NEW b, Adjacent(relations, types, a, b)
    PROVE  \E r \in Usable(types) : a \in Ends(r) /\ Connected(r, a) = b
<1>1. PICK r \in relations : {r.source, r.target} = {a, b} /\ (types = {} \/ r.type \in types)
  BY DEF Adjacent
<1>2. Connected(r, a) = b /\ a \in Ends(r)
  BY <1>1 DEF Connected, Ends
<1> QED BY <1>1, <1>2 DEF Usable

(* The balls grow, within the ids. *)
LEMMA BallsGrow ==
    ASSUME NEW types, NEW i \in Ids
    PROVE  \A n \in 0 .. DepthLimit :
             /\ Within(relations, types, i, n) \subseteq Ids
             /\ i \in Within(relations, types, i, n)
             /\ \A m \in 0 .. n : Within(relations, types, i, m) \subseteq Within(relations, types, i, n)
<1> DEFINE ball(n) == Within(relations, types, i, n)
           T == {n \in 0 .. DepthLimit : /\ ball(n) \subseteq Ids /\ i \in ball(n)
                                         /\ \A m \in 0 .. n : ball(m) \subseteq ball(n)}
<1>0. DepthLimit \in Nat
  BY DEF DepthLimit
<1>1. \A n \in 0 .. DepthLimit :
         ball(n) = IF n = 0 THEN {i} ELSE Wider(relations, types, ball(n - 1))
  BY BallsAre DEF Within
<1> HIDE DEF ball
<1>2. 0 \in T
  BY <1>0, <1>1
<1>3. ASSUME NEW n \in 1 .. DepthLimit, n - 1 \in T PROVE n \in T
  <2>1. n \in 0 .. DepthLimit /\ n # 0 /\ n \in Nat
    BY <1>0
  <2>2. ball(n - 1) \subseteq ball(n) /\ ball(n) \subseteq Ids
    BY <1>1, <1>3, <2>1 DEF Wider
  <2>3. \A m \in 0 .. n : m = n \/ m \in 0 .. n - 1
    BY <2>1
  <2> QED BY <1>3, <2>1, <2>2, <2>3
<1>4. 0 .. DepthLimit \subseteq T
  <2> HIDE DEF T
  <2> QED BY <1>0, <1>2, <1>3, Upward
<1> QED BY <1>4 DEF ball

(* The next ball holds what is adjacent to this one, and nothing more. *)
LEMMA NextBall ==
    ASSUME NEW types, NEW i \in Ids, NEW n \in 0 .. DepthLimit, n + 1 <= DepthLimit, NEW b \in Ids
    PROVE  b \in Within(relations, types, i, n + 1) <=>
             \/ b \in Within(relations, types, i, n)
             \/ \E a \in Within(relations, types, i, n) : Adjacent(relations, types, a, b)
<1> DEFINE ball == Balls(relations, types, i)
<1>1. n + 1 \in 0 .. DepthLimit /\ n + 1 # 0 /\ (n + 1) - 1 = n
  BY DEF DepthLimit
<1>2. \A k \in 0 .. DepthLimit :
         ball[k] = IF k = 0 THEN {i} ELSE Wider(relations, types, ball[k - 1])
  BY BallsAre DEF ball
<1> HIDE DEF ball
<1>3. ball[n + 1] = Wider(relations, types, ball[n])
  BY <1>1, <1>2
<1> QED BY <1>3 DEF Within, Wider, ball

-----------------------------------------------------------------------------
\* The state of a search.
Shaped(st) ==
    /\ st = [queue |-> st.queue, depth |-> st.depth, from |-> st.from, nodes |-> st.nodes, edges |-> st.edges]
    /\ st.queue \in Seq(Ids)
    /\ \A a, b \in 1 .. Len(st.queue) : st.queue[a] = st.queue[b] => a = b
    /\ \A a \in 1 .. Len(st.queue) : st.queue[a] \in DOMAIN st.depth
    /\ DOMAIN st.depth \subseteq Ids
    /\ \A x \in DOMAIN st.depth : st.depth[x] \in Nat
    /\ st.nodes = DOMAIN st.depth \cap Live(items)
Queued(st) == {st.queue[a] : a \in 1 .. Len(st.queue)}

(* One relation followed. *)
LEMMA FollowIs ==
    ASSUME Tables, NEW st, Shaped(st), NEW types, NEW r \in Usable(types), NEW c \in Ends(r),
           c \in DOMAIN st.depth, NEW t, t = Follow(items, c, st, r)
    PROVE  LET next == Connected(r, c)
           IN /\ Shaped(t)
              /\ DOMAIN t.depth = DOMAIN st.depth \cup {next}
              /\ t.edges = st.edges \cup {r.id}
              /\ next \in DOMAIN st.depth => t.queue = st.queue /\ t.depth = st.depth /\ t.from = st.from
              /\ next \notin DOMAIN st.depth =>
                   /\ t.queue = Append(st.queue, next)
                   /\ \A x \in DOMAIN st.depth : t.depth[x] = st.depth[x]
                   /\ t.depth[next] = st.depth[c] + 1
                   /\ DOMAIN t.from = DOMAIN st.from \cup {next}
                   /\ \A x \in DOMAIN st.from : x # next => t.from[x] = st.from[x]
                   /\ t.from[next].item = c
<1> DEFINE next == Connected(r, c)
           V == DOMAIN st.depth
<1>1. next \in Ids
  BY ConnectedIs
<1> HIDE DEF next
<1>2. CASE next \in V
  <2>1. t = [queue |-> st.queue, depth |-> st.depth, from |-> st.from,
             nodes |-> st.nodes \cup ({next} \cap Live(items)), edges |-> st.edges \cup {r.id}]
    BY <1>2, Zenon DEF Follow, Shaped, next
  <2>2. /\ t.queue = st.queue /\ t.depth = st.depth /\ t.from = st.from
        /\ t.nodes = st.nodes \cup ({next} \cap Live(items)) /\ t.edges = st.edges \cup {r.id}
        /\ t = [queue |-> t.queue, depth |-> t.depth, from |-> t.from, nodes |-> t.nodes, edges |-> t.edges]
    BY <2>1
  <2>3. t.nodes = V \cap Live(items)
    BY <1>2, <2>2 DEF Shaped
  <2>4. Shaped(t)
    BY <2>2, <2>3 DEF Shaped
  <2> QED BY <1>2, <2>2, <2>4 DEF next
<1>3. CASE next \notin V
  <2>1. t = [queue |-> Append(st.queue, next), depth |-> With(st.depth, next, st.depth[c] + 1),
             from |-> With(st.from, next, [item |-> c, relation |-> r]),
             nodes |-> st.nodes \cup ({next} \cap Live(items)), edges |-> st.edges \cup {r.id}]
    BY <1>3 DEF Follow, Shaped, next
  <2>2. /\ t.queue = Append(st.queue, next) /\ t.depth = With(st.depth, next, st.depth[c] + 1)
        /\ t.from = With(st.from, next, [item |-> c, relation |-> r])
        /\ t.nodes = st.nodes \cup ({next} \cap Live(items)) /\ t.edges = st.edges \cup {r.id}
        /\ t = [queue |-> t.queue, depth |-> t.depth, from |-> t.from, nodes |-> t.nodes, edges |-> t.edges]
    BY <2>1
  <2>3. /\ DOMAIN t.depth = V \cup {next} /\ t.depth[next] = st.depth[c] + 1
        /\ \A x \in V : t.depth[x] = st.depth[x]
    BY <1>3, <2>2 DEF With
  <2>4. /\ DOMAIN t.from = DOMAIN st.from \cup {next}
        /\ \A x \in DOMAIN st.from : x # next => t.from[x] = st.from[x]
        /\ t.from[next].item = c
    BY <2>2 DEF With
  <2>5. t.nodes = DOMAIN t.depth \cap Live(items)
    BY <2>2, <2>3 DEF Shaped
  <2>6. /\ Len(t.queue) = Len(st.queue) + 1 /\ t.queue \in Seq(Ids)
        /\ \A a \in 1 .. Len(st.queue) : t.queue[a] = st.queue[a]
        /\ t.queue[Len(st.queue) + 1] = next /\ Len(st.queue) \in Nat
    BY <1>1, <2>2 DEF Shaped
  <2>7. \A a \in 1 .. Len(t.queue) : a \in 1 .. Len(st.queue) \/ a = Len(st.queue) + 1
    BY <2>6
  <2>8. \A a \in 1 .. Len(st.queue) : st.queue[a] \in V
    BY DEF Shaped
  <2>9. \A a, b \in 1 .. Len(t.queue) : t.queue[a] = t.queue[b] => a = b
    BY <1>3, <2>6, <2>7, <2>8 DEF Shaped
  <2>10. \A a \in 1 .. Len(t.queue) : t.queue[a] \in DOMAIN t.depth
    BY <2>3, <2>6, <2>7, <2>8
  <2>11. \A x \in DOMAIN t.depth : t.depth[x] \in Nat /\ x \in Ids
    BY <1>1, <2>3 DEF Shaped
  <2>12. Shaped(t)
    BY <2>2, <2>5, <2>6, <2>9, <2>10, <2>11 DEF Shaped
  <2> QED BY <1>3, <2>2, <2>3, <2>4, <2>12 DEF next
<1> QED BY <1>2, <1>3

\* A state within the turn of entry c, begun in s, when the relations up to id k are done.
Expanding(s, st, types, c, k) ==
    /\ Shaped(st)
    /\ DOMAIN s.depth \subseteq DOMAIN st.depth
    /\ \A x \in DOMAIN s.depth : st.depth[x] = s.depth[x]
    /\ DOMAIN st.from = DOMAIN s.from \cup (DOMAIN st.depth \ DOMAIN s.depth)
    /\ \A x \in DOMAIN s.from : st.from[x] = s.from[x]
    /\ \A y \in DOMAIN st.depth \ DOMAIN s.depth :
         st.depth[y] = s.depth[c] + 1 /\ st.from[y].item = c /\ Adjacent(relations, types, c, y)
    /\ Queued(st) = Queued(s) \cup (DOMAIN st.depth \ DOMAIN s.depth)
    /\ \A a \in 1 .. Len(st.queue) :
         s.depth[c] <= st.depth[st.queue[a]] /\ st.depth[st.queue[a]] <= s.depth[c] + 1
    /\ \A a, b \in 1 .. Len(st.queue) : a <= b => st.depth[st.queue[a]] <= st.depth[st.queue[b]]
    /\ \A e : e \in st.edges <=> e \in s.edges \/ \E r \in Usable(types) : c \in Ends(r) /\ r.id <= k /\ e = r.id
    /\ \A r \in Usable(types) : c \in Ends(r) /\ r.id <= k => Connected(r, c) \in DOMAIN st.depth

(* The relations due at an entry are the usable ones that end there. *)
LEMMA DueIs ==
    ASSUME Tables, NEW types, NEW c, NEW k
    PROVE  /\ k \in DueAt(types, c) =>
                /\ RowAt(relations, k) \in Usable(types) /\ RowAt(relations, k).id = k
                /\ c \in Ends(RowAt(relations, k))
           /\ \A r \in Usable(types) : c \in Ends(r) => r.id \in DueAt(types, c)
           /\ \A r \in Usable(types) : r.id = RowAt(relations, k).id /\ RowAt(relations, k) \in Usable(types)
                => r = RowAt(relations, k)
<1>1. ASSUME NEW r \in Usable(types), c \in Ends(r) PROVE r.id \in DueAt(types, c)
  BY <1>1 DEF Usable, Ends, DueAt, RelationsFor
<1>2. ASSUME k \in DueAt(types, c)
      PROVE  \E r \in Usable(types) : r.id = k /\ c \in Ends(r)
  BY <1>2 DEF DueAt, Usable, Ends, RelationsFor
<1>3. ASSUME NEW r \in relations PROVE RowAt(relations, r.id) = r
  <2>1. RowAt(relations, r.id) \in relations /\ RowAt(relations, r.id).id = r.id
    BY DEF RowAt
  <2> QED BY <2>1 DEF Tables
<1>4. Usable(types) \subseteq relations
  BY DEF Usable
<1>5. \A r, q \in relations : r.id = q.id => r = q
  BY DEF Tables
<1> QED BY <1>1, <1>2, <1>3, <1>4, <1>5

(* One step of the turn. *)
LEMMA ExpandingKept ==
    ASSUME Tables, NEW types, NEW s, Shaped(s), NEW c \in DOMAIN s.depth,
           DOMAIN s.from \subseteq DOMAIN s.depth,
           NEW k \in 1 .. MaxRelation, NEW st, Expanding(s, st, types, c, k - 1),
           NEW t, t = IF k \in DueAt(types, c) THEN Follow(items, c, st, RowAt(relations, k)) ELSE st
    PROVE  Expanding(s, t, types, c, k)
<1> DEFINE V == DOMAIN st.depth
           W == DOMAIN s.depth
           h == s.depth[c]
<1>0. k \in Nat /\ k >= 1
  BY RelationAssumption
<1>1. \A r \in Usable(types) : r.id \in Nat
  BY RelationRowIs DEF Tables, Usable, RelationIds
<1>2. CASE k \notin DueAt(types, c)
  <2>1. t = st
    BY <1>2
  <2>2. \A r \in Usable(types) : c \in Ends(r) => (r.id <= k <=> r.id <= k - 1)
    <3> SUFFICES ASSUME NEW r \in Usable(types), c \in Ends(r) PROVE r.id <= k <=> r.id <= k - 1
      OBVIOUS
    <3>1. r.id # k /\ r.id \in Nat
      BY <1>1, <1>2, DueIs
    <3> QED BY <1>0, <3>1
  <2> QED BY <2>1, <2>2 DEF Expanding
<1>3. CASE k \in DueAt(types, c)
  <2> DEFINE r == RowAt(relations, k)
             next == Connected(r, c)
  <2>1. /\ r \in Usable(types) /\ r.id = k /\ c \in Ends(r)
        /\ \A q \in Usable(types) : q.id = k => q = r
    BY <1>3, DueIs
  <2>2. t = Follow(items, c, st, r)
    BY <1>3
  <2> HIDE DEF r
  <2>3. \A q \in Usable(types) : c \in Ends(q) => (q.id <= k <=> q.id <= k - 1 \/ q = r)
    <3> SUFFICES ASSUME NEW q \in Usable(types), c \in Ends(q) PROVE q.id <= k <=> q.id <= k - 1 \/ q = r
      OBVIOUS
    <3>1. q.id \in Nat /\ (q.id = k => q = r)
      BY <1>1, <2>1
    <3> QED BY <1>0, <2>1, <3>1
  <2>4. /\ next \in Ids /\ Adjacent(relations, types, c, next)
    BY <2>1, ConnectedIs
  <2>5. c \in V /\ Shaped(st) /\ st.depth[c] = h
    BY DEF Expanding
  <2>6. /\ Shaped(t)
        /\ DOMAIN t.depth = V \cup {next}
        /\ t.edges = st.edges \cup {r.id}
        /\ next \in V => t.queue = st.queue /\ t.depth = st.depth /\ t.from = st.from
        /\ next \notin V =>
             /\ t.queue = Append(st.queue, next)
             /\ \A x \in V : t.depth[x] = st.depth[x]
             /\ t.depth[next] = st.depth[c] + 1
             /\ DOMAIN t.from = DOMAIN st.from \cup {next}
             /\ \A x \in DOMAIN st.from : x # next => t.from[x] = st.from[x]
             /\ t.from[next].item = c
    BY <2>1, <2>2, <2>5, FollowIs
  <2> HIDE DEF next
  <2>7. \A e : e \in t.edges <=> e \in s.edges \/ \E q \in Usable(types) : c \in Ends(q) /\ q.id <= k /\ e = q.id
    <3>1. \A e : e \in st.edges <=>
             e \in s.edges \/ \E q \in Usable(types) : c \in Ends(q) /\ q.id <= k - 1 /\ e = q.id
      BY DEF Expanding
    <3>2. r.id <= k
      BY <1>0, <2>1
    <3> QED BY <2>1, <2>3, <2>6, <3>1, <3>2
  <2>8. \A q \in Usable(types) : c \in Ends(q) /\ q.id <= k => Connected(q, c) \in DOMAIN t.depth
    <3>1. \A q \in Usable(types) : c \in Ends(q) /\ q.id <= k - 1 => Connected(q, c) \in V
      BY DEF Expanding
    <3> QED BY <2>3, <2>6, <3>1 DEF next
  <2>9. CASE next \in V
    <3>1. t.queue = st.queue /\ t.depth = st.depth /\ t.from = st.from
      BY <2>6, <2>9
    <3>2. Queued(t) = Queued(st)
      BY <3>1 DEF Queued
    <3> QED BY <2>6, <2>7, <2>8, <3>1, <3>2 DEF Expanding
  <2>10. CASE next \notin V
    <3>1. /\ t.queue = Append(st.queue, next)
          /\ \A x \in V : t.depth[x] = st.depth[x]
          /\ t.depth[next] = h + 1
          /\ DOMAIN t.from = DOMAIN st.from \cup {next}
          /\ \A x \in DOMAIN st.from : x # next => t.from[x] = st.from[x]
          /\ t.from[next].item = c
      BY <2>5, <2>6, <2>10
    <3>2. /\ W \subseteq V /\ \A x \in W : st.depth[x] = s.depth[x]
          /\ DOMAIN st.from = DOMAIN s.from \cup (V \ W)
          /\ \A x \in DOMAIN s.from : st.from[x] = s.from[x]
          /\ \A y \in V \ W : st.depth[y] = h + 1 /\ st.from[y].item = c /\ Adjacent(relations, types, c, y)
          /\ Queued(st) = Queued(s) \cup (V \ W)
          /\ \A a \in 1 .. Len(st.queue) : h <= st.depth[st.queue[a]] /\ st.depth[st.queue[a]] <= h + 1
          /\ \A a, b \in 1 .. Len(st.queue) : a <= b => st.depth[st.queue[a]] <= st.depth[st.queue[b]]
      BY DEF Expanding
    <3>3. /\ DOMAIN st.from \subseteq V /\ h \in Nat
      BY <3>2 DEF Shaped
    <3>4. /\ Len(t.queue) = Len(st.queue) + 1 /\ Len(st.queue) \in Nat
          /\ \A a \in 1 .. Len(st.queue) : t.queue[a] = st.queue[a]
          /\ t.queue[Len(st.queue) + 1] = next
      BY <2>4, <2>5, <3>1 DEF Shaped
    <3>5. \A a \in 1 .. Len(t.queue) : a \in 1 .. Len(st.queue) \/ a = Len(st.queue) + 1
      BY <3>4
    <3>6. Queued(t) = Queued(st) \cup {next}
      BY <3>4, <3>5 DEF Queued
    <3>7. \A a \in 1 .. Len(st.queue) : t.depth[t.queue[a]] = st.depth[st.queue[a]] /\ st.depth[st.queue[a]] \in Nat
      BY <2>5, <3>1, <3>4 DEF Shaped
    <3>8. t.depth[t.queue[Len(st.queue) + 1]] = h + 1
      BY <3>1, <3>4
    <3>9. ASSUME NEW a \in 1 .. Len(t.queue) PROVE h <= t.depth[t.queue[a]] /\ t.depth[t.queue[a]] <= h + 1
      <4> DEFINE m == Len(st.queue)
      <4>1. CASE a \in 1 .. m
        <5>1. t.depth[t.queue[a]] = st.depth[st.queue[a]]
          BY <3>7, <4>1
        <5>2. h <= st.depth[st.queue[a]] /\ st.depth[st.queue[a]] <= h + 1
          BY <3>2, <4>1
        <5> QED BY <5>1, <5>2
      <4>2. CASE a = m + 1
        <5>1. t.depth[t.queue[a]] = h + 1
          BY <3>8, <4>2
        <5> QED BY <3>3, <5>1
      <4> HIDE DEF h
      <4> QED BY <3>5, <4>1, <4>2
    <3>10. \A a, b \in 1 .. Len(t.queue) : a <= b => t.depth[t.queue[a]] <= t.depth[t.queue[b]]
      <4> SUFFICES ASSUME NEW a \in 1 .. Len(t.queue), NEW b \in 1 .. Len(t.queue), a <= b
                   PROVE  t.depth[t.queue[a]] <= t.depth[t.queue[b]]
        OBVIOUS
      <4>1. CASE b = Len(st.queue) + 1
        BY <3>8, <3>9, <4>1
      <4>2. CASE b # Len(st.queue) + 1
        <5>1. a \in 1 .. Len(st.queue) /\ b \in 1 .. Len(st.queue)
          BY <3>4, <3>5, <4>2
        <5> QED BY <3>2, <3>7, <5>1
      <4> QED BY <4>1, <4>2
    <3>11. \A y \in DOMAIN t.depth \ W : t.depth[y] = h + 1 /\ t.from[y].item = c /\ Adjacent(relations, types, c, y)
      <4> SUFFICES ASSUME NEW y \in (V \cup {next}) \ W
                   PROVE  t.depth[y] = h + 1 /\ t.from[y].item = c /\ Adjacent(relations, types, c, y)
        BY <2>6
      <4>1. CASE y = next
        BY <2>4, <3>1, <4>1
      <4>2. CASE y # next
        BY <3>1, <3>2, <4>2
      <4> QED BY <4>1, <4>2
    <3>12. /\ W \subseteq DOMAIN t.depth /\ \A x \in W : t.depth[x] = s.depth[x]
           /\ DOMAIN t.from = DOMAIN s.from \cup (DOMAIN t.depth \ W)
           /\ \A x \in DOMAIN s.from : t.from[x] = s.from[x]
           /\ Queued(t) = Queued(s) \cup (DOMAIN t.depth \ W)
      BY <2>6, <2>10, <3>1, <3>2, <3>3, <3>6
    <3> QED BY <2>6, <2>7, <2>8, <3>9, <3>10, <3>11, <3>12 DEF Expanding
  <2> QED BY <2>9, <2>10
<1> QED BY <1>2, <1>3

(* All relations of an entry. *)
LEMMA Expanded ==
    ASSUME Tables, NEW types, NEW s, Shaped(s), NEW c \in DOMAIN s.depth,
           DOMAIN s.from \subseteq DOMAIN s.depth,
           \A a \in 1 .. Len(s.queue) :
             s.depth[c] <= s.depth[s.queue[a]] /\ s.depth[s.queue[a]] <= s.depth[c] + 1,
           \A a, b \in 1 .. Len(s.queue) : a <= b => s.depth[s.queue[a]] <= s.depth[s.queue[b]]
    PROVE  Expanding(s, ExpandSteps(items, relations, types, c, s)[MaxRelation], types, c, MaxRelation)
<1> DEFINE step(n) == ExpandSteps(items, relations, types, c, s)[n]
           T == {n \in 0 .. MaxRelation : Expanding(s, step(n), types, c, n)}
<1>0. MaxRelation \in Nat
  BY RelationAssumption
<1>1. \A n \in 0 .. MaxRelation :
         step(n) = IF n = 0 THEN s
                   ELSE IF n \in DueAt(types, c) THEN Follow(items, c, step(n - 1), RowAt(relations, n))
                   ELSE step(n - 1)
  BY ExpandStepsAre
<1> HIDE DEF step
<1>2. 0 \in T
  <2>1. step(0) = s
    BY <1>0, <1>1
  <2>2. \A r \in Usable(types) : ~(r.id <= 0)
    BY RelationRowIs DEF Tables, Usable, RelationIds
  <2>3. Expanding(s, s, types, c, 0)
    BY <2>2 DEF Expanding
  <2> QED BY <1>0, <2>1, <2>3
<1>3. ASSUME NEW n \in 1 .. MaxRelation, n - 1 \in T PROVE n \in T
  <2>1. n \in 0 .. MaxRelation /\ n # 0
    BY <1>0
  <2>2. step(n) = IF n \in DueAt(types, c) THEN Follow(items, c, step(n - 1), RowAt(relations, n))
                  ELSE step(n - 1)
    BY <1>1, <2>1
  <2>3. Expanding(s, step(n), types, c, n)
    BY <1>3, <2>2, ExpandingKept
  <2> QED BY <2>1, <2>3
<1>4. 0 .. MaxRelation \subseteq T
  <2> HIDE DEF T
  <2> QED BY <1>0, <1>2, <1>3, Upward
<1> QED BY <1>0, <1>4 DEF step

\* The entries that left the queue, and what a search from i keeps, n turns on.
Settled(st) == DOMAIN st.depth \ Queued(st)
Searching(st, types, i, d, n) ==
    /\ Shaped(st)
    /\ i \in DOMAIN st.depth /\ st.depth[i] = 0
    /\ \A a, b \in 1 .. Len(st.queue) : a <= b => st.depth[st.queue[a]] <= st.depth[st.queue[b]]
    /\ \A a \in 1 .. Len(st.queue) : st.depth[st.queue[a]] <= st.depth[st.queue[1]] + 1
    /\ \A x \in DOMAIN st.depth :
         /\ st.depth[x] <= d /\ st.depth[x] <= n
         /\ x \in Within(relations, types, i, st.depth[x])
         /\ \A m \in 0 .. d : m < st.depth[x] => x \notin Within(relations, types, i, m)
    /\ \A x \in Settled(st), r \in Usable(types) :
         st.depth[x] < d /\ x \in Ends(r) => Connected(r, x) \in DOMAIN st.depth
    /\ DOMAIN st.from = DOMAIN st.depth \ {i}
    /\ \A y \in DOMAIN st.from :
         /\ st.from[y].item \in DOMAIN st.depth /\ st.depth[st.from[y].item] + 1 = st.depth[y]
         /\ Adjacent(relations, types, st.from[y].item, y)
    /\ \A e : e \in st.edges <=>
         \E r \in Usable(types), x \in Settled(st) : x \in Ends(r) /\ st.depth[x] < d /\ e = r.id
    /\ st.queue # <<>> => Cardinality(Settled(st)) = n

(* While no queued entry is nearer than k, the search has seen all that is k *)
(* relations away.                                                            *)
LEMMA NearOnesSeen ==
    ASSUME Tables, NEW types, NEW i \in Ids, NEW d \in 0 .. DepthLimit, NEW n, NEW st,
           Searching(st, types, i, d, n), NEW k \in 0 .. d,
           \A a \in 1 .. Len(st.queue) : k <= st.depth[st.queue[a]]
    PROVE  Within(relations, types, i, k) \subseteq DOMAIN st.depth
<1> DEFINE ball(m) == Within(relations, types, i, m)
           V == DOMAIN st.depth
           T == {m \in 0 .. k : ball(m) \subseteq V}
<1>0. k \in Nat /\ d \in Nat /\ d <= DepthLimit /\ DepthLimit \in Nat
  BY DEF DepthLimit
<1>1. 0 \in T
  <2>1. 0 \in 0 .. DepthLimit
    BY <1>0
  <2>2. ball(0) = {i}
    BY <2>1, BallsAre DEF Within
  <2> QED BY <1>0, <2>2 DEF Searching
<1>2. ASSUME NEW m \in 1 .. k, m - 1 \in T PROVE m \in T
  <2>1. m - 1 \in 0 .. DepthLimit /\ (m - 1) + 1 = m /\ m \in 0 .. DepthLimit /\ m - 1 < k /\ m - 1 \in 0 .. d /\ m \in 0 .. k
    BY <1>0
  <2>2. ball(m - 1) \subseteq V
    BY <1>2
  <2>3. ball(m) \subseteq Ids
    BY <2>1, BallsGrow
  <2>4. ASSUME NEW b \in ball(m) PROVE b \in V
    <3>1. CASE b \in ball(m - 1)
      BY <2>2, <3>1
    <3>2. CASE b \notin ball(m - 1)
      <4>1. b \in Ids /\ (m - 1) + 1 <= DepthLimit
        BY <1>0, <2>1, <2>3
      <4>2. PICK a \in ball(m - 1) : Adjacent(relations, types, a, b)
        BY <2>1, <3>2, <4>1, NextBall
      <4>3. PICK r \in Usable(types) : a \in Ends(r) /\ Connected(r, a) = b
        BY <4>2, AdjacentIs
      <4>4. a \in V /\ st.depth[a] \in Nat
        BY <2>2 DEF Searching, Shaped
      <4>5. ~(m - 1 < st.depth[a])
        BY <2>1, <4>4 DEF Searching
      <4>6. st.depth[a] < k
        BY <2>1, <4>4, <4>5
      <4>7. a \notin Queued(st)
        BY <1>0, <4>4, <4>6 DEF Queued
      <4>8. st.depth[a] < d
        BY <1>0, <4>4, <4>6
      <4> QED BY <4>3, <4>4, <4>7, <4>8 DEF Searching, Settled
    <3> QED BY <3>1, <3>2
  <2> QED BY <2>1, <2>4
<1>3. 0 .. k \subseteq T
  <2> HIDE DEF T
  <2> QED BY <1>0, <1>1, <1>2, Upward
<1> QED BY <1>0, <1>3

(* The entry at the head leaves the queue. *)
LEMMA Dequeued ==
    ASSUME NEW st, Shaped(st), st.queue # <<>>,
           \A a, b \in 1 .. Len(st.queue) : a <= b => st.depth[st.queue[a]] <= st.depth[st.queue[b]],
           \A a \in 1 .. Len(st.queue) : st.depth[st.queue[a]] <= st.depth[st.queue[1]] + 1,
           NEW s, s = [st EXCEPT !.queue = Tail(@)], NEW c, c = Head(st.queue)
    PROVE  /\ Shaped(s) /\ s.depth = st.depth /\ s.from = st.from /\ s.edges = st.edges
           /\ c \in DOMAIN st.depth /\ c \in Queued(st) /\ Queued(s) = Queued(st) \ {c}
           /\ \A a \in 1 .. Len(st.queue) : st.depth[c] <= st.depth[st.queue[a]]
           /\ \A a \in 1 .. Len(s.queue) :
                s.depth[c] <= s.depth[s.queue[a]] /\ s.depth[s.queue[a]] <= s.depth[c] + 1
           /\ \A a, b \in 1 .. Len(s.queue) : a <= b => s.depth[s.queue[a]] <= s.depth[s.queue[b]]
<1> DEFINE m == Len(st.queue)
<1>1. s = [queue |-> Tail(st.queue), depth |-> st.depth, from |-> st.from, nodes |-> st.nodes, edges |-> st.edges]
  BY DEF Shaped
<1>2. /\ s.queue = Tail(st.queue) /\ s.depth = st.depth /\ s.from = st.from /\ s.nodes = st.nodes /\ s.edges = st.edges
      /\ s = [queue |-> s.queue, depth |-> s.depth, from |-> s.from, nodes |-> s.nodes, edges |-> s.edges]
  BY <1>1
<1>3. st.queue \in Seq(Ids)
  BY DEF Shaped
<1>4. /\ m \in Nat /\ m >= 1 /\ c = st.queue[1] /\ s.queue \in Seq(Ids) /\ Len(s.queue) = m - 1
      /\ \A a \in 1 .. Len(s.queue) : s.queue[a] = st.queue[a + 1]
  BY <1>2, <1>3
<1>5. 1 \in 1 .. m /\ \A a \in 1 .. Len(s.queue) : a + 1 \in 1 .. m /\ a \in Nat
  BY <1>4
<1>6. \A a \in 1 .. m : a = 1 \/ (a - 1 \in 1 .. Len(s.queue) /\ (a - 1) + 1 = a)
  BY <1>4
<1>7. Queued(s) = Queued(st) \ {c}
  <2>1. \A a \in 1 .. m : st.queue[a] = st.queue[1] => a = 1
    BY <1>5 DEF Shaped
  <2>2. ASSUME NEW x \in Queued(s) PROVE x \in Queued(st) /\ x # c
    <3>1. PICK a \in 1 .. Len(s.queue) : x = s.queue[a]
      BY <2>2 DEF Queued
    <3>2. x = st.queue[a + 1] /\ a + 1 \in 1 .. m /\ a + 1 # 1
      BY <1>4, <1>5, <3>1
    <3> QED BY <1>4, <2>1, <3>2 DEF Queued
  <2>3. ASSUME NEW x \in Queued(st), x # c PROVE x \in Queued(s)
    <3>1. PICK a \in 1 .. m : x = st.queue[a]
      BY <2>3 DEF Queued
    <3>2. a - 1 \in 1 .. Len(s.queue) /\ (a - 1) + 1 = a
      BY <1>4, <1>6, <2>3, <3>1
    <3>3. x = s.queue[a - 1]
      BY <1>4, <3>1, <3>2
    <3> QED BY <3>2, <3>3 DEF Queued
  <2> QED BY <2>2, <2>3
<1>8. Shaped(s)
  <2>1. \A a, b \in 1 .. Len(s.queue) : s.queue[a] = s.queue[b] => a = b
    <3> SUFFICES ASSUME NEW a \in 1 .. Len(s.queue), NEW b \in 1 .. Len(s.queue), s.queue[a] = s.queue[b] PROVE a = b
      OBVIOUS
    <3>1. a + 1 \in 1 .. m /\ b + 1 \in 1 .. m /\ st.queue[a + 1] = st.queue[b + 1]
      BY <1>4, <1>5
    <3>2. a + 1 = b + 1
      BY <3>1 DEF Shaped
    <3> QED BY <3>2
  <2>2. \A a \in 1 .. Len(s.queue) : s.queue[a] \in DOMAIN s.depth
    BY <1>2, <1>4, <1>5 DEF Shaped
  <2> QED BY <1>2, <1>4, <2>1, <2>2 DEF Shaped
<1>9. c \in DOMAIN st.depth /\ c \in Queued(st)
  BY <1>4, <1>5 DEF Shaped, Queued
<1>10. ASSUME NEW a \in 1 .. m PROVE st.depth[c] <= st.depth[st.queue[a]] /\ st.depth[st.queue[a]] <= st.depth[c] + 1
  <2>1. 1 <= a /\ 1 \in 1 .. m
    BY <1>5
  <2>2. st.depth[st.queue[1]] <= st.depth[st.queue[a]]
    BY <2>1
  <2>3. st.depth[st.queue[a]] <= st.depth[st.queue[1]] + 1
    OBVIOUS
  <2> QED BY <1>4, <2>2, <2>3
<1>11. ASSUME NEW a \in 1 .. Len(s.queue)
       PROVE  s.depth[c] <= s.depth[s.queue[a]] /\ s.depth[s.queue[a]] <= s.depth[c] + 1
  BY <1>2, <1>4, <1>5, <1>10
<1>12. ASSUME NEW a \in 1 .. Len(s.queue), NEW b \in 1 .. Len(s.queue), a <= b
       PROVE  s.depth[s.queue[a]] <= s.depth[s.queue[b]]
  <2>1. a + 1 \in 1 .. m /\ b + 1 \in 1 .. m /\ a + 1 <= b + 1
    BY <1>5, <1>12
  <2> QED BY <1>2, <1>4, <2>1
<1> QED BY <1>2, <1>7, <1>8, <1>9, <1>10, <1>11, <1>12

(* The entries that left the queue are finitely many, and one more is one more. *)
LEMMA SettledAre ==
    ASSUME NEW st, Shaped(st)
    PROVE  /\ IsFiniteSet(Settled(st)) /\ Settled(st) \subseteq Ids
           /\ IsFiniteSet(Ids) /\ Cardinality(Ids) = MaxItem
           /\ \A c : c \notin Settled(st) => Cardinality(Settled(st) \cup {c}) = Cardinality(Settled(st)) + 1
<1>1. MaxItem \in Nat /\ MaxItem >= 1
  BY MaxItemAssumption
<1>2. IsFiniteSet(Ids) /\ Cardinality(Ids) = MaxItem
  <2>1. IsFiniteSet(1 .. MaxItem) /\ Cardinality(1 .. MaxItem) = MaxItem
    BY <1>1, FS_Interval
  <2> QED BY <2>1 DEF Ids
<1>3. Settled(st) \subseteq Ids
  BY DEF Settled, Shaped
<1>4. IsFiniteSet(Settled(st))
  BY <1>2, <1>3, FS_Subset
<1>5. ASSUME NEW c, c \notin Settled(st) PROVE Cardinality(Settled(st) \cup {c}) = Cardinality(Settled(st)) + 1
  BY <1>4, <1>5, FS_AddElement
<1> QED BY <1>2, <1>3, <1>4, <1>5

(* A turn at the depth asked for, which expands nothing. *)
LEMMA LastTurn ==
    ASSUME Tables, NEW types, NEW i \in Ids, NEW d \in 0 .. DepthLimit, NEW n \in 1 .. MaxItem, NEW st,
           Searching(st, types, i, d, n - 1), st.queue # <<>>, NEW c, c = Head(st.queue), st.depth[c] >= d,
           NEW t, t = [st EXCEPT !.queue = Tail(@)]
    PROVE  Searching(t, types, i, d, n)
<1>0. n \in Nat /\ n - 1 \in Nat /\ d \in Nat
  BY MaxItemAssumption
<1>1. /\ Shaped(t) /\ t.depth = st.depth /\ t.from = st.from /\ t.edges = st.edges
      /\ c \in DOMAIN st.depth /\ c \in Queued(st) /\ Queued(t) = Queued(st) \ {c}
      /\ \A a \in 1 .. Len(t.queue) :
           t.depth[c] <= t.depth[t.queue[a]] /\ t.depth[t.queue[a]] <= t.depth[c] + 1
      /\ \A a, b \in 1 .. Len(t.queue) : a <= b => t.depth[t.queue[a]] <= t.depth[t.queue[b]]
  <2>1. /\ Shaped(st)
        /\ \A a, b \in 1 .. Len(st.queue) : a <= b => st.depth[st.queue[a]] <= st.depth[st.queue[b]]
        /\ \A a \in 1 .. Len(st.queue) : st.depth[st.queue[a]] <= st.depth[st.queue[1]] + 1
    BY DEF Searching
  <2> QED BY <2>1, Dequeued
<1>2. Settled(t) = Settled(st) \cup {c} /\ c \notin Settled(st)
  BY <1>1 DEF Settled
<1>3. Cardinality(Settled(t)) = n
  <2>1. Cardinality(Settled(st)) = n - 1 /\ Shaped(st)
    BY DEF Searching
  <2>2. Cardinality(Settled(st) \cup {c}) = Cardinality(Settled(st)) + 1
    BY <1>2, <2>1, SettledAre
  <2>3. Cardinality(Settled(t)) = (n - 1) + 1
    BY <1>2, <2>1, <2>2, Zenon
  <2>4. (n - 1) + 1 = n
    BY <1>0
  <2> QED BY <2>3, <2>4, Zenon
<1>4. \A x \in DOMAIN t.depth : t.depth[x] \in Nat
  BY <1>1 DEF Shaped
<1>5. \A x \in DOMAIN t.depth :
         /\ t.depth[x] <= d /\ t.depth[x] <= n
         /\ x \in Within(relations, types, i, t.depth[x])
         /\ \A m \in 0 .. d : m < t.depth[x] => x \notin Within(relations, types, i, m)
  <2> SUFFICES ASSUME NEW x \in DOMAIN t.depth PROVE t.depth[x] <= n
    BY <1>1 DEF Searching
  <2>1. t.depth[x] <= n - 1
    BY <1>1 DEF Searching
  <2> QED BY <1>0, <1>4, <2>1
<1>6. \A a \in 1 .. Len(t.queue) : t.depth[t.queue[a]] <= t.depth[t.queue[1]] + 1
  <2> SUFFICES ASSUME NEW a \in 1 .. Len(t.queue) PROVE t.depth[t.queue[a]] <= t.depth[t.queue[1]] + 1
    OBVIOUS
  <2>1. Len(t.queue) \in Nat /\ 1 \in 1 .. Len(t.queue)
    BY <1>1 DEF Shaped
  <2>2. t.depth[c] \in Nat /\ t.depth[t.queue[a]] \in Nat /\ t.depth[t.queue[1]] \in Nat
    BY <1>1, <2>1 DEF Shaped
  <2>3. t.depth[c] <= t.depth[t.queue[1]] /\ t.depth[t.queue[a]] <= t.depth[c] + 1
    BY <1>1, <2>1
  <2> DEFINE p == t.depth[t.queue[1]]
             q == t.depth[t.queue[a]]
             h == t.depth[c]
  <2> HIDE DEF p, q, h
  <2>4. p \in Nat /\ q \in Nat /\ h \in Nat
    BY <2>2 DEF p, q, h
  <2>5. h <= p /\ q <= h + 1
    BY <2>3 DEF p, q, h
  <2>6. q <= p + 1
    BY <2>4, <2>5
  <2> QED BY <2>6 DEF p, q
<1>7. ~(t.depth[c] < d)
  BY <1>0, <1>1, <1>4
<1>8. \A x \in Settled(t), r \in Usable(types) :
         t.depth[x] < d /\ x \in Ends(r) => Connected(r, x) \in DOMAIN t.depth
  BY <1>1, <1>2, <1>7 DEF Searching
<1>9. \A e : e \in t.edges <=>
         \E r \in Usable(types), x \in Settled(t) : x \in Ends(r) /\ t.depth[x] < d /\ e = r.id
  BY <1>1, <1>2, <1>7 DEF Searching
<1>10. /\ i \in DOMAIN t.depth /\ t.depth[i] = 0
       /\ DOMAIN t.from = DOMAIN t.depth \ {i}
       /\ \A y \in DOMAIN t.from :
         /\ t.from[y].item \in DOMAIN t.depth /\ t.depth[t.from[y].item] + 1 = t.depth[y]
         /\ Adjacent(relations, types, t.from[y].item, y)
  BY <1>1 DEF Searching
<1> QED BY <1>1, <1>3, <1>5, <1>6, <1>8, <1>9, <1>10 DEF Searching

(* A turn that follows the relations of an entry. *)
LEMMA FullTurn ==
    ASSUME Tables, NEW types, NEW i \in Ids, NEW d \in 0 .. DepthLimit, NEW n \in 1 .. MaxItem, NEW st,
           Searching(st, types, i, d, n - 1), st.queue # <<>>, NEW c, c = Head(st.queue), ~(st.depth[c] >= d),
           NEW s, s = [st EXCEPT !.queue = Tail(@)],
           NEW t, Expanding(s, t, types, c, MaxRelation)
    PROVE  Searching(t, types, i, d, n)
<1> DEFINE V == DOMAIN st.depth
           h == st.depth[c]
<1>0. n \in Nat /\ n - 1 \in Nat /\ d \in Nat /\ d <= DepthLimit /\ DepthLimit \in Nat /\ MaxRelation \in Nat
  <2>1. n \in Nat /\ n - 1 \in Nat
    BY MaxItemAssumption
  <2>2. MaxRelation \in Nat
    BY RelationAssumption
  <2>3. d \in Nat /\ d <= DepthLimit /\ DepthLimit \in Nat
    BY DEF DepthLimit
  <2> QED BY <2>1, <2>2, <2>3
<1>1. /\ Shaped(s) /\ s.depth = st.depth /\ s.from = st.from /\ s.edges = st.edges
      /\ c \in V /\ c \in Queued(st) /\ Queued(s) = Queued(st) \ {c}
      /\ \A a \in 1 .. Len(st.queue) : h <= st.depth[st.queue[a]]
  BY Dequeued DEF Searching
<1>2. h \in Nat /\ h < d /\ h \in 0 .. d /\ h + 1 \in 0 .. d /\ h <= n - 1
      /\ h \in 0 .. DepthLimit /\ h + 1 \in 0 .. DepthLimit /\ h + 1 <= DepthLimit
  <2>1. h \in Nat /\ h <= n - 1
    BY <1>1 DEF Searching, Shaped
  <2> QED BY <1>0, <2>1
<1>3. /\ Shaped(t) /\ V \subseteq DOMAIN t.depth
      /\ \A x \in V : t.depth[x] = st.depth[x]
      /\ DOMAIN t.from = DOMAIN st.from \cup (DOMAIN t.depth \ V)
      /\ \A x \in DOMAIN st.from : t.from[x] = st.from[x]
      /\ \A y \in DOMAIN t.depth \ V :
           t.depth[y] = h + 1 /\ t.from[y].item = c /\ Adjacent(relations, types, c, y)
      /\ Queued(t) = Queued(s) \cup (DOMAIN t.depth \ V)
      /\ \A a \in 1 .. Len(t.queue) : h <= t.depth[t.queue[a]] /\ t.depth[t.queue[a]] <= h + 1
      /\ \A a, b \in 1 .. Len(t.queue) : a <= b => t.depth[t.queue[a]] <= t.depth[t.queue[b]]
  BY <1>1 DEF Expanding
<1>4. \A r \in Usable(types) : r.id \in Nat /\ r.id <= MaxRelation
  BY <1>0, RelationRowIs DEF Tables, Usable, RelationIds
<1>5. /\ \A e : e \in t.edges <=> e \in st.edges \/ \E r \in Usable(types) : c \in Ends(r) /\ e = r.id
      /\ \A r \in Usable(types) : c \in Ends(r) => Connected(r, c) \in DOMAIN t.depth
  BY <1>1, <1>4 DEF Expanding
<1>6. Settled(t) = Settled(st) \cup {c} /\ c \notin Settled(st)
  <2>1. Queued(s) \subseteq V
    BY <1>1 DEF Shaped, Queued
  <2> QED BY <1>1, <1>3, <2>1 DEF Settled
<1>7. Cardinality(Settled(t)) = n
  <2>1. Cardinality(Settled(st)) = n - 1 /\ Shaped(st)
    BY DEF Searching
  <2>2. Cardinality(Settled(st) \cup {c}) = Cardinality(Settled(st)) + 1
    BY <1>6, <2>1, SettledAre
  <2>3. Cardinality(Settled(t)) = (n - 1) + 1
    BY <1>6, <2>1, <2>2, Zenon
  <2>4. (n - 1) + 1 = n
    BY <1>0
  <2> QED BY <2>3, <2>4, Zenon
<1>8. i \in V /\ st.depth[i] = 0 /\ DOMAIN st.from = V \ {i}
  BY DEF Searching
<1>9. \A a \in 1 .. Len(t.queue) : t.depth[t.queue[a]] <= t.depth[t.queue[1]] + 1
  <2> SUFFICES ASSUME NEW a \in 1 .. Len(t.queue) PROVE t.depth[t.queue[a]] <= t.depth[t.queue[1]] + 1
    OBVIOUS
  <2>1. Len(t.queue) \in Nat /\ 1 \in 1 .. Len(t.queue)
    BY <1>3 DEF Shaped
  <2>2. t.depth[t.queue[a]] \in Nat /\ t.depth[t.queue[1]] \in Nat
    BY <1>3, <2>1 DEF Shaped
  <2>3. h <= t.depth[t.queue[1]] /\ t.depth[t.queue[a]] <= h + 1
    BY <1>3, <2>1
  <2> HIDE DEF h
  <2> QED BY <1>2, <2>2, <2>3
<1>10. ASSUME NEW x \in DOMAIN t.depth
       PROVE  /\ t.depth[x] <= d /\ t.depth[x] <= n
              /\ x \in Within(relations, types, i, t.depth[x])
              /\ \A m \in 0 .. d : m < t.depth[x] => x \notin Within(relations, types, i, m)
  <2>1. CASE x \in V
    <3>1. /\ st.depth[x] <= d /\ st.depth[x] <= n - 1 /\ st.depth[x] \in Nat
          /\ x \in Within(relations, types, i, st.depth[x])
          /\ \A m \in 0 .. d : m < st.depth[x] => x \notin Within(relations, types, i, m)
      BY <2>1 DEF Searching, Shaped
    <3>2. t.depth[x] = st.depth[x]
      BY <1>3, <2>1
    <3>3. st.depth[x] <= n
      BY <1>0, <3>1
    <3> QED BY <3>1, <3>2, <3>3
  <2>2. CASE x \notin V
    <3>1. t.depth[x] = h + 1 /\ Adjacent(relations, types, c, x) /\ x \in Ids
      BY <1>3, <2>2 DEF Shaped
    <3>2. c \in Within(relations, types, i, h)
      BY <1>1 DEF Searching
    <3>3. x \in Within(relations, types, i, h + 1)
      BY <1>2, <3>1, <3>2, NextBall
    <3>4. Within(relations, types, i, h) \subseteq V
      BY <1>1, <1>2, NearOnesSeen
    <3>5. ASSUME NEW m \in 0 .. d, m < h + 1 PROVE x \notin Within(relations, types, i, m)
      <4>1. m \in 0 .. h
        BY <1>2, <3>5
      <4>2. Within(relations, types, i, m) \subseteq Within(relations, types, i, h)
        BY <1>2, <4>1, BallsGrow
      <4> QED BY <2>2, <3>4, <4>2
    <3>6. h + 1 <= d /\ h + 1 <= n
      BY <1>0, <1>2
    <3> HIDE DEF h
    <3> QED BY <3>1, <3>3, <3>5, <3>6
  <2> QED BY <2>1, <2>2
<1>11. ASSUME NEW x \in Settled(t), NEW r \in Usable(types), t.depth[x] < d, x \in Ends(r)
       PROVE  Connected(r, x) \in DOMAIN t.depth
  <2>1. CASE x = c
    BY <1>5, <1>11, <2>1
  <2>2. CASE x \in Settled(st)
    <3>1. t.depth[x] = st.depth[x]
      BY <1>3, <2>2 DEF Settled
    <3> QED BY <1>3, <1>11, <2>2, <3>1 DEF Searching
  <2> QED BY <1>6, <2>1, <2>2
<1>12. ASSUME NEW e
       PROVE  e \in t.edges <=>
                \E r \in Usable(types), x \in Settled(t) : x \in Ends(r) /\ t.depth[x] < d /\ e = r.id
  <2>1. \A x \in Settled(st) : t.depth[x] = st.depth[x]
    BY <1>3 DEF Settled
  <2>2. e \in st.edges <=>
          \E r \in Usable(types), x \in Settled(st) : x \in Ends(r) /\ st.depth[x] < d /\ e = r.id
    BY DEF Searching
  <2>3. t.depth[c] < d
    BY <1>1, <1>2, <1>3
  <2>4. e \in t.edges <=> e \in st.edges \/ \E r \in Usable(types) : c \in Ends(r) /\ e = r.id
    BY <1>5
  <2> QED BY <1>6, <2>1, <2>2, <2>3, <2>4
<1>13. DOMAIN t.from = DOMAIN t.depth \ {i}
  BY <1>3, <1>8
<1>14. ASSUME NEW y \in DOMAIN t.from
       PROVE  /\ t.from[y].item \in DOMAIN t.depth /\ t.depth[t.from[y].item] + 1 = t.depth[y]
              /\ Adjacent(relations, types, t.from[y].item, y)
  <2>1. CASE y \in DOMAIN st.from
    <3>1. /\ st.from[y].item \in V /\ st.depth[st.from[y].item] + 1 = st.depth[y]
          /\ Adjacent(relations, types, st.from[y].item, y)
      BY <2>1 DEF Searching
    <3>2. t.from[y] = st.from[y] /\ y \in V
      BY <1>3, <1>8, <2>1
    <3> QED BY <1>3, <3>1, <3>2
  <2>2. CASE y \notin DOMAIN st.from
    <3>1. y \in DOMAIN t.depth \ V
      BY <1>3, <2>2
    <3>2. t.depth[y] = h + 1 /\ t.from[y].item = c /\ Adjacent(relations, types, c, y)
      BY <1>3, <3>1
    <3>3. c \in DOMAIN t.depth /\ t.depth[c] = h
      BY <1>1, <1>3
    <3> QED BY <3>2, <3>3
  <2> QED BY <2>1, <2>2
<1>15. i \in DOMAIN t.depth /\ t.depth[i] = 0
  BY <1>3, <1>8
<1> QED BY <1>3, <1>7, <1>9, <1>10, <1>11, <1>12, <1>13, <1>14, <1>15 DEF Searching

(* A number within its bounds stays. *)
LEMMA ClampIs ==
    ASSUME NEW low \in Int, NEW high \in Int, NEW n \in Int, low <= n, n <= high
    PROVE  Clamp(low, high, n) = n
<1>1. Min({high, n}) = n
  <2>1. n \in {high, n} /\ \A y \in {high, n} : n <= y
    OBVIOUS
  <2>2. \A x \in {high, n} : (\A y \in {high, n} : x <= y) => x = n
    OBVIOUS
  <2> QED BY <2>1, <2>2 DEF Min
<1>2. Max({low, n}) = n
  <2>1. n \in {low, n} /\ \A y \in {low, n} : n >= y
    OBVIOUS
  <2>2. \A x \in {low, n} : (\A y \in {low, n} : x >= y) => x = n
    OBVIOUS
  <2> QED BY <2>1, <2>2 DEF Max
<1> QED BY <1>1, <1>2 DEF Clamp

(* The first turn finds the entry itself. *)
LEMMA SearchBegins ==
    ASSUME Tables, NEW types, NEW i \in Ids, i \in Live(items), NEW d \in 0 .. DepthLimit
    PROVE  Searching(Begun(i), types, i, d, 0)
<1> DEFINE b == Begun(i)
<1>1. /\ b = [queue |-> <<i>>, depth |-> [x \in {i} |-> 0], from |-> <<>>, nodes |-> {i}, edges |-> {}]
      /\ b.queue = <<i>> /\ b.depth = [x \in {i} |-> 0] /\ b.from = <<>> /\ b.nodes = {i} /\ b.edges = {}
  BY DEF Begun
<1> HIDE DEF b
<1>2. /\ Len(b.queue) = 1 /\ b.queue[1] = i /\ b.queue \in Seq(Ids)
      /\ \A a \in 1 .. Len(b.queue) : a = 1
      /\ DOMAIN b.depth = {i} /\ b.depth[i] = 0 /\ DOMAIN b.from = {}
  BY <1>1
<1>3. Queued(b) = {i} /\ Settled(b) = {}
  BY <1>2 DEF Queued, Settled
<1>4. Shaped(b)
  BY <1>1, <1>2 DEF Shaped
<1>5. Cardinality(Settled(b)) = 0
  BY <1>3, FS_EmptySet
<1>6. 0 \in 0 .. DepthLimit /\ d \in Nat
  BY DEF DepthLimit
<1>7. i \in Within(relations, types, i, 0)
  BY <1>6, BallsGrow
<1>8. \A a, c \in 1 .. Len(b.queue) : b.depth[b.queue[a]] = 0 /\ b.depth[b.queue[c]] = 0 /\ b.depth[b.queue[1]] = 0
  BY <1>2
<1>9. \A x \in DOMAIN b.depth :
         /\ b.depth[x] <= d /\ b.depth[x] <= 0
         /\ x \in Within(relations, types, i, b.depth[x])
         /\ \A m \in 0 .. d : m < b.depth[x] => x \notin Within(relations, types, i, m)
  BY <1>2, <1>6, <1>7
<1>10. /\ \A a, c \in 1 .. Len(b.queue) : a <= c => b.depth[b.queue[a]] <= b.depth[b.queue[c]]
       /\ \A a \in 1 .. Len(b.queue) : b.depth[b.queue[a]] <= b.depth[b.queue[1]] + 1
  <2>1. 0 <= 0 /\ 0 <= 0 + 1
    OBVIOUS
  <2> QED BY <1>8, <2>1
<1>11. /\ i \in DOMAIN b.depth /\ b.depth[i] = 0 /\ DOMAIN b.from = DOMAIN b.depth \ {i}
       /\ \A y \in DOMAIN b.from : FALSE
  BY <1>2
<1>12. \A e : e \notin b.edges
  BY <1>1
<1> HIDE DEF b
<1>13. Searching(b, types, i, d, 0)
  BY <1>3, <1>4, <1>5, <1>9, <1>10, <1>11, <1>12 DEF Searching
<1> QED BY <1>13 DEF b

(* A search that has ended keeps what it found. *)
LEMMA SearchRests ==
    ASSUME NEW types, NEW i, NEW d, NEW n \in 1 .. MaxItem, NEW st,
           Searching(st, types, i, d, n - 1), st.queue = <<>>
    PROVE  Searching(st, types, i, d, n)
<1>1. n \in Nat
  BY MaxItemAssumption
<1>2. \A x \in DOMAIN st.depth : st.depth[x] \in Nat /\ st.depth[x] <= n - 1
  BY DEF Searching, Shaped
<1>3. \A x \in DOMAIN st.depth : st.depth[x] <= n
  BY <1>1, <1>2
<1> QED BY <1>3 DEF Searching

(* The searches, turn by turn. *)
LEMMA SearchKeeps ==
    ASSUME Tables, NEW types, NEW i \in Ids, i \in Live(items), NEW d \in 0 .. DepthLimit
    PROVE  Searching(Search(items, relations, i, d, types), types, i, d, MaxItem)
<1> DEFINE step(n) == SearchSteps(items, relations, i, d, types)[n]
           T == {n \in 0 .. MaxItem : Searching(step(n), types, i, d, n)}
<1>0. MaxItem \in Nat
  BY MaxItemAssumption
<1>1. \A n \in 0 .. MaxItem :
         step(n) = IF n = 0 THEN Begun(i)
                   ELSE IF step(n - 1).queue = <<>> THEN step(n - 1)
                   ELSE Turn(items, relations, types, d, step(n - 1))
  BY SearchStepsAre
<1>2. Search(items, relations, i, d, types) = step(MaxItem)
  BY DEF Search
<1> HIDE DEF step
<1>3. 0 \in T
  <2>1. step(0) = Begun(i) /\ 0 \in 0 .. MaxItem
    BY <1>0, <1>1
  <2> QED BY <2>1, SearchBegins
<1>4. ASSUME NEW n \in 1 .. MaxItem, n - 1 \in T PROVE n \in T
  <2> DEFINE st == step(n - 1)
             c == Head(st.queue)
             s == [st EXCEPT !.queue = Tail(@)]
  <2>1. n \in 0 .. MaxItem /\ n # 0
    BY <1>0
  <2>2. step(n) = IF st.queue = <<>> THEN st ELSE Turn(items, relations, types, d, st)
    BY <1>1, <2>1
  <2>3. Searching(st, types, i, d, n - 1)
    BY <1>4
  <2>4. CASE st.queue = <<>>
    BY <2>1, <2>2, <2>3, <2>4, SearchRests
  <2>5. CASE st.queue # <<>>
    <3>1. step(n) = IF st.depth[c] >= d THEN s ELSE ExpandSteps(items, relations, types, c, s)[MaxRelation]
      BY <2>2, <2>5, Zenon DEF Turn
    <3>2. /\ Shaped(st) /\ DOMAIN st.from = DOMAIN st.depth \ {i}
          /\ \A a, b \in 1 .. Len(st.queue) : a <= b => st.depth[st.queue[a]] <= st.depth[st.queue[b]]
          /\ \A a \in 1 .. Len(st.queue) : st.depth[st.queue[a]] <= st.depth[st.queue[1]] + 1
      BY <2>3 DEF Searching
    <3>3. /\ Shaped(s) /\ s.depth = st.depth /\ s.from = st.from /\ c \in DOMAIN st.depth
          /\ \A a \in 1 .. Len(s.queue) :
                s.depth[c] <= s.depth[s.queue[a]] /\ s.depth[s.queue[a]] <= s.depth[c] + 1
          /\ \A a, b \in 1 .. Len(s.queue) : a <= b => s.depth[s.queue[a]] <= s.depth[s.queue[b]]
      <4> HIDE DEF st
      <4> QED BY <2>5, <3>2, Dequeued
    <3>4. CASE st.depth[c] >= d
      <4>1. Searching(s, types, i, d, n)
        <5> HIDE DEF st
        <5> QED BY <2>3, <2>5, <3>4, LastTurn
      <4> QED BY <2>1, <3>1, <3>4, <4>1
    <3>5. CASE ~(st.depth[c] >= d)
      <4> DEFINE t == ExpandSteps(items, relations, types, c, s)[MaxRelation]
      <4> HIDE DEF st
      <4>1. Expanding(s, t, types, c, MaxRelation)
        <5>1. c \in DOMAIN s.depth /\ DOMAIN s.from \subseteq DOMAIN s.depth
          BY <3>2, <3>3
        <5> HIDE DEF s, c
        <5> QED BY <3>3, <5>1, Expanded
      <4> HIDE DEF t
      <4>2. Searching(t, types, i, d, n)
        BY <2>3, <2>5, <3>5, <4>1, FullTurn
      <4>3. step(n) = t
        BY <3>1, <3>5 DEF t
      <4> QED BY <2>1, <4>2, <4>3
    <3> QED BY <3>4, <3>5
  <2> QED BY <2>4, <2>5
<1>5. 0 .. MaxItem \subseteq T
  <2> HIDE DEF T
  <2> QED BY <1>0, <1>3, <1>4, Upward
<1> QED BY <1>0, <1>2, <1>5

(* A search ends, and has found exactly the entries within its depth.        *)
LEMMA SearchIsExact ==
    ASSUME Tables, NEW types, NEW i \in Ids, i \in Live(items), NEW d \in 0 .. DepthLimit,
           NEW st, st = Search(items, relations, i, d, types)
    PROVE  /\ Searching(st, types, i, d, MaxItem) /\ st.queue = <<>>
           /\ DOMAIN st.depth = Within(relations, types, i, d)
           /\ \A m \in 0 .. d, x \in DOMAIN st.depth : st.depth[x] <= m <=> x \in Within(relations, types, i, m)
<1>0. d \in Nat /\ d <= DepthLimit /\ d \in 0 .. d /\ MaxItem \in Nat
  <2>1. d \in Nat /\ d <= DepthLimit
    BY DEF DepthLimit
  <2>2. MaxItem \in Nat
    BY MaxItemAssumption
  <2> QED BY <2>1, <2>2
<1>1. Searching(st, types, i, d, MaxItem)
  BY SearchKeeps
<1>2. st.queue = <<>>
  <2> SUFFICES ASSUME st.queue # <<>> PROVE FALSE
    OBVIOUS
  <2>1. Cardinality(Settled(st)) = MaxItem /\ Shaped(st)
    BY <1>1 DEF Searching
  <2>2. Settled(st) \subseteq Ids /\ IsFiniteSet(Ids) /\ Cardinality(Ids) = MaxItem
    BY <2>1, SettledAre
  <2>3. Settled(st) = Ids
    BY <2>1, <2>2, FS_Subset
  <2>4. st.queue \in Seq(Ids)
    BY <2>1 DEF Shaped
  <2>5. Len(st.queue) \in Nat /\ 1 \in 1 .. Len(st.queue)
    BY <2>4
  <2>6. st.queue[1] \in Ids /\ st.queue[1] \in Queued(st)
    BY <2>4, <2>5 DEF Queued
  <2> QED BY <2>3, <2>6 DEF Settled
<1>3. Len(st.queue) = 0 /\ 1 .. Len(st.queue) = {}
  BY <1>2
<1>4. Within(relations, types, i, d) \subseteq DOMAIN st.depth
  BY <1>0, <1>1, <1>3, NearOnesSeen
<1>5. ASSUME NEW x \in DOMAIN st.depth, NEW m \in 0 .. d
      PROVE  st.depth[x] <= m <=> x \in Within(relations, types, i, m)
  <2>1. /\ st.depth[x] \in Nat /\ st.depth[x] <= d /\ x \in Within(relations, types, i, st.depth[x])
        /\ m < st.depth[x] => x \notin Within(relations, types, i, m)
    BY <1>1 DEF Searching, Shaped
  <2>2. m \in 0 .. DepthLimit /\ (st.depth[x] <= m => st.depth[x] \in 0 .. m)
    <3>1. m \in Nat /\ m <= d
      BY <1>0
    <3>2. m \in 0 .. DepthLimit
      BY <1>0, <3>1 DEF DepthLimit
    <3> QED BY <2>1, <3>1, <3>2
  <2>3. st.depth[x] <= m => Within(relations, types, i, st.depth[x]) \subseteq Within(relations, types, i, m)
    BY <2>2, BallsGrow
  <2> QED BY <2>1, <2>2, <2>3
<1>6. DOMAIN st.depth \subseteq Within(relations, types, i, d)
  <2> SUFFICES ASSUME NEW x \in DOMAIN st.depth PROVE x \in Within(relations, types, i, d)
    OBVIOUS
  <2>1. st.depth[x] <= d
    BY <1>1 DEF Searching
  <2> QED BY <1>0, <1>5, <2>1
<1> QED BY <1>1, <1>2, <1>4, <1>5, <1>6

(* A traversal of any depth lists exactly what it should (graph.py:162-241). *)
LEMMA TraversalExact ==
    ASSUME Tables, NEW types, NEW i \in Ids, i \in Live(items), NEW d \in 0 .. DepthLimit
    PROVE  TraversalIsExact(items, relations, i, d, types)
<1> DEFINE st == Search(items, relations, i, d, types)
           ball(m) == Within(relations, types, i, m)
<1>0. Traverse(items, relations, i, d, types) = st
  <2>1. Clamp(0, DepthLimit, d) = d
    BY ClampIs DEF DepthLimit
  <2> QED BY <2>1 DEF Traverse
<1> HIDE DEF st
<1>1. /\ Searching(st, types, i, d, MaxItem) /\ st.queue = <<>> /\ DOMAIN st.depth = ball(d)
      /\ \A m \in 0 .. d, x \in DOMAIN st.depth : st.depth[x] <= m <=> x \in ball(m)
  BY SearchIsExact DEF st
<1>2. /\ st.nodes = ball(d) \cap Live(items)
      /\ \A x \in DOMAIN st.depth : st.depth[x] \in Nat
  BY <1>1 DEF Searching, Shaped
<1>3. Settled(st) = ball(d)
  BY <1>1 DEF Settled, Queued
<1>4. ASSUME NEW r \in relations, types = {} \/ r.type \in types
      PROVE  r.id \in st.edges <=> d > 0 /\ Ends(r) \cap ball(d - 1) # {}
  <2>1. r \in Usable(types) /\ \A q \in Usable(types) : q.id = r.id => q = r
    BY <1>4 DEF Usable, Tables
  <2>2. r.id \in st.edges <=> \E q \in Usable(types), x \in ball(d) : x \in Ends(q) /\ st.depth[x] < d /\ r.id = q.id
    BY <1>1, <1>3 DEF Searching
  <2>3. r.id \in st.edges <=> \E x \in ball(d) : x \in Ends(r) /\ st.depth[x] < d
    BY <2>1, <2>2
  <2>4. CASE d = 0
    <3>1. \A x \in ball(d) : ~(st.depth[x] < d)
      BY <1>1, <1>2, <2>4
    <3> QED BY <2>3, <2>4, <3>1
  <2>5. CASE d # 0
    <3>1. d \in Nat /\ d > 0 /\ d - 1 \in 0 .. d /\ d \in 0 .. DepthLimit
      BY <2>5 DEF DepthLimit
    <3>2. \A x \in ball(d) : st.depth[x] < d <=> x \in ball(d - 1)
      <4> SUFFICES ASSUME NEW x \in ball(d) PROVE st.depth[x] < d <=> x \in ball(d - 1)
        OBVIOUS
      <4>1. st.depth[x] <= d - 1 <=> x \in ball(d - 1)
        BY <1>1, <3>1
      <4>2. st.depth[x] \in Nat
        BY <1>1, <1>2
      <4> HIDE DEF ball
      <4> QED BY <3>1, <4>1, <4>2
    <3>3. ball(d - 1) \subseteq ball(d)
      BY <3>1, BallsGrow
    <3> HIDE DEF ball
    <3> QED BY <2>3, <3>1, <3>2, <3>3
  <2> QED BY <2>4, <2>5
<1> QED BY <1>0, <1>1, <1>2, <1>4 DEF TraversalIsExact, Ends

(* An entry put before a list. *)
LEMMA PutBefore ==
    ASSUME NEW S, NEW p \in Seq(S), NEW x \in S
    PROVE  /\ <<x>> \o p \in Seq(S) /\ Len(<<x>> \o p) = Len(p) + 1 /\ (<<x>> \o p)[1] = x
           /\ \A k \in 2 .. Len(p) + 1 : (<<x>> \o p)[k] = p[k - 1]
<1>1. <<x>> \in Seq(S) /\ Len(<<x>>) = 1 /\ <<x>>[1] = x
  OBVIOUS
<1>2. Len(p) \in Nat
  OBVIOUS
<1> DEFINE s == <<x>>
<1> HIDE DEF s
<1>3. /\ s \o p \in Seq(S) /\ Len(s \o p) = Len(s) + Len(p)
      /\ \A k \in 1 .. Len(s) + Len(p) : (s \o p)[k] = IF k <= Len(s) THEN s[k] ELSE p[k - Len(s)]
  BY <1>1 DEF s
<1>4. Len(s \o p) = Len(p) + 1 /\ (s \o p)[1] = x
  BY <1>1, <1>2, <1>3 DEF s
<1>5. ASSUME NEW k \in 2 .. Len(p) + 1 PROVE (s \o p)[k] = p[k - 1]
  <2>1. k \in 1 .. Len(s) + Len(p) /\ ~(k <= Len(s)) /\ Len(s) = 1
    BY <1>1, <1>2 DEF s
  <2> QED BY <1>3, <2>1
<1> QED BY <1>3, <1>4, <1>5 DEF s

\* The last entries of the way from i to j that a search in state st found.
WayBack(st, types, j, p) ==
    /\ p \in Seq(Ids) /\ p # <<>> /\ p[1] \in DOMAIN st.depth
    /\ st.depth[p[1]] + Len(p) = st.depth[j] + 1
    /\ p[Len(p)] = j
    /\ \A k \in 1 .. Len(p) - 1 : Adjacent(relations, types, p[k], p[k + 1])

(* The way back reaches the start. *)
LEMMA WayBackIsFound ==
    ASSUME Tables, NEW types, NEW i \in Ids, NEW d, NEW st, Searching(st, types, i, d, MaxItem),
           NEW j \in DOMAIN st.depth
    PROVE  LET p == PathSteps(st, i, j)[MaxItem]
           IN WayBack(st, types, j, p) /\ p[1] = i /\ Len(p) = st.depth[j] + 1
<1> DEFINE step(n) == PathSteps(st, i, j)[n]
           T == {n \in 0 .. MaxItem : /\ WayBack(st, types, j, step(n))
                                      /\ st.depth[step(n)[1]] # 0 => st.depth[step(n)[1]] + n = st.depth[j]}
<1>0. MaxItem \in Nat
  BY MaxItemAssumption
<1>1. \A n \in 0 .. MaxItem :
         step(n) = IF n = 0 THEN <<j>>
                   ELSE IF Head(step(n - 1)) = i THEN step(n - 1)
                   ELSE <<st.from[Head(step(n - 1))].item>> \o step(n - 1)
  BY PathStepsAre
<1> HIDE DEF step
<1>2. /\ i \in DOMAIN st.depth /\ st.depth[i] = 0
      /\ \A x \in DOMAIN st.depth : st.depth[x] \in Nat /\ st.depth[x] <= MaxItem /\ x \in Ids
      /\ \A x \in DOMAIN st.depth \ {i} :
           /\ st.from[x].item \in DOMAIN st.depth /\ st.depth[st.from[x].item] + 1 = st.depth[x]
           /\ Adjacent(relations, types, st.from[x].item, x)
  BY DEF Searching, Shaped
<1>3. 0 \in T
  <2>1. step(0) = <<j>> /\ 0 \in 0 .. MaxItem
    <3>1. 0 \in 0 .. MaxItem
      BY <1>0
    <3> QED BY <1>1, <3>1, Zenon
  <2> DEFINE p == step(0)
  <2> HIDE DEF p
  <2>2. p = <<j>> /\ j \in Ids /\ st.depth[j] \in Nat
    BY <1>2, <2>1 DEF p
  <2>3. p \in Seq(Ids) /\ p # <<>> /\ Len(p) = 1 /\ p[1] = j
    BY <2>2
  <2>4. \A k \in 1 .. Len(p) - 1 : FALSE
    BY <2>3
  <2>5. st.depth[p[1]] + Len(p) = st.depth[j] + 1 /\ st.depth[p[1]] + 0 = st.depth[j]
    BY <2>2, <2>3
  <2>6. WayBack(st, types, j, p)
    BY <2>3, <2>4, <2>5 DEF WayBack
  <2> QED BY <2>1, <2>5, <2>6 DEF p
<1>4. ASSUME NEW n \in 1 .. MaxItem, n - 1 \in T PROVE n \in T
  <2> DEFINE p == step(n - 1)
             q == step(n)
             x == p[1]
             y == st.from[x].item
  <2>1. n \in 0 .. MaxItem /\ n # 0 /\ n \in Nat
    BY <1>0
  <2>2. q = IF Head(p) = i THEN p ELSE <<st.from[Head(p)].item>> \o p
    BY <1>1, <2>1
  <2>3. /\ WayBack(st, types, j, p)
        /\ st.depth[x] # 0 => st.depth[x] + (n - 1) = st.depth[j]
    BY <1>4
  <2> HIDE DEF p, q
  <2>4. /\ p \in Seq(Ids) /\ Len(p) \in Nat /\ Len(p) >= 1 /\ Head(p) = x /\ x \in DOMAIN st.depth
        /\ st.depth[x] \in Nat /\ st.depth[j] \in Nat
    BY <1>2, <2>3 DEF WayBack
  <2>5. CASE x = i
    <3>1. q = p /\ st.depth[x] = 0
      BY <1>2, <2>2, <2>4, <2>5
    <3> QED BY <2>1, <2>3, <3>1 DEF q
  <2>6. CASE x # i
    <3>1. q = <<y>> \o p
      BY <2>2, <2>4, <2>6
    <3>2. y \in DOMAIN st.depth /\ st.depth[y] + 1 = st.depth[x] /\ Adjacent(relations, types, y, x) /\ y \in Ids
          /\ st.depth[y] \in Nat
      BY <1>2, <2>4, <2>6
    <3> HIDE DEF y
    <3>3. /\ q \in Seq(Ids) /\ Len(q) = Len(p) + 1 /\ q[1] = y
          /\ \A k \in 2 .. Len(p) + 1 : q[k] = p[k - 1]
      BY <2>4, <3>1, <3>2, PutBefore
    <3>4. q # <<>> /\ q[Len(q)] = j
      <4>1. Len(q) \in 2 .. Len(p) + 1 /\ Len(q) - 1 = Len(p)
        BY <2>4, <3>3
      <4>2. q[Len(q)] = p[Len(p)]
        BY <3>3, <4>1
      <4>3. p[Len(p)] = j
        BY <2>3 DEF WayBack
      <4> QED BY <2>4, <3>3, <4>2, <4>3
    <3>5. st.depth[q[1]] + Len(q) = st.depth[j] + 1
      <4>1. st.depth[x] + Len(p) = st.depth[j] + 1
        BY <2>3 DEF WayBack
      <4>2. \A a, b, c \in Nat, l \in Nat : a + 1 = b /\ b + l = c + 1 => a + (l + 1) = c + 1
        OBVIOUS
      <4> QED BY <2>4, <3>2, <3>3, <4>1, <4>2
    <3>6. ASSUME NEW k \in 1 .. Len(q) - 1 PROVE Adjacent(relations, types, q[k], q[k + 1])
      <4>1. k \in Nat /\ k >= 1 /\ k <= Len(p) /\ k + 1 \in 2 .. Len(p) + 1 /\ (k + 1) - 1 = k
        BY <2>4, <3>3
      <4>2. q[k + 1] = p[k]
        BY <3>3, <4>1
      <4>3. CASE k = 1
        BY <3>2, <3>3, <4>2, <4>3
      <4>4. CASE k # 1
        <5>1. k \in 2 .. Len(p) + 1 /\ k - 1 \in 1 .. Len(p) - 1 /\ (k - 1) + 1 = k
          BY <2>4, <4>1, <4>4
        <5>2. q[k] = p[k - 1]
          BY <3>3, <5>1
        <5>3. Adjacent(relations, types, p[k - 1], p[(k - 1) + 1])
          BY <2>3, <5>1 DEF WayBack
        <5> QED BY <4>2, <5>1, <5>2, <5>3
      <4> QED BY <4>3, <4>4
    <3>7. st.depth[q[1]] + n = st.depth[j]
      <4>1. st.depth[x] # 0
        BY <2>4, <3>2
      <4>2. st.depth[x] + (n - 1) = st.depth[j]
        BY <2>3, <4>1
      <4>3. \A a, b, c \in Nat, m \in Nat : a + 1 = b /\ b + (m - 1) = c => a + m = c
        OBVIOUS
      <4> QED BY <2>1, <2>4, <3>2, <3>3, <4>2, <4>3
    <3>8. WayBack(st, types, j, q)
      BY <3>2, <3>3, <3>4, <3>5, <3>6 DEF WayBack
    <3> QED BY <2>1, <3>7, <3>8 DEF q
  <2> QED BY <2>5, <2>6
<1>5. 0 .. MaxItem \subseteq T
  <2> HIDE DEF T
  <2> QED BY <1>0, <1>3, <1>4, Upward
<1> DEFINE p == step(MaxItem)
<1>6. /\ WayBack(st, types, j, p)
      /\ st.depth[p[1]] # 0 => st.depth[p[1]] + MaxItem = st.depth[j]
  BY <1>0, <1>5
<1> HIDE DEF p
<1>7. p[1] \in DOMAIN st.depth /\ p \in Seq(Ids) /\ st.depth[p[1]] + Len(p) = st.depth[j] + 1
  BY <1>6 DEF WayBack
<1>8. st.depth[p[1]] \in Nat /\ st.depth[j] \in Nat /\ st.depth[j] <= MaxItem /\ Len(p) \in Nat
  BY <1>2, <1>7
<1>9. st.depth[p[1]] = 0
  BY <1>0, <1>6, <1>8
<1>10. p[1] = i
  <2> SUFFICES ASSUME p[1] # i PROVE FALSE
    OBVIOUS
  <2>1. st.depth[st.from[p[1]].item] + 1 = 0 /\ st.depth[st.from[p[1]].item] \in Nat
    BY <1>2, <1>7, <1>9
  <2> QED BY <2>1
<1>11. Len(p) = st.depth[j] + 1
  BY <1>7, <1>8, <1>9
<1> QED BY <1>6, <1>10, <1>11 DEF p, step

(* A path is a shortest one, of any length asked for (graph.py:294-356). *)
LEMMA PathShortest ==
    ASSUME Tables, NEW types, NEW i \in Ids, i \in Live(items), NEW d \in 1 .. DepthLimit, NEW j
    PROVE  PathIsShortest(items, relations, i, j, d, types)
<1> DEFINE st == Search(items, relations, i, d, types)
           ball(m) == Within(relations, types, i, m)
           p == PathSteps(st, i, j)[MaxItem]
<1>0. d \in 0 .. DepthLimit /\ Clamp(1, DepthLimit, d) = d /\ d \in Nat
  BY ClampIs DEF DepthLimit
<1>1. RelationPath(items, relations, i, j, d, types) = IF j \in DOMAIN st.depth THEN p ELSE <<>>
  BY <1>0 DEF RelationPath, PathTo
<1> HIDE DEF st
<1>2. /\ Searching(st, types, i, d, MaxItem) /\ DOMAIN st.depth = ball(d)
      /\ \A m \in 0 .. d, x \in DOMAIN st.depth : st.depth[x] <= m <=> x \in ball(m)
  BY <1>0, SearchIsExact DEF st
<1>3. CASE j \notin ball(d)
  <2>1. RelationPath(items, relations, i, j, d, types) = <<>>
    BY <1>1, <1>2, <1>3
  <2> QED BY <1>3, <2>1 DEF PathIsShortest
<1>4. CASE j \in ball(d)
  <2>1. WayBack(st, types, j, p) /\ p[1] = i /\ Len(p) = st.depth[j] + 1
    BY <1>2, <1>4, WayBackIsFound
  <2>2. st.depth[j] \in Nat /\ st.depth[j] <= d
    BY <1>2, <1>4 DEF Searching, Shaped
  <2> HIDE DEF p, ball
  <2>3. Len(p) = 1 \/ j \notin ball(Len(p) - 2)
    <3> SUFFICES ASSUME Len(p) # 1 PROVE j \notin ball(Len(p) - 2)
      OBVIOUS
    <3>1. st.depth[j] - 1 \in 0 .. d /\ Len(p) - 2 = st.depth[j] - 1 /\ ~(st.depth[j] <= st.depth[j] - 1)
      BY <1>0, <2>1, <2>2
    <3> QED BY <1>2, <1>4, <3>1
  <2>4. RelationPath(items, relations, i, j, d, types) = p
    BY <1>1, <1>2, <1>4
  <2>5. p[Len(p)] = j /\ \A k \in 1 .. Len(p) - 1 : Adjacent(relations, types, p[k], p[k + 1])
    BY <2>1 DEF WayBack
  <2> QED BY <1>4, <2>1, <2>3, <2>4, <2>5 DEF PathIsShortest, ball
<1> QED BY <1>3, <1>4

(* The table of relations is finite. *)
LEMMA RelationsAreFinite ==
    ASSUME Tables
    PROVE  IsFiniteSet(relations)
<1> DEFINE f == [r \in relations |-> r.id]
<1>1. MaxRelation \in Nat
  BY RelationAssumption
<1>2. IsFiniteSet(1 .. MaxRelation)
  BY <1>1, FS_Interval
<1>3. \A r \in relations : r.id \in 1 .. MaxRelation
  BY RelationRowIs DEF Tables, RelationIds
<1>4. f \in Injection(relations, 1 .. MaxRelation)
  BY <1>3 DEF Injection, IsInjective, Tables
<1> QED BY <1>2, <1>4, FS_Injection

-----------------------------------------------------------------------------
\* An order that ranks any two members of S.
Ranks(before, S) ==
    /\ \A x, y \in S : <<x, y>> \in before \/ <<y, x>> \in before
    /\ \A x, y \in S : <<x, y>> \in before /\ <<y, x>> \in before => x = y
    /\ \A x, y, z \in S : <<x, y>> \in before /\ <<y, z>> \in before => <<x, z>> \in before

(* A finite set has a first member. *)
LEMMA FirstIs ==
    ASSUME NEW S, IsFiniteSet(S), NEW before, Ranks(before, S), S # {}
    PROVE  First(S, before) \in S /\ \A y \in S : <<First(S, before), y>> \in before
<1> DEFINE Led(U) == \E x \in U : \A y \in U : <<x, y>> \in before
           N == Cardinality(S)
           T == {n \in 0 .. N : \A U \in SUBSET S : Cardinality(U) = n /\ U # {} => Led(U)}
<1>0. N \in Nat
  BY FS_CardinalityType
<1>1. 0 \in T
  <2>1. \A U \in SUBSET S : IsFiniteSet(U)
    BY FS_Subset
  <2>2. \A U \in SUBSET S : Cardinality(U) = 0 => U = {}
    BY <2>1, FS_EmptySet
  <2> QED BY <1>0, <2>2
<1>2. ASSUME NEW n \in 1 .. N, n - 1 \in T PROVE n \in T
  <2> SUFFICES ASSUME NEW U \in SUBSET S, Cardinality(U) = n, U # {} PROVE Led(U)
    BY <1>0
  <2>1. PICK x \in U : TRUE
    OBVIOUS
  <2> DEFINE rest == U \ {x}
  <2>2. IsFiniteSet(U)
    BY FS_Subset
  <2>3. Cardinality(rest) = n - 1
    BY <2>1, <2>2, FS_RemoveElement
  <2>4. rest # {} => Led(rest)
    BY <1>2, <2>3
  <2>5. <<x, x>> \in before
    BY <2>1 DEF Ranks
  <2>6. CASE rest = {}
    BY <2>5, <2>6
  <2>7. CASE rest # {}
    <3>1. PICK m \in rest : \A y \in rest : <<m, y>> \in before
      BY <2>4, <2>7
    <3>2. CASE <<x, m>> \in before
      <4>1. \A y \in U : y = x \/ y \in rest
        OBVIOUS
      <4>2. \A y \in rest : <<x, y>> \in before
        BY <3>1, <3>2 DEF Ranks
      <4> QED BY <2>5, <4>1, <4>2
    <3>3. CASE <<x, m>> \notin before
      <4>1. <<m, x>> \in before
        BY <3>3 DEF Ranks
      <4> QED BY <3>1, <4>1
    <3> QED BY <3>2, <3>3
  <2> QED BY <2>6, <2>7
<1>3. 0 .. N \subseteq T
  <2> HIDE DEF T
  <2> QED BY <1>0, <1>1, <1>2, Upward
<1>4. Led(S)
  <2>1. N \in T
    BY <1>0, <1>3
  <2> QED BY <2>1
<1> QED BY <1>4 DEF First

(* Taking the first member again and again lists a set in its order. *)
LEMMA InOrderIs ==
    ASSUME NEW S, IsFiniteSet(S), NEW before, Ranks(before, S)
    PROVE  LET l == InOrder(S, before)
           IN /\ l \in Seq(S) /\ Len(l) = Cardinality(S)
              /\ \A x : x \in S <=> \E k \in 1 .. Len(l) : x = l[k]
              /\ \A a, b \in 1 .. Len(l) : a < b => l[a] # l[b] /\ <<l[a], l[b]>> \in before
<1> DEFINE N == Cardinality(S)
           rest(n) == Remaining(S, before)[n]
           l == InOrder(S, before)
           T == {n \in 0 .. N : /\ rest(n) \subseteq S /\ Cardinality(rest(n)) = N - n
                                /\ \A m \in 0 .. n : rest(n) \subseteq rest(m)
                                /\ \A x \in S : x \in rest(n) \/ \E k \in 1 .. n : x = l[k]}
<1>0. N \in Nat
  BY FS_CardinalityType
<1>1. \A n \in 0 .. N : rest(n) = IF n = 0 THEN S ELSE rest(n - 1) \ {First(rest(n - 1), before)}
  BY <1>0, RemainingAre
<1>2. l = [n \in 1 .. N |-> First(rest(n - 1), before)]
  BY DEF InOrder
<1> HIDE DEF rest, l
<1>3. \A n \in 1 .. N : l[n] = First(rest(n - 1), before)
  BY <1>2
<1>4. 0 \in T
  <2>1. 0 \in 0 .. N /\ N - 0 = N
    BY <1>0
  <2>2. rest(0) = S
    BY <1>1, <2>1
  <2>3. \A m \in 0 .. 0 : m = 0
    OBVIOUS
  <2> QED BY <2>1, <2>2, <2>3
<1>5. ASSUME NEW n \in 1 .. N, rest(n - 1) \subseteq S, Cardinality(rest(n - 1)) = N - (n - 1)
      PROVE  /\ l[n] \in rest(n - 1) /\ rest(n) = rest(n - 1) \ {l[n]}
             /\ \A y \in rest(n - 1) : <<l[n], y>> \in before
             /\ Cardinality(rest(n)) = N - n
  <2>1. n \in 0 .. N /\ n # 0 /\ n \in Nat
    BY <1>0
  <2>2. IsFiniteSet(rest(n - 1))
    BY <1>5, FS_Subset
  <2>3. rest(n - 1) # {}
    <3> SUFFICES ASSUME rest(n - 1) = {} PROVE FALSE
      OBVIOUS
    <3>1. Cardinality(rest(n - 1)) = 0
      BY FS_EmptySet
    <3> QED BY <1>0, <1>5, <3>1
  <2>4. Ranks(before, rest(n - 1))
    BY <1>5 DEF Ranks
  <2>5. /\ First(rest(n - 1), before) \in rest(n - 1)
        /\ \A y \in rest(n - 1) : <<First(rest(n - 1), before), y>> \in before
    BY <2>2, <2>3, <2>4, FirstIs
  <2>6. l[n] = First(rest(n - 1), before) /\ rest(n) = rest(n - 1) \ {l[n]}
    BY <1>1, <1>3, <2>1
  <2>7. Cardinality(rest(n - 1) \ {l[n]}) = Cardinality(rest(n - 1)) - 1
    <3>1. l[n] \in rest(n - 1)
      BY <2>5, <2>6
    <3> QED BY <2>2, <3>1, FS_RemoveElement
  <2>8. (N - (n - 1)) - 1 = N - n
    BY <1>0, <2>1
  <2> QED BY <1>5, <2>5, <2>6, <2>7, <2>8
<1>6. ASSUME NEW n \in 1 .. N, n - 1 \in T PROVE n \in T
  <2>1. n \in 0 .. N /\ n # 0 /\ n \in Nat
    BY <1>0
  <2>2. /\ rest(n - 1) \subseteq S /\ Cardinality(rest(n - 1)) = N - (n - 1)
        /\ \A m \in 0 .. n - 1 : rest(n - 1) \subseteq rest(m)
        /\ \A x \in S : x \in rest(n - 1) \/ \E k \in 1 .. n - 1 : x = l[k]
    BY <1>6
  <2>3. rest(n) = rest(n - 1) \ {l[n]} /\ Cardinality(rest(n)) = N - n
    BY <1>5, <2>2
  <2>4. \A m \in 0 .. n : m = n \/ m \in 0 .. n - 1
    BY <2>1
  <2>5. \A k \in 1 .. n - 1 : k \in 1 .. n
    BY <2>1
  <2>6. n \in 1 .. n
    BY <2>1
  <2>7. \A x \in S : x \in rest(n) \/ \E k \in 1 .. n : x = l[k]
    BY <2>2, <2>3, <2>5, <2>6
  <2>8. rest(n) \subseteq S /\ \A m \in 0 .. n : rest(n) \subseteq rest(m)
    BY <2>2, <2>3, <2>4
  <2> QED BY <2>1, <2>3, <2>7, <2>8
<1>7. 0 .. N \subseteq T
  <2> HIDE DEF T
  <2> QED BY <1>0, <1>4, <1>6, Upward
<1>8. ASSUME NEW n \in 1 .. N
      PROVE  /\ l[n] \in rest(n - 1) /\ rest(n) = rest(n - 1) \ {l[n]} /\ rest(n - 1) \subseteq S
             /\ \A y \in rest(n - 1) : <<l[n], y>> \in before
  <2>1. n - 1 \in T
    BY <1>0, <1>7
  <2>2. rest(n - 1) \subseteq S /\ Cardinality(rest(n - 1)) = N - (n - 1)
    BY <2>1
  <2> QED BY <1>5, <2>2
<1>9. l \in Seq(S) /\ Len(l) = N
  <2>1. \A n \in 1 .. N : l[n] \in S
    BY <1>8
  <2>2. l \in [1 .. N -> S]
    BY <1>2, <2>1
  <2> QED BY <1>0, <2>2
<1>10. rest(N) = {}
  <2>1. Cardinality(rest(N)) = 0 /\ rest(N) \subseteq S
    BY <1>0, <1>7
  <2>2. IsFiniteSet(rest(N))
    BY <2>1, FS_Subset
  <2> QED BY <2>1, <2>2, FS_EmptySet
<1>11. ASSUME NEW x \in S PROVE \E k \in 1 .. N : x = l[k]
  <2>1. N \in T
    BY <1>0, <1>7
  <2> QED BY <1>10, <2>1
<1>12. ASSUME NEW a \in 1 .. N, NEW b \in 1 .. N, a < b
       PROVE  l[a] # l[b] /\ <<l[a], l[b]>> \in before
  <2>1. b - 1 \in 0 .. N /\ a \in 0 .. b - 1 /\ a - 1 \in 0 .. b - 1
    BY <1>0, <1>12
  <2>2. b - 1 \in T
    BY <1>7, <2>1
  <2>3. rest(b - 1) \subseteq rest(a) /\ rest(b - 1) \subseteq rest(a - 1)
    BY <2>1, <2>2
  <2>4. l[b] \in rest(b - 1)
    BY <1>8
  <2> QED BY <1>8, <2>3, <2>4
<1>13. \A x : x \in S <=> \E k \in 1 .. Len(l) : x = l[k]
  BY <1>8, <1>9, <1>11
<1> QED BY <1>9, <1>12, <1>13 DEF l

(* Relations are ranked by position and id, entries by number and id. *)
LEMMA PositionsRank ==
    ASSUME Tables, NEW S \in SUBSET relations
    PROVE  Ranks(ByPosition(S), S)
<1>1. \A r \in S : r.id \in Nat /\ Rank(r) \in Int
  <2> SUFFICES ASSUME NEW r \in S PROVE r.id \in Nat /\ Rank(r) \in Int
    OBVIOUS
  <2>1. r.id \in RelationIds /\ r.position \in Nat \cup {NoPosition}
    BY RelationRowIs DEF Tables
  <2> QED BY <2>1 DEF Rank, RelationIds
<1>2. \A r, q \in S : r.id = q.id => r = q
  BY DEF Tables
<1>3. \A x, y \in S : <<x, y>> \in ByPosition(S) <=> Rank(x) < Rank(y) \/ (Rank(x) = Rank(y) /\ x.id <= y.id)
  BY DEF ByPosition
<1>4. ASSUME NEW x \in S, NEW y \in S PROVE <<x, y>> \in ByPosition(S) \/ <<y, x>> \in ByPosition(S)
  <2>1. \/ Rank(x) < Rank(y) \/ (Rank(x) = Rank(y) /\ x.id <= y.id)
        \/ Rank(y) < Rank(x) \/ (Rank(y) = Rank(x) /\ y.id <= x.id)
    BY <1>1
  <2> QED BY <1>3, <2>1, Zenon
<1>5. \A x, y \in S : <<x, y>> \in ByPosition(S) /\ <<y, x>> \in ByPosition(S) => x = y
  BY <1>1, <1>2, <1>3
<1>6. ASSUME NEW x \in S, NEW y \in S, NEW z \in S, <<x, y>> \in ByPosition(S), <<y, z>> \in ByPosition(S)
      PROVE  <<x, z>> \in ByPosition(S)
  <2>1. /\ Rank(x) < Rank(y) \/ (Rank(x) = Rank(y) /\ x.id <= y.id)
        /\ Rank(y) < Rank(z) \/ (Rank(y) = Rank(z) /\ y.id <= z.id)
    BY <1>3, <1>6
  <2>2. Rank(x) < Rank(z) \/ (Rank(x) = Rank(z) /\ x.id <= z.id)
    BY <1>1, <2>1
  <2> QED BY <1>3, <2>2, Zenon
<1> QED BY <1>4, <1>5, <1>6 DEF Ranks

LEMMA EntriesRank ==
    ASSUME NEW e, \A x \in DOMAIN e : x \in Nat /\ e[x] \in Nat, NEW S \in SUBSET DOMAIN e
    PROVE  Ranks(ByEntry(e), S)
<1>1. \A x, y \in S : <<x, y>> \in ByEntry(e) <=> e[x] < e[y] \/ (e[x] = e[y] /\ x <= y)
  BY DEF ByEntry
<1>2. \A x \in S : x \in Nat /\ e[x] \in Nat
  OBVIOUS
<1>3. ASSUME NEW x \in S, NEW y \in S PROVE <<x, y>> \in ByEntry(e) \/ <<y, x>> \in ByEntry(e)
  <2>1. x \in Nat /\ y \in Nat /\ e[x] \in Nat /\ e[y] \in Nat
    BY <1>2
  <2>2. \/ e[x] < e[y] \/ (e[x] = e[y] /\ x <= y)
        \/ e[y] < e[x] \/ (e[y] = e[x] /\ y <= x)
    BY <2>1
  <2> QED BY <1>1, <2>2, Zenon
<1>4. \A x, y \in S : <<x, y>> \in ByEntry(e) /\ <<y, x>> \in ByEntry(e) => x = y
  BY <1>1, <1>2
<1>5. ASSUME NEW x \in S, NEW y \in S, NEW z \in S, <<x, y>> \in ByEntry(e), <<y, z>> \in ByEntry(e)
      PROVE  <<x, z>> \in ByEntry(e)
  <2>1. (e[x] < e[y] \/ (e[x] = e[y] /\ x <= y)) /\ (e[y] < e[z] \/ (e[y] = e[z] /\ y <= z))
    BY <1>1, <1>5
  <2>2. x \in Nat /\ y \in Nat /\ z \in Nat /\ e[x] \in Nat /\ e[y] \in Nat /\ e[z] \in Nat
    BY <1>2
  <2>3. e[x] < e[z] \/ (e[x] = e[z] /\ x <= z)
    BY <2>1, <2>2
  <2> QED BY <1>1, <2>3, Zenon
<1> QED BY <1>3, <1>4, <1>5 DEF Ranks

-----------------------------------------------------------------------------
\* The relations of an order, and the positions that place an entry.
Listed(i, order) == {r \in RelationsFor(relations, i) : r.order = order}
Places(i, S, x) == {r.position : r \in {q \in S : Connected(q, i) = x}}

\* The entries when the relations of S are entered, of those of all.
Entered(i, e, S, all) ==
    /\ DOMAIN e = {i} \cup {Connected(r, i) : r \in S}
    /\ \A x \in DOMAIN e : e[x] \in Nat /\ x \in Ids
    /\ e[i] = 0
    /\ \A x \in DOMAIN e : x # i /\ NoPosition \notin Places(i, all, x) =>
         e[x] \in Places(i, S, x) /\ \A p \in Places(i, S, x) : e[x] <= p

(* One relation entered. *)
LEMMA EnterKeeps ==
    ASSUME Tables, NEW i \in Ids, NEW all \in SUBSET RelationsFor(relations, i), NEW S \in SUBSET all,
           NEW r \in all, NEW e, Entered(i, e, S, all)
    PROVE  Entered(i, Enter(i, e, r), S \cup {r}, all)
<1> DEFINE other == Connected(r, i)
           position == IF r.position = NoPosition THEN Cardinality(DOMAIN e) ELSE r.position
           f == Enter(i, e, r)
           U == S \cup {r}
<1>1. other \in Ids /\ r.position \in Nat \cup {NoPosition}
  BY RelationRowIs DEF Tables, RelationsFor, Connected
<1>2. position \in Nat /\ (r.position # NoPosition => position = r.position)
  <2>1. DOMAIN e \subseteq Ids
    BY DEF Entered
  <2>2. IsFiniteSet(1 .. MaxItem)
    BY MaxItemAssumption, FS_Interval
  <2>3. IsFiniteSet(DOMAIN e)
    BY <2>1, <2>2, FS_Subset DEF Ids
  <2>4. Cardinality(DOMAIN e) \in Nat
    BY <2>3, FS_CardinalityType
  <2> QED BY <1>1, <2>4
<1>3. f = IF other \in DOMAIN e /\ position >= e[other] THEN e ELSE With(e, other, position)
  BY DEF Enter
<1>4. \A x \in Places(i, all, other) : x \in Nat \cup {NoPosition}
  BY RelationRowIs DEF Tables, RelationsFor, Places
<1>5. \A x : Places(i, U, x) = Places(i, S, x) \cup (IF x = other THEN {r.position} ELSE {})
  BY DEF Places
<1>6. r.position \in Places(i, all, other)
  BY DEF Places
<1> HIDE DEF other, position, f
<1>7. {Connected(q, i) : q \in U} = {Connected(q, i) : q \in S} \cup {other}
  BY DEF other
<1> HIDE DEF U
<1>8. /\ DOMAIN e = {i} \cup {Connected(q, i) : q \in S}
      /\ \A x \in DOMAIN e : e[x] \in Nat /\ x \in Ids
      /\ e[i] = 0 /\ i \in DOMAIN e
      /\ \A x \in DOMAIN e : x # i /\ NoPosition \notin Places(i, all, x) =>
           e[x] \in Places(i, S, x) /\ \A p \in Places(i, S, x) : e[x] <= p
  BY DEF Entered
<1>9. CASE other \in DOMAIN e /\ position >= e[other]
  <2>1. f = e
    BY <1>3, <1>9
  <2>2. DOMAIN f = {i} \cup {Connected(q, i) : q \in U}
    BY <1>7, <1>8, <1>9, <2>1
  <2>3. ASSUME NEW x \in DOMAIN f, x # i, NoPosition \notin Places(i, all, x)
        PROVE  f[x] \in Places(i, U, x) /\ \A p \in Places(i, U, x) : f[x] <= p
    <3>1. e[x] \in Places(i, S, x) /\ \A p \in Places(i, S, x) : e[x] <= p
      BY <1>8, <2>1, <2>3
    <3>2. CASE x = other
      <4>1. r.position # NoPosition
        BY <1>6, <2>3, <3>2
      <4>2. e[x] <= r.position
        BY <1>2, <1>8, <1>9, <3>2, <4>1
      <4> QED BY <1>5, <2>1, <3>1, <3>2, <4>2
    <3>3. CASE x # other
      BY <1>5, <2>1, <3>1, <3>3
    <3> QED BY <3>2, <3>3
  <2>4. Entered(i, f, U, all)
    BY <1>8, <2>1, <2>2, <2>3 DEF Entered
  <2> QED BY <2>4 DEF f, U
<1>10. CASE ~(other \in DOMAIN e /\ position >= e[other])
  <2>1. f = With(e, other, position)
    BY <1>3, <1>10
  <2>2. /\ DOMAIN f = DOMAIN e \cup {other} /\ f[other] = position
        /\ \A x \in DOMAIN e : x # other => f[x] = e[x]
    BY <2>1 DEF With
  <2>3. other # i
    BY <1>2, <1>8, <1>10
  <2>4. DOMAIN f = {i} \cup {Connected(q, i) : q \in U} /\ f[i] = 0
    BY <1>7, <1>8, <2>2, <2>3
  <2>5. \A x \in DOMAIN f : f[x] \in Nat /\ x \in Ids
    BY <1>1, <1>2, <1>8, <2>2
  <2>6. ASSUME NEW x \in DOMAIN f, x # i, NoPosition \notin Places(i, all, x)
        PROVE  f[x] \in Places(i, U, x) /\ \A p \in Places(i, U, x) : f[x] <= p
    <3>1. CASE x = other
      <4>1. r.position # NoPosition /\ position = r.position
        BY <1>2, <1>6, <2>6, <3>1
      <4>2. ASSUME NEW p \in Places(i, S, x) PROVE position <= p
        <5>1. x \in DOMAIN e
          BY <1>8, <4>2 DEF Places
        <5>2. e[x] <= p /\ e[x] \in Nat /\ position < e[x]
          BY <1>2, <1>8, <1>10, <2>6, <3>1, <4>2, <5>1
        <5>3. p \in Nat
          BY <1>4, <2>6, <3>1, <4>2 DEF Places
        <5> QED BY <1>2, <5>2, <5>3
      <4> QED BY <1>2, <1>5, <2>2, <3>1, <4>1, <4>2
    <3>2. CASE x # other
      BY <1>5, <1>8, <2>2, <2>6, <3>2
    <3> QED BY <3>1, <3>2
  <2>7. Entered(i, f, U, all)
    BY <2>4, <2>5, <2>6 DEF Entered
  <2> QED BY <2>7 DEF f, U
<1> QED BY <1>9, <1>10

(* The whole loop. *)
LEMMA AllEntered ==
    ASSUME Tables, NEW i \in Ids, NEW found \in SUBSET RelationsFor(relations, i)
    PROVE  Entered(i, EnterSteps(i, InOrder(found, ByPosition(found)))[Cardinality(found)], found, found)
<1> DEFINE l == InOrder(found, ByPosition(found))
           N == Len(l)
           step(n) == EnterSteps(i, l)[n]
           first(n) == {l[k] : k \in 1 .. n}
           T == {n \in 0 .. N : Entered(i, step(n), first(n), found)}
<1>1. found \subseteq relations
  BY DEF RelationsFor
<1>2. IsFiniteSet(found)
  BY <1>1, RelationsAreFinite, FS_Subset
<1>3. Ranks(ByPosition(found), found)
  BY <1>1, PositionsRank
<1>4. l \in Seq(found) /\ N = Cardinality(found) /\ \A x : x \in found <=> \E k \in 1 .. N : x = l[k]
  BY <1>2, <1>3, InOrderIs
<1>5. N \in Nat
  <2>1. Cardinality(found) \in Nat
    BY <1>2, FS_CardinalityType
  <2> HIDE DEF l, N, step, first, T
  <2> QED BY <1>4, <2>1
<1>6. \A n \in 0 .. N : step(n) = IF n = 0 THEN [x \in {i} |-> 0] ELSE Enter(i, step(n - 1), l[n])
  <2> HIDE DEF l
  <2>1. Len(l) \in Nat
    BY <1>5
  <2>2. \A n \in 0 .. Len(l) : EnterSteps(i, l)[n] = IF n = 0 THEN [x \in {i} |-> 0]
                                                    ELSE Enter(i, EnterSteps(i, l)[n - 1], l[n])
    BY ONLY <2>1, EnterStepsAre
  <2> QED BY <2>2
<1> HIDE DEF l, N, step
<1>7. 0 \in T
  <2>1. 0 \in 0 .. N /\ 1 .. 0 = {}
    BY <1>5
  <2>2. step(0) = [x \in {i} |-> 0] /\ first(0) = {}
    BY <1>6, <2>1
  <2> HIDE DEF first
  <2>3. DOMAIN step(0) = {i} /\ step(0)[i] = 0
    BY <2>2
  <2>4. Entered(i, step(0), {}, found)
    BY <2>3 DEF Entered
  <2> QED BY <2>1, <2>2, <2>4
<1>8. ASSUME NEW n \in 1 .. N, n - 1 \in T PROVE n \in T
  <2>1. n \in 0 .. N /\ n # 0 /\ n \in Nat
    BY <1>5
  <2>2. step(n) = Enter(i, step(n - 1), l[n])
    BY <1>6, <2>1
  <2>3. \A k \in 1 .. n : k \in 1 .. N /\ (k = n \/ k \in 1 .. n - 1)
    BY <1>5, <2>1
  <2>4. first(n) = first(n - 1) \cup {l[n]}
    BY <2>1, <2>3
  <2>5. first(n - 1) \in SUBSET found /\ l[n] \in found
    <3>1. \A k \in 1 .. n - 1 : k \in 1 .. N
      BY <1>5, <2>1
    <3> QED BY <1>4, <3>1
  <2>6. Entered(i, step(n - 1), first(n - 1), found)
    BY <1>8
  <2> HIDE DEF first
  <2>7. Entered(i, step(n), first(n), found)
    BY <2>2, <2>4, <2>5, <2>6, EnterKeeps
  <2> QED BY <2>1, <2>7
<1>9. 0 .. N \subseteq T
  <2> HIDE DEF T
  <2> QED BY <1>5, <1>7, <1>8, Upward
<1>10. first(N) = found
  BY <1>4
<1>11. Entered(i, step(N), first(N), found)
  BY <1>5, <1>9
<1> QED BY <1>4, <1>10, <1>11 DEF step, l

(* An ordered list is what it should be (graph.py:358-472). *)
LEMMA OrderKept ==
    ASSUME Tables, NEW i \in Ids, NEW order
    PROVE  OrderIsKept(items, relations, i, order)
<1> DEFINE found == Listed(i, order)
           e == EnterSteps(i, InOrder(found, ByPosition(found)))[Cardinality(found)]
           S == DOMAIN e \cap Live(items)
           list == InOrder(S, ByEntry(e))
<1>1. OrderedItems(items, relations, i, order) = list
  BY DEF OrderedItems, Listed
<1>2. Entered(i, e, found, found)
  BY AllEntered DEF Listed
<1> HIDE DEF e, found
<1>3. \A x \in DOMAIN e : x \in Nat /\ e[x] \in Nat /\ x \in Ids
  BY <1>2, MaxItemAssumption DEF Entered, Ids
<1>4. Ranks(ByEntry(e), S)
  BY <1>3, EntriesRank
<1>5. IsFiniteSet(S)
  <2>1. IsFiniteSet(1 .. MaxItem)
    BY MaxItemAssumption, FS_Interval
  <2> QED BY <1>3, <2>1, FS_Subset DEF Ids
<1>6. /\ list \in Seq(S) /\ \A x : x \in S <=> \E k \in 1 .. Len(list) : x = list[k]
      /\ \A a, b \in 1 .. Len(list) : a < b => list[a] # list[b] /\ <<list[a], list[b]>> \in ByEntry(e)
  <2> HIDE DEF S
  <2> QED BY <1>4, <1>5, InOrderIs
<1>7. DOMAIN e = {i} \cup {Connected(r, i) : r \in found}
  BY <1>2 DEF Entered
<1> HIDE DEF list
<1>8. DOMAIN list = 1 .. Len(list) /\ Len(list) \in Nat
  BY <1>6
<1>9. ToSet(list) = ({i} \cup {Connected(r, i) : r \in found}) \cap Live(items)
  BY <1>6, <1>7, <1>8 DEF ToSet
<1>10. IsInjective(list)
  <2> SUFFICES ASSUME NEW a \in 1 .. Len(list), NEW b \in 1 .. Len(list), list[a] = list[b], a # b PROVE FALSE
    BY <1>8 DEF IsInjective
  <2>1. a < b \/ b < a
    BY <1>8
  <2> QED BY <1>6, <2>1
<1>11. ASSUME NEW a \in 1 .. Len(list), NEW b \in 1 .. Len(list), i \notin {list[a], list[b]},
              NoPosition \notin Places(i, found, list[a]) \cup Places(i, found, list[b]),
              Min(Places(i, found, list[a])) < Min(Places(i, found, list[b]))
       PROVE  a < b
  <2>1. ASSUME NEW x \in S, x # i, NoPosition \notin Places(i, found, x)
        PROVE  Min(Places(i, found, x)) = e[x] /\ e[x] \in Nat
    <3>1. e[x] \in Places(i, found, x) /\ (\A p \in Places(i, found, x) : e[x] <= p) /\ e[x] \in Nat
      BY <1>2, <2>1 DEF Entered
    <3>2. Places(i, found, x) \subseteq Nat
      BY <2>1, RelationRowIs DEF Tables, Places, found, Listed, RelationsFor
    <3>3. \A z \in Places(i, found, x) : (\A p \in Places(i, found, x) : z <= p) => z = e[x]
      BY <3>1, <3>2
    <3> QED BY <3>1, <3>3 DEF Min
  <2>2. list[a] \in S /\ list[b] \in S
    BY <1>6
  <2>3. e[list[a]] < e[list[b]] /\ e[list[a]] \in Nat /\ e[list[b]] \in Nat
    BY <1>11, <2>1, <2>2
  <2> SUFFICES ASSUME ~(a < b) PROVE FALSE
    OBVIOUS
  <2>4. b < a \/ a = b
    BY <1>8
  <2>5. CASE a = b
    BY <2>3, <2>5
  <2>6. CASE b < a
    <3>1. <<list[b], list[a]>> \in ByEntry(e)
      BY <1>6, <2>6
    <3>2. e[list[b]] < e[list[a]] \/ e[list[b]] = e[list[a]]
      BY <3>1 DEF ByEntry
    <3> QED BY <2>3, <3>2
  <2> QED BY <2>4, <2>5, <2>6
<1> QED BY <1>1, <1>9, <1>10, <1>11 DEF OrderIsKept, Listed, Places, found

(* Every answer about the graph is exact, of any depth and for any types. *)
LEMMA AnswersAreExact ==
    ASSUME Tables, NEW i \in Live(items)
    PROVE  /\ \A types : \A n \in 0 .. DepthLimit : TraversalIsExact(items, relations, i, n, types)
           /\ \A types, j : \A n \in 1 .. DepthLimit : PathIsShortest(items, relations, i, j, n, types)
           /\ \A order : OrderIsKept(items, relations, i, order)
<1>1. i \in Ids
  BY DEF Live
<1>2. ASSUME NEW types, NEW n \in 0 .. DepthLimit PROVE TraversalIsExact(items, relations, i, n, types)
  BY <1>1, TraversalExact
<1>3. ASSUME NEW types, NEW j, NEW n \in 1 .. DepthLimit PROVE PathIsShortest(items, relations, i, j, n, types)
  BY <1>1, PathShortest
<1>4. ASSUME NEW order PROVE OrderIsKept(items, relations, i, order)
  BY <1>1, OrderKept
<1> QED BY <1>2, <1>3, <1>4

\* In every database a run can reach, the answers of the graph service are
\* exact: traversals, shortest paths and ordered lists (graph.py:162-472).
THEOREM GraphIsExact == Spec => []GraphAnswersAreExact
<1>1. IInv => GraphAnswersAreExact
  <2> SUFFICES ASSUME IInv, NEW i \in Live(items)
               PROVE  /\ \A n \in 0..2, types \in {{}, {NormType[t] : t \in RelationTypes}} :
                           TraversalIsExact(items, relations, i, n, types)
                      /\ \A j \in Live(items), n \in 1..3 : PathIsShortest(items, relations, i, j, n, {})
                      /\ \A order \in RelationTypes : OrderIsKept(items, relations, i, order)
    BY DEF GraphAnswersAreExact
  <2>1. Tables
    BY ConsistentTables DEF IInv
  <2>2. 0..2 \subseteq 0 .. DepthLimit /\ 1..3 \subseteq 1 .. DepthLimit
    BY DEF DepthLimit
  <2>3. /\ \A types : \A n \in 0 .. DepthLimit : TraversalIsExact(items, relations, i, n, types)
        /\ \A types, j : \A n \in 1 .. DepthLimit : PathIsShortest(items, relations, i, j, n, types)
        /\ \A order : OrderIsKept(items, relations, i, order)
    BY <2>1, AnswersAreExact
  <2> QED BY <2>2, <2>3, Zenon
<1> QED BY <1>1, Invariant, PTL
=============================================================================
