--------------------------- MODULE KnowledgeMatch ---------------------------
(***************************************************************************)
(* How the AI node recognises a knowledge entry it already has             *)
(* (app/knowledge/matcher.py), what an import decides from the matches     *)
(* (importer.py), and the rows both read (models.py).  Everything here is  *)
(* a function of the tables: the steps that change them are in Knowledge.  *)
(*                                                                         *)
(* A title is a member of Titles.  What the code computes from its         *)
(* characters is given by five constants: Norm is matcher.normalize_title  *)
(* and Text merge.normalize_text, NoText where nothing is left of a title; *)
(* TitleOrder is its place in ORDER BY title, Like the SQL filter ILIKE    *)
(* '%query%', and Ratio the SequenceMatcher ratio of two normalised titles *)
(* in thousandths (scores are thousandths throughout).                     *)
(*                                                                         *)
(* The external ids of an entry are kept as they were written, a value per *)
(* spelling of a key; null and blank values, which every operation treats  *)
(* like a key that is not there, are NoValue.  Objects that differ only in *)
(* the order of their keys are not told apart.  metadata_json, merged by   *)
(* the same merge_dicts and never normalised, is left out.                 *)
(***************************************************************************)
EXTENDS Integers, FiniteSets, Sequences, SequencesExt

CONSTANTS
    MaxItem,      \* bound: the highest id of knowledge_items
    Titles, NoText,
    Norm, Text, TitleOrder, Like, Ratio,
    MaxCandidates,     \* max(limit * 5, 100), 100 for both limits
    ImportMatches, ReferenceMatches,    \* limit: 20 and 10
    Kinds,        \* normalised media types
    Years, NoYear,
    Keys, Values, NoValue,     \* external ids: a value per spelling of a key
    NormKey, NormValue,        \* what normalize_external_ids makes of both,
    LastKey,      \* and the last of some spellings in an object
    Langs, NoLang,
    NoItem        \* an id without a row

ASSUME MaxItemAssumption == MaxItem \in Nat \ {0}
ASSUME LimitAssumption ==
    /\ MaxCandidates \in Nat \ {0} /\ ImportMatches \in Nat \ {0}
    /\ ReferenceMatches \in Nat \ {0}
\* Blank titles and media types are left out; a title of other signs may
\* normalise to nothing.
ASSUME TextAssumption ==
    /\ Norm \in [Titles -> Titles \cup {NoText}] /\ Text \in [Titles -> Titles \cup {NoText}]
    /\ \A t \in Titles : <<t, t>> \in Like
    /\ \A a, b \in Titles : Text[a] = Text[b] => Norm[a] = Norm[b]
    /\ \A t \in Titles : Text[t] = NoText => Norm[t] = NoText
    /\ NoText \notin Titles \cup Kinds
ASSUME KeyAssumption ==
    /\ NormKey \in [Keys -> Keys] /\ \A k \in Keys : NormKey[NormKey[k]] = NormKey[k]
    /\ NormValue \in [Values -> Values]
    /\ \A v \in Values : NormValue[NormValue[v]] = NormValue[v]
    /\ NoValue \notin Values
    /\ \A S \in (SUBSET Keys) \ {{}} : LastKey[S] \in S
ASSUME NumberAssumption ==
    /\ Ratio \in [Titles \X Titles -> 0 .. 1000]
    /\ TitleOrder \in [Titles -> Int]
    /\ Years \subseteq Int

Ids == 1..MaxItem

ItemRow == [title : Titles, original : Titles \cup {NoText}, kind : Kinds,
            year : Years \cup {NoYear}, ext : [Keys -> Values \cup {NoValue}]]
AliasRow == [item : Ids, title : Titles, lang : Langs \cup {NoLang}]

ASSUME NoItemAssumption == NoItem \notin ItemRow

Live(items) == {i \in Ids : items[i] # NoItem}

NormOf(t) == IF t = NoText THEN {} ELSE {Norm[t]} \ {NoText}
TextOf(t) == IF t = NoText THEN {} ELSE {Text[t]} \ {NoText}

\* normalize_external_ids: of the spellings of one key the last one counts.
NormExt(ext) ==
    [k \in Keys |->
       LET spelt == {r \in Keys : NormKey[r] = k /\ ext[r] # NoValue}
       IN IF spelt = {} THEN NoValue ELSE NormValue[ext[LastKey[spelt]]]]

\* _collect_titles: everything an entry is called.
CollectTitles(items, aliases, i) ==
    NormOf(items[i].title) \cup NormOf(items[i].original)
        \cup ({Norm[a.title] : a \in {b \in aliases : b.item = i}} \ {NoText})

----------------------------------------------------------------------------
(* Searching. *)

\* The three filters of search_items and _load_candidates: the stored title,
\* original title or an alias is LIKE the query.
Hits(items, aliases, query) ==
    {i \in Live(items) :
        \/ <<query, items[i].title>> \in Like
        \/ <<query, items[i].original>> \in Like
        \/ \E a \in aliases : a.item = i /\ <<query, a.title>> \in Like}

\* A request is [title, original, kind, year, ext]; NoText is a kind not given.
Eligible(items, req) ==
    {i \in Live(items) : /\ req.kind \in {items[i].kind, NoText}
                         /\ req.year = NoYear \/ items[i].year \in {req.year, NoYear}}
Named(items, aliases, req) ==
    Eligible(items, req) \cap
      (Hits(items, aliases, req.title)
         \cup IF req.original = NoText THEN {} ELSE Hits(items, aliases, req.original))

\* LIMIT n over S: order holds the pairs of which the first sorts before.
FirstOf(n, S, order) == {x \in S : Cardinality({y \in S : <<y, x>> \in order}) < n}

\* ORDER BY title, year, id, rows without a year before the others.
YearBefore(a, b) == b # NoYear /\ (a = NoYear \/ a < b)
ByTitle(items) ==
    {p \in Live(items) \X Live(items) :
       LET a == items[p[1]]  b == items[p[2]]
       IN \/ TitleOrder[a.title] < TitleOrder[b.title]
          \/ TitleOrder[a.title] = TitleOrder[b.title] /\ YearBefore(a.year, b.year)
          \/ TitleOrder[a.title] = TitleOrder[b.title] /\ a.year = b.year /\ p[1] < p[2]}
ById == {p \in Ids \X Ids : p[1] < p[2]}

\* _load_candidates: type and year restrict the rows, the titles select among
\* them, and the first are taken; only when no title is LIKE the query do the
\* rows come back whatever they are called.
Candidates(items, aliases, req) ==
    LET named == Named(items, aliases, req)
    IN IF named # {} THEN FirstOf(MaxCandidates, named, ByTitle(items))
       ELSE FirstOf(MaxCandidates, Eligible(items, req), ById)

----------------------------------------------------------------------------
(* Comparing. *)

Abs(n) == IF n < 0 THEN -n ELSE n
Clamp(low, high, n) == Max({low, Min({high, n})})

ExactTypes == {"external_id", "exact_title_year", "exact_alias_year",
               "exact_original_title_year"}
NoMatch == [score |-> 0, type |-> "none"]

\* The ratio corrected by the years, and no match below 0.72.
FuzzyScore(ratio, year, other) ==
    LET off   == Abs(year - other)
        bonus == IF NoYear \in {year, other} THEN 0
                   ELSE IF off = 0 THEN 80
                   ELSE IF off = 1 THEN -40
                   ELSE -Min({250, 40 * off})
        score == Clamp(0, 970, ratio + bonus)
    IN IF ratio < 720 \/ score < 720 THEN NoMatch
       ELSE [score |-> score, type |-> "fuzzy_title"]

\* The best ratio of an incoming title with a title of the entry.
FuzzyMatch(items, aliases, i, req) ==
    FuzzyScore(Max({0} \cup {Ratio[<<a, b>>] : a \in NormOf(req.title) \cup NormOf(req.original),
                                               b \in CollectTitles(items, aliases, i)}),
               req.year, items[i].year)

\* _compare_item, in the order of its returns.
CompareItem(items, aliases, i, req) ==
    LET titles    == CollectTitles(items, aliases, i)
        sameId    == \E k \in Keys : /\ NormExt(req.ext)[k] # NoValue
                                    /\ NormExt(items[i].ext)[k] = NormExt(req.ext)[k]
        unknown   == req.year = NoYear \/ items[i].year = NoYear
        sameYear  == ~unknown /\ req.year = items[i].year
        sameTitle == Norm[req.title] \in titles
        sameOriginal == NormOf(req.original) \cap titles # {}
    IN IF req.kind \notin {items[i].kind, NoText} THEN NoMatch
         ELSE IF sameId THEN [score |-> 1000, type |-> "external_id"]
         ELSE IF sameTitle /\ sameYear THEN
              [score |-> 990,
               type |-> IF Norm[items[i].title] = Norm[req.title]
                        THEN "exact_title_year" ELSE "exact_alias_year"]
         ELSE IF sameOriginal /\ sameYear THEN
              [score |-> 985, type |-> "exact_original_title_year"]
         ELSE IF sameTitle /\ unknown THEN [score |-> 930, type |-> "exact_title"]
         ELSE FuzzyMatch(items, aliases, i, req)

\* The candidates that match.
Found(match) ==
    {[item |-> i, score |-> match[i].score, type |-> match[i].type] :
       i \in {j \in DOMAIN match : match[j] # NoMatch}}

\* The sort of find_matches: the best score first, ties by id.
ByScore(matches) ==
    {p \in matches \X matches :
       p[1].score > p[2].score \/ (p[1].score = p[2].score /\ p[1].item < p[2].item)}

\* find_matches: nothing for a title of which nothing is left.
FindMatches(items, aliases, req, limit) ==
    LET found == Found([i \in Candidates(items, aliases, req) |->
                          CompareItem(items, aliases, i, req)])
    IN IF NormOf(req.title) = {} THEN {} ELSE FirstOf(limit, found, ByScore(found))

\* The first of its sorted list.
Best(matches) ==
    CHOOSE m \in matches : \A n \in matches :
        m.score > n.score \/ (m.score = n.score /\ m.item <= n.item)

----------------------------------------------------------------------------
(* Deciding. *)

\* A slip: only an external id makes a match exact.
DecideByIdOnly(matches) ==
    LET byId == {m \in matches : m.type = "external_id"}
    IN CASE byId = {} -> [status |-> "create", item |-> 0]
         [] Cardinality(byId) = 1 ->
              [status |-> "update", item |-> (CHOOSE m \in byId : TRUE).item]
         [] OTHER -> [status |-> "conflict", item |-> 0]

\* _decide_match: create, update one entry, or refuse because several fit.
DecideMatch(matches) ==
    LET strong == {m \in matches : m.score >= 900}
        exact  == {m \in strong : m.type \in ExactTypes}
        byId   == {m \in exact : m.type = "external_id"}
        best   == Best(matches)
        nearly == {m \in strong : Abs(best.score - m.score) <= 20}
        only(S) == [status |-> "update", item |-> (CHOOSE m \in S : TRUE).item]
        create == [status |-> "create", item |-> 0]
        conflict == [status |-> "conflict", item |-> 0]
    IN IF matches = {}           THEN create
         ELSE IF Cardinality(exact) = 1 THEN only(exact)
         ELSE IF Cardinality(exact) > 1 THEN IF Cardinality(byId) = 1 THEN only(byId) ELSE conflict
         ELSE IF best.score < 950       THEN create
         ELSE IF Cardinality(nearly) > 1 THEN conflict
         ELSE only({best})

\* The entries matched with 0.95 or more.
Strong(matches) == {m.item : m \in {n \in matches : n.score >= 950}}

\* _resolve_reference of a relation import: exactly one such match.
Resolved(items, aliases, req) ==
    LET strong == Strong(FindMatches(items, aliases, req, ReferenceMatches))
    IN IF Cardinality(strong) = 1 THEN CHOOSE i \in strong : TRUE ELSE 0

=============================================================================
