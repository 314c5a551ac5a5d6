---------------------------- MODULE MCKnowledge ----------------------------
(* A film three times under near titles, another whose name is part of    *)
(* theirs and sorts after them, a title of which nothing is left, legacy   *)
(* relation types, an id under two spellings, and requests that meet all   *)
(* of them.                                                                *)
EXTENDS Knowledge

CONSTANTS s1, s2

MCSorted == <<"!!!", "Alien 3", "Alien-3", "alien", "alien3">>
MCTitles == ToSet(MCSorted)
MCTitleOrder == [t \in MCTitles |-> CHOOSE n \in 1..5 : MCSorted[n] = t]
MCText == [t \in MCTitles |-> IF t = "Alien-3" THEN "Alien 3" ELSE t]
MCNorm == [t \in MCTitles |-> IF t = "!!!" THEN "none" ELSE MCText[t]]
MCLike == {<<t, t>> : t \in MCTitles} \cup {<<"alien", t>> : t \in MCTitles \ {"!!!"}}
MCRatio == [p \in MCTitles \X MCTitles |->
              IF p[1] = p[2] THEN 1000 ELSE IF "!!!" \in {p[1], p[2]} THEN 0
              ELSE IF "alien" \notin {p[1], p[2]} THEN 923
              ELSE IF "alien3" \in {p[1], p[2]} THEN 909 ELSE 833]
MCKeys == {"imdb", "tmdb", "tmdb_id"}
MCNormKey == [k \in MCKeys |-> IF k = "imdb" THEN k ELSE "tmdb"]
MCNormValue == [v \in {"a", "A", "b"} |-> IF v = "A" THEN "a" ELSE v]
MCLastKey == [S \in (SUBSET MCKeys) \ {{}} |->
                CHOOSE k \in S : "tmdb_id" \in S => k = "tmdb_id"]
MCTypes == {"sequel", "prequel", "spinoff", "spin_off", "watch_order"}
MCNormType == [t \in MCTypes \cup {"none"} |-> IF t = "spinoff" THEN "spin_off" ELSE t]
MCInverse == [t \in {"sequel", "prequel"} |-> IF t = "sequel" THEN "prequel" ELSE "sequel"]

NoExt == [k \in MCKeys |-> "none"]
Id(key, v) == [NoExt EXCEPT ![key] = v]
Row(title, kind, year, ext) ==
  [title |-> title, original |-> "none", kind |-> kind, year |-> year, ext |-> ext]
Rel(id, source, target, type, order, position, notes) ==
  [id |-> id, source |-> source, target |-> target, type |-> type, order |-> order,
   position |-> position, notes |-> notes]

MCItems == <<Row("Alien 3", "movie", 1992, [Id("tmdb", "b") EXCEPT !.tmdb_id = "A"]), Row("Alien-3", "movie", 0, NoExt),
             Row("alien", "movie", 1992, NoExt), NoItem, NoItem>>
MCAliases == {[item |-> 2, title |-> "alien3", lang |-> "de"]}
MCRelations == {Rel(1, 1, 3, "sequel", "watch_order", 2, {"n"}),
                Rel(2, 2, 3, "sequel", "watch_order", 1, {"m"}),
                Rel(3, 2, 3, "spinoff", "none", NoPosition, {}),
                Rel(4, 3, 2, "spinoff", "watch_order", NoPosition, {})}

Ref(id, title) == [id |-> id, title |-> title, original |-> "none", kind |-> "movie",
                   year |-> 1992, ext |-> NoExt]
Import(title, original, year, ext, words, overwrite) ==
  [op |-> "import", title |-> title, original |-> original, kind |-> "movie", year |-> year,
   ext |-> ext, aliases |-> words, overwrite |-> overwrite]
Word(title, lang) == [title |-> title, lang |-> lang]
Link(source, target, type, order) ==
  [op |-> "link", source |-> source, target |-> target, type |-> type, order |-> order,
   position |-> 1, notes |-> {}]
ImportLink(from, to, type, order, position) ==
  [op |-> "import_link", from |-> from, to |-> to, type |-> type, order |-> order,
   position |-> position, notes |-> {"n"}]
Merge(p, d) == [op |-> "merge", primary |-> p, duplicate |-> d]

MCRequests ==
  {[op |-> "create", row |-> Row("Alien-3", "movie", 0, Id("tmdb_id", "b"))],
   [op |-> "alias", item |-> 1, title |-> "alien3", lang |-> "de"],
   Link(2, 3, "spinoff", "none"), Link(3, 2, "spin_off", "watch_order"),
   Import("Alien-3", "none", 0, Id("tmdb", "b"), {}, FALSE),
   Import("Alien-3", "none", 1992, Id("imdb", "b"), {}, FALSE),
   Import("alien3", "none", 1992, Id("tmdb_id", "A"), {Word("Alien 3", "none")}, FALSE),
   Import("Alien 3", "alien3", 1992, Id("tmdb", "b"), {Word("alien", "de")}, TRUE),
   Import("Alien 3", "alien", 1993, NoExt, {Word("alien3", "de"), Word("Alien-3", "none")}, FALSE),
   Import("alien", "none", 1992, NoExt, {}, FALSE),
   Import("!!!", "none", 1992, NoExt, {Word("!!!", "de"), Word("alien3", "de")}, FALSE),
   ImportLink(Ref(1, "alien"), Ref(0, "alien"), "sequel", "watch_order", NoPosition),
   ImportLink(Ref(0, "Alien-3"), Ref(3, "alien"), "spinoff", "none", 1),
   Merge(1, 2), Merge(2, 1), Merge(1, 3), Merge(2, 3)}
Symmetry == Permutations(Sessions)
=============================================================================
