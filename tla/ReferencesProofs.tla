--------------------------- MODULE ReferencesProofs ---------------------------
(* Proofs about References, for every table, set of clients and of files,    *)
(* number of calls and of jobs: first about the judgement of files, which no  *)
(* step changes, then about the table, the jobs and their answers.           *)
EXTENDS References, WellFoundedInduction, TLAPS

(* The larger of two numbers. *)
LEMMA MaxOfTwo ==
    ASSUME NEW a \in Int, NEW b \in Int
    PROVE  Max({a, b}) \in Int /\ Max({a, b}) >= a /\ Max({a, b}) >= b
<1>1. \E x \in {a, b} : \A y \in {a, b} : x >= y
  OBVIOUS
<1> QED BY <1>1 DEF Max

(* A column that is set has the value set, another keeps its own. *)
LEMMA OverColumn ==
    ASSUME NEW columns, NEW row, NEW c,
           c \in DOMAIN columns \cup DOMAIN row
    PROVE  Over(columns, row)[c] = IF c \in DOMAIN columns THEN columns[c] ELSE row[c]
  BY DEF Over

(* What an update sets has the next version and no uuid. *)
LEMMA PlanColumns ==
    ASSUME NEW read, NEW change \in Changes, read.version \in Nat
    PROVE  /\ "uuid" \notin DOMAIN Planned(read, change)
           /\ "version" \in DOMAIN Planned(read, change)
           /\ Planned(read, change).version \in Nat
           /\ Planned(read, change).version > read.version
<1> DEFINE new == {c \in DOMAIN change : change[c] # read[c]}
           least == Max({read.version + 1, 2})
           set == [version |-> least]
           kept == [c \in new |-> change[c]]
<1>1. least \in Int /\ least >= read.version + 1
  <2>1. read.version + 1 \in Int /\ 2 \in Int
    OBVIOUS
  <2> QED BY <2>1, MaxOfTwo
<1>2. DOMAIN set = {"version"} /\ set["version"] = least
  OBVIOUS
<1>3. "uuid" \notin DOMAIN kept
  BY ChangeAssumption
<1>4. Planned(read, change) = Over(set, kept)
  BY DEF Planned
<1>5. DOMAIN Over(set, kept) = DOMAIN set \cup DOMAIN kept
  BY DEF Over
<1>6. Over(set, kept)["version"] = least
  BY <1>2, OverColumn
<1> QED BY <1>1, <1>2, <1>3, <1>4, <1>5, <1>6
-----------------------------------------------------------------------------
(* The scores and the profiles. *)

(* Every set of natural numbers has a least one. *)
LEMMA LeastElement ==
    ASSUME NEW T \in SUBSET Nat, T # {}
    PROVE  \E x \in T : \A y \in T : x <= y
<1>1. IsWellFoundedOn(OpToRel(<, Nat), Nat)
  BY NatLessThanWellFounded
<1>2. PICK x \in T : \A y \in T : ~(<<y, x>> \in OpToRel(<, Nat))
  BY <1>1, WFMin
<1>3. \A y \in T : ~(y < x)
  BY <1>2 DEF OpToRel
<1> QED BY <1>3

(* A ladder gives its floor or what stands on one of its rungs. *)
LEMMA RungValue ==
    ASSUME NEW rungs, NEW floor, NEW n, DOMAIN rungs \subseteq Nat
    PROVE  Rung(rungs, floor, n) = floor \/ \E i \in DOMAIN rungs : Rung(rungs, floor, n) = rungs[i][2]
<1> DEFINE met == {i \in DOMAIN rungs : n >= rungs[i][1]}
<1>1. CASE met = {}
  BY <1>1 DEF Rung
<1>2. CASE met # {}
  <2>1. \E x \in met : \A y \in met : x <= y
    <3>1. met \in SUBSET Nat
      OBVIOUS
    <3> HIDE DEF met
    <3> QED BY <1>2, <3>1, LeastElement
  <2>2. Min(met) \in met
    BY <2>1 DEF Min
  <2>3. Rung(rungs, floor, n) = rungs[Min(met)][2]
    BY <1>2 DEF Rung
  <2> QED BY <2>2, <2>3
<1> QED BY <1>1, <1>2

(* A ladder gives what stands on the first rung that is reached. *)
LEMMA RungReached ==
    ASSUME NEW rungs, NEW floor, NEW n, DOMAIN rungs \subseteq Nat,
           NEW i \in DOMAIN rungs, n >= rungs[i][1], \A j \in DOMAIN rungs : j < i => ~(n >= rungs[j][1])
    PROVE  Rung(rungs, floor, n) = rungs[i][2]
<1> DEFINE met == {j \in DOMAIN rungs : n >= rungs[j][1]}
<1>1. i \in met /\ \A j \in met : i <= j
  OBVIOUS
<1>2. \A x \in met : (\A y \in met : x <= y) => x = i
  BY <1>1
<1>3. Min(met) = i
  BY <1>1, <1>2 DEF Min
<1> QED BY <1>1, <1>3 DEF Rung


(* The score of a resolution is within the maximum its detail names. *)
LEMMA ResolutionRange == ASSUME NEW h PROVE ResolutionScore(h) \in 0 .. 40
<1> DEFINE rungs == << <<4320, 40>>, <<2160, 38>>, <<1440, 34>>, <<1080, 30>>,
                 <<720, 24>>, <<576, 17>>, <<480, 12>> >>
<1>1. DOMAIN rungs = 1 .. 7 /\ \A i \in 1 .. 7 : rungs[i][2] \in 0 .. 40
  OBVIOUS
<1>2. Rung(rungs, 6, h) = 6 \/ \E i \in DOMAIN rungs : Rung(rungs, 6, h) = rungs[i][2]
  BY <1>1, RungValue
<1> HIDE DEF rungs
<1>3. Rung(rungs, 6, h) \in 0 .. 40
  BY <1>1, <1>2
<1> QED BY <1>3 DEF ResolutionScore, rungs

(* So is that of a codec, *)
LEMMA CodecRange == ASSUME NEW codec PROVE CodecScore(codec) \in 0 .. 20
  BY DEF CodecScore

(* A ladder stays within what its floor and its rungs stay within. *)
LEMMA RungRange ==
    ASSUME NEW rungs, NEW floor \in Int, NEW n, NEW m \in Int, DOMAIN rungs \subseteq Nat,
           floor \in 0 .. m, \A i \in DOMAIN rungs : rungs[i][2] \in 0 .. m
    PROVE  Rung(rungs, floor, n) \in 0 .. m
  BY RungValue

(* that of a bit rate for a height, *)
LEMMA BitrateRange == ASSUME NEW bitrate, NEW height PROVE BitrateScore(bitrate, height) \in 0 .. 20
<1> DEFINE a == << <<10000, 18>>, <<5000, 14>>, <<2000, 10>> >>
           b == << <<35000, 20>>, <<20000, 16>>, <<10000, 11>> >>
           c == << <<12000, 20>>, <<7000, 16>>, <<4000, 12>>, <<2000, 8>> >>
           d == << <<6000, 20>>, <<3000, 16>>, <<1500, 12>>, <<800, 8>> >>
           e == << <<2000, 18>>, <<1000, 14>>, <<500, 10>> >>
<1>1. Rung(a, 6, bitrate) \in 0 .. 20
  <2>1. DOMAIN a = 1 .. 3 /\ \A i \in 1 .. 3 : a[i][2] \in 0 .. 20
    OBVIOUS
  <2> HIDE DEF a
  <2> QED BY <2>1, RungRange
<1>2. Rung(b, 5, bitrate) \in 0 .. 20
  <2>1. DOMAIN b = 1 .. 3 /\ \A i \in 1 .. 3 : b[i][2] \in 0 .. 20
    OBVIOUS
  <2> HIDE DEF b
  <2> QED BY <2>1, RungRange
<1>3. Rung(c, 4, bitrate) \in 0 .. 20
  <2>1. DOMAIN c = 1 .. 4 /\ \A i \in 1 .. 4 : c[i][2] \in 0 .. 20
    OBVIOUS
  <2> HIDE DEF c
  <2> QED BY <2>1, RungRange
<1>4. Rung(d, 4, bitrate) \in 0 .. 20
  <2>1. DOMAIN d = 1 .. 4 /\ \A i \in 1 .. 4 : d[i][2] \in 0 .. 20
    OBVIOUS
  <2> HIDE DEF d
  <2> QED BY <2>1, RungRange
<1>5. Rung(e, 5, bitrate) \in 0 .. 20
  <2>1. DOMAIN e = 1 .. 3 /\ \A i \in 1 .. 3 : e[i][2] \in 0 .. 20
    OBVIOUS
  <2> HIDE DEF e
  <2> QED BY <2>1, RungRange
<1> DEFINE x == Rung(b, 5, bitrate)
           y == Rung(c, 4, bitrate)
           z == Rung(d, 4, bitrate)
           u == Rung(e, 5, bitrate)
           whole == << <<2160, x>>, <<1080, y>>, <<720, z>> >>
<1>6. x \in 0 .. 20 /\ y \in 0 .. 20 /\ z \in 0 .. 20 /\ u \in 0 .. 20
  BY <1>2, <1>3, <1>4, <1>5
<1>7. Rung(whole, u, height) \in 0 .. 20
  <2> HIDE DEF x, y, z, u
  <2>1. DOMAIN whole = 1 .. 3 /\ \A i \in 1 .. 3 : whole[i][2] \in 0 .. 20
    BY <1>6
  <2> HIDE DEF whole
  <2> QED BY <1>6, <2>1, RungRange
<1> QED BY <1>1, <1>7 DEF BitrateScore

(* that of the features, which is held at its maximum, *)
LEMMA FeatureRange ==
    ASSUME NEW file PROVE FeatureScore(file) \in 0 .. 10
<1> DEFINE a == << <<12, 3>>, <<10, 2>>, <<8, 1>> >>
           b == << <<50, 2>>, <<23, 1>> >>
           hdr == IF file.hdr = TRUE THEN 5 ELSE 0
           depth == IF file.depth = Unknown THEN 0 ELSE Rung(a, 0, file.depth)
           rate == IF file.rate = Unknown THEN 0 ELSE Rung(b, 0, file.rate)
           scan == IF file.scan = "progressive" THEN 1 ELSE 0
<1>1. Rung(a, 0, file.depth) \in 0 .. 3
  <2>1. DOMAIN a = 1 .. 3 /\ \A i \in 1 .. 3 : a[i][2] \in 0 .. 3
    OBVIOUS
  <2> HIDE DEF a
  <2> QED BY <2>1, RungRange
<1>2. Rung(b, 0, file.rate) \in 0 .. 2
  <2>1. DOMAIN b = 1 .. 2 /\ \A i \in 1 .. 2 : b[i][2] \in 0 .. 2
    OBVIOUS
  <2> HIDE DEF b
  <2> QED BY <2>1, RungRange
<1> HIDE DEF a, b
<1>3. hdr \in 0 .. 5 /\ depth \in 0 .. 3 /\ rate \in 0 .. 2 /\ scan \in 0 .. 1
  BY <1>1, <1>2
<1>4. FeatureScore(file) = Min({10, hdr + depth + rate + scan})
  BY DEF FeatureScore, a, b
<1>5. \A n \in Nat : Min({10, n}) \in 0 .. 10
  <2> SUFFICES ASSUME NEW n \in Nat PROVE Min({10, n}) \in 0 .. 10
    OBVIOUS
  <2>1. \E x \in {10, n} : \A y \in {10, n} : x <= y
    OBVIOUS
  <2> QED BY <2>1 DEF Min
<1>6. hdr + depth + rate + scan \in Nat
  BY <1>3
<1> QED BY <1>4, <1>5, <1>6

(* Every set of bounded natural numbers has a greatest one. *)
LEMMA GreatestElement ==
    ASSUME NEW m \in Nat, NEW T \in SUBSET (0 .. m), T # {}
    PROVE  Max(T) \in T /\ \A x \in T : x <= Max(T)
<1> DEFINE below == {m - x : x \in T}
<1>1. below \in SUBSET Nat /\ below # {}
  <2>1. \A x \in T : m - x \in Nat
    OBVIOUS
  <2>2. \A d \in below : d \in Nat
    BY <2>1
  <2>3. PICK x \in T : TRUE
    OBVIOUS
  <2>4. m - x \in below
    OBVIOUS
  <2> QED BY <2>2, <2>4
<1>2. PICK d \in below : \A e \in below : d <= e
  <2> HIDE DEF below
  <2> QED BY <1>1, LeastElement
<1>3. PICK x \in T : d = m - x
  OBVIOUS
<1>4. \A y \in T : x >= y
  <2> TAKE y \in T
  <2>1. m - y \in below
    OBVIOUS
  <2>2. d <= m - y
    BY <1>2, <2>1
  <2>3. x \in Int /\ y \in Int /\ m \in Int
    OBVIOUS
  <2> QED BY <1>3, <2>2, <2>3
<1> QED BY <1>4 DEF Max

(* and that of the best audio stream. *)
LEMMA AudioRange == ASSUME NEW audio PROVE AudioScore(audio) \in 0 .. 10
<1> DEFINE base(s) == CASE s.codec \in LosslessCodecs \ {"pcm_s16le", "pcm_s24le"} -> 9
                        [] s.codec \in HighCodecs -> 7
                        [] s.codec = "aac" -> 6
                        [] OTHER -> 4
           score(s) == Min({10, base(s) + IF Surround(s) THEN 1 ELSE 0})
           scores == {2} \cup {score(s) : s \in Streams(audio)}
<1>1. \A s : base(s) \in 4 .. 9
  BY DEF HighCodecs, LosslessCodecs
<1>2. ASSUME NEW s PROVE score(s) \in 0 .. 10
  <2> DEFINE n == base(s) + IF Surround(s) THEN 1 ELSE 0
  <2>1. n \in 4 .. 10
    <3>1. base(s) \in 4 .. 9
      BY <1>1
    <3> HIDE DEF base
    <3>2. (IF Surround(s) THEN 1 ELSE 0) \in 0 .. 1
      OBVIOUS
    <3> QED BY <3>1, <3>2
  <2>2. \E x \in {10, n} : \A y \in {10, n} : x <= y
    <3> HIDE DEF n
    <3> QED BY <2>1
  <2>3. Min({10, n}) \in {10, n}
    <3> HIDE DEF n
    <3> QED BY <2>2 DEF Min
  <2> HIDE DEF n
  <2>4. score(s) = Min({10, n})
    BY DEF n
  <2> QED BY <2>1, <2>3, <2>4
<1> HIDE DEF base
<1>3. scores \in SUBSET (0 .. 10) /\ scores # {}
  <2> HIDE DEF score
  <2> QED BY <1>2
<1>4. Max(scores) \in 0 .. 10
  <2> HIDE DEF scores
  <2> QED BY <1>3, GreatestElement
<1>5. AudioScore(audio) = IF audio = <<>> THEN 0 ELSE Max(scores)
  BY DEF AudioScore, base
<1> QED BY <1>4, <1>5

(* What is held within 0 .. 100 is, and nothing within is changed. *)
LEMMA Clamped ==
    ASSUME NEW n \in Int
    PROVE  /\ Max({0, Min({100, n})}) \in 0 .. 100
           /\ n \in 0 .. 100 => Max({0, Min({100, n})}) = n
<1>1. \E x \in {100, n} : \A y \in {100, n} : x <= y
  OBVIOUS
<1>2. Min({100, n}) = IF n <= 100 THEN n ELSE 100
  BY <1>1 DEF Min
<1> DEFINE m == Min({100, n})
<1>3. m \in Int /\ m <= 100 /\ (n \in 0 .. 100 => m = n)
  BY <1>2
<1> HIDE DEF m
<1>4. \E x \in {0, m} : \A y \in {0, m} : x >= y
  BY <1>3
<1>5. Max({0, m}) = IF m >= 0 THEN m ELSE 0
  BY <1>3, <1>4 DEF Max
<1>6. Max({0, m}) \in 0 .. 100 /\ (n \in 0 .. 100 => Max({0, m}) = n)
  BY <1>3, <1>5
<1> QED BY <1>6 DEF m

(* The clamp to 0 .. 100 hides nothing. *)
LEMMA DetailRange ==
    ASSUME NEW file
    PROVE  /\ Score(file) = TotalOf(Details(file)) /\ Score(file) \in 0 .. 100
           /\ \A d \in DOMAIN Maximum : Details(file)[d] \in 0 .. Maximum[d]
<1> DEFINE r == ResolutionScore(file.height)
           c == CodecScore(file.codec)
           b == BitrateScore(file.bitrate, file.height)
           a == AudioScore(file.audio)
           f == FeatureScore(file)
<1>1. r \in 0 .. 40 /\ c \in 0 .. 20 /\ b \in 0 .. 20 /\ a \in 0 .. 10 /\ f \in 0 .. 10
  BY ResolutionRange, CodecRange, BitrateRange, AudioRange, FeatureRange
<1>2. /\ TotalOf(Details(file)) = r + c + b + a + f
      /\ Details(file) = [resolution |-> r, video_codec |-> c, bitrate |-> b, audio |-> a, features |-> f]
  BY DEF TotalOf, Details
<1> HIDE DEF r, c, b, a, f
<1>3. TotalOf(Details(file)) \in 0 .. 100
  BY <1>1, <1>2
<1>4. Score(file) = TotalOf(Details(file)) /\ Score(file) \in 0 .. 100
  <2> DEFINE t == TotalOf(Details(file))
  <2>1. Score(file) = Max({0, Min({100, t})})
    BY DEF Score
  <2> HIDE DEF t
  <2>2. t \in Int /\ t \in 0 .. 100
    BY <1>3 DEF t
  <2>3. Score(file) = t
    BY <2>1, <2>2, Clamped
  <2> QED BY <2>2, <2>3 DEF t
<1> QED BY <1>1, <1>2, <1>4 DEF Maximum

Profiles == {"permissive", "balanced", "archive"}
(* The level of a score, rung by rung. *)
LEMMA Levels ==
    ASSUME NEW n \in Int, NEW p \in DOMAIN QualityProfiles
    PROVE  LET q == ProfileNamed(p).rungs IN
           QualityLevel(n, p) =
             IF n >= q[1][1] THEN "excellent" ELSE IF n >= q[2][1] THEN "very_good"
             ELSE IF n >= q[3][1] THEN "good" ELSE IF n >= q[4][1] THEN "acceptable"
             ELSE IF n >= q[5][1] THEN "improvable" ELSE "poor"
<1> DEFINE q == ProfileNamed(p).rungs
<1>1. /\ DOMAIN q = 1 .. 5
      /\ q[1][2] = "excellent" /\ q[2][2] = "very_good" /\ q[3][2] = "good" /\ q[4][2] = "acceptable"
      /\ q[5][2] = "improvable"
  BY DEF ProfileNamed, ResolvedProfile, QualityProfiles, Profile
<1>2. QualityLevel(n, p) = Rung(q, "poor", n)
  BY DEF QualityLevel
<1> HIDE DEF q
<1>3. ASSUME NEW i \in 1 .. 5, n >= q[i][1], \A j \in 1 .. 5 : j < i => ~(n >= q[j][1])
      PROVE  QualityLevel(n, p) = q[i][2]
  BY <1>1, <1>2, <1>3, RungReached
<1>4. (\A j \in 1 .. 5 : ~(n >= q[j][1])) => QualityLevel(n, p) = "poor"
  BY <1>1, <1>2 DEF Rung
<1> QED BY <1>1, <1>3, <1>4 DEF q

(* The ladders of the three profiles, the stricter ones above. *)
LEMMA StricterLevels ==
    ASSUME NEW n \in Int, NEW i \in 1 .. 2
    PROVE  LET levels == <<"poor", "improvable", "acceptable", "good", "very_good", "excellent">>
               rank(level) == CHOOSE m \in DOMAIN levels : levels[m] = level
               strictness == <<"permissive", "balanced", "archive">>
           IN /\ rank(QualityLevel(n, strictness[i + 1])) <= rank(QualityLevel(n, strictness[i]))
              /\ QualityLevel(n, strictness[i + 1]) \in {"excellent", "very_good"} =>
                   QualityLevel(n, strictness[i]) \in {"excellent", "very_good"}
<1> DEFINE levels == <<"poor", "improvable", "acceptable", "good", "very_good", "excellent">>
           rank(level) == CHOOSE m \in DOMAIN levels : levels[m] = level
           strictness == <<"permissive", "balanced", "archive">>
<1>1. /\ rank("poor") = 1 /\ rank("improvable") = 2 /\ rank("acceptable") = 3
      /\ rank("good") = 4 /\ rank("very_good") = 5 /\ rank("excellent") = 6
  OBVIOUS
<1>2. /\ \A p \in Profiles : ResolvedProfile(p) = p /\ p \in DOMAIN QualityProfiles
      /\ ProfileNamed("permissive") = QualityProfiles["permissive"]
      /\ ProfileNamed("balanced") = QualityProfiles["balanced"]
      /\ ProfileNamed("archive") = QualityProfiles["archive"]
  BY DEF ResolvedProfile, ProfileNamed, QualityProfiles, Profiles
<1>3. QualityLevel(n, "permissive") =
        IF n >= 85 THEN "excellent" ELSE IF n >= 70 THEN "very_good" ELSE IF n >= 55 THEN "good"
        ELSE IF n >= 35 THEN "acceptable" ELSE IF n >= 20 THEN "improvable" ELSE "poor"
  <2>1. /\ ProfileNamed("permissive").rungs[1][1] = 85 /\ ProfileNamed("permissive").rungs[2][1] = 70
        /\ ProfileNamed("permissive").rungs[3][1] = 55 /\ ProfileNamed("permissive").rungs[4][1] = 35
        /\ ProfileNamed("permissive").rungs[5][1] = 20
    BY <1>2 DEF QualityProfiles, Profile
  <2> QED BY <1>2, <2>1, Levels DEF Profiles
<1>4. QualityLevel(n, "balanced") =
        IF n >= 90 THEN "excellent" ELSE IF n >= 75 THEN "very_good" ELSE IF n >= 60 THEN "good"
        ELSE IF n >= 45 THEN "acceptable" ELSE IF n >= 30 THEN "improvable" ELSE "poor"
  <2>1. /\ ProfileNamed("balanced").rungs[1][1] = 90 /\ ProfileNamed("balanced").rungs[2][1] = 75
        /\ ProfileNamed("balanced").rungs[3][1] = 60 /\ ProfileNamed("balanced").rungs[4][1] = 45
        /\ ProfileNamed("balanced").rungs[5][1] = 30
    BY <1>2 DEF QualityProfiles, Profile
  <2> QED BY <1>2, <2>1, Levels DEF Profiles
<1>5. QualityLevel(n, "archive") =
        IF n >= 95 THEN "excellent" ELSE IF n >= 85 THEN "very_good" ELSE IF n >= 70 THEN "good"
        ELSE IF n >= 55 THEN "acceptable" ELSE IF n >= 40 THEN "improvable" ELSE "poor"
  <2>1. /\ ProfileNamed("archive").rungs[1][1] = 95 /\ ProfileNamed("archive").rungs[2][1] = 85
        /\ ProfileNamed("archive").rungs[3][1] = 70 /\ ProfileNamed("archive").rungs[4][1] = 55
        /\ ProfileNamed("archive").rungs[5][1] = 40
    BY <1>2 DEF QualityProfiles, Profile
  <2> QED BY <1>2, <2>1, Levels DEF Profiles
<1> HIDE DEF rank, levels
<1>6. /\ rank(QualityLevel(n, "archive")) <= rank(QualityLevel(n, "balanced"))
      /\ rank(QualityLevel(n, "balanced")) <= rank(QualityLevel(n, "permissive"))
  BY <1>1, <1>3, <1>4, <1>5
<1>7. /\ QualityLevel(n, "archive") \in {"excellent", "very_good"} =>
           QualityLevel(n, "balanced") \in {"excellent", "very_good"}
      /\ QualityLevel(n, "balanced") \in {"excellent", "very_good"} =>
           QualityLevel(n, "permissive") \in {"excellent", "very_good"}
  BY <1>3, <1>4, <1>5
<1>8. /\ strictness[1] = "permissive" /\ strictness[2] = "balanced" /\ strictness[3] = "archive"
  OBVIOUS
<1> HIDE DEF strictness
<1>10. (i = 1 /\ i + 1 = 2) \/ (i = 2 /\ i + 1 = 3)
  OBVIOUS
<1>9. /\ rank(QualityLevel(n, strictness[i + 1])) <= rank(QualityLevel(n, strictness[i]))
      /\ QualityLevel(n, strictness[i + 1]) \in {"excellent", "very_good"} =>
           QualityLevel(n, strictness[i]) \in {"excellent", "very_good"}
  BY <1>6, <1>7, <1>8, <1>10
<1> QED BY <1>9 DEF rank, levels, strictness

(* A file has no problem under a profile that asks for less. *)
LEMMA FewerProblems ==
    ASSUME NEW file \in Media, NEW i \in 1 .. 2
    PROVE  LET strictness == <<"permissive", "balanced", "archive">>
           IN Problems(file, strictness[i]) \subseteq Problems(file, strictness[i + 1])
<1> DEFINE strictness == <<"permissive", "balanced", "archive">>
<1>1. /\ \A p \in Profiles : ResolvedProfile(p) = p
      /\ ProfileNamed("permissive") = QualityProfiles["permissive"]
      /\ ProfileNamed("balanced") = QualityProfiles["balanced"]
      /\ ProfileNamed("archive") = QualityProfiles["archive"]
  BY DEF ResolvedProfile, ProfileNamed, QualityProfiles, Profiles
<1>2. /\ ProfileNamed("permissive").height = 480 /\ ProfileNamed("permissive").bitrate = 400
      /\ ProfileNamed("permissive").channels = 1
      /\ ProfileNamed("balanced").height = 720 /\ ProfileNamed("balanced").bitrate = 1500
      /\ ProfileNamed("balanced").channels = 2
      /\ ProfileNamed("archive").height = 1080 /\ ProfileNamed("archive").bitrate = 4000
      /\ ProfileNamed("archive").channels = 2
  BY <1>1 DEF QualityProfiles, Profile
<1>3. /\ file.height # Unknown => file.height \in Int
      /\ file.bitrate # Unknown => file.bitrate \in Int
      /\ file.channels # Unknown => file.channels \in Int
  BY MediaAssumption DEF Number
<1>4. ASSUME NEW p, NEW q, ProfileNamed(p).height <= ProfileNamed(q).height,
             ProfileNamed(p).bitrate <= ProfileNamed(q).bitrate,
             ProfileNamed(p).channels <= ProfileNamed(q).channels,
             {p, q} \subseteq Profiles
      PROVE  Problems(file, p) \subseteq Problems(file, q)
  <2>1. /\ ProfileNamed(p).height \in Int /\ ProfileNamed(q).height \in Int
        /\ ProfileNamed(p).bitrate \in Int /\ ProfileNamed(q).bitrate \in Int
        /\ ProfileNamed(p).channels \in Int /\ ProfileNamed(q).channels \in Int
    BY <1>2, <1>4 DEF Profiles
  <2>2. \A x : x \in Problems(file, p) => x \in Problems(file, q)
    <3> SUFFICES ASSUME NEW x \in Problems(file, p) PROVE x \in Problems(file, q)
      OBVIOUS
    <3>1. CASE x = "height" BY <1>3, <1>4, <2>1, <3>1 DEF Problems
    <3>2. CASE x = "bitrate" BY <1>3, <1>4, <2>1, <3>2 DEF Problems
    <3>3. CASE x = "channels" BY <1>3, <1>4, <2>1, <3>3 DEF Problems
    <3>4. CASE x = "codec" BY <3>4 DEF Problems
    <3>5. CASE x = "audio" BY <3>5 DEF Problems
    <3>6. x \in {"height", "bitrate", "channels", "codec", "audio"} BY DEF Problems
    <3> QED BY <3>1, <3>2, <3>3, <3>4, <3>5, <3>6
  <2> QED BY <2>2
<1>5. /\ Problems(file, "permissive") \subseteq Problems(file, "balanced")
      /\ Problems(file, "balanced") \subseteq Problems(file, "archive")
  BY <1>2, <1>4 DEF Profiles
<1> QED BY <1>5

(* RatingsAgree: the ladder of the stricter profile stands above, its problems are more. *)
LEMMA Ratings == RatingsAgree
<1> DEFINE levels == <<"poor", "improvable", "acceptable", "good", "very_good", "excellent">>
           rank(level) == CHOOSE n \in DOMAIN levels : levels[n] = level
           strictness == <<"permissive", "balanced", "archive">>
<1>1. ASSUME NEW file \in Media, NEW n \in 1 .. 2
      PROVE  /\ rank(QualityLevel(Score(file), strictness[n + 1]))
                  <= rank(QualityLevel(Score(file), strictness[n]))
             /\ Recommendation(file, strictness[n + 1]) = "complete" =>
                  Recommendation(file, strictness[n]) = "complete"
  <2> DEFINE more == strictness[n + 1]
             less == strictness[n]
  <2>1. Score(file) \in Int
    BY DetailRange
  <2>2. /\ rank(QualityLevel(Score(file), more)) <= rank(QualityLevel(Score(file), less))
        /\ QualityLevel(Score(file), more) \in {"excellent", "very_good"} =>
             QualityLevel(Score(file), less) \in {"excellent", "very_good"}
    BY <2>1, StricterLevels
  <2>3. Problems(file, less) \subseteq Problems(file, more)
    BY FewerProblems
  <2> HIDE DEF more, less, rank
  <2>4. Recommendation(file, more) = "complete" =>
          QualityLevel(Score(file), more) \in {"excellent", "very_good"} /\ Problems(file, more) = {}
    BY DEF Recommendation
  <2>5. QualityLevel(Score(file), less) \in {"excellent", "very_good"} /\ Problems(file, less) = {} =>
          Recommendation(file, less) = "complete"
    BY DEF Recommendation
  <2>6. Recommendation(file, more) = "complete" => Recommendation(file, less) = "complete"
    BY <2>2, <2>3, <2>4, <2>5
  <2> QED BY <2>2, <2>6 DEF more, less
<1> QED BY <1>1, DetailRange DEF RatingsAgree
-----------------------------------------------------------------------------
(* The ratio of two values. *)

(* A quotient is bounded by what bounds the number divided. *)
LEMMA QuotientBound ==
    ASSUME NEW x \in Nat, NEW d \in Nat \ {0}, NEW k \in Nat
    PROVE  /\ x \div d \in Nat
           /\ x >= k * d => x \div d >= k
           /\ x < (k + 1) * d => x \div d <= k
<1> DEFINE q == x \div d
<1>1. q \in Int /\ d * q <= x /\ x < d * q + d
  OBVIOUS
<1>2. q >= 0
  BY <1>1
<1>3. x >= k * d => q >= k
  <2> SUFFICES ASSUME x >= k * d, q < k PROVE FALSE
    BY <1>1
  <2>1. q + 1 <= k
    BY <1>1
  <2>2. d * (q + 1) <= d * k
    BY <1>1, <2>1
  <2> QED BY <1>1, <2>2
<1>4. x < (k + 1) * d => q <= k
  <2> SUFFICES ASSUME x < (k + 1) * d, q > k PROVE FALSE
    BY <1>1
  <2>1. k + 1 <= q
    BY <1>1
  <2>2. d * (k + 1) <= d * q
    BY <1>1, <2>1
  <2> QED BY <1>1, <2>2
<1> QED BY <1>1, <1>2, <1>3, <1>4

(* Bounded holds a direction within 10000 either way. *)
LEMMA BoundedIs ==
    ASSUME NEW n \in Int
    PROVE  Bounded(n) = IF n > 10000 THEN 10000 ELSE IF n < -10000 THEN -10000 ELSE n
<1> DEFINE m == Min({10000, n})
<1>1. \E x \in {10000, n} : \A y \in {10000, n} : x <= y
  OBVIOUS
<1>2. m = IF n <= 10000 THEN n ELSE 10000
  BY <1>1 DEF Min
<1>3. m \in Int
  BY <1>2
<1>4. Bounded(n) = Max({-10000, m})
  BY DEF Bounded
<1> HIDE DEF m
<1>5. \E x \in {-10000, m} : \A y \in {-10000, m} : x >= y
  BY <1>3
<1>6. Max({-10000, m}) = IF m >= -10000 THEN m ELSE -10000
  BY <1>3, <1>5 DEF Max
<1> QED BY <1>2, <1>3, <1>4, <1>6

(* The ratio of two numbers, rounded to whole hundredths of a percent. *)
LEMMA RatioIs ==
    ASSUME NEW a \in Nat \ {0}, NEW b \in Nat
    PROVE  /\ RatioOf(a, b) \in Int
           /\ b >= a => RatioOf(a, b) = (20000 * (b - a) + a) \div (2 * a)
           /\ b < a => RatioOf(a, b) = -((20000 * (a - b) + a) \div (2 * a))
<1>1. CASE a = b
  <2>1. RatioOf(a, b) = 0
    BY <1>1 DEF RatioOf
  <2>2. a \div (2 * a) <= 0
    <3>1. a < (0 + 1) * (2 * a)
      OBVIOUS
    <3> QED BY <3>1, QuotientBound
  <2>3. a \div (2 * a) \in Nat
    BY QuotientBound
  <2>4. 20000 * (b - a) + a = a
    BY <1>1
  <2> QED BY <1>1, <2>1, <2>2, <2>3, <2>4
<1>2. CASE a # b
  <2> DEFINE n == 10000 * Magnitude(b - a)
             rounded == (2 * n + a) \div (2 * a)
  <2>1. RatioOf(a, b) = IF b < a THEN -rounded ELSE rounded
    BY <1>2 DEF RatioOf
  <2>2. /\ b >= a => 2 * n = 20000 * (b - a)
        /\ b < a => 2 * n = 20000 * (a - b)
        /\ n \in Nat
    BY DEF Magnitude
  <2> HIDE DEF n
  <2>3. rounded \in Nat
    BY <2>2, QuotientBound
  <2> QED BY <2>1, <2>2, <2>3
<1> QED BY <1>1, <1>2

(* A quarter less is a strong loss. *)
LEMMA QuarterLost ==
    ASSUME NEW a \in Nat \ {0}, NEW b \in Nat, 4 * b <= 3 * a
    PROVE  RatioOf(a, b) \in Int /\ RatioOf(a, b) <= -2500
<1> DEFINE x == 20000 * (a - b) + a
<1>1. x \in Nat /\ x >= 2500 * (2 * a) /\ b < a
  OBVIOUS
<1>2. 2 * a \in Nat \ {0}
  OBVIOUS
<1> HIDE DEF x
<1>3. x \div (2 * a) >= 2500 /\ x \div (2 * a) \in Nat
  BY <1>1, <1>2, QuotientBound
<1>4. RatioOf(a, b) = -(x \div (2 * a))
  BY <1>1, RatioIs DEF x
<1> QED BY <1>3, <1>4

(* What gets worse in one direction by some share gets better in the other by no more. *)
LEMMA RatioBack ==
    ASSUME NEW a \in Nat, NEW b \in Nat, a < b
    PROVE  /\ RatioOf(a, b) \in Int /\ RatioOf(b, a) \in Int
           /\ -10000 <= RatioOf(b, a) /\ RatioOf(b, a) <= 0
           /\ a # 0 => RatioOf(a, b) >= -RatioOf(b, a)
           /\ a = 0 => RatioOf(a, b) >= 10000
<1> DEFINE n == 20000 * (b - a)
           back == (n + b) \div (2 * b)
<1>1. n \in Nat /\ 2 * b \in Nat \ {0} /\ b \in Nat \ {0} /\ n + b \in Nat
  OBVIOUS
<1>2. RatioOf(b, a) = -back
  BY RatioIs
<1>3. back \in Nat /\ back <= 10000
  <2>1. n + b < (10000 + 1) * (2 * b)
    OBVIOUS
  <2> HIDE DEF n
  <2> QED BY <1>1, <2>1, QuotientBound
<1>4. ASSUME a # 0 PROVE RatioOf(a, b) \in Int /\ RatioOf(a, b) >= back
  <2>1. RatioOf(a, b) = (n + a) \div (2 * a)
    BY <1>4, RatioIs
  <2>2. 2 * b * back <= n + b
    <3> HIDE DEF n
    <3> QED BY <1>1
  <2>3. n + a >= back * (2 * a)
    <3>1. CASE back = 0
      BY <3>1
    <3>2. CASE back # 0
      <4>1. b * (2 * back - 1) <= n
        <5>1. b * (2 * back - 1) = 2 * b * back - b
          BY <1>3
        <5> HIDE DEF n, back
        <5> QED BY <1>1, <1>3, <2>2, <5>1
      <4>2. a * (2 * back - 1) <= b * (2 * back - 1)
        <5>1. 2 * back - 1 \in Nat
          BY <1>3, <3>2
        <5> HIDE DEF back
        <5> QED BY <5>1
      <4>3. a * (2 * back - 1) = back * (2 * a) - a
        <5> HIDE DEF back
        <5> QED BY <1>3
      <4>4. a * (2 * back - 1) \in Int /\ b * (2 * back - 1) \in Int /\ back * (2 * a) \in Int
        <5> HIDE DEF back
        <5> QED BY <1>3
      <4> HIDE DEF n, back
      <4> QED BY <1>1, <4>1, <4>2, <4>3, <4>4
    <3> QED BY <3>1, <3>2
  <2> HIDE DEF n, back
  <2>4. n + a \in Nat /\ 2 * a \in Nat \ {0}
    BY <1>1, <1>4
  <2> QED BY <1>3, <2>1, <2>3, <2>4, QuotientBound
<1>5. a = 0 => RatioOf(a, b) = 1000000 * b
  BY DEF RatioOf
<1> HIDE DEF back
<1> QED BY <1>2, <1>3, <1>4, <1>5
-----------------------------------------------------------------------------
(* Two pictures. *)

(* What a metric is compared to, by its kind. *)
LEMMA MetricIs ==
    ASSUME NEW m \in Metrics, NEW a \in Nat, NEW b \in Nat
    PROVE  LET c == CompareMetric(m, a, b)
               near == 10000 * Magnitude(b - a) <= Tolerance[m] * a
           IN /\ c.difference = RatioOf(a, b)
              /\ c.status # "unknown"
              /\ near => c.direction = 0 /\ c.status = "equal"
              /\ m \in Neutral /\ ~near => c.direction = Unknown
              /\ m \in Higher /\ ~near => c.direction = Bounded(RatioOf(a, b))
              /\ m \in Lower /\ ~near => c.direction = Bounded(-RatioOf(a, b))
<1>1. Unknown \notin {a, b}
  BY UnknownAssumption
<1>2. Higher \cap Lower = {} /\ Higher \cap Neutral = {} /\ Lower \cap Neutral = {}
  BY DEF Higher, Lower, Neutral
<1> QED BY <1>1, <1>2 DEF CompareMetric

(* The fingerprints compared have a number for every metric. *)
LEMMA Picture ==
    ASSUME NEW p \in Prints
    PROVE  p # NoPrint /\ \A m \in Metrics : p.average[m] \in Nat
<1>1. PICK frames : p = Aggregate(frames, Metrics)
  <2> DEFINE sampled == {Files[f].frames[s] : f \in DOMAIN Files, s \in Samplings} \ {<<>>}
  <2>1. Prints = {Aggregate(frames, Metrics) : frames \in sampled}
                   \cup {Aggregate(<<frame>>, Metrics) : frame \in Frames}
    BY DEF Prints
  <2> HIDE DEF sampled
  <2>2. CASE p \in {Aggregate(frames, Metrics) : frames \in sampled}
    BY <2>2
  <2>3. CASE p \in {Aggregate(<<frame>>, Metrics) : frame \in Frames}
    <3>1. PICK frame \in Frames : p = Aggregate(<<frame>>, Metrics)
      BY <2>3
    <3> DEFINE only == <<frame>>
    <3>2. p = Aggregate(only, Metrics)
      BY <3>1
    <3> HIDE DEF only
    <3> QED BY <3>2
  <2> QED BY <2>1, <2>2, <2>3
<1>2. DOMAIN p = {"average", "hash"}
  BY <1>1 DEF Aggregate
<1>3. DOMAIN NoPrint = {"none"}
  BY DEF NoPrint
<1> QED BY <1>2, <1>3, PrintAssumption

\* The metrics of two fingerprints.
Compared(p, q) == [m \in Metrics |-> CompareMetric(m, p.average[m], q.average[m])]

(* The verdict of two pictures: after a strong loss of details it is worse and nothing
   that softening improves is better, else "better" takes a mean above the threshold. *)
LEMMA VerdictIs ==
    ASSUME NEW p \in Prints, NEW q \in Prints
    PROVE  LET measured == Compared(p, q) IN
           /\ StrongDetailLoss(measured) <=> RatioOf(p.average["sharpness"], q.average["sharpness"]) <= -2500
           /\ StrongDetailLoss(measured) => ComparePrints(p, q).verdict = "worse"
           /\ ~StrongDetailLoss(measured) /\ ComparePrints(p, q).verdict = "better" =>
                MeanExceeds(measured, 750)
           /\ \A m \in Lower : StrongDetailLoss(measured) => ComparePrints(p, q).status[m] # "better"
<1> DEFINE measured == Compared(p, q)
           metrics == Invalidated(measured)
           s == "sharpness"
<1>1. s \in Metrics /\ s \notin Lower /\ Lower \subseteq Metrics
  BY DEF Metrics, Higher, Lower
<1>2. ComparePrints(p, q) = Judged(measured, CompareHashes(p, q))
  BY Picture DEF ComparePrints, Compared
<1>3. /\ ComparePrints(p, q).verdict = PrintVerdict(metrics, QualityEvents(measured))
      /\ ComparePrints(p, q).status = [m \in Metrics |-> metrics[m].status]
  BY <1>2 DEF Judged
<1>4. measured[s].difference = RatioOf(p.average[s], q.average[s])
  <2>1. p.average[s] \in Nat /\ q.average[s] \in Nat
    BY <1>1, Picture
  <2>2. measured[s] = CompareMetric(s, p.average[s], q.average[s])
    BY <1>1 DEF Compared
  <2> QED BY <1>1, <2>1, <2>2, MetricIs
<1>5. RatioOf(p.average[s], q.average[s]) # Unknown
  <2>1. p.average[s] \in Nat /\ q.average[s] \in Nat
    BY <1>1, Picture
  <2> DEFINE a == p.average[s]
             b == q.average[s]
  <2>2. RatioOf(a, b) \in Int
    <3> HIDE DEF a, b
    <3>1. CASE a = 0 BY <2>1, <3>1 DEF RatioOf, a, b
    <3>2. CASE a # 0
      <4>1. a \in Nat \ {0} /\ b \in Nat BY <2>1, <3>2 DEF a, b
      <4> QED BY <4>1, RatioIs
    <3> QED BY <3>1, <3>2
  <2> QED BY <2>2, UnknownAssumption
<1>6. StrongDetailLoss(measured) <=> RatioOf(p.average[s], q.average[s]) <= -2500
  BY <1>4, <1>5 DEF StrongDetailLoss, AtMost
<1> HIDE DEF measured
<1>7. metrics[s] = measured[s]
  BY <1>1 DEF Invalidated
<1>8. StrongDetailLoss(metrics) <=> StrongDetailLoss(measured)
  <2> HIDE DEF metrics
  <2> QED BY <1>7 DEF StrongDetailLoss
<1>9. ~StrongDetailLoss(measured) => \A m \in Metrics : metrics[m] = measured[m]
  BY DEF Invalidated
<1>10. ASSUME StrongDetailLoss(measured), NEW m \in Lower PROVE metrics[m].status # "better"
  <2>1. m \in Metrics
    BY <1>1
  <2>2. CASE measured[m].status = "better"
    <3>1. metrics[m] = [measured[m] EXCEPT !.status = "context_neutral", !.direction = 0]
      BY <1>10, <2>1, <2>2 DEF Invalidated
    <3>2. "status" \in DOMAIN measured[m]
      <4>1. measured[m] = CompareMetric(m, p.average[m], q.average[m])
        BY <2>1 DEF measured, Compared
      <4>2. \A a, b : "status" \in DOMAIN CompareMetric(m, a, b)
        BY DEF CompareMetric
      <4> QED BY <4>1, <4>2
    <3> QED BY <3>1, <3>2
  <2>3. CASE measured[m].status # "better"
    BY <2>1, <2>3 DEF Invalidated
  <2> QED BY <2>2, <2>3
<1>11. ~StrongDetailLoss(measured) => (MeanExceeds(metrics, 750) <=> MeanExceeds(measured, 750))
  <2> SUFFICES ASSUME ~StrongDetailLoss(measured) PROVE MeanExceeds(metrics, 750) <=> MeanExceeds(measured, 750)
    OBVIOUS
  <2> HIDE DEF metrics
  <2>1. [m \in Metrics |-> metrics[m].direction] = [m \in Metrics |-> measured[m].direction]
    BY <1>9
  <2> QED BY <2>1 DEF MeanExceeds
<1> HIDE DEF metrics
<1>12. /\ StrongDetailLoss(measured) => ComparePrints(p, q).verdict = "worse"
       /\ ComparePrints(p, q).verdict = "better" => MeanExceeds(metrics, 750)
  BY <1>3, <1>8 DEF PrintVerdict
<1>13. \A m \in Lower : StrongDetailLoss(measured) => ComparePrints(p, q).status[m] # "better"
  BY <1>1, <1>3, <1>10
<1> QED BY <1>6, <1>11, <1>12, <1>13 DEF measured

(* BlurIsNoImprovement: who loses a quarter of the sharpness has lost strongly. *)
LEMMA Blur == BlurIsNoImprovement
<1> SUFFICES ASSUME NEW p \in Prints, NEW q \in Prints,
                    4 * q.average["sharpness"] <= 3 * p.average["sharpness"], p.average["sharpness"] > 0
             PROVE  /\ ComparePrints(p, q).verdict = "worse"
                    /\ \A m \in Lower : ComparePrints(p, q).status[m] # "better"
  BY DEF BlurIsNoImprovement
<1>1. "sharpness" \in Metrics
  BY DEF Metrics, Higher
<1>2. p.average["sharpness"] \in Nat \ {0} /\ q.average["sharpness"] \in Nat
  BY <1>1, Picture
<1>3. RatioOf(p.average["sharpness"], q.average["sharpness"]) <= -2500
  BY <1>2, QuarterLost
<1> QED BY <1>3, VerdictIs
-----------------------------------------------------------------------------
(* Two files. *)

(* Of two numbers at most one is better, *)
LEMMA NumericOneWay ==
    ASSUME NEW a \in Number, NEW b \in Number, NEW percent \in Nat
    PROVE  ~(CompareNumeric(a, b, percent) = "better" /\ CompareNumeric(b, a, percent) = "better")
<1>1. ASSUME NEW x \in Number, NEW y \in Number, CompareNumeric(x, y, percent) = "better"
      PROVE  x \in Nat /\ y \in Nat /\ y - x > 0
  <2>1. x # Unknown /\ y # Unknown
    BY <1>1 DEF CompareNumeric
  <2>2. x \in Nat /\ y \in Nat
    BY <2>1 DEF Number
  <2>3. ByDifference(y - x) = "better"
    BY <1>1, <2>1 DEF CompareNumeric
  <2> QED BY <2>2, <2>3 DEF ByDifference
<1> QED BY <1>1

(* so of two words by their ranks, *)
LEMMA RankedOneWay ==
    ASSUME NEW a, NEW b, NEW ranks, \A w \in DOMAIN ranks : ranks[w] \in Int
    PROVE  ~(CompareRanked(a, b, ranks) = "better" /\ CompareRanked(b, a, ranks) = "better")
<1>1. ASSUME NEW x, NEW y, CompareRanked(x, y, ranks) = "better"
      PROVE  x \in DOMAIN ranks /\ y \in DOMAIN ranks /\ ranks[y] - ranks[x] > 0
  <2>1. {x, y} \subseteq DOMAIN ranks /\ ByDifference(ranks[y] - ranks[x]) = "better"
    BY <1>1 DEF CompareRanked
  <2>2. ranks[x] \in Int /\ ranks[y] \in Int
    BY <2>1
  <2> QED BY <2>1, <2>2 DEF ByDifference
<1> SUFFICES ASSUME CompareRanked(a, b, ranks) = "better", CompareRanked(b, a, ranks) = "better"
             PROVE  FALSE
  OBVIOUS
<1>2. a \in DOMAIN ranks /\ b \in DOMAIN ranks /\ ranks[b] - ranks[a] > 0 /\ ranks[a] - ranks[b] > 0
  BY <1>1
<1>3. ranks[a] \in Int /\ ranks[b] \in Int
  BY <1>2
<1> QED BY <1>2, <1>3

(* The tables of ranks hold numbers. *)
LEMMA RanksAreNumbers ==
    /\ \A w \in DOMAIN ResolutionRanks : ResolutionRanks[w] \in Int
    /\ \A w \in DOMAIN CodecRanks : CodecRanks[w] \in Int
    /\ \A w \in DOMAIN AudioRanks : AudioRanks[w] \in Int
<1>1. \A w \in DOMAIN CodecRanks : CodecRanks[w] \in Int
  BY DEF CodecRanks
<1>2. \A w \in DOMAIN AudioRanks : AudioRanks[w] \in Int
  BY DEF AudioRanks
<1>3. \A w \in DOMAIN ResolutionRanks : ResolutionRanks[w] \in Int
  BY DEF ResolutionRanks
<1> QED BY <1>1, <1>2, <1>3

(* so of two resolutions, by pixels or by words, *)
LEMMA ResolutionOneWay ==
    ASSUME NEW q, NEW c, {q.width, q.height, c.width, c.height} \subseteq Number
    PROVE  ~(CompareResolution(q, c) = "better" /\ CompareResolution(c, q) = "better")
<1>1. CASE {Unknown, 0} \cap {q.width, q.height, c.width, c.height} # {}
  <2>1. /\ CompareResolution(q, c) = CompareRanked(q.resolution, c.resolution, ResolutionRanks)
        /\ CompareResolution(c, q) = CompareRanked(c.resolution, q.resolution, ResolutionRanks)
    BY <1>1 DEF CompareResolution
  <2> QED BY <2>1, RankedOneWay, RanksAreNumbers
<1>2. CASE {Unknown, 0} \cap {q.width, q.height, c.width, c.height} = {}
  <2>1. /\ CompareResolution(q, c) = CompareNumeric(q.width * q.height, c.width * c.height, 2)
        /\ CompareResolution(c, q) = CompareNumeric(c.width * c.height, q.width * q.height, 2)
    BY <1>2 DEF CompareResolution
  <2>2. q.width \in Nat /\ q.height \in Nat /\ c.width \in Nat /\ c.height \in Nat
    BY <1>2 DEF Number
  <2>3. \A x, y \in Nat : x * y \in Number
    BY DEF Number
  <2> QED BY <2>1, <2>2, <2>3, NumericOneWay
<1> QED BY <1>1, <1>2

(* and so of two features, scan types and audio labels. *)
LEMMA WordsOneWay ==
    ASSUME NEW a, NEW b
    PROVE  /\ ~(CompareFeature(a, b) = "better" /\ CompareFeature(b, a) = "better")
           /\ ~(CompareScan(a, b) = "better" /\ CompareScan(b, a) = "better")
           /\ ~(CompareAudio(a, b) = "better" /\ CompareAudio(b, a) = "better")
<1>1. ~(CompareFeature(a, b) = "better" /\ CompareFeature(b, a) = "better")
  BY DEF CompareFeature
<1>2. ~(CompareScan(a, b) = "better" /\ CompareScan(b, a) = "better")
  BY DEF CompareScan
<1>3. ~(CompareAudio(a, b) = "better" /\ CompareAudio(b, a) = "better")
  BY RankedOneWay, RanksAreNumbers DEF CompareAudio
<1> QED BY <1>1, <1>2, <1>3

(* In no area are two files each better than the other. *)
LEMMA AreasOneWay ==
    ASSUME NEW a, NEW b,
           {a.width, a.height, a.bitrate, a.rate, a.depth, a.channels} \subseteq Number,
           {b.width, b.height, b.bitrate, b.rate, b.depth, b.channels} \subseteq Number,
           NEW n \in DOMAIN Categories(a, b, ComparePrints(NoPrint, NoPrint))
    PROVE  {Categories(a, b, ComparePrints(NoPrint, NoPrint))[n],
            Categories(b, a, ComparePrints(NoPrint, NoPrint))[n]} # {"better"}
<1> DEFINE names == {"resolution", "video_codec", "video_bitrate", "frame_rate", "bit_depth", "hdr",
                     "audio_channels", "audio_quality", "scan_type"}
           cat(q, c) == Categories(q, c, ComparePrints(NoPrint, NoPrint))
<1>1. ComparePrints(NoPrint, NoPrint).available = FALSE
  BY DEF ComparePrints
<1>2. ASSUME NEW q, NEW c
      PROVE  /\ DOMAIN cat(q, c) = names
             /\ cat(q, c)["resolution"] = CompareResolution(q, c)
             /\ cat(q, c)["video_codec"] = CompareRanked(q.codec, c.codec, CodecRanks)
             /\ cat(q, c)["video_bitrate"] = CompareNumeric(q.bitrate, c.bitrate, 5)
             /\ cat(q, c)["frame_rate"] = CompareNumeric(q.rate, c.rate, 2)
             /\ cat(q, c)["bit_depth"] = CompareNumeric(q.depth, c.depth, 0)
             /\ cat(q, c)["hdr"] = CompareFeature(q.hdr, c.hdr)
             /\ cat(q, c)["audio_channels"] = CompareNumeric(q.channels, c.channels, 0)
             /\ cat(q, c)["audio_quality"] = CompareAudio(q.audio, c.audio)
             /\ cat(q, c)["scan_type"] = CompareScan(q.scan, c.scan)
  BY <1>1 DEF Categories, Over
<1> HIDE DEF cat
<1>4. n \in names => ~(cat(a, b)[n] = "better" /\ cat(b, a)[n] = "better")
  <2>1. n = "resolution" => ~(cat(a, b)[n] = "better" /\ cat(b, a)[n] = "better")
    BY <1>2, ResolutionOneWay
  <2>2. n = "video_codec" => ~(cat(a, b)[n] = "better" /\ cat(b, a)[n] = "better")
    BY <1>2, RankedOneWay, RanksAreNumbers
  <2>3. n \in {"video_bitrate", "frame_rate"} => ~(cat(a, b)[n] = "better" /\ cat(b, a)[n] = "better")
    BY <1>2, NumericOneWay
  <2>4. n \in {"bit_depth", "audio_channels"} => ~(cat(a, b)[n] = "better" /\ cat(b, a)[n] = "better")
    BY <1>2, NumericOneWay
  <2>5. n \in {"hdr", "audio_quality", "scan_type"} => ~(cat(a, b)[n] = "better" /\ cat(b, a)[n] = "better")
    BY <1>2, WordsOneWay
  <2> QED BY <2>1, <2>2, <2>3, <2>4, <2>5
<1>5. n \in names
  BY <1>2 DEF cat
<1>6. {cat(a, b)[n], cat(b, a)[n]} # {"better"}
  BY <1>4, <1>5
<1> QED BY <1>6 DEF cat

(* The same for two files the quality analyzer has seen. *)
LEMMA CategoriesOneWay ==
    ASSUME NEW f \in Media, NEW g \in Media
    PROVE  LET a == Quality(f, "balanced")
               b == Quality(g, "balanced")
               there == Categories(a, b, ComparePrints(NoPrint, NoPrint))
               back == Categories(b, a, ComparePrints(NoPrint, NoPrint))
           IN \A n \in DOMAIN there : {there[n], back[n]} # {"better"}
<1> DEFINE a == Quality(f, "balanced")
           b == Quality(g, "balanced")
<1>1. /\ {a.width, a.height, a.bitrate, a.rate, a.depth, a.channels} \subseteq Number
      /\ {b.width, b.height, b.bitrate, b.rate, b.depth, b.channels} \subseteq Number
  <2>1. ASSUME NEW h \in Media
        PROVE  {Quality(h, "balanced").width, Quality(h, "balanced").height,
                Quality(h, "balanced").bitrate, Quality(h, "balanced").rate,
                Quality(h, "balanced").depth, Quality(h, "balanced").channels} \subseteq Number
    <3>1. {h.width, h.height, h.bitrate, h.rate, h.depth, h.channels} \subseteq Number
      BY MediaAssumption
    <3>2. /\ Quality(h, "balanced").width = h.width /\ Quality(h, "balanced").height = h.height
          /\ Quality(h, "balanced").bitrate = h.bitrate /\ Quality(h, "balanced").rate = h.rate
          /\ Quality(h, "balanced").depth = h.depth /\ Quality(h, "balanced").channels = h.channels
      BY DEF Quality
    <3> QED BY <3>1, <3>2
  <2> QED BY <2>1
<1> HIDE DEF a, b
<1>2. \A n \in DOMAIN Categories(a, b, ComparePrints(NoPrint, NoPrint)) :
        {Categories(a, b, ComparePrints(NoPrint, NoPrint))[n],
         Categories(b, a, ComparePrints(NoPrint, NoPrint))[n]} # {"better"}
  BY <1>1, AreasOneWay
<1> QED BY <1>2 DEF a, b

(* Who is not strongly softer one way gains at most a third the other way, and under
   2334 more than it loses the one way. *)
LEMMA SharperGain ==
    ASSUME NEW a \in Nat \ {0}, NEW b \in Nat, a < b, RatioOf(b, a) > -2500
    PROVE  /\ RatioOf(a, b) \in Int /\ RatioOf(a, b) >= 0 /\ RatioOf(a, b) <= 3333
           /\ 10000 * (b - a) > 1000 * b => RatioOf(b, a) <= -1000
           /\ 10000 * (b - a) <= 1000 * b => RatioOf(a, b) <= 2333
<1> DEFINE x == 20000 * (b - a) + b
           y == 20000 * (b - a) + a
<1>1. x \in Nat /\ y \in Nat /\ 2 * a \in Nat \ {0} /\ 2 * b \in Nat \ {0}
  OBVIOUS
<1>2. RatioOf(b, a) = -(x \div (2 * b)) /\ RatioOf(a, b) = y \div (2 * a)
  <2>1. b \in Nat \ {0}
    OBVIOUS
  <2> QED BY <2>1, RatioIs
<1>3. x \div (2 * b) \in Nat /\ y \div (2 * a) \in Nat
  <2> HIDE DEF x, y
  <2> QED BY <1>1, QuotientBound
<1>4. x < 2500 * (2 * b)
  <2> SUFFICES ASSUME x >= 2500 * (2 * b) PROVE FALSE
    BY <1>1
  <2> HIDE DEF x
  <2>1. x \div (2 * b) >= 2500
    BY <1>1, QuotientBound
  <2> QED BY <1>2, <1>3, <2>1
<1>5. 15001 * b < 20000 * a
  BY <1>4
<1>6. y < (3333 + 1) * (2 * a)
  BY <1>5
<1>7. y \div (2 * a) <= 3333
  <2> HIDE DEF y
  <2> QED BY <1>1, <1>6, QuotientBound
<1>8. ASSUME 10000 * (b - a) > 1000 * b PROVE x \div (2 * b) >= 1000
  <2>1. x >= 1000 * (2 * b)
    BY <1>8
  <2> HIDE DEF x
  <2> QED BY <1>1, <2>1, QuotientBound
<1>9. ASSUME 10000 * (b - a) <= 1000 * b PROVE y \div (2 * a) <= 2333
  <2>1. y < (2333 + 1) * (2 * a)
    BY <1>9
  <2> HIDE DEF y
  <2> QED BY <1>1, <2>1, QuotientBound
<1> DEFINE u == x \div (2 * b)
           v == y \div (2 * a)
<1>10. u \in Nat /\ v \in Nat /\ v <= 3333
  BY <1>3, <1>7
<1>11. 10000 * (b - a) > 1000 * b => u >= 1000
  BY <1>8
<1>12. 10000 * (b - a) <= 1000 * b => v <= 2333
  BY <1>9
<1>13. RatioOf(b, a) = -u /\ RatioOf(a, b) = v
  BY <1>2
<1> HIDE DEF u, v
<1>14. RatioOf(a, b) \in Int /\ RatioOf(a, b) >= 0 /\ RatioOf(a, b) <= 3333
  BY <1>10, <1>13
<1>15. ASSUME 10000 * (b - a) > 1000 * b PROVE RatioOf(b, a) <= -1000
  <2>1. u >= 1000
    BY <1>11, <1>15
  <2> QED BY <1>10, <1>13, <2>1
<1>16. ASSUME 10000 * (b - a) <= 1000 * b PROVE RatioOf(a, b) <= 2333
  BY <1>12, <1>13, <1>16
<1> QED BY <1>14, <1>15, <1>16

(* The directions of a metric there and back: what lower values improve gains nothing in
   both together, sharpness at most 2333 hundredths of a percent. *)
LEMMA Directed ==
    ASSUME NEW m \in Metrics, NEW a \in Nat, NEW b \in Nat
    PROVE  LET d == CompareMetric(m, a, b).direction
               e == CompareMetric(m, b, a).direction
           IN /\ m \in Neutral => d \in {0, Unknown}
              /\ m \notin Neutral => d \in Int
              /\ m \in Lower => d + e <= 0
              /\ m \in Higher /\ RatioOf(a, b) > -2500 /\ RatioOf(b, a) > -2500 => d + e <= 2333
<1> DEFINE d == CompareMetric(m, a, b).direction
           e == CompareMetric(m, b, a).direction
           r == RatioOf(a, b)
           s == RatioOf(b, a)
           t == Tolerance[m]
<1>1. t \in Nat /\ (m \in Higher => t = 1000)
  BY DEF Metrics, Higher, Lower, Neutral, Tolerance
<1>2. m \in Higher \/ m \in Lower \/ m \in Neutral
  BY DEF Metrics
<1>3. \A x, y \in Nat : RatioOf(x, y) \in Int
  <2> SUFFICES ASSUME NEW x \in Nat, NEW y \in Nat PROVE RatioOf(x, y) \in Int
    OBVIOUS
  <2>1. CASE x = 0 BY <2>1 DEF RatioOf
  <2>2. CASE x # 0 BY <2>2, RatioIs
  <2> QED BY <2>1, <2>2
<1>4. r \in Int /\ s \in Int
  BY <1>3
<1> DEFINE near(x, y) == 10000 * Magnitude(y - x) <= t * x
<1>5. /\ near(a, b) => d = 0
      /\ near(b, a) => e = 0
      /\ m \in Neutral /\ ~near(a, b) => d = Unknown
      /\ m \in Higher /\ ~near(a, b) => d = Bounded(r)
      /\ m \in Higher /\ ~near(b, a) => e = Bounded(s)
      /\ m \in Lower /\ ~near(a, b) => d = Bounded(-r)
      /\ m \in Lower /\ ~near(b, a) => e = Bounded(-s)
  BY MetricIs
<1>6. m \notin Neutral => d \in Int /\ e \in Int
  <2>1. \A n \in Int : Bounded(n) \in Int
    BY BoundedIs
  <2>2. -r \in Int /\ -s \in Int
    BY <1>4
  <2> HIDE DEF d, e, near, r, s
  <2> QED BY <1>2, <1>4, <1>5, <2>1, <2>2
<1>7. Magnitude(b - a) = Magnitude(a - b) /\ Magnitude(b - a) = IF a < b THEN b - a ELSE a - b
  BY DEF Magnitude
<1>8. ASSUME a <= b, near(a, b) PROVE near(b, a)
  <2>1. t * a <= t * b
    <3> HIDE DEF t
    <3> QED BY <1>1, <1>8
  <2>2. t * a \in Int /\ t * b \in Int
    BY <1>1
  <2> HIDE DEF t
  <2> QED BY <1>7, <1>8, <2>1, <2>2
<1>9. ASSUME b <= a, near(b, a) PROVE near(a, b)
  <2>1. t * b <= t * a
    <3> HIDE DEF t
    <3> QED BY <1>1, <1>9
  <2>2. t * a \in Int /\ t * b \in Int
    BY <1>1
  <2> HIDE DEF t
  <2> QED BY <1>7, <1>9, <2>1, <2>2
<1>10. a = b => near(a, b) /\ near(b, a)
  <2>1. t * a \in Nat
    BY <1>1
  <2> HIDE DEF t
  <2> QED BY <1>7, <2>1
<1> DEFINE N == near(a, b)
           M == near(b, a)
<1>11. ASSUME m \in Lower PROVE d + e <= 0
  <2>1. ASSUME a < b PROVE -10000 <= s /\ s <= 0 /\ r >= -s
    <3>1. -10000 <= s /\ s <= 0 /\ (a # 0 => r >= -s) /\ (a = 0 => r >= 10000)
      BY <2>1, RatioBack
    <3> HIDE DEF r, s
    <3> QED BY <1>4, <3>1
  <2>2. ASSUME b < a PROVE -10000 <= r /\ r <= 0 /\ s >= -r
    <3>1. -10000 <= r /\ r <= 0 /\ (b # 0 => s >= -r) /\ (b = 0 => s >= 10000)
      BY <2>2, RatioBack
    <3> HIDE DEF r, s
    <3> QED BY <1>4, <3>1
  <2>3. /\ ~N => d = IF -r > 10000 THEN 10000 ELSE IF -r < -10000 THEN -10000 ELSE -r
        /\ ~M => e = IF -s > 10000 THEN 10000 ELSE IF -s < -10000 THEN -10000 ELSE -s
    <3>1. -r \in Int /\ -s \in Int
      BY <1>4
    <3> HIDE DEF d, e, near, r, s
    <3> QED BY <1>5, <1>11, <3>1, BoundedIs
  <2>4. /\ N => d = 0
        /\ M => e = 0
        /\ a < b => (N => M)
        /\ b < a => (M => N)
        /\ a = b => N /\ M
    BY <1>5, <1>8, <1>9, <1>10
  <2> HIDE DEF N, M, d, e, r, s
  <2>5. ASSUME a < b PROVE d + e <= 0
    BY <1>4, <2>1, <2>3, <2>4, <2>5
  <2>6. ASSUME b < a PROVE d + e <= 0
    BY <1>4, <2>2, <2>3, <2>4, <2>6
  <2>7. ASSUME a = b PROVE d + e <= 0
    BY <2>4, <2>7
  <2> QED BY <2>5, <2>6, <2>7
<1>12. ASSUME m \in Higher, r > -2500, s > -2500 PROVE d + e <= 2333
  <2>1. /\ ~N => d = IF r > 10000 THEN 10000 ELSE IF r < -10000 THEN -10000 ELSE r
        /\ ~M => e = IF s > 10000 THEN 10000 ELSE IF s < -10000 THEN -10000 ELSE s
    <3> HIDE DEF d, e, near, r, s
    <3> QED BY <1>4, <1>5, <1>12, BoundedIs
  <2>2. /\ N => d = 0
        /\ M => e = 0
        /\ a < b => (N => M)
        /\ b < a => (M => N)
        /\ a = b => N /\ M
    BY <1>5, <1>8, <1>9, <1>10
  <2>3. a < b => a # 0
    <3> SUFFICES ASSUME a < b, a = 0 PROVE FALSE
      OBVIOUS
    <3>1. s <= -2500
      <4>1. b \in Nat \ {0} /\ 4 * a <= 3 * b
        OBVIOUS
      <4> QED BY <4>1, QuarterLost
    <3> HIDE DEF s
    <3> QED BY <1>4, <1>12, <3>1
  <2>4. b < a => b # 0
    <3> SUFFICES ASSUME b < a, b = 0 PROVE FALSE
      OBVIOUS
    <3>1. r <= -2500
      <4>1. a \in Nat \ {0} /\ 4 * b <= 3 * a
        OBVIOUS
      <4> QED BY <4>1, QuarterLost
    <3> HIDE DEF r
    <3> QED BY <1>4, <1>12, <3>1
  <2>5. ASSUME a < b
        PROVE  /\ r >= 0 /\ r <= 3333
               /\ ~M => s <= -1000
               /\ M => r <= 2333
    <3>1. M <=> 10000 * (b - a) <= 1000 * b
      BY <1>1, <1>7, <1>12, <2>5
    <3>2. a \in Nat \ {0} /\ s > -2500
      BY <2>3, <2>5, <1>12
    <3>3. /\ r >= 0 /\ r <= 3333
          /\ 10000 * (b - a) > 1000 * b => s <= -1000
          /\ 10000 * (b - a) <= 1000 * b => r <= 2333
      BY <2>5, <3>2, SharperGain
    <3> HIDE DEF M, near, r, s
    <3> QED BY <3>1, <3>3
  <2>6. ASSUME b < a
        PROVE  /\ s >= 0 /\ s <= 3333
               /\ ~N => r <= -1000
               /\ N => s <= 2333
    <3>1. N <=> 10000 * (a - b) <= 1000 * a
      BY <1>1, <1>7, <1>12, <2>6
    <3>2. b \in Nat \ {0} /\ r > -2500
      BY <2>4, <2>6, <1>12
    <3>3. /\ s >= 0 /\ s <= 3333
          /\ 10000 * (a - b) > 1000 * a => r <= -1000
          /\ 10000 * (a - b) <= 1000 * a => s <= 2333
      BY <2>6, <3>2, SharperGain
    <3> HIDE DEF N, near, s, r
    <3> QED BY <3>1, <3>3
  <2> HIDE DEF N, M, d, e, r, s
  <2>7. ASSUME a < b PROVE d + e <= 2333
    <3>1. CASE N /\ M
      BY <2>2, <3>1
    <3>2. CASE ~N /\ M
      BY <1>4, <2>1, <2>2, <2>5, <2>7, <3>2
    <3>3. CASE ~N /\ ~M
      BY <1>4, <1>12, <2>1, <2>5, <2>7, <3>3
    <3> QED BY <2>2, <2>7, <3>1, <3>2, <3>3
  <2>8. ASSUME b < a PROVE d + e <= 2333
    <3>1. CASE N /\ M
      BY <2>2, <3>1
    <3>2. CASE N /\ ~M
      BY <1>4, <2>1, <2>2, <2>6, <2>8, <3>2
    <3>3. CASE ~N /\ ~M
      BY <1>4, <1>12, <2>1, <2>6, <2>8, <3>3
    <3> QED BY <2>2, <2>8, <3>1, <3>2, <3>3
  <2>9. ASSUME a = b PROVE d + e <= 2333
    BY <2>2, <2>9
  <2> QED BY <2>7, <2>8, <2>9
<1>13. m \in Neutral => d \in {0, Unknown}
  <2> HIDE DEF near
  <2> QED BY <1>5
<1> HIDE DEF d, e, r, s
<1>14. /\ m \in Neutral => d \in {0, Unknown}
       /\ m \notin Neutral => d \in Int
       /\ m \in Lower => d + e <= 0
       /\ m \in Higher /\ r > -2500 /\ s > -2500 => d + e <= 2333
  BY <1>6, <1>11, <1>12, <1>13
<1> QED BY <1>14 DEF d, e, r, s

(* The weighted sum and the sum of the weights, metric by metric. *)
LEMMA WeightedIs ==
    ASSUME NEW value, \A m \in Metrics : value[m] \in Int \cup {Unknown}
    PROVE  LET V(m) == IF value[m] = Unknown THEN 0 ELSE value[m]
               O(m) == IF value[m] = Unknown THEN 0 ELSE 1
           IN /\ Weighted(value) = 250 * V("sharpness") + 100 * V("noise") + 125 * V("blockiness")
                                     + 60 * V("clipped_white_ratio") + 35 * V("black_ratio")
                                     + 35 * V("brightness") + 85 * V("contrast") + 40 * V("saturation")
              /\ WeightOf(value) = 250 * O("sharpness") + 100 * O("noise") + 125 * O("blockiness")
                                     + 60 * O("clipped_white_ratio") + 35 * O("black_ratio")
                                     + 35 * O("brightness") + 85 * O("contrast") + 40 * O("saturation")
<1> DEFINE V(m) == IF value[m] = Unknown THEN 0 ELSE value[m]
           O(m) == IF value[m] = Unknown THEN 0 ELSE 1
           one == [m \in Metrics |-> IF value[m] = Unknown THEN Unknown ELSE 1]
           part(v, m) == IF v[m] = Unknown THEN 0 ELSE v[m] * Weight[m]
<1>1. /\ Weight["sharpness"] = 250 /\ Weight["noise"] = 100 /\ Weight["blockiness"] = 125
      /\ Weight["clipped_white_ratio"] = 60 /\ Weight["black_ratio"] = 35
      /\ Weight["brightness"] = 35 /\ Weight["contrast"] = 85 /\ Weight["saturation"] = 40
      /\ \A m \in Metrics : Weight[m] \in Nat
  BY DEF Weight, Metrics, Higher, Lower, Neutral
<1>2. \A v : Weighted(v) = part(v, "sharpness") + part(v, "noise") + part(v, "blockiness")
                             + part(v, "clipped_white_ratio") + part(v, "black_ratio")
                             + part(v, "brightness") + part(v, "contrast") + part(v, "saturation")
  BY DEF Weighted
<1>3. \A m \in Metrics : part(value, m) = V(m) * Weight[m] /\ V(m) \in Int /\ O(m) \in Int
  BY <1>1, UnknownAssumption
<1>4. \A m \in Metrics : part(one, m) = O(m) * Weight[m]
  BY <1>1, UnknownAssumption
<1>5. Metrics = {"sharpness", "noise", "blockiness", "clipped_white_ratio", "black_ratio",
                 "brightness", "contrast", "saturation"}
  BY DEF Metrics, Higher, Lower, Neutral
<1>6. WeightOf(value) = Weighted(one)
  BY DEF WeightOf
<1> HIDE DEF V, O, one, part
<1>7. Weighted(value) = 250 * V("sharpness") + 100 * V("noise") + 125 * V("blockiness")
                          + 60 * V("clipped_white_ratio") + 35 * V("black_ratio")
                          + 35 * V("brightness") + 85 * V("contrast") + 40 * V("saturation")
  BY <1>1, <1>2, <1>3, <1>5
<1>8. WeightOf(value) = 250 * O("sharpness") + 100 * O("noise") + 125 * O("blockiness")
                          + 60 * O("clipped_white_ratio") + 35 * O("black_ratio")
                          + 35 * O("brightness") + 85 * O("contrast") + 40 * O("saturation")
  BY <1>1, <1>2, <1>3, <1>4, <1>5, <1>6
<1> QED BY <1>7, <1>8 DEF V, O

(* Two pictures are not each better than the other: the directions of both verdicts add up
   to less than two means above the threshold. *)
LEMMA PicturesOneWay ==
    ASSUME NEW p \in Prints, NEW q \in Prints
    PROVE  ~(ComparePrints(p, q).verdict = "better" /\ ComparePrints(q, p).verdict = "better")
<1> SUFFICES ASSUME ComparePrints(p, q).verdict = "better", ComparePrints(q, p).verdict = "better"
             PROVE  FALSE
  OBVIOUS
<1> DEFINE d == [m \in Metrics |-> Compared(p, q)[m].direction]
           e == [m \in Metrics |-> Compared(q, p)[m].direction]
           D(m) == IF d[m] = Unknown THEN 0 ELSE d[m]
           E(m) == IF e[m] = Unknown THEN 0 ELSE e[m]
           A(m) == IF d[m] = Unknown THEN 0 ELSE 1
           B(m) == IF e[m] = Unknown THEN 0 ELSE 1
<1>1. Metrics = {"sharpness", "noise", "blockiness", "clipped_white_ratio", "black_ratio",
                 "brightness", "contrast", "saturation"}
      /\ Higher = {"sharpness"} /\ Lower = {"noise", "blockiness", "clipped_white_ratio"}
      /\ Neutral = {"black_ratio", "brightness", "contrast", "saturation"}
  BY DEF Metrics, Higher, Lower, Neutral
<1>2. \A m \in Metrics : p.average[m] \in Nat /\ q.average[m] \in Nat
  BY Picture
<1>3. /\ RatioOf(p.average["sharpness"], q.average["sharpness"]) > -2500
      /\ RatioOf(q.average["sharpness"], p.average["sharpness"]) > -2500
      /\ MeanExceeds(Compared(p, q), 750) /\ MeanExceeds(Compared(q, p), 750)
  <2>1. \A x, y \in Nat : RatioOf(x, y) \in Int
    <3> SUFFICES ASSUME NEW x \in Nat, NEW y \in Nat PROVE RatioOf(x, y) \in Int
      OBVIOUS
    <3>1. CASE x = 0 BY <3>1 DEF RatioOf
    <3>2. CASE x # 0 BY <3>2, RatioIs
    <3> QED BY <3>1, <3>2
  <2>2. ~StrongDetailLoss(Compared(p, q)) /\ ~StrongDetailLoss(Compared(q, p))
    BY VerdictIs
  <2>3. /\ RatioOf(p.average["sharpness"], q.average["sharpness"]) \in Int
        /\ RatioOf(q.average["sharpness"], p.average["sharpness"]) \in Int
    BY <1>1, <1>2, <2>1
  <2> QED BY <2>2, <2>3, VerdictIs
<1>4. \A m \in Metrics : /\ d[m] = CompareMetric(m, p.average[m], q.average[m]).direction
                         /\ e[m] = CompareMetric(m, q.average[m], p.average[m]).direction
  BY DEF Compared
<1>5. /\ Weighted(d) > 750 * WeightOf(d)
      /\ Weighted(e) > 750 * WeightOf(e)
  BY <1>3 DEF MeanExceeds
<1> HIDE DEF d, e
<1>6. \A m \in Metrics :
        /\ m \in Neutral => d[m] \in {0, Unknown} /\ e[m] \in {0, Unknown}
        /\ m \notin Neutral => d[m] \in Int /\ e[m] \in Int
        /\ m \in Lower => d[m] + e[m] <= 0
        /\ m \in Higher => d[m] + e[m] <= 2333
  <2> SUFFICES ASSUME NEW m \in Metrics
               PROVE /\ m \in Neutral => d[m] \in {0, Unknown} /\ e[m] \in {0, Unknown}
                     /\ m \notin Neutral => d[m] \in Int /\ e[m] \in Int
                     /\ m \in Lower => d[m] + e[m] <= 0
                     /\ m \in Higher => d[m] + e[m] <= 2333
    OBVIOUS
  <2>1. p.average[m] \in Nat /\ q.average[m] \in Nat
    BY <1>2
  <2>2. m \in Higher => RatioOf(p.average[m], q.average[m]) > -2500
                        /\ RatioOf(q.average[m], p.average[m]) > -2500
    BY <1>1, <1>3
  <2> QED BY <1>4, <2>1, <2>2, Directed
<1>7. \A m \in Metrics : d[m] \in Int \cup {Unknown} /\ e[m] \in Int \cup {Unknown}
  BY <1>6
<1>8. \A m \in Metrics : /\ D(m) \in Int /\ E(m) \in Int /\ A(m) \in 0 .. 1 /\ B(m) \in 0 .. 1
                         /\ m \in Neutral => D(m) = 0 /\ E(m) = 0
                         /\ m \notin Neutral => D(m) = d[m] /\ E(m) = e[m] /\ A(m) = 1 /\ B(m) = 1
  BY <1>6, UnknownAssumption
<1>9. /\ Weighted(d) = 250 * D("sharpness") + 100 * D("noise") + 125 * D("blockiness")
                         + 60 * D("clipped_white_ratio") + 35 * D("black_ratio")
                         + 35 * D("brightness") + 85 * D("contrast") + 40 * D("saturation")
      /\ WeightOf(d) = 250 * A("sharpness") + 100 * A("noise") + 125 * A("blockiness")
                         + 60 * A("clipped_white_ratio") + 35 * A("black_ratio")
                         + 35 * A("brightness") + 85 * A("contrast") + 40 * A("saturation")
  BY <1>7, WeightedIs
<1>10. /\ Weighted(e) = 250 * E("sharpness") + 100 * E("noise") + 125 * E("blockiness")
                          + 60 * E("clipped_white_ratio") + 35 * E("black_ratio")
                          + 35 * E("brightness") + 85 * E("contrast") + 40 * E("saturation")
       /\ WeightOf(e) = 250 * B("sharpness") + 100 * B("noise") + 125 * B("blockiness")
                          + 60 * B("clipped_white_ratio") + 35 * B("black_ratio")
                          + 35 * B("brightness") + 85 * B("contrast") + 40 * B("saturation")
  BY <1>7, WeightedIs
<1> HIDE DEF D, E, A, B
<1>11. /\ Weighted(d) = 250 * D("sharpness") + 100 * D("noise") + 125 * D("blockiness")
                          + 60 * D("clipped_white_ratio")
       /\ WeightOf(d) \in Int /\ WeightOf(d) >= 535
  <2>1. /\ A("sharpness") = 1 /\ A("noise") = 1 /\ A("blockiness") = 1
        /\ A("clipped_white_ratio") = 1
    BY <1>1, <1>8
  <2>2. /\ A("black_ratio") \in 0 .. 1 /\ A("brightness") \in 0 .. 1
        /\ A("contrast") \in 0 .. 1 /\ A("saturation") \in 0 .. 1
    BY <1>1, <1>8
  <2>3. /\ D("black_ratio") = 0 /\ D("brightness") = 0 /\ D("contrast") = 0
        /\ D("saturation") = 0
    BY <1>1, <1>8
  <2>4. /\ D("sharpness") \in Int /\ D("noise") \in Int /\ D("blockiness") \in Int
        /\ D("clipped_white_ratio") \in Int
    BY <1>1, <1>8
  <2> QED BY <1>9, <2>1, <2>2, <2>3, <2>4
<1>12. /\ Weighted(e) = 250 * E("sharpness") + 100 * E("noise") + 125 * E("blockiness")
                          + 60 * E("clipped_white_ratio")
       /\ WeightOf(e) \in Int /\ WeightOf(e) >= 535
  <2>1. /\ B("sharpness") = 1 /\ B("noise") = 1 /\ B("blockiness") = 1
        /\ B("clipped_white_ratio") = 1
    BY <1>1, <1>8
  <2>2. /\ B("black_ratio") \in 0 .. 1 /\ B("brightness") \in 0 .. 1
        /\ B("contrast") \in 0 .. 1 /\ B("saturation") \in 0 .. 1
    BY <1>1, <1>8
  <2>3. /\ E("black_ratio") = 0 /\ E("brightness") = 0 /\ E("contrast") = 0
        /\ E("saturation") = 0
    BY <1>1, <1>8
  <2>4. /\ E("sharpness") \in Int /\ E("noise") \in Int /\ E("blockiness") \in Int
        /\ E("clipped_white_ratio") \in Int
    BY <1>1, <1>8
  <2> QED BY <1>10, <2>1, <2>2, <2>3, <2>4
<1>13. /\ D("sharpness") \in Int /\ E("sharpness") \in Int /\ D("sharpness") + E("sharpness") <= 2333
       /\ D("noise") \in Int /\ E("noise") \in Int /\ D("noise") + E("noise") <= 0
       /\ D("blockiness") \in Int /\ E("blockiness") \in Int /\ D("blockiness") + E("blockiness") <= 0
       /\ D("clipped_white_ratio") \in Int /\ E("clipped_white_ratio") \in Int
       /\ D("clipped_white_ratio") + E("clipped_white_ratio") <= 0
  BY <1>1, <1>6, <1>8
<1> QED BY <1>5, <1>11, <1>12, <1>13

(* NeverBetterBothWays: neither by the areas nor by the pictures. *)
LEMMA OneWay == NeverBetterBothWays
  BY CategoriesOneWay, PicturesOneWay DEF NeverBetterBothWays

(* RatingsAgree: the details of a score stay within their maxima and the profiles agree
   (analyzer/quality.py:135-218, analyzer/quality_profiles.py:11-62). *)
THEOREM RatingsAlwaysAgree == Spec => []RatingsAgree
  BY Ratings, PTL

(* NeverBetterBothWays: no two files are each better than the other
   (compare.py:240-313, fingerprint_compare.py:319-420). *)
THEOREM BetterOneWayOnly == Spec => []NeverBetterBothWays
  BY OneWay, PTL

(* BlurIsNoImprovement: a picture that lost a quarter of its sharpness is worse
   (fingerprint_compare.py:8-15). *)
THEOREM BlurNeverImproves == Spec => []BlurIsNoImprovement
  BY Blur, PTL
-----------------------------------------------------------------------------
\* The uuids of the table are given ones, no two rows share one, and what a
\* thread will write is a change a client may make to a row it read.
UuidsGiven ==
    /\ uuids \in Nat
    /\ rows = [id \in Ids |-> rows[id]]
    /\ \A id \in Live : "uuid" \in DOMAIN rows[id] /\ rows[id].uuid \in 1 .. uuids
    /\ \A i, j \in Live : i # j => rows[i].uuid # rows[j].uuid
    /\ \A s \in Sessions : session[s] # Idle =>
          /\ session[s].id \in Ids
          /\ session[s].read.version \in Nat
          /\ session[s].kind = "update" => session[s].change \in Changes

\* Every row of the table is a content its profile had, and unless an update of
\* the profile was overtaken, the one with the highest version.
RowsAreLatest ==
    /\ \A id \in Live : rows[id] \in committed
    /\ \A r \in committed : r.uuid \in 1 .. uuids /\ r.version \in Nat
    /\ \A id \in Live : rows[id].uuid \notin raced =>
          \A r \in committed : r.uuid = rows[id].uuid => r.version <= rows[id].version

\* Unless an update was overtaken, a uuid and a version name one content.
VersionNamesContent ==
    \A r, q \in committed :
      r.uuid = q.uuid /\ r.version = q.version /\ r.uuid \notin raced => r = q

\* A comparison uses a content its reference had, and so did the last one.
ComparedWasCommitted ==
    /\ job # Idle =>
          /\ {"payload", "reference", "step", "found"} \subseteq DOMAIN job
          /\ job.payload.kind = "compare" => job.reference \in committed
    /\ answer # Idle =>
          \E r \in committed :
            /\ r.uuid = answer.uuid /\ r.version = answer.version /\ Comparable(r)
            /\ answer.result = CompareFile(r, answer.quality, answer.print, answer.allowed)

IInv == UuidsGiven /\ RowsAreLatest /\ VersionNamesContent /\ ComparedWasCommitted

(* A new row has a uuid of its own and the first version. *)
LEMMA InsertKeepsRows ==
    ASSUME IInv, NEW draft, Insert(draft), UNCHANGED <<session, raced>>
    PROVE  /\ UuidsGiven' /\ RowsAreLatest' /\ VersionNamesContent'
           /\ committed \subseteq committed'
<1> DEFINE new == Over([uuid |-> uuids + 1, version |-> 1], draft)
<1> USE DEF IInv
<1>1. /\ new.uuid = uuids + 1 /\ new.version = 1
      /\ "uuid" \in DOMAIN new
  BY OverColumn DEF Over
<1>2. NextId \in Ids /\ uuids' = uuids + 1 /\ uuids' \in Nat
  BY DEF Insert, UuidsGiven
<1>3. rows' = [rows EXCEPT ![NextId] = new] /\ rows' = [id \in Ids |-> rows'[id]]
  BY DEF Insert, UuidsGiven
<1>4. rows'[NextId] = new
  BY <1>2, <1>3 DEF UuidsGiven
<1>5. committed' = committed \cup {new}
  BY <1>4 DEF Insert
<1> HIDE DEF new
<1>6. \A id \in Live' : id = NextId \/ (id \in Live /\ rows'[id] = rows[id])
  BY <1>2, <1>3 DEF Live, UuidsGiven
<1>7. \A r \in committed : r.uuid \in 1 .. uuids /\ r.uuid # new.uuid
  BY <1>1 DEF RowsAreLatest, UuidsGiven
<1>8. UuidsGiven'
  <2>1. \A id \in Live' : "uuid" \in DOMAIN rows'[id] /\ rows'[id].uuid \in 1 .. uuids'
    <3> SUFFICES ASSUME NEW id \in Live'
                 PROVE  "uuid" \in DOMAIN rows'[id] /\ rows'[id].uuid \in 1 .. uuids'
      OBVIOUS
    <3>1. CASE id = NextId BY <1>1, <1>2, <1>4, <3>1 DEF UuidsGiven
    <3>2. CASE id \in Live /\ rows'[id] = rows[id] BY <1>2, <3>2 DEF UuidsGiven
    <3> QED BY <1>6, <3>1, <3>2
  <2>2. \A i, j \in Live' : i # j => rows'[i].uuid # rows'[j].uuid
    <3>1. rows'[NextId].uuid = uuids + 1 BY <1>1, <1>4
    <3>2. \A i \in Live : rows[i].uuid # uuids + 1 BY DEF UuidsGiven
    <3> QED BY <1>6, <3>1, <3>2 DEF UuidsGiven
  <2> QED BY <1>2, <1>3, <2>1, <2>2 DEF UuidsGiven
<1>9. RowsAreLatest'
  <2>1. \A id \in Live' : rows'[id] \in committed'
    BY <1>4, <1>5, <1>6 DEF RowsAreLatest
  <2>2. \A r \in committed' : r.uuid \in 1 .. uuids' /\ r.version \in Nat
    BY <1>1, <1>2, <1>5, <1>7 DEF RowsAreLatest, UuidsGiven
  <2>3. ASSUME NEW id \in Live', rows'[id].uuid \notin raced',
               NEW r \in committed', r.uuid = rows'[id].uuid
        PROVE  r.version <= rows'[id].version
    <3>1. CASE id = NextId
      BY <1>1, <1>4, <1>5, <1>7, <2>3, <3>1
    <3>2. CASE id # NextId
      <4>1. id \in Live /\ rows'[id] = rows[id] BY <1>6, <3>2
      <4>2. rows[id].uuid # new.uuid BY <1>7, <4>1 DEF RowsAreLatest
      <4>3. r \in committed BY <1>5, <2>3, <4>1, <4>2
      <4> QED BY <2>3, <4>1, <4>3 DEF RowsAreLatest
    <3> QED BY <3>1, <3>2
  <2> QED BY <2>1, <2>2, <2>3 DEF RowsAreLatest
<1>10. VersionNamesContent'
  BY <1>5, <1>7 DEF VersionNamesContent
<1> QED BY <1>5, <1>8, <1>9, <1>10

(* An update moves the row it finds to the version after the one it read. *)
LEMMA UpdateKeepsRows ==
    ASSUME IInv, NEW s \in Sessions, CommitUpdate(s)
    PROVE  /\ UuidsGiven' /\ RowsAreLatest' /\ VersionNamesContent'
           /\ committed \subseteq committed'
<1> DEFINE id == session[s].id
           read == session[s].read
           plan == Planned(read, session[s].change)
           new == Over(plan, rows[id])
<1> USE DEF IInv
<1>1. id \in Ids /\ read.version \in Nat /\ session[s].change \in Changes
  BY DEF CommitUpdate, UuidsGiven
<1>2. /\ "uuid" \notin DOMAIN plan /\ "version" \in DOMAIN plan
      /\ plan.version \in Nat /\ plan.version > read.version
  BY <1>1, PlanColumns
<1>3. uuids' = uuids /\ session' = [session EXCEPT ![s] = Idle]
  BY DEF CommitUpdate, End
<1>4. \A t \in Sessions : session'[t] # Idle => session'[t] = session[t]
  BY <1>3
<1> HIDE DEF plan
<1>5. CASE UNCHANGED <<rows, committed, raced>>
  BY <1>3, <1>4, <1>5 DEF UuidsGiven, RowsAreLatest, VersionNamesContent, Live
<1>6. CASE /\ rows' = [rows EXCEPT ![id] = Written(@, plan, read)]
           /\ committed' = committed \cup ({rows'[id]} \ {NoRow})
           /\ raced' = raced \cup IF rows[id] \in {read, NoRow} THEN {} ELSE {rows[id].uuid}
  <2>1. CASE rows[id] = NoRow
    <3>1. rows' = rows /\ committed' = committed /\ raced' = raced
      BY <1>1, <1>6, <2>1 DEF Written, UuidsGiven
    <3> QED BY <1>5, <3>1
  <2>2. CASE rows[id] # NoRow
    <3>1. /\ new.uuid = rows[id].uuid /\ new.version = plan.version
          /\ "uuid" \in DOMAIN new
      BY <1>1, <1>2, <2>2, OverColumn DEF Over, UuidsGiven, Live
    <3>2. rows' = [rows EXCEPT ![id] = new] /\ rows'[id] = new
          /\ rows' = [i \in Ids |-> rows'[i]]
      BY <1>1, <1>6, <2>2 DEF Written, UuidsGiven
    <3>3. committed' = committed \cup ({new} \ {NoRow})
      BY <1>6, <3>2
    <3>4. id \in Live
      BY <1>1, <2>2 DEF Live
    <3> HIDE DEF new
    <3>5. \A i \in Live' : i \in Live /\ (i # id => rows'[i] = rows[i])
      BY <3>2, <3>4 DEF Live, UuidsGiven
    <3>6. rows[id].uuid \notin raced' => rows[id] = read /\ rows[id].uuid \notin raced
      BY <1>6, <2>2
    <3>7. raced \subseteq raced'
      BY <1>6
    <3>8. \A r \in committed : r.uuid = new.uuid /\ new.uuid \notin raced' =>
             r.version < new.version
      BY <1>1, <1>2, <3>1, <3>4, <3>6 DEF RowsAreLatest
    <3>9. UuidsGiven'
      <4>1. \A i \in Live' : "uuid" \in DOMAIN rows'[i] /\ rows'[i].uuid \in 1 .. uuids'
        BY <1>3, <3>1, <3>2, <3>4, <3>5, SMTT(60) DEF UuidsGiven
      <4>2. \A i, j \in Live' : i # j => rows'[i].uuid # rows'[j].uuid
        BY <3>1, <3>2, <3>4, <3>5 DEF UuidsGiven
      <4> QED BY <1>3, <1>4, <3>2, <4>1, <4>2 DEF UuidsGiven
    <3>10. RowsAreLatest'
      <4>1. \A i \in Live' : rows'[i] \in committed'
        BY <3>2, <3>3, <3>5 DEF RowsAreLatest, Live
      <4>2. \A r \in committed' : r.uuid \in 1 .. uuids' /\ r.version \in Nat
        BY <1>2, <1>3, <3>1, <3>3, <3>4 DEF RowsAreLatest, UuidsGiven
      <4>3. ASSUME NEW i \in Live', rows'[i].uuid \notin raced',
                   NEW r \in committed', r.uuid = rows'[i].uuid
            PROVE  r.version <= rows'[i].version
        <5>1. CASE i = id
          <6>1. r = new \/ (r \in committed /\ r.version < new.version)
            BY <3>2, <3>3, <3>8, <4>3, <5>1
          <6> QED BY <1>2, <3>1, <3>2, <4>2, <4>3, <5>1, <6>1
        <5>2. CASE i # id
          <6>1. i \in Live /\ rows'[i] = rows[i] BY <3>5, <5>2
          <6>2. rows[i].uuid # new.uuid BY <3>1, <3>4, <5>2, <6>1 DEF UuidsGiven
          <6>3. r \in committed /\ rows[i].uuid \notin raced
            BY <3>3, <3>7, <4>3, <6>1, <6>2
          <6> QED BY <4>3, <6>1, <6>3 DEF RowsAreLatest
        <5> QED BY <5>1, <5>2
      <4> QED BY <4>1, <4>2, <4>3 DEF RowsAreLatest
    <3>11. VersionNamesContent'
      <4> SUFFICES ASSUME NEW r \in committed', NEW q \in committed',
                          r.uuid = q.uuid, r.version = q.version, r.uuid \notin raced'
                   PROVE  r = q
        BY DEF VersionNamesContent
      <4>1. CASE r \in committed /\ q \in committed
        BY <3>7, <4>1 DEF VersionNamesContent
      <4>2. CASE r = new /\ q \in committed
        BY <1>2, <3>1, <3>8, <4>2 DEF RowsAreLatest
      <4>3. CASE q = new /\ r \in committed
        BY <1>2, <3>1, <3>8, <4>3 DEF RowsAreLatest
      <4> QED BY <3>3, <4>1, <4>2, <4>3
    <3> QED BY <3>3, <3>9, <3>10, <3>11
  <2> QED BY <2>1, <2>2
<1> QED BY <1>5, <1>6 DEF CommitUpdate, plan
-----------------------------------------------------------------------------
(* The invariant holds: a row is written by an insert, an update or a deletion,
   and the worker only reads. *)
THEOREM InvariantHolds == Spec => []IInv
<1>1. Init => IInv
  BY DEF Init, IInv, UuidsGiven, RowsAreLatest, VersionNamesContent, ComparedWasCommitted, Live
<1>2. IInv /\ [Next]_vars => IInv'
  <2> SUFFICES ASSUME IInv, [Next]_vars PROVE IInv'
    OBVIOUS
  <2> USE DEF IInv
  <2>0. ASSUME UuidsGiven', RowsAreLatest', VersionNamesContent', committed \subseteq committed',
               UNCHANGED <<job, answer>>
        PROVE  IInv'
    BY <2>0 DEF ComparedWasCommitted
  <2>1. ASSUME NEW draft \in Drafts, CreateReference(draft) PROVE IInv'
    <3>1. Insert(draft) /\ UNCHANGED <<session, raced, job, answer>>
      BY <2>1 DEF CreateReference
    <3> QED BY <3>1, <2>0, InsertKeepsRows
  <2>2. ASSUME NEW s \in Sessions, NEW id \in Ids,
               UpdateReference(s, id) \/ DeleteReference(s, id)
        PROVE  IInv'
    <3>1. PICK kind \in {"update", "delete"}, change \in Changes \cup {<<>>} :
             Begin(s, kind, id, change) /\ (kind = "update" => change \in Changes)
      BY <2>2 DEF UpdateReference, DeleteReference
    <3>2. UNCHANGED <<rows, uuids, job, answer, committed, raced>> /\ id \in Live
      BY <3>1 DEF Begin, Live
    <3>3. \A t \in Sessions : session'[t] = session[t] \/ session'[t] =
             [kind |-> kind, id |-> id, read |-> rows[id], change |-> change]
      BY <3>1 DEF Begin
    <3>4. rows[id].version \in Nat
      BY <3>2 DEF RowsAreLatest
    <3>5. UuidsGiven'
      BY <3>1, <3>2, <3>3, <3>4 DEF UuidsGiven, Live
    <3> QED BY <2>0, <3>2, <3>5 DEF RowsAreLatest, VersionNamesContent, Live
  <2>3. ASSUME NEW s \in Sessions, CommitUpdate(s) PROVE IInv'
    <3>1. UNCHANGED <<job, answer>> BY <2>3 DEF CommitUpdate, End
    <3> QED BY <2>0, <2>3, <3>1, UpdateKeepsRows
  <2>4. ASSUME NEW s \in Sessions, CommitDelete(s) PROVE IInv'
    <3>1. UNCHANGED <<job, answer, uuids, committed, raced>> BY <2>4 DEF CommitDelete, End
    <3>2. session[s].id \in Ids BY <2>4 DEF CommitDelete, UuidsGiven
    <3>3. \A t \in Sessions : session'[t] # Idle => session'[t] = session[t]
      BY <2>4 DEF CommitDelete, End
    <3>4. rows' = [id \in Ids |-> rows'[id]]
      BY <2>4 DEF CommitDelete, UuidsGiven
    <3>5. \A id \in Live' : id \in Live /\ rows'[id] = rows[id]
      BY <2>4, <3>2 DEF CommitDelete, Live, UuidsGiven
    <3>6. UuidsGiven' BY <3>1, <3>3, <3>4, <3>5 DEF UuidsGiven
    <3>7. RowsAreLatest' BY <3>1, <3>5 DEF RowsAreLatest
    <3> QED BY <2>0, <3>1, <3>6, <3>7 DEF VersionNamesContent
  <2>5. ASSUME UNCHANGED <<rows, uuids, session, committed, raced>>, ComparedWasCommitted'
        PROVE  IInv'
    BY <2>5 DEF UuidsGiven, RowsAreLatest, VersionNamesContent, Live
  <2>6. ASSUME NEW payload \in Payloads, StartCreate(payload) \/ StartCompare(payload)
        PROVE  IInv'
    <3>1. UNCHANGED <<rows, uuids, session, answer, committed, raced>>
      BY <2>6 DEF StartCreate, StartCompare, StartJob
    <3>2. PICK reference, profile :
             /\ job' = [payload |-> payload, reference |-> reference, profile |-> profile,
                        step |-> 1, found |-> {}]
             /\ payload.kind = "compare" => reference \in committed
      BY <2>6 DEF StartCreate, StartCompare, StartJob, RowsAreLatest
    <3>3. ComparedWasCommitted' BY <3>1, <3>2 DEF ComparedWasCommitted
    <3> QED BY <2>5, <3>1, <3>3
  <2>7. ASSUME NEW succeeds \in BOOLEAN, Analyze(succeeds) PROVE IInv'
    <3>1. UNCHANGED <<rows, uuids, session, answer, committed, raced>>
      BY <2>7 DEF Analyze
    <3>2. /\ DOMAIN job' = DOMAIN job /\ job # Idle
          /\ job'.payload = job.payload /\ job'.reference = job.reference
      BY <2>7 DEF Analyze, ComparedWasCommitted
    <3>3. ComparedWasCommitted' BY <3>1, <3>2 DEF ComparedWasCommitted
    <3> QED BY <2>5, <3>1, <3>3
  <2>8. ASSUME FinishCompare PROVE IInv'
    <3>1. UNCHANGED <<rows, uuids, session, committed, raced>> /\ job' = Idle
      BY <2>8 DEF FinishCompare, EndJob
    <3>2. job.reference \in committed
      BY <2>8 DEF FinishCompare, EndJob, ComparedWasCommitted
    <3>3. \/ answer' = answer
          \/ /\ answer'.uuid = job.reference.uuid /\ answer'.version = job.reference.version
             /\ Comparable(job.reference)
             /\ answer'.result = CompareFile(job.reference, answer'.quality, answer'.print,
                                             answer'.allowed)
      BY <2>8 DEF FinishCompare, NamedReference
    <3>4. ComparedWasCommitted' BY <3>1, <3>2, <3>3 DEF ComparedWasCommitted
    <3> QED BY <2>5, <3>1, <3>4
  <2>9. ASSUME FinishCreate PROVE IInv'
    <3>1. UNCHANGED <<session, raced, answer>> /\ job' = Idle
      BY <2>9 DEF FinishCreate, EndJob
    <3>2. CASE UNCHANGED <<rows, uuids, committed>>
      <4>1. ComparedWasCommitted' BY <3>1, <3>2 DEF ComparedWasCommitted
      <4> QED BY <2>5, <3>1, <3>2, <4>1
    <3>3. CASE \E draft : Insert(draft)
      <4>1. /\ UuidsGiven' /\ RowsAreLatest' /\ VersionNamesContent'
            /\ committed \subseteq committed'
        BY <3>1, <3>3, InsertKeepsRows
      <4> QED BY <3>1, <4>1 DEF ComparedWasCommitted
    <3> QED BY <2>9, <3>2, <3>3 DEF FinishCreate
  <2>10. CASE UNCHANGED vars
    BY <2>10 DEF vars, UuidsGiven, RowsAreLatest, VersionNamesContent, ComparedWasCommitted, Live
  <2> QED BY <2>1, <2>2, <2>3, <2>4, <2>6, <2>7, <2>8, <2>9, <2>10 DEF Next
<1> QED BY <1>1, <1>2, PTL DEF Spec

(* AnswerNamesWhatItCompared: whoever looks up the uuid and the version of an
   answer finds what the file was compared with, whatever clients did to the
   table since (jobs/reference_compare.py:45-137). *)
THEOREM AnswersNameTheirReference == Spec => []AnswerNamesWhatItCompared
<1>1. IInv => AnswerNamesWhatItCompared
  BY DEF IInv, ComparedWasCommitted, VersionNamesContent, AnswerNamesWhatItCompared
<1> QED BY <1>1, InvariantHolds, PTL

(* DeletedStaysDeleted: no step brings a deleted profile back
   (service.py:161-244). *)
THEOREM DeletionIsFinal == Spec => DeletedStaysDeleted
<1> DEFINE Step == \A id \in Ids : rows'[id] # NoRow =>
                     rows'[id].uuid \in {rows[i].uuid : i \in Live} \cup {uuids + 1}
<1>1. IInv /\ [Next]_vars => [Step]_vars
  <2> SUFFICES ASSUME IInv, Next, NEW id \in Ids, rows'[id] # NoRow
               PROVE  rows'[id].uuid \in {rows[i].uuid : i \in Live} \cup {uuids + 1}
    BY DEF vars
  <2> USE DEF IInv
  <2>1. CASE rows'[id] = rows[id]
    BY <2>1 DEF Live
  <2>2. ASSUME NEW draft, Insert(draft)
        PROVE  rows'[id] = rows[id] \/ rows'[id].uuid = uuids + 1
    <3>1. Over([uuid |-> uuids + 1, version |-> 1], draft).uuid = uuids + 1
      BY OverColumn
    <3> QED BY <2>2, <3>1 DEF Insert, UuidsGiven
  <2>3. ASSUME NEW s \in Sessions, CommitUpdate(s)
        PROVE  rows'[id] = rows[id] \/ (id \in Live /\ rows'[id].uuid = rows[id].uuid)
    <3> DEFINE plan == Planned(session[s].read, session[s].change)
    <3>1. "uuid" \notin DOMAIN plan
      BY <2>3, PlanColumns DEF CommitUpdate, UuidsGiven
    <3> HIDE DEF plan
    <3>2. \/ rows' = rows
          \/ rows' = [rows EXCEPT ![session[s].id] = Written(@, plan, session[s].read)]
      BY <2>3 DEF CommitUpdate, plan
    <3>3. CASE rows[id] = NoRow
      BY <3>2, <3>3 DEF Written, UuidsGiven
    <3>4. CASE rows[id] # NoRow
      <4>1. id \in Live BY <3>4 DEF Live
      <4>2. Over(plan, rows[id]).uuid = rows[id].uuid
        BY <3>1, <4>1, OverColumn DEF UuidsGiven
      <4>3. \/ rows'[id] = rows[id]
            \/ rows'[id] = Over(plan, rows[id])
        BY <3>2, <3>4 DEF Written, UuidsGiven
      <4> QED BY <4>1, <4>2, <4>3
    <3> QED BY <3>3, <3>4
  <2>4. ASSUME NEW s \in Sessions, CommitDelete(s) PROVE rows'[id] = rows[id]
    BY <2>4 DEF CommitDelete, UuidsGiven
  <2>5. rows' = rows \/ (\E draft : Insert(draft))
          \/ (\E s \in Sessions : CommitUpdate(s) \/ CommitDelete(s))
    BY DEF Next, CreateReference, UpdateReference, DeleteReference, Begin, StartCreate,
           StartCompare, StartJob, Analyze, FinishCompare, FinishCreate
  <2> QED BY <2>1, <2>2, <2>3, <2>4, <2>5 DEF Live
<1>2. IInv /\ [Next]_vars => [Step]_vars
  BY <1>1
<1> QED BY <1>2, InvariantHolds, PTL DEF Spec, DeletedStaysDeleted
-----------------------------------------------------------------------------
(* The shape of the rows. *)

\* IsRow, with the uuids given and the calls made as parameters.
RowBounded(r, given, called) ==
    /\ DOMAIN r = Columns
    /\ r.uuid \in 1 .. given
    /\ r.version \in 1 .. called + 1
    /\ Acceptable(r)

\* TypeOK strengthened: nobody has read a version above the number of calls, so that the
\* next version stays within it, and the worker runs a job a client submitted.
Typed ==
    /\ calls \in Nat
    /\ \A id \in Live : RowBounded(rows[id], uuids, calls)
    /\ \A i, j \in Live : i # j => rows[i].name # rows[j].name
    /\ \A s \in Sessions : session[s] # Idle =>
          /\ session[s].kind \in {"update", "delete"}
          /\ RowBounded(session[s].read, uuids, calls)
          /\ session[s].read.version <= calls
    /\ job # Idle =>
          /\ DOMAIN job = {"payload", "reference", "profile", "step", "found"}
          /\ job.payload \in Payloads
          /\ job.step \in 1 .. Len(Order) + 1
          /\ job.found \subseteq {Order[n] : n \in 1 .. job.step - 1}
          /\ job.reference = NoRow \/ RowBounded(job.reference, uuids, calls)

(* A row stays one while uuids are given and routes are called. *)
LEMMA RowStays ==
    ASSUME NEW u \in Nat, NEW v \in Nat, NEW c \in Nat, NEW d \in Nat, u <= v, c <= d,
           NEW r, RowBounded(r, u, c)
    PROVE  RowBounded(r, v, d)
<1>1. r.uuid \in 1 .. v /\ r.version \in 1 .. d + 1
  BY DEF RowBounded
<1> QED BY <1>1 DEF RowBounded

(* What is taken stays so when columns that are taken are set. *)
LEMMA AcceptableOver ==
    ASSUME NEW columns, NEW row, Acceptable(columns), Acceptable(row)
    PROVE  Acceptable(Over(columns, row))
<1> DEFINE new == Over(columns, row)
<1>1. \A c \in DOMAIN new : /\ c \in DOMAIN columns \cup DOMAIN row
                            /\ c \in DOMAIN columns => new[c] = columns[c]
                            /\ c \notin DOMAIN columns => new[c] = row[c] /\ c \in DOMAIN row
  BY DEF Over
<1> HIDE DEF new
<1>2. "enabled" \in DOMAIN new => new.enabled \in BOOLEAN
  BY <1>1 DEF Acceptable
<1>3. "score" \in DOMAIN new => new.score \in 0 .. 100 \cup {Unknown}
  BY <1>1 DEF Acceptable
<1>4. "quality" \in DOMAIN new => new.quality = NoQuality \/ new.quality.score \in Int \cup {Unknown}
  BY <1>1 DEF Acceptable
<1>5. Acceptable(new)
  BY <1>2, <1>3, <1>4 DEF Acceptable
<1> QED BY <1>5 DEF new

(* A new row is one, and has what its draft has. *)
LEMMA NewRow ==
    ASSUME NEW draft, DOMAIN draft = Columns \ {"uuid", "version"}, Acceptable(draft),
           NEW u \in Nat, NEW c \in Nat
    PROVE  /\ RowBounded(Over([uuid |-> u + 1, version |-> 1], draft), u + 1, c)
           /\ \A k \in DOMAIN draft : Over([uuid |-> u + 1, version |-> 1], draft)[k] = draft[k]
<1> DEFINE start == [uuid |-> u + 1, version |-> 1]
           new == Over(start, draft)
<1>1. DOMAIN start = {"uuid", "version"} /\ start["uuid"] = u + 1 /\ start["version"] = 1
  OBVIOUS
<1>2. Acceptable(start)
  BY <1>1 DEF Acceptable
<1> HIDE DEF start
<1>3. DOMAIN new = Columns /\ new["uuid"] = u + 1 /\ new["version"] = 1
  BY <1>1, OverColumn DEF Over, Columns
<1>4. \A k \in DOMAIN draft : new[k] = draft[k]
  BY <1>1, OverColumn
<1>5. Acceptable(new)
  BY <1>2, AcceptableOver
<1> HIDE DEF new
<1>6. RowBounded(new, u + 1, c)
  BY <1>3, <1>5 DEF RowBounded
<1> QED BY <1>4, <1>6 DEF start, new

(* A changed row is one, of version 2 or more; only a plan with a name renames it. *)
LEMMA ChangedRow ==
    ASSUME NEW change \in Changes, NEW u \in Nat, NEW c \in Nat,
           NEW read, RowBounded(read, u, c), read.version <= c, NEW row, RowBounded(row, u, c)
    PROVE  /\ RowBounded(Over(Planned(read, change), row), u, c)
           /\ Over(Planned(read, change), row).version >= 2
           /\ "name" \notin DOMAIN Planned(read, change) =>
                Over(Planned(read, change), row).name = row.name
           /\ "name" \in DOMAIN Planned(read, change) =>
                Over(Planned(read, change), row).name = Planned(read, change).name
<1> DEFINE changed == {k \in DOMAIN change : change[k] # read[k]}
           least == Max({read.version + 1, 2})
           set == [version |-> least]
           kept == [k \in changed |-> change[k]]
           plan == Planned(read, change)
           new == Over(plan, row)
<1>1. least \in 2 .. c + 1
  <2>1. read.version \in 1 .. c
    BY DEF RowBounded
  <2>2. \E x \in {read.version + 1, 2} : \A y \in {read.version + 1, 2} : x >= y
    BY <2>1
  <2> QED BY <2>1, <2>2 DEF Max
<1>2. DOMAIN set = {"version"} /\ set["version"] = least
  OBVIOUS
<1>3. /\ DOMAIN kept = changed /\ \A k \in changed : kept[k] = change[k]
      /\ changed \subseteq DOMAIN change
  OBVIOUS
<1>4. DOMAIN change \subseteq Columns \ {"uuid", "version"} /\ Acceptable(change)
  BY ChangeAssumption
<1>5. plan = Over(set, kept)
  BY DEF Planned
<1> HIDE DEF set, kept, least, plan
<1>6. Acceptable(set)
  BY <1>2 DEF Acceptable
<1>7. Acceptable(kept)
  <2> HIDE DEF changed
  <2> QED BY <1>3, <1>4 DEF Acceptable
<1> HIDE DEF changed
<1>8. /\ DOMAIN plan = {"version"} \cup changed /\ plan["version"] = least
      /\ "uuid" \notin DOMAIN plan /\ DOMAIN plan \subseteq Columns
  BY <1>2, <1>3, <1>4, <1>5, OverColumn DEF Over, Columns
<1>9. Acceptable(new)
  BY <1>5, <1>6, <1>7, AcceptableOver DEF RowBounded
<1>10. /\ DOMAIN new = Columns /\ new["uuid"] = row["uuid"] /\ new["version"] = least
       /\ "name" \notin DOMAIN plan => new["name"] = row["name"]
       /\ "name" \in DOMAIN plan => new["name"] = plan["name"]
  <2>1. DOMAIN row = Columns /\ {"uuid", "version", "name"} \subseteq Columns
    BY DEF RowBounded, Columns
  <2>2. DOMAIN new = Columns
    BY <1>8, <2>1 DEF Over
  <2> QED BY <1>8, <2>1, <2>2, OverColumn
<1> HIDE DEF new
<1>11. RowBounded(new, u, c)
  BY <1>1, <1>9, <1>10 DEF RowBounded
<1> QED BY <1>1, <1>10, <1>11 DEF new, plan

(* An insert keeps the shape of the rows and their names apart, *)
LEMMA InsertKeepsTypes ==
    ASSUME IInv, Typed, NEW draft, Insert(draft), DOMAIN draft = Columns \ {"uuid", "version"},
           Acceptable(draft), UNCHANGED session, calls' \in Nat, calls' >= calls,
           job' = job \/ job' = Idle
    PROVE  Typed'
<1> DEFINE new == Over([uuid |-> uuids + 1, version |-> 1], draft)
<1>1. /\ uuids \in Nat /\ uuids' = uuids + 1 /\ uuids' \in Nat /\ calls \in Nat /\ calls' \in Nat
      /\ uuids <= uuids' /\ calls <= calls'
  BY DEF Insert, IInv, UuidsGiven, Typed
<1>2. NextId \in Ids /\ rows' = [rows EXCEPT ![NextId] = new] /\ rows = [id \in Ids |-> rows[id]]
  BY DEF Insert, IInv, UuidsGiven
<1>3. RowBounded(new, uuids', calls') /\ new.name = draft.name
  <2>1. "name" \in DOMAIN draft
    BY DEF Columns
  <2> QED BY <1>1, <2>1, NewRow
<1>4. \A id \in Live : rows[id].name # draft.name
  <2>1. 0 \notin Live
    BY RouteAssumption DEF Live
  <2> QED BY <2>1 DEF Insert, NameTaken
<1> HIDE DEF new
<1>5. \A id \in Live' : \/ id = NextId /\ rows'[id] = new
                        \/ id # NextId /\ id \in Live /\ rows'[id] = rows[id]
  BY <1>2 DEF Live
<1>6. \A r : RowBounded(r, uuids, calls) => RowBounded(r, uuids', calls')
  BY <1>1, RowStays
<1>7. \A id \in Live' : RowBounded(rows'[id], uuids', calls')
  BY <1>3, <1>5, <1>6 DEF Typed
<1>8. \A i, j \in Live' : i # j => rows'[i].name # rows'[j].name
  BY <1>3, <1>4, <1>5 DEF Typed
<1>9. \A s \in Sessions : session'[s] # Idle =>
        /\ session'[s].kind \in {"update", "delete"}
        /\ RowBounded(session'[s].read, uuids', calls')
        /\ session'[s].read.version <= calls'
  <2> SUFFICES ASSUME NEW s \in Sessions, session[s] # Idle
               PROVE  /\ session[s].kind \in {"update", "delete"}
                      /\ RowBounded(session[s].read, uuids', calls')
                      /\ session[s].read.version <= calls'
    OBVIOUS
  <2>1. session[s].read.version \in Nat
    BY DEF IInv, UuidsGiven
  <2> QED BY <1>1, <1>6, <2>1 DEF Typed
<1>10. job' # Idle =>
          /\ DOMAIN job' = {"payload", "reference", "profile", "step", "found"}
          /\ job'.payload \in Payloads
          /\ job'.step \in 1 .. Len(Order) + 1
          /\ job'.found \subseteq {Order[n] : n \in 1 .. job'.step - 1}
          /\ job'.reference = NoRow \/ RowBounded(job'.reference, uuids', calls')
  <2> SUFFICES ASSUME job' # Idle, job' = job
               PROVE  /\ DOMAIN job = {"payload", "reference", "profile", "step", "found"}
                      /\ job.payload \in Payloads
                      /\ job.step \in 1 .. Len(Order) + 1
                      /\ job.found \subseteq {Order[n] : n \in 1 .. job.step - 1}
                      /\ job.reference = NoRow \/ RowBounded(job.reference, uuids', calls')
    OBVIOUS
  <2> QED BY <1>6 DEF Typed
<1> QED BY <1>1, <1>7, <1>8, <1>9, <1>10 DEF Typed

(* an update too, *)
LEMMA UpdateKeepsTypes ==
    ASSUME IInv, Typed, NEW s \in Sessions, CommitUpdate(s)
    PROVE  Typed'
<1> DEFINE id == session[s].id
           read == session[s].read
           plan == Planned(read, session[s].change)
           new == Over(plan, rows[id])
<1>1. UNCHANGED <<uuids, job, calls>> /\ session' = [session EXCEPT ![s] = Idle]
  BY DEF CommitUpdate, End
<1>2. \A t \in Sessions : session'[t] # Idle => session'[t] = session[t]
  BY <1>1
<1>3. /\ id \in Ids /\ session[s].change \in Changes /\ uuids \in Nat /\ calls \in Nat
      /\ rows = [i \in Ids |-> rows[i]]
      /\ RowBounded(read, uuids, calls) /\ read.version <= calls
  BY DEF CommitUpdate, IInv, UuidsGiven, Typed
<1>4. CASE UNCHANGED rows
  BY <1>1, <1>2, <1>4 DEF Typed, Live
<1>5. CASE /\ "name" \in DOMAIN plan => ~NameTaken(plan.name, id)
           /\ rows' = [rows EXCEPT ![id] = Written(@, plan, read)]
  <2>1. CASE rows[id] = NoRow
    <3> HIDE DEF plan
    <3>1. rows' = rows
      BY <1>3, <1>5, <2>1 DEF Written
    <3> QED BY <1>4, <3>1
  <2>2. CASE rows[id] # NoRow
    <3>1. id \in Live
      BY <1>3, <2>2 DEF Live
    <3>2. RowBounded(rows[id], uuids, calls)
      BY <3>1 DEF Typed
    <3>3. /\ RowBounded(new, uuids, calls)
          /\ "name" \notin DOMAIN plan => new.name = rows[id].name
          /\ "name" \in DOMAIN plan => new.name = plan.name
      BY <1>3, <3>2, ChangedRow
    <3> HIDE DEF plan
    <3>4. rows' = [rows EXCEPT ![id] = new]
      BY <1>3, <1>5, <2>2 DEF Written
    <3> HIDE DEF new, id
    <3>5. \A i \in Live' : i \in Live /\ (i # id => rows'[i] = rows[i]) /\ (i = id => rows'[i] = new)
      BY <1>3, <3>1, <3>4 DEF Live
    <3>6. \A i \in Live : i # id => rows[i].name # new.name
      <4>1. CASE "name" \in DOMAIN plan
        BY <1>5, <3>3, <4>1 DEF NameTaken
      <4>2. CASE "name" \notin DOMAIN plan
        BY <3>1, <3>3, <4>2 DEF Typed
      <4> QED BY <4>1, <4>2
    <3>7. \A i, j \in Live' : i # j => rows'[i].name # rows'[j].name
      BY <3>5, <3>6 DEF Typed
    <3>8. \A i \in Live' : RowBounded(rows'[i], uuids, calls)
      BY <3>3, <3>5 DEF Typed
    <3> QED BY <1>1, <1>2, <3>7, <3>8 DEF Typed
  <2> QED BY <2>1, <2>2
<1> QED BY <1>4, <1>5 DEF CommitUpdate

(* and so does every step. *)
LEMMA StepKeepsTypes ==
    ASSUME IInv, Typed, Next
    PROVE  Typed'
<1>1. ASSUME NEW draft \in Drafts, CreateReference(draft) PROVE Typed'
  <2>1. Insert(draft) /\ UNCHANGED <<session, job>> /\ calls' = calls + 1
    BY <1>1 DEF CreateReference, Call
  <2>2. calls' \in Nat /\ calls' >= calls
    BY <2>1 DEF Typed
  <2> QED BY <2>1, <2>2, DraftAssumption, InsertKeepsTypes
<1>2. ASSUME NEW s \in Sessions, NEW id \in Ids,
             UpdateReference(s, id) \/ DeleteReference(s, id)
      PROVE  Typed'
  <2>1. PICK kind \in {"update", "delete"}, change \in Changes \cup {<<>>} : Begin(s, kind, id, change)
    BY <1>2 DEF UpdateReference, DeleteReference
  <2>2. UNCHANGED <<rows, uuids, job>> /\ id \in Live /\ calls' = calls + 1 /\ calls \in Nat
    BY <2>1 DEF Begin, Live, Call, Typed
  <2>3. \A t \in Sessions : session'[t] = session[t] \/ session'[t] =
           [kind |-> kind, id |-> id, read |-> rows[id], change |-> change]
    BY <2>1 DEF Begin
  <2>4. uuids \in Nat /\ calls' \in Nat /\ calls <= calls' /\ calls + 1 = calls'
    BY <2>2 DEF IInv, UuidsGiven
  <2>5. \A r : RowBounded(r, uuids, calls) => RowBounded(r, uuids, calls') /\ r.version <= calls'
    <3> SUFFICES ASSUME NEW r, RowBounded(r, uuids, calls)
                 PROVE RowBounded(r, uuids, calls') /\ r.version <= calls'
      OBVIOUS
    <3>1. r.version \in 1 .. calls + 1
      BY DEF RowBounded
    <3> QED BY <2>2, <2>4, <3>1, RowStays
  <2>6. \A t \in Sessions : session'[t] # Idle =>
          /\ session'[t].kind \in {"update", "delete"}
          /\ RowBounded(session'[t].read, uuids, calls')
          /\ session'[t].read.version <= calls'
    BY <2>2, <2>3, <2>5 DEF Typed
  <2>7. \A i \in Live' : i \in Live /\ RowBounded(rows'[i], uuids, calls')
    BY <2>2, <2>5 DEF Typed, Live
  <2>8. \A i, j \in Live' : i # j => rows'[i].name # rows'[j].name
    BY <2>2, <2>7 DEF Typed
  <2> QED BY <2>2, <2>4, <2>5, <2>6, <2>7, <2>8 DEF Typed
<1>3. ASSUME NEW s \in Sessions, CommitDelete(s) PROVE Typed'
  <2>1. UNCHANGED <<job, uuids, calls>> BY <1>3 DEF CommitDelete, End
  <2>2. session[s].id \in Ids BY <1>3 DEF CommitDelete, IInv, UuidsGiven
  <2>3. \A t \in Sessions : session'[t] # Idle => session'[t] = session[t]
    BY <1>3 DEF CommitDelete, End
  <2>4. \A id \in Live' : id \in Live /\ rows'[id] = rows[id]
    BY <1>3, <2>2 DEF CommitDelete, Live, IInv, UuidsGiven
  <2> QED BY <2>1, <2>3, <2>4 DEF Typed
<1>4. ASSUME UNCHANGED <<rows, uuids, session, calls>>,
             job' # Idle =>
               /\ DOMAIN job' = {"payload", "reference", "profile", "step", "found"}
               /\ job'.payload \in Payloads
               /\ job'.step \in 1 .. Len(Order) + 1
               /\ job'.found \subseteq {Order[n] : n \in 1 .. job'.step - 1}
               /\ job'.reference = NoRow \/ RowBounded(job'.reference, uuids, calls)
      PROVE  Typed'
  BY <1>4 DEF Typed, Live
<1>5. ASSUME NEW payload \in Payloads, StartCreate(payload) \/ StartCompare(payload)
      PROVE  Typed'
  <2>1. UNCHANGED <<rows, uuids, session, calls>>
    BY <1>5 DEF StartCreate, StartCompare, StartJob
  <2>2. PICK reference, profile :
           /\ job' = [payload |-> payload, reference |-> reference, profile |-> profile,
                      step |-> 1, found |-> {}]
           /\ reference = NoRow \/ RowBounded(reference, uuids, calls)
    BY <1>5 DEF StartCreate, StartCompare, StartJob, Typed
  <2>3. /\ DOMAIN job' = {"payload", "reference", "profile", "step", "found"}
        /\ job'.payload = payload /\ job'.step = 1 /\ job'.found = {} /\ job'.reference = reference
    BY <2>2
  <2>4. 1 \in 1 .. Len(Order) + 1
    BY DEF Order
  <2> QED BY <1>4, <2>1, <2>2, <2>3, <2>4
<1>6. ASSUME NEW succeeds \in BOOLEAN, Analyze(succeeds) PROVE Typed'
  <2>1. UNCHANGED <<rows, uuids, session, calls>> /\ job # Idle /\ job.step <= Len(Order)
    BY <1>6 DEF Analyze
  <2>2. /\ DOMAIN job = {"payload", "reference", "profile", "step", "found"}
        /\ job.payload \in Payloads
        /\ job.step \in 1 .. Len(Order) + 1
        /\ job.found \subseteq {Order[n] : n \in 1 .. job.step - 1}
        /\ job.reference = NoRow \/ RowBounded(job.reference, uuids, calls)
    BY <2>1 DEF Typed
  <2>3. /\ DOMAIN job' = DOMAIN job
        /\ job'.payload = job.payload /\ job'.reference = job.reference
        /\ job'.step = job.step + 1
        /\ job'.found \subseteq job.found \cup {Order[job.step]}
    BY <1>6, <2>2 DEF Analyze
  <2>4. Len(Order) = 4
    BY DEF Order
  <2>5. job'.step \in 1 .. Len(Order) + 1
    BY <2>1, <2>2, <2>3, <2>4
  <2>6. job'.found \subseteq {Order[n] : n \in 1 .. job'.step - 1}
    <3>1. job.step \in 1 .. job'.step - 1 /\ \A n \in 1 .. job.step - 1 : n \in 1 .. job'.step - 1
      BY <2>2, <2>3, <2>4
    <3> HIDE DEF Order
    <3> QED BY <2>2, <2>3, <3>1
  <2> QED BY <1>4, <2>1, <2>2, <2>3, <2>5, <2>6
<1>7. ASSUME FinishCompare PROVE Typed'
  BY <1>4, <1>7 DEF FinishCompare, EndJob
<1>8. ASSUME FinishCreate PROVE Typed'
  <2>1. /\ job' = Idle /\ job # Idle /\ UNCHANGED <<session, calls>>
        /\ job.payload \in Payloads /\ job.payload.kind = "create"
    BY <1>8 DEF FinishCreate, EndJob, Typed
  <2>2. CASE UNCHANGED rows /\ UNCHANGED uuids
    BY <1>4, <2>1, <2>2
  <2>3. CASE ValidAnalysis(job.found)
    <3>1. PICK quality \in {FoundQuality(job.payload.file, job.found, job.profile)} :
             \/ UNCHANGED <<rows, uuids>>
             \/ Insert([name |-> job.payload.name, quality |-> quality,
                        print |-> FoundPrint(job.payload.file, job.found, job.payload.sampling),
                        score |-> IF quality = NoQuality THEN Unknown ELSE quality.score,
                        profile |-> job.profile, allowed |-> job.payload.allowed,
                        enabled |-> job.payload.enabled])
      BY <1>8, <2>3 DEF FinishCreate
    <3> DEFINE draft == [name |-> job.payload.name, quality |-> quality,
                         print |-> FoundPrint(job.payload.file, job.found, job.payload.sampling),
                         score |-> IF quality = NoQuality THEN Unknown ELSE quality.score,
                         profile |-> job.profile, allowed |-> job.payload.allowed,
                         enabled |-> job.payload.enabled]
    <3>2. quality.score \in 0 .. 100
      <4>1. PICK file : quality = Quality(file, job.profile)
        BY <2>3 DEF FoundQuality, ValidAnalysis
      <4>2. quality.score = Score(file)
        BY <4>1 DEF Quality
      <4> QED BY <4>2, DetailRange
    <3>3. /\ DOMAIN draft = {"name", "quality", "print", "score", "profile", "allowed", "enabled"}
          /\ draft["enabled"] \in BOOLEAN /\ draft["score"] \in 0 .. 100 \cup {Unknown}
          /\ draft["quality"].score \in Int
      BY <2>1, <3>2, PayloadAssumption
    <3>4. Insert(draft) => Typed'
      <4> HIDE DEF draft
      <4>1. DOMAIN draft = Columns \ {"uuid", "version"} /\ Acceptable(draft)
        BY <3>3 DEF Columns, Acceptable
      <4>2. calls' \in Nat /\ calls' >= calls
        BY <2>1 DEF Typed
      <4> QED BY <2>1, <4>1, <4>2, InsertKeepsTypes
    <3> QED BY <2>2, <3>1, <3>4
  <2> QED BY <1>8, <2>2, <2>3 DEF FinishCreate
<1> QED BY <1>1, <1>2, <1>3, <1>5, <1>6, <1>7, <1>8, UpdateKeepsTypes DEF Next

(* The shape of the state, with the strengthening, in every reachable state. *)
LEMMA TypesHold == Spec => []Typed
<1>1. Init => Typed
  BY RouteAssumption DEF Init, Typed, Live
<1>2. IInv /\ Typed /\ [Next]_vars => Typed'
  <2>1. CASE UNCHANGED vars
    BY <2>1 DEF vars, Typed, Live
  <2> QED BY <2>1, StepKeepsTypes
<1> QED BY <1>1, <1>2, InvariantHolds, PTL DEF Spec

(* TypeOK: rows keep their shape, versions grow with the calls alone, and no two rows share
   a name or a uuid (references/models.py). *)
THEOREM TypesAreKept == Spec => []TypeOK
<1>1. IInv /\ Typed => TypeOK
  BY DEF IInv, UuidsGiven, Typed, RowBounded, IsRow, TypeOK
<1> QED BY <1>1, InvariantHolds, TypesHold, PTL
-----------------------------------------------------------------------------
(* References made from files. *)

\* The results that are neither better nor worse.
Neither == {"equal", "unknown"}

(* A value is neither better nor worse than itself, *)
LEMMA SameValue ==
    /\ \A a \in Number : \A percent : CompareNumeric(a, a, percent) \in Neither
    /\ \A a, ranks : (\A w \in DOMAIN ranks : ranks[w] \in Int) => CompareRanked(a, a, ranks) \in Neither
    /\ \A a : CompareFeature(a, a) \in Neither /\ CompareScan(a, a) \in Neither
              /\ CompareAudio(a, a) \in Neither
<1>1. ASSUME NEW a \in Number, NEW percent PROVE CompareNumeric(a, a, percent) \in Neither
  <2>1. CASE a = Unknown
    BY <2>1 DEF CompareNumeric, Neither
  <2>2. CASE a # Unknown
    <3>1. a \in Nat /\ a - a = 0
      BY <2>2 DEF Number
    <3>2. ByDifference(0) = "equal"
      BY DEF ByDifference
    <3> DEFINE near == Magnitude(a - a) <= (percent * Magnitude(a)) \div 100
    <3>3. CompareNumeric(a, a, percent) = IF near THEN "equal" ELSE ByDifference(a - a)
      BY <2>2 DEF CompareNumeric
    <3> HIDE DEF near
    <3> QED BY <3>1, <3>2, <3>3 DEF Neither
  <2> QED BY <2>1, <2>2
<1>2. ASSUME NEW a, NEW ranks, \A w \in DOMAIN ranks : ranks[w] \in Int
      PROVE  CompareRanked(a, a, ranks) \in Neither
  <2>1. a \in DOMAIN ranks => ByDifference(ranks[a] - ranks[a]) = "equal"
    <3> SUFFICES ASSUME a \in DOMAIN ranks PROVE ByDifference(ranks[a] - ranks[a]) = "equal"
      OBVIOUS
    <3>1. ranks[a] - ranks[a] = 0
      BY <1>2
    <3> QED BY <3>1 DEF ByDifference
  <2> QED BY <2>1 DEF CompareRanked, Neither
<1>3. ASSUME NEW a
      PROVE  CompareFeature(a, a) \in Neither /\ CompareScan(a, a) \in Neither
              /\ CompareAudio(a, a) \in Neither
  <2>1. CompareFeature(a, a) \in Neither /\ CompareScan(a, a) \in Neither
    BY DEF CompareFeature, CompareScan, Neither
  <2>2. CompareAudio(a, a) \in Neither
    <3>1. CompareRanked(a.class, a.class, AudioRanks) \in Neither
      BY <1>2, RanksAreNumbers
    <3> QED BY <3>1 DEF CompareAudio, Neither
  <2> QED BY <2>1, <2>2
<1> QED BY <1>1, <1>2, <1>3

(* nor is a resolution, *)
LEMMA SameResolution ==
    ASSUME NEW q, NEW c, c.width = q.width, c.height = q.height, c.resolution = q.resolution,
           {q.width, q.height} \subseteq Number
    PROVE  CompareResolution(q, c) \in Neither
<1>1. CASE {Unknown, 0} \cap {q.width, q.height, c.width, c.height} # {}
  <2>1. CompareResolution(q, c) = CompareRanked(q.resolution, q.resolution, ResolutionRanks)
    BY <1>1 DEF CompareResolution
  <2> QED BY <2>1, SameValue, RanksAreNumbers
<1>2. CASE {Unknown, 0} \cap {q.width, q.height, c.width, c.height} = {}
  <2>1. CompareResolution(q, c) = CompareNumeric(q.width * q.height, q.width * q.height, 2)
    BY <1>2 DEF CompareResolution
  <2>2. q.width \in Nat /\ q.height \in Nat
    BY <1>2 DEF Number
  <2>3. q.width * q.height \in Number
    BY <2>2 DEF Number
  <2> QED BY <2>1, <2>3, SameValue
<1> QED BY <1>1, <1>2

(* nor is a fingerprint. *)
LEMMA SamePrint ==
    ASSUME NEW p \in Prints \cup {NoPrint}, ComparePrints(p, p).available
    PROVE  ComparePrints(p, p).verdict = "similar"
<1>1. CASE p = NoPrint
  BY <1>1 DEF ComparePrints
<1>2. CASE p \in Prints
  <2> DEFINE measured == Compared(p, p)
             metrics == Invalidated(measured)
             s == "sharpness"
  <2>1. ComparePrints(p, p) = Judged(measured, CompareHashes(p, p))
    BY <1>2, Picture DEF ComparePrints, Compared
  <2>2. ComparePrints(p, p).verdict = PrintVerdict(metrics, QualityEvents(measured))
    BY <2>1 DEF Judged
  <2>3. ASSUME NEW m \in Metrics PROVE measured[m].difference = 0 /\ measured[m].direction = 0
    <3>1. p.average[m] \in Nat
      BY <1>2, Picture
    <3>2. measured[m] = CompareMetric(m, p.average[m], p.average[m])
      BY DEF Compared
    <3>3. RatioOf(p.average[m], p.average[m]) = 0
      BY DEF RatioOf
    <3> DEFINE a == p.average[m]
               t == Tolerance[m]
    <3>4. 10000 * Magnitude(a - a) <= t * a
      <4>1. a - a = 0 /\ Magnitude(0) = 0
        BY <3>1 DEF Magnitude
      <4>2. t \in Nat
        BY DEF Tolerance, Metrics, Higher, Lower, Neutral
      <4>3. t * a >= 0
        <5> HIDE DEF t, a
        <5>1. a \in Nat
          BY <3>1 DEF a
        <5> QED BY <4>2, <5>1
      <4> HIDE DEF t, a
      <4> QED BY <4>1, <4>3
    <3> QED BY <3>1, <3>2, <3>3, <3>4, MetricIs
  <2>4. s \in Metrics /\ "contrast" \in Metrics
    BY DEF Metrics, Higher, Neutral
  <2> HIDE DEF measured
  <2>5. /\ ~StrongDetailLoss(measured)
        /\ ~AtMost(measured[s].difference, -6000)
    BY <2>3, <2>4 DEF StrongDetailLoss, AtMost
  <2>6. QualityEvents(measured) \cap {"severe_detail_loss", "blur_detected"} = {}
    <3> DEFINE strong == StrongDetailLoss(measured)
               severe == AtMost(measured[s].difference, -6000)
               blur == strong /\ \/ "better" \in {measured["noise"].status, measured["blockiness"].status}
                                 \/ AtMost(measured["contrast"].difference, -1200)
    <3>1. QualityEvents(measured) =
            {e \in {"detail_loss", "severe_detail_loss", "blur_detected"} :
               CASE e = "detail_loss" -> strong
                 [] e = "severe_detail_loss" -> severe
                 [] e = "blur_detected" -> blur}
      BY DEF QualityEvents
    <3>2. ~severe /\ ~blur
      BY <2>5
    <3> HIDE DEF strong, severe, blur
    <3>3. "severe_detail_loss" \notin QualityEvents(measured)
      BY <3>1, <3>2
    <3>4. "blur_detected" \notin QualityEvents(measured)
      BY <3>1, <3>2
    <3> QED BY <3>3, <3>4
  <2>7. \A m \in Metrics : metrics[m] = measured[m]
    BY <2>5 DEF Invalidated
  <2> HIDE DEF metrics
  <2>8. ~StrongDetailLoss(metrics)
    BY <2>4, <2>5, <2>7 DEF StrongDetailLoss
  <2>9. ASSUME NEW kept, \A m \in Metrics : kept[m] = 0
        PROVE  Weighted(kept) = 0 /\ WeightOf(kept) = 730
    <3>1. Metrics = {"sharpness", "noise", "blockiness", "clipped_white_ratio", "black_ratio",
                     "brightness", "contrast", "saturation"}
      BY DEF Metrics, Higher, Lower, Neutral
    <3>2. \A m \in Metrics : kept[m] \in Int \cup {Unknown} /\ kept[m] # Unknown
      BY <2>9, UnknownAssumption
    <3> DEFINE V(m) == IF kept[m] = Unknown THEN 0 ELSE kept[m]
               O(m) == IF kept[m] = Unknown THEN 0 ELSE 1
    <3>3. \A m \in Metrics : V(m) = 0 /\ O(m) = 1
      BY <2>9, <3>2
    <3>4. /\ Weighted(kept) = 250 * V("sharpness") + 100 * V("noise") + 125 * V("blockiness")
                                + 60 * V("clipped_white_ratio") + 35 * V("black_ratio")
                                + 35 * V("brightness") + 85 * V("contrast") + 40 * V("saturation")
          /\ WeightOf(kept) = 250 * O("sharpness") + 100 * O("noise") + 125 * O("blockiness")
                                + 60 * O("clipped_white_ratio") + 35 * O("black_ratio")
                                + 35 * O("brightness") + 85 * O("contrast") + 40 * O("saturation")
      BY <3>2, WeightedIs
    <3> HIDE DEF V, O
    <3> QED BY <3>1, <3>3, <3>4
  <2> DEFINE direction == [m \in Metrics |-> metrics[m].direction]
             opposite == [m \in Metrics |-> Opposite(metrics)[m].direction]
  <2>10. \A m \in Metrics : direction[m] = 0
    BY <2>3, <2>7
  <2>11. ASSUME NEW m \in Metrics PROVE opposite[m] = 0
    <3>1. "direction" \in DOMAIN metrics[m]
      <4>1. metrics[m] = CompareMetric(m, p.average[m], p.average[m])
        BY <2>7 DEF measured, Compared
      <4>2. \A a, b : "direction" \in DOMAIN CompareMetric(m, a, b)
        BY DEF CompareMetric
      <4> QED BY <4>1, <4>2
    <3>2. metrics[m].direction = 0
      BY <2>10
    <3>3. Opposite(metrics)[m] =
            [metrics[m] EXCEPT !.direction = IF metrics[m].direction = Unknown THEN metrics[m].direction
                                             ELSE -metrics[m].direction]
      BY DEF Opposite
    <3>4. Opposite(metrics)[m].direction = IF metrics[m].direction = Unknown
                                           THEN metrics[m].direction ELSE -metrics[m].direction
      BY <3>1, <3>3
    <3> QED BY <3>2, <3>4
  <2> HIDE DEF direction, opposite
  <2>12. /\ Weighted(direction) = 0 /\ WeightOf(direction) = 730
         /\ Weighted(opposite) = 0 /\ WeightOf(opposite) = 730
    BY <2>9, <2>10, <2>11
  <2>13. ~MeanExceeds(metrics, 750) /\ ~MeanExceeds(Opposite(metrics), 750)
    <3>1. /\ MeanExceeds(metrics, 750) <=> Weighted(direction) > 750 * WeightOf(direction)
          /\ MeanExceeds(Opposite(metrics), 750) <=> Weighted(opposite) > 750 * WeightOf(opposite)
      BY DEF MeanExceeds, direction, opposite
    <3> QED BY <2>12, <3>1
  <2>14. PrintVerdict(metrics, QualityEvents(measured)) = "similar"
    BY <2>6, <2>8, <2>13 DEF PrintVerdict
  <2> QED BY <2>2, <2>14
<1> QED BY <1>1, <1>2

\* A file of which this was found: the quality takes video, the fingerprint frames.
Measured(file, found, sampling) ==
    /\ file \in DOMAIN Files /\ sampling \in Samplings
    /\ "quality" \in found => HasVideo(file)
    /\ "quality_fingerprint" \in found => HasFrames(file, sampling)

\* Quality data and a fingerprint are those found of the file, under some profile.
HoldsFile(r, file, found, sampling) ==
    /\ \E profile \in DOMAIN QualityProfiles : r.quality = FoundQuality(file, found, profile)
    /\ r.print = FoundPrint(file, found, sampling)
    /\ r.allowed \in Int \cup {Unknown}

\* Until an update gives it version 2 a reference that was made holds what was found of its
\* file, and an answer names what was found of the file compared.
MadeAsSaid ==
    /\ \A m \in made : /\ m.uuid \in 1 .. uuids
                       /\ "quality" \in m.found /\ Measured(m.file, m.found, m.sampling)
    /\ \A m \in made, r \in committed : m.uuid = r.uuid /\ r.version = 1 =>
          HoldsFile(r, m.file, m.found, m.sampling) /\ r.score = r.quality.score
    /\ job # Idle => Measured(job.payload.file, job.found, job.payload.sampling)
    /\ answer # Idle =>
          /\ "quality" \in answer.found /\ Measured(answer.file, answer.found, answer.sampling)
          /\ HoldsFile(answer, answer.file, answer.found, answer.sampling)

(* The difference that is allowed is within 0 .. 100. *)
LEMMA AllowedIs ==
    ASSUME NEW supplied \in Int \cup {Unknown}, NEW setting \in Int \cup {Unknown}
    PROVE  AllowedDifference(supplied, setting) \in 0 .. 100
<1> DEFINE value == IF supplied # Unknown THEN supplied ELSE IF setting # Unknown THEN setting ELSE 5
<1>1. value \in Int
  OBVIOUS
<1>2. AllowedDifference(supplied, setting) = Max({0, Min({100, value})})
  BY DEF AllowedDifference
<1> HIDE DEF value
<1> QED BY <1>1, <1>2, Clamped

(* What the quality data of a file hold. *)
LEMMA QualityIs ==
    ASSUME NEW file, NEW found, NEW sampling, "quality" \in found, Measured(file, found, sampling), NEW profile
    PROVE  LET media == MediaOf(Probe(Files[file]),
                                IF "mediainfo" \in found THEN Summary(Files[file]) ELSE NoSummary)
               q == FoundQuality(file, found, profile)
           IN /\ media \in Media
              /\ q # NoQuality /\ q.score = Score(media)
              /\ q.width = media.width /\ q.height = media.height
              /\ q.resolution = ResolutionClass(media.height)
              /\ q.codec = media.codec /\ q.bitrate = media.bitrate /\ q.rate = media.rate
              /\ q.depth = media.depth /\ q.hdr = media.hdr /\ q.scan = media.scan
              /\ q.channels = media.channels /\ q.audio = AudioQuality(media.audio)
<1> DEFINE summary == IF "mediainfo" \in found THEN Summary(Files[file]) ELSE NoSummary
           media == MediaOf(Probe(Files[file]), summary)
<1>1. media \in Media
  <2>1. file \in WithVideo /\ summary \in {NoSummary, Summary(Files[file])}
    BY DEF Measured, WithVideo
  <2> HIDE DEF summary
  <2> QED BY <2>1 DEF Media
<1>2. FoundQuality(file, found, profile) = Quality(media, profile)
  BY DEF FoundQuality
<1> HIDE DEF media
<1>3. \A m, p : DOMAIN Quality(m, p) # {"none"} /\ DOMAIN NoQuality = {"none"}
  <2>1. \A m, p : "score" \in DOMAIN Quality(m, p)
    BY DEF Quality
  <2>2. DOMAIN NoQuality = {"none"}
    BY DEF NoQuality
  <2> QED BY <2>1, <2>2
<1> DEFINE q == Quality(media, profile)
<1>4. /\ q.score = Score(media)
      /\ q.width = media.width /\ q.height = media.height
      /\ q.resolution = ResolutionClass(media.height)
      /\ q.codec = media.codec /\ q.bitrate = media.bitrate /\ q.rate = media.rate
      /\ q.depth = media.depth /\ q.hdr = media.hdr /\ q.scan = media.scan
      /\ q.channels = media.channels /\ q.audio = AudioQuality(media.audio)
  BY DEF Quality
<1>5. q # NoQuality
  BY <1>3
<1> HIDE DEF q
<1> QED BY <1>1, <1>2, <1>4, <1>5 DEF media, q

(* The fingerprint a job finds is none or one of those compared. *)
LEMMA PrintIs ==
    ASSUME NEW file, NEW found, NEW sampling, Measured(file, found, sampling)
    PROVE  FoundPrint(file, found, sampling) \in Prints \cup {NoPrint}
<1>1. CASE "quality_fingerprint" \in found
  <2>1. Files[file].frames[sampling] \in {Files[f].frames[t] : f \in DOMAIN Files, t \in Samplings} \ {<<>>}
    BY <1>1 DEF Measured, HasFrames
  <2> QED BY <1>1, <2>1 DEF FoundPrint, Prints
<1> QED BY <1>1 DEF FoundPrint

(* Files with the same quality data are better or worse in no area but that of their pictures,
   and in none if these are similar. *)
LEMMA SameCategories ==
    ASSUME NEW q, NEW c, NEW visual,
           {q.width, q.height, q.bitrate, q.rate, q.depth, q.channels} \subseteq Number,
           c.width = q.width, c.height = q.height, c.resolution = q.resolution,
           c.codec = q.codec, c.bitrate = q.bitrate, c.rate = q.rate, c.depth = q.depth,
           c.hdr = q.hdr, c.scan = q.scan, c.channels = q.channels, c.audio = q.audio,
           NEW n \in DOMAIN Categories(q, c, visual),
           n # "visual_quality" \/ (visual.available => visual.verdict = "similar")
    PROVE  Categories(q, c, visual)[n] \notin {"better", "worse"}
<1> DEFINE extra == IF visual.available THEN [visual_quality |-> visual.verdict] ELSE <<>>
           areas == [resolution |-> CompareResolution(q, c),
                     video_codec |-> CompareRanked(q.codec, c.codec, CodecRanks),
                     video_bitrate |-> CompareNumeric(q.bitrate, c.bitrate, 5),
                     frame_rate |-> CompareNumeric(q.rate, c.rate, 2),
                     bit_depth |-> CompareNumeric(q.depth, c.depth, 0),
                     hdr |-> CompareFeature(q.hdr, c.hdr),
                     audio_channels |-> CompareNumeric(q.channels, c.channels, 0),
                     audio_quality |-> CompareAudio(q.audio, c.audio),
                     scan_type |-> CompareScan(q.scan, c.scan)]
<1>1. Categories(q, c, visual) = Over(extra, areas)
  BY DEF Categories
<1>2. /\ CompareResolution(q, c) \in Neither
      /\ CompareRanked(q.codec, c.codec, CodecRanks) \in Neither
      /\ CompareNumeric(q.bitrate, c.bitrate, 5) \in Neither
      /\ CompareNumeric(q.rate, c.rate, 2) \in Neither
      /\ CompareNumeric(q.depth, c.depth, 0) \in Neither
      /\ CompareFeature(q.hdr, c.hdr) \in Neither
      /\ CompareNumeric(q.channels, c.channels, 0) \in Neither
      /\ CompareAudio(q.audio, c.audio) \in Neither
      /\ CompareScan(q.scan, c.scan) \in Neither
  <2>1. CompareResolution(q, c) \in Neither
    BY SameResolution
  <2>2. CompareRanked(q.codec, c.codec, CodecRanks) \in Neither
    BY SameValue, RanksAreNumbers
  <2>3. /\ CompareNumeric(q.bitrate, c.bitrate, 5) \in Neither
        /\ CompareNumeric(q.rate, c.rate, 2) \in Neither
        /\ CompareNumeric(q.depth, c.depth, 0) \in Neither
        /\ CompareNumeric(q.channels, c.channels, 0) \in Neither
    BY SameValue
  <2>4. /\ CompareFeature(q.hdr, c.hdr) \in Neither
        /\ CompareAudio(q.audio, c.audio) \in Neither
        /\ CompareScan(q.scan, c.scan) \in Neither
    BY SameValue
  <2> QED BY <2>1, <2>2, <2>3, <2>4
<1>3. \A a \in DOMAIN areas : areas[a] \in Neither
  BY <1>2
<1>4. n \in DOMAIN extra => extra[n] = "similar"
  OBVIOUS
<1> HIDE DEF extra, areas
<1>5. Over(extra, areas)[n] \in Neither \cup {"similar"}
  BY <1>1, <1>3, <1>4, OverColumn DEF Over
<1> QED BY <1>1, <1>5 DEF Neither

(* A file is similar to a reference that holds what was found of it. *)
LEMMA OwnIsSimilar ==
    ASSUME NEW r, NEW a, NEW file, NEW found, NEW s, NEW t, "quality" \in found,
           Measured(file, found, s), HoldsFile(r, file, found, s), HoldsFile(a, file, found, t),
           r.score = r.quality.score
    PROVE  LET result == CompareFile(r, a.quality, a.print, a.allowed)
           IN /\ result.verdict = "similar"
              /\ result.summary.better \cup result.summary.worse
                   \subseteq IF s = t THEN {} ELSE {"visual_quality"}
<1> DEFINE visual == ComparePrints(r.print, a.print)
           categories == Categories(r.quality, a.quality, visual)
           difference == a.quality.score - ReferenceScore(r)
           allowed == AllowedDifference(a.allowed, r.allowed)
<1>1. PICK media \in Media :
        /\ r.quality.score = Score(media) /\ a.quality.score = Score(media)
        /\ r.quality.width = media.width /\ r.quality.height = media.height
        /\ r.quality.bitrate = media.bitrate /\ r.quality.rate = media.rate
        /\ r.quality.depth = media.depth /\ r.quality.channels = media.channels
        /\ a.quality.width = r.quality.width /\ a.quality.height = r.quality.height
        /\ a.quality.resolution = r.quality.resolution /\ a.quality.codec = r.quality.codec
        /\ a.quality.bitrate = r.quality.bitrate /\ a.quality.rate = r.quality.rate
        /\ a.quality.depth = r.quality.depth /\ a.quality.hdr = r.quality.hdr
        /\ a.quality.scan = r.quality.scan /\ a.quality.channels = r.quality.channels
        /\ a.quality.audio = r.quality.audio
  <2>1. PICK o \in DOMAIN QualityProfiles : r.quality = FoundQuality(file, found, o)
    BY DEF HoldsFile
  <2>2. PICK p \in DOMAIN QualityProfiles : a.quality = FoundQuality(file, found, p)
    BY DEF HoldsFile
  <2> QED BY <2>1, <2>2, QualityIs
<1>2. Score(media) \in 0 .. 100
  BY DetailRange
<1>3. ReferenceScore(r) = Score(media)
  <2>1. r.quality.score # Unknown
    BY <1>1, <1>2, UnknownAssumption
  <2> QED BY <1>1, <1>2, <2>1, Clamped DEF ReferenceScore
<1>4. difference = 0
  BY <1>1, <1>2, <1>3
<1>5. allowed \in 0 .. 100
  BY AllowedIs DEF HoldsFile
<1>6. s = t /\ visual.available => visual.verdict = "similar"
  <2> SUFFICES ASSUME s = t PROVE visual.available => visual.verdict = "similar"
    OBVIOUS
  <2>1. r.print = a.print /\ r.print \in Prints \cup {NoPrint}
    BY PrintIs DEF HoldsFile
  <2> QED BY <2>1, SamePrint
<1>7. {r.quality.width, r.quality.height, r.quality.bitrate, r.quality.rate, r.quality.depth,
       r.quality.channels} \subseteq Number
  BY <1>1, MediaAssumption
<1>8. CompareFile(r, a.quality, a.print, a.allowed) = Judgement(categories, difference, allowed)
  BY DEF CompareFile
<1> HIDE DEF visual, difference, allowed
<1>9. \A n \in DOMAIN categories :
        s = t \/ n # "visual_quality" => categories[n] \notin {"better", "worse"}
  BY <1>1, <1>6, <1>7, SameCategories
<1> HIDE DEF categories
<1>10. ScoreVerdict(difference, allowed) = "similar"
  BY <1>4, <1>5 DEF ScoreVerdict
<1>11. /\ CategorySummary(categories).better = {n \in DOMAIN categories : categories[n] \in {"better"}}
       /\ CategorySummary(categories).worse = {n \in DOMAIN categories : categories[n] \in {"worse"}}
  BY DEF CategorySummary
<1>12. CategorySummary(categories).better \cup CategorySummary(categories).worse
         \subseteq IF s = t THEN {} ELSE {"visual_quality"}
  BY <1>9, <1>11
<1>13. /\ Judgement(categories, difference, allowed).verdict = ScoreVerdict(difference, allowed)
       /\ Judgement(categories, difference, allowed).summary = CategorySummary(categories)
  BY DEF Judgement
<1> QED BY <1>8, <1>10, <1>12, <1>13

(* What MadeAsSaid says of references and answers is enough for what they are made for. *)
LEMMA MadeWorks ==
    ASSUME MadeAsSaid, ComparedWasCommitted
    PROVE  MadeReferenceWorks
<1>1. ASSUME NEW m \in made, NEW r \in committed, m.uuid = r.uuid, r.version = 1
      PROVE  /\ Comparable(r) /\ r.score = r.quality.score
             /\ r.quality.score = TotalOf(Details(
                  MediaOf(Probe(Files[m.file]), IF "mediainfo" \in m.found THEN Summary(Files[m.file])
                                                ELSE NoSummary)))
  <2>1. /\ "quality" \in m.found /\ Measured(m.file, m.found, m.sampling) /\ HoldsFile(r, m.file, m.found, m.sampling)
        /\ r.score = r.quality.score
    BY <1>1 DEF MadeAsSaid
  <2> DEFINE media == MediaOf(Probe(Files[m.file]), IF "mediainfo" \in m.found THEN Summary(Files[m.file])
                                                    ELSE NoSummary)
  <2>2. PICK o \in DOMAIN QualityProfiles : r.quality = FoundQuality(m.file, m.found, o)
    BY <2>1 DEF HoldsFile
  <2>3. r.quality # NoQuality /\ r.quality.score = Score(media)
    BY <2>1, <2>2, QualityIs
  <2>4. Score(media) = TotalOf(Details(media)) /\ Score(media) \in 0 .. 100
    BY DetailRange
  <2> HIDE DEF media
  <2>5. Comparable(r)
    BY <2>3, <2>4, UnknownAssumption DEF Comparable, HasScore
  <2> QED BY <2>1, <2>3, <2>4, <2>5 DEF media
<1>2. ASSUME answer # Idle, NEW m \in made, m.uuid = answer.uuid, answer.version = 1,
             m.file = answer.file, m.found = answer.found
      PROVE  /\ answer.result.verdict = "similar"
             /\ answer.result.summary.better \cup answer.result.summary.worse
                  \subseteq IF m.sampling = answer.sampling THEN {} ELSE {"visual_quality"}
  <2>1. PICK r \in committed :
          /\ r.uuid = answer.uuid /\ r.version = answer.version
          /\ answer.result = CompareFile(r, answer.quality, answer.print, answer.allowed)
    BY <1>2 DEF ComparedWasCommitted
  <2>2. /\ "quality" \in answer.found /\ Measured(answer.file, answer.found, m.sampling)
        /\ HoldsFile(r, answer.file, answer.found, m.sampling) /\ HoldsFile(answer, answer.file, answer.found, answer.sampling)
        /\ r.score = r.quality.score
    BY <1>2, <2>1 DEF MadeAsSaid
  <2> QED BY <2>1, <2>2, OwnIsSimilar
<1> QED BY <1>1, <1>2 DEF MadeReferenceWorks, JobMadeReferenceIsComparable, OwnFileIsSimilar

(* Quality data name one of the three profiles, whatever name was asked for. *)
LEMMA SomeProfile ==
    ASSUME NEW file, NEW found, NEW profile
    PROVE  \E p \in DOMAIN QualityProfiles :
             FoundQuality(file, found, profile) = FoundQuality(file, found, p)
<1> DEFINE p == ResolvedProfile(profile)
<1>1. p \in DOMAIN QualityProfiles
  BY DEF ResolvedProfile, QualityProfiles
<1>2. ResolvedProfile(p) = p
  BY <1>1 DEF ResolvedProfile
<1>3. \A media : Quality(media, profile) = Quality(media, p)
  <2>1. ProfileNamed(p) = ProfileNamed(profile)
    BY <1>2 DEF ProfileNamed
  <2> HIDE DEF p
  <2>2. \A n : QualityLevel(n, profile) = QualityLevel(n, p)
    BY <2>1 DEF QualityLevel
  <2>3. \A media : Problems(media, profile) = Problems(media, p)
    BY <2>1 DEF Problems
  <2>4. \A media : Recommendation(media, profile) = Recommendation(media, p)
    BY <2>2, <2>3 DEF Recommendation
  <2>5. ResolvedProfile(profile) = ResolvedProfile(p)
    BY <1>2 DEF p
  <2> QED BY <2>2, <2>4, <2>5 DEF Quality
<1> HIDE DEF p
<1>4. FoundQuality(file, found, profile) = FoundQuality(file, found, p)
  BY <1>3 DEF FoundQuality
<1> QED BY <1>1, <1>4

(* Every step keeps what was made as it was made, until an update gives it version 2. *)
LEMMA StepKeepsMade ==
    ASSUME IInv, Typed, MadeAsSaid, Next
    PROVE  MadeAsSaid'
<1>1. uuids \in Nat /\ \A r \in committed : r.uuid \in 1 .. uuids
  BY DEF IInv, UuidsGiven, RowsAreLatest
<1>2. ASSUME UNCHANGED <<made, job, answer>>, uuids' \in Nat, uuids' >= uuids,
             \A r \in committed' \ committed : r.version # 1 \/ r.uuid \notin 1 .. uuids
      PROVE  MadeAsSaid'
  <2>1. \A m \in made : m.uuid \in 1 .. uuids'
    BY <1>1, <1>2 DEF MadeAsSaid
  <2>2. \A m \in made, r \in committed' : m.uuid = r.uuid /\ r.version = 1 => r \in committed
    BY <1>2 DEF MadeAsSaid
  <2> QED BY <1>2, <2>1, <2>2 DEF MadeAsSaid
<1>3. ASSUME NEW draft \in Drafts, CreateReference(draft) PROVE MadeAsSaid'
  <2> DEFINE new == Over([uuid |-> uuids + 1, version |-> 1], draft)
  <2>1. Insert(draft) /\ UNCHANGED <<made, job, answer>>
    BY <1>3 DEF CreateReference
  <2>2. uuids' = uuids + 1 /\ committed' = committed \cup {new}
    BY <2>1 DEF Insert, IInv, UuidsGiven
  <2>3. new.uuid = uuids + 1
    BY OverColumn
  <2> HIDE DEF new
  <2> QED BY <1>1, <1>2, <2>1, <2>2, <2>3
<1>4. ASSUME NEW s \in Sessions, CommitUpdate(s) PROVE MadeAsSaid'
  <2> DEFINE id == session[s].id
             read == session[s].read
             plan == Planned(read, session[s].change)
             new == Over(plan, rows[id])
  <2>1. UNCHANGED <<uuids, made, job, answer>>
    BY <1>4 DEF CommitUpdate, End
  <2>2. /\ id \in Ids /\ session[s].change \in Changes /\ uuids \in Nat /\ calls \in Nat
        /\ rows = [i \in Ids |-> rows[i]]
        /\ RowBounded(read, uuids, calls) /\ read.version <= calls
    BY <1>4 DEF CommitUpdate, IInv, UuidsGiven, Typed
  <2>3. rows[id] # NoRow => new.version >= 2 /\ new.version \in Int
    <3> SUFFICES ASSUME rows[id] # NoRow PROVE new.version >= 2 /\ new.version \in Int
      OBVIOUS
    <3>1. RowBounded(rows[id], uuids, calls)
      BY <2>2 DEF Typed, Live
    <3>2. RowBounded(new, uuids, calls) /\ new.version >= 2
      BY <2>2, <3>1, ChangedRow
    <3> HIDE DEF new
    <3> QED BY <2>2, <3>2 DEF RowBounded
  <2>4. \/ committed' = committed
        \/ /\ rows' = [rows EXCEPT ![id] = Written(@, plan, read)]
           /\ committed' = committed \cup ({rows'[id]} \ {NoRow})
    BY <1>4 DEF CommitUpdate
  <2> HIDE DEF plan
  <2>5. committed' \subseteq committed \/ (rows[id] # NoRow /\ committed' \subseteq committed \cup {new})
    <3>1. CASE committed' = committed
      BY <3>1
    <3>2. CASE /\ rows' = [rows EXCEPT ![id] = Written(@, plan, read)]
               /\ committed' = committed \cup ({rows'[id]} \ {NoRow})
      <4>1. rows'[id] = Written(rows[id], plan, read)
        BY <2>2, <3>2
      <4>2. CASE rows[id] = NoRow
        BY <3>2, <4>1, <4>2 DEF Written
      <4>3. CASE rows[id] # NoRow
        BY <3>2, <4>1, <4>3 DEF Written
      <4> QED BY <4>2, <4>3
    <3> QED BY <2>4, <3>1, <3>2
  <2>6. \A r \in committed' \ committed : r.version # 1
    <3> HIDE DEF new, id
    <3> QED BY <2>3, <2>5
  <2> QED BY <1>1, <1>2, <2>1, <2>6
<1>5. ASSUME UNCHANGED <<uuids, committed, made>>,
             job' # Idle => Measured(job'.payload.file, job'.found, job'.payload.sampling),
             answer' # Idle =>
               /\ "quality" \in answer'.found /\ Measured(answer'.file, answer'.found, answer'.sampling)
               /\ HoldsFile(answer', answer'.file, answer'.found, answer'.sampling)
      PROVE  MadeAsSaid'
  BY <1>5 DEF MadeAsSaid
<1>6. ASSUME NEW payload \in Payloads, StartCreate(payload) \/ StartCompare(payload)
      PROVE  MadeAsSaid'
  <2>1. UNCHANGED <<uuids, committed, made, answer>>
    BY <1>6 DEF StartCreate, StartCompare, StartJob
  <2>2. job'.payload = payload /\ job'.found = {}
    BY <1>6 DEF StartCreate, StartCompare, StartJob
  <2>3. Measured(job'.payload.file, job'.found, job'.payload.sampling)
    BY <2>2, PayloadAssumption DEF Measured
  <2> QED BY <1>5, <2>1, <2>3 DEF MadeAsSaid
<1>7. ASSUME NEW succeeds \in BOOLEAN, Analyze(succeeds) PROVE MadeAsSaid'
  <2>1. UNCHANGED <<uuids, committed, made, answer>> /\ job # Idle
    BY <1>7 DEF Analyze
  <2>2. /\ DOMAIN job = {"payload", "reference", "profile", "step", "found"}
        /\ Measured(job.payload.file, job.found, job.payload.sampling)
    BY <2>1 DEF Typed, MadeAsSaid
  <2>3. /\ job'.payload = job.payload
        /\ \/ job'.found = job.found
           \/ /\ job'.found = job.found \cup {Order[job.step]}
              /\ MaySucceed(Order[job.step], job.payload.file, job.payload.sampling, job.found)
    BY <1>7, <2>2 DEF Analyze
  <2>4. Measured(job'.payload.file, job'.found, job'.payload.sampling)
    <3> HIDE DEF Order
    <3> QED BY <2>2, <2>3 DEF Measured, MaySucceed
  <2> QED BY <1>5, <2>1, <2>4 DEF MadeAsSaid
<1>8. ASSUME FinishCompare PROVE MadeAsSaid'
  <2>1. UNCHANGED <<uuids, committed, made>> /\ job # Idle /\ job' = Idle
    BY <1>8 DEF FinishCompare, EndJob
  <2>2. Measured(job.payload.file, job.found, job.payload.sampling) /\ job.payload \in Payloads
    BY <2>1 DEF Typed, MadeAsSaid
  <2>3. CASE answer' = answer
    BY <1>5, <2>1, <2>3 DEF MadeAsSaid
  <2>4. CASE ValidAnalysis(job.found) /\ Comparable(job.reference)
    <3>1. /\ answer'.file = job.payload.file /\ answer'.found = job.found
          /\ answer'.sampling = job.payload.sampling
          /\ answer'.quality = FoundQuality(job.payload.file, job.found, job.profile)
          /\ answer'.print = FoundPrint(job.payload.file, job.found, job.payload.sampling)
          /\ answer'.allowed = job.payload.allowed
      BY <1>8, <2>4 DEF FinishCompare
    <3>2. HoldsFile(answer', answer'.file, answer'.found, answer'.sampling)
      BY <2>2, <3>1, SomeProfile, PayloadAssumption DEF HoldsFile
    <3> QED BY <1>5, <2>1, <2>2, <2>4, <3>1, <3>2 DEF ValidAnalysis
  <2> QED BY <1>8, <2>3, <2>4 DEF FinishCompare
<1>9. ASSUME FinishCreate PROVE MadeAsSaid'
  <2>1. UNCHANGED answer /\ job # Idle /\ job' = Idle
    BY <1>9 DEF FinishCreate, EndJob
  <2>2. Measured(job.payload.file, job.found, job.payload.sampling) /\ job.payload \in Payloads
    BY <2>1 DEF Typed, MadeAsSaid
  <2>3. CASE UNCHANGED <<uuids, committed, made>>
    BY <1>5, <2>1, <2>3 DEF MadeAsSaid
  <2>4. CASE ValidAnalysis(job.found) /\ ~NameTaken(job.payload.name, 0)
    <3> DEFINE file == job.payload.file
               found == job.found
               sampling == job.payload.sampling
               quality == FoundQuality(file, found, job.profile)
               draft == [name |-> job.payload.name, quality |-> quality,
                         print |-> FoundPrint(file, found, sampling),
                         score |-> IF quality = NoQuality THEN Unknown ELSE quality.score,
                         profile |-> job.profile, allowed |-> job.payload.allowed,
                         enabled |-> job.payload.enabled]
               new == Over([uuid |-> uuids + 1, version |-> 1], draft)
    <3>1. Insert(draft) /\ made' = made \cup {[uuid |-> uuids', file |-> file, found |-> found,
                                                   sampling |-> sampling]}
      BY <1>9, <2>4 DEF FinishCreate
    <3>2. "quality" \in found /\ Measured(file, found, sampling)
      BY <2>2, <2>4 DEF ValidAnalysis
    <3>3. quality # NoQuality
      <4> HIDE DEF file, found, sampling
      <4> QED BY <3>2, QualityIs
    <3>4. /\ draft.quality = quality /\ draft.print = FoundPrint(file, found, sampling)
          /\ draft.score = quality.score /\ draft.allowed = job.payload.allowed
          /\ {"quality", "print", "score", "allowed"} \subseteq DOMAIN draft
      BY <3>3
    <3> HIDE DEF quality
    <3>5. quality \in {FoundQuality(file, found, p) : p \in DOMAIN QualityProfiles}
      BY SomeProfile DEF quality
    <3>6. job.payload.allowed \in Int \cup {Unknown}
      BY <2>2, PayloadAssumption
    <3> HIDE DEF draft, file, found, sampling
    <3>7. /\ new.quality = quality /\ new.print = FoundPrint(file, found, sampling)
          /\ new.score = quality.score /\ new.allowed = job.payload.allowed
          /\ new.uuid = uuids + 1
      BY <3>4, OverColumn
    <3>8. uuids' = uuids + 1 /\ committed' = committed \cup {new}
      BY <3>1 DEF Insert, IInv, UuidsGiven
    <3> HIDE DEF new
    <3>9. HoldsFile(new, file, found, sampling) /\ new.score = new.quality.score
      BY <3>5, <3>6, <3>7 DEF HoldsFile
    <3> DEFINE fresh == [uuid |-> uuids + 1, file |-> file, found |-> found, sampling |-> sampling]
    <3>10. made' = made \cup {fresh} /\ fresh.uuid = uuids + 1 /\ fresh.file = file
           /\ fresh.found = found /\ fresh.sampling = sampling
      BY <3>1, <3>8
    <3> HIDE DEF fresh
    <3>11. \A m \in made' : m.uuid \in 1 .. uuids' /\ "quality" \in m.found /\ Measured(m.file, m.found, m.sampling)
      <4>1. \A m \in made : m.uuid \in 1 .. uuids'
        BY <1>1, <3>8 DEF MadeAsSaid
      <4>2. uuids + 1 \in 1 .. uuids'
        BY <1>1, <3>8
      <4> QED BY <3>2, <3>10, <4>1, <4>2 DEF MadeAsSaid
    <3>12. ASSUME NEW m \in made', NEW r \in committed', m.uuid = r.uuid, r.version = 1
           PROVE  HoldsFile(r, m.file, m.found, m.sampling) /\ r.score = r.quality.score
      <4>1. \A n \in made : n.uuid \in 1 .. uuids
        BY DEF MadeAsSaid
      <4>2. uuids + 1 \notin 1 .. uuids
        BY <1>1
      <4>3. CASE m = fresh
        <5>1. r = new
          BY <1>1, <3>8, <3>10, <3>12, <4>2, <4>3
        <5> QED BY <3>9, <3>10, <4>3, <5>1
      <4>4. CASE m \in made
        <5>1. r \in committed
          BY <3>7, <3>8, <3>12, <4>1, <4>2, <4>4
        <5> QED BY <3>12, <4>4, <5>1 DEF MadeAsSaid
      <4> QED BY <3>10, <4>3, <4>4
    <3> QED BY <2>1, <3>11, <3>12 DEF MadeAsSaid
  <2> QED BY <1>9, <2>3, <2>4 DEF FinishCreate
<1>10. ASSUME NEW s \in Sessions, NEW id \in Ids,
              UpdateReference(s, id) \/ DeleteReference(s, id)
       PROVE  MadeAsSaid'
  <2>1. UNCHANGED <<uuids, committed, made, job, answer>>
    BY <1>10 DEF UpdateReference, DeleteReference, Begin
  <2> QED BY <1>1, <1>2, <2>1
<1>11. ASSUME NEW s \in Sessions, CommitDelete(s) PROVE MadeAsSaid'
  <2>1. UNCHANGED <<uuids, committed, made, job, answer>>
    BY <1>11 DEF CommitDelete, End
  <2> QED BY <1>1, <1>2, <2>1
<1> QED BY <1>3, <1>4, <1>6, <1>7, <1>8, <1>9, <1>10, <1>11 DEF Next

(* MadeReferenceWorks: a reference made by reference.create is comparable until it is edited,
   and its own file is similar to it, in every area but the pictures however these were
   sampled (jobs/reference_create.py:121-160, references/compare.py:46-196). *)
THEOREM MadeReferencesWork == Spec => []MadeReferenceWorks
<1>1. Init => MadeAsSaid
  BY DEF Init, MadeAsSaid
<1>2. IInv /\ Typed /\ MadeAsSaid /\ [Next]_vars => MadeAsSaid'
  <2>1. CASE UNCHANGED vars
    BY <2>1 DEF vars, MadeAsSaid
  <2> QED BY <2>1, StepKeepsMade
<1>3. IInv /\ MadeAsSaid => MadeReferenceWorks
  BY MadeWorks DEF IInv
<1> QED BY <1>1, <1>2, <1>3, InvariantHolds, TypesHold, PTL DEF Spec
=============================================================================
