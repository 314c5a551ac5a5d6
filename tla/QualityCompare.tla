--------------------------- MODULE QualityCompare ---------------------------
(***************************************************************************)
(* The comparison of a file with a reference profile                       *)
(* (app/references/compare.py): the verdict on the scores, nine categories *)
(* and the verdict on the fingerprints as a tenth.                         *)
(***************************************************************************)
EXTENDS MediaQuality, FingerprintCompare

NoQuality == [none |-> TRUE]

\* A record with some of its fields set.
Over(fields, record) ==
    [f \in DOMAIN fields \cup DOMAIN record |-> IF f \in DOMAIN fields THEN fields[f] ELSE record[f]]

ResolutionRanks ==
    [label \in {"low_resolution", "sd", "hd", "full_hd", "fhd", "qhd", "uhd", "4k", "8k"} |->
       CASE label = "low_resolution" -> 0 [] label = "sd" -> 1 [] label = "hd" -> 2
         [] label \in {"full_hd", "fhd"} -> 3 [] label = "qhd" -> 4
         [] label \in {"uhd", "4k"} -> 5 [] label = "8k" -> 6]
CodecRanks == [mpeg2 |-> 1, mpeg4 |-> 2, xvid |-> 2, h263 |-> 2, h264 |-> 3, avc |-> 3, vp8 |-> 3,
               vp9 |-> 4, h265 |-> 4, hevc |-> 4, av1 |-> 5]
AudioRanks == [unknown |-> 0, low |-> 1, standard |-> 2, good |-> 3, high |-> 4, lossless |-> 5]

ByDifference(difference) ==
    CASE difference = 0 -> "equal" [] difference > 0 -> "better" [] OTHER -> "worse"

\* A slip: a value like the reference's counts as better.
CompareNumericStrict(a, b, percent) ==
    IF Unknown \in {a, b} THEN "unknown"
      ELSE IF b >= a THEN "better"
      ELSE "worse"

\* _compare_numeric, the tolerance in percent of the reference.
CompareNumeric(a, b, percent) ==
    IF Unknown \in {a, b} THEN "unknown"
      ELSE IF Magnitude(b - a) <= (percent * Magnitude(a)) \div 100 THEN "equal"
      ELSE ByDifference(b - a)

\* _compare_ranked: words outside of the table are equal or different.
CompareRanked(a, b, ranks) ==
    IF Unknown \in {a, b} THEN "unknown"
      ELSE IF {a, b} \subseteq DOMAIN ranks THEN ByDifference(ranks[b] - ranks[a])
      ELSE IF a = b THEN "equal"
      ELSE "different"

\* _compare_resolution: by pixels where both sides have them.
CompareResolution(q, c) ==
    IF {Unknown, 0} \cap {q.width, q.height, c.width, c.height} # {}
    THEN CompareRanked(q.resolution, c.resolution, ResolutionRanks)
    ELSE CompareNumeric(q.width * q.height, c.width * c.height, 2)

\* _compare_boolean_feature: an unknown value is not a feature, but not its
\* absence either.
CompareFeature(a, b) ==
    IF a = b THEN "equal"
      ELSE IF b = TRUE THEN "better"
      ELSE IF a = TRUE THEN "worse"
      ELSE "unknown"

\* _compare_scan_type.
CompareScan(a, b) ==
    LET interlaced == {"interlaced", "interlaced_tff", "interlaced_bff"}
    IN IF Unknown \in {a, b} THEN "unknown"
         ELSE IF a = b THEN "equal"
         ELSE IF b = "progressive" /\ a \in interlaced THEN "better"
         ELSE IF a = "progressive" /\ b \in interlaced THEN "worse"
         ELSE "different"

\* An audio label is in the table only without "_surround".
CompareAudio(a, b) ==
    IF ~a.surround /\ ~b.surround THEN CompareRanked(a.class, b.class, AudioRanks)
    ELSE IF a = b THEN "equal" ELSE "different"

Categories(q, c, visual) ==
    Over(IF visual.available THEN [visual_quality |-> visual.verdict] ELSE <<>>,
         [resolution |-> CompareResolution(q, c),
          video_codec |-> CompareRanked(q.codec, c.codec, CodecRanks),
          video_bitrate |-> CompareNumeric(q.bitrate, c.bitrate, 5),
          frame_rate |-> CompareNumeric(q.rate, c.rate, 2),
          bit_depth |-> CompareNumeric(q.depth, c.depth, 0),
          hdr |-> CompareFeature(q.hdr, c.hdr),
          audio_channels |-> CompareNumeric(q.channels, c.channels, 0),
          audio_quality |-> CompareAudio(q.audio, c.audio),
          scan_type |-> CompareScan(q.scan, c.scan)])

\* _verdict.
ScoreVerdict(difference, allowed) ==
    CASE difference > allowed -> "better"
      [] difference < -allowed -> "worse"
      [] OTHER -> "similar"

\* _allowed_difference: what the job asks for, else what the profile says, else 5.
AllowedDifference(supplied, setting) ==
    LET value == IF supplied # Unknown THEN supplied
                   ELSE IF setting # Unknown THEN setting
                   ELSE 5
    IN Max({0, Min({100, value})})

\* _score: the one in the quality data of a reference, else the column's.
HasScore(reference) == {reference.quality.score, reference.score} # {Unknown}
ReferenceScore(reference) ==
    LET value == IF reference.quality.score # Unknown THEN reference.quality.score
                 ELSE reference.score
    IN Max({0, Min({100, value})})

\* compare() refuses a reference without quality data or without a score.
Comparable(reference) == reference.quality # NoQuality /\ HasScore(reference)

\* _category_summary: what is similar is in none of its lists.
CategorySummary(categories) ==
    LET with(results) == {n \in DOMAIN categories : categories[n] \in results}
    IN [better |-> with({"better"}), worse |-> with({"worse"}), equal |-> with({"equal"}),
        unknown |-> with({"unknown", "different"})]

\* _recommendation, each sentence named by what it says.
CompareRecommendation(verdict, difference, summary) ==
    CASE verdict = "better" -> {"better"} \cup summary.better
      [] verdict = "worse" -> {"replace"} \cup summary.worse
      [] OTHER -> {IF difference = 0 THEN "same" ELSE "about_equal"}
                    \cup IF summary.worse # {} /\ summary.better # {} THEN {"but_areas_differ"} ELSE {}

Judgement(categories, difference, allowed) ==
    LET verdict == ScoreVerdict(difference, allowed)
        summary == CategorySummary(categories)
    IN [verdict |-> verdict, difference |-> difference, categories |-> categories,
        summary |-> summary,
        recommendation |-> CompareRecommendation(verdict, difference, summary)]

\* compare(): a reference profile, and the quality data and the fingerprint of a file.
CompareFile(reference, quality, print, supplied) ==
    Judgement(Categories(reference.quality, quality, ComparePrints(reference.print, print)),
              quality.score - ReferenceScore(reference),
              AllowedDifference(supplied, reference.allowed))
=============================================================================
