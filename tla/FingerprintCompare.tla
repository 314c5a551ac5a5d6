------------------------- MODULE FingerprintCompare -------------------------
(***************************************************************************)
(* The comparison of two visual fingerprints                               *)
(* (app/references/fingerprint_compare.py).  A fingerprint gives the       *)
(* average of each metric, or Unknown, and a hash of a picture.  Ratios    *)
(* are hundredths of a percent: the code rounds them to two decimals.      *)
(***************************************************************************)
EXTENDS MediaProbe

CONSTANT HashSimilarity     \* of two hashes: the share of equal bits, or Unknown

\* METRICS, the tolerances in hundredths of a percent and the weights in hundredths.
Higher == {"sharpness"}
Lower == {"noise", "blockiness", "clipped_white_ratio"}
Neutral == {"black_ratio", "brightness", "contrast", "saturation"}
Metrics == Higher \cup Lower \cup Neutral
Tolerance == [sharpness |-> 1000, noise |-> 1500, blockiness |-> 1200, clipped_white_ratio |-> 2000,
              black_ratio |-> 2000, brightness |-> 1000, contrast |-> 1000, saturation |-> 1200]
Weight == [sharpness |-> 250, noise |-> 100, blockiness |-> 125, clipped_white_ratio |-> 60,
           black_ratio |-> 35, brightness |-> 35, contrast |-> 85, saturation |-> 40]

Magnitude(n) == IF n < 0 THEN -n ELSE n
Bounded(n) == Max({-10000, Min({10000, n})})

\* The difference of b from a in units of a; of a reference of 0, whose
\* denominator is a millionth, a great one.
RatioOf(a, b) ==
    IF a = b THEN 0
      ELSE IF a = 0 THEN 1000000 * (b - a)
      ELSE LET n == 10000 * Magnitude(b - a)
                      rounded == (2 * n + a) \div (2 * a)
                  IN IF b < a THEN -rounded ELSE rounded

\* _compare_metric: what a value is to its reference.  signed is the ratio in
\* the direction of improvement; a neutral metric has none.
CompareMetric(m, a, b) ==
    IF Unknown \in {a, b}
    THEN [status |-> "unknown", difference |-> Unknown, similarity |-> Unknown, direction |-> Unknown]
    ELSE LET ratio  == RatioOf(a, b)
             signed == IF m \in Lower THEN -ratio ELSE ratio
             near   == 10000 * Magnitude(b - a) <= Tolerance[m] * a
         IN [difference |-> ratio,
             similarity |-> Max({0, 10000 - Magnitude(ratio)}),
             status    |-> IF near THEN "equal"
                             ELSE IF m \in Neutral THEN "different"
                             ELSE IF signed > 0 THEN "better" ELSE "worse",
             direction |-> IF near THEN 0
                             ELSE IF m \in Neutral THEN Unknown
                             ELSE Bounded(signed)]

AtMost(value, limit) == value # Unknown /\ value <= limit

StrongDetailLoss(metrics) == AtMost(metrics["sharpness"].difference, -2500)

\* The events of _apply_context_rules, read before it changes any metric.
QualityEvents(metrics) ==
    LET strong == StrongDetailLoss(metrics)
        blur == strong /\ \/ "better" \in {metrics["noise"].status, metrics["blockiness"].status}
                          \/ AtMost(metrics["contrast"].difference, -1200)
    IN {e \in {"detail_loss", "severe_detail_loss", "blur_detected"} :
          CASE e = "detail_loss" -> strong
            [] e = "severe_detail_loss" -> AtMost(metrics["sharpness"].difference, -6000)
            [] e = "blur_detected" -> blur}

\* A slip: less noise counts, whatever became of the details.
NothingInvalidated(metrics) == metrics

\* What blurring improves is not counted as improvement.
Invalidated(metrics) ==
    [m \in Metrics |->
       IF StrongDetailLoss(metrics) /\ m \in Lower /\ metrics[m].status = "better"
       THEN [metrics[m] EXCEPT !.status = "context_neutral", !.direction = 0]
       ELSE metrics[m]]

\* The weighted sum over those metrics that have a value.
Weighted(value) ==
    LET part(m) == IF value[m] = Unknown THEN 0 ELSE value[m] * Weight[m]
    IN part("sharpness") + part("noise") + part("blockiness") + part("clipped_white_ratio")
         + part("black_ratio") + part("brightness") + part("contrast") + part("saturation")

\* The weights of those that have one.
WeightOf(value) == Weighted([m \in Metrics |-> IF value[m] = Unknown THEN Unknown ELSE 1])

\* The weighted mean of the directions exceeds n: without a division.
MeanExceeds(metrics, n) ==
    LET direction == [m \in Metrics |-> metrics[m].direction]
    IN Weighted(direction) > n * WeightOf(direction)
Opposite(metrics) ==
    [m \in Metrics |-> [metrics[m] EXCEPT !.direction = IF @ = Unknown THEN @ ELSE -@]]

\* _verdict.
PrintVerdict(metrics, events) ==
    IF events \cap {"severe_detail_loss", "blur_detected"} # {} THEN "worse"
      ELSE IF StrongDetailLoss(metrics) THEN "worse"
      ELSE IF MeanExceeds(metrics, 750) THEN "better"
      ELSE IF MeanExceeds(Opposite(metrics), 750) THEN "worse"
      ELSE "similar"

\* _overall_similarity, in hundredths of a percent: nine tenths metrics, one
\* tenth hash.
OverallSimilarity(metrics, hash) ==
    LET similarity == [m \in Metrics |-> metrics[m].similarity]
        mean == IF WeightOf(similarity) = 0 THEN Unknown
                ELSE Weighted(similarity) \div WeightOf(similarity)
    IN IF mean = Unknown THEN hash
         ELSE IF hash = Unknown THEN mean
         ELSE (9 * mean + hash) \div 10

Judged(measured, hash) ==
    LET metrics == Invalidated(measured)
        events == QualityEvents(measured)
        known == {m \in Metrics : measured[m].status # "unknown"}
    IN [available |-> known # {}, verdict |-> PrintVerdict(metrics, events), events |-> events,
        status |-> [m \in Metrics |-> metrics[m].status],
        similarity |-> OverallSimilarity(metrics, hash)]

CompareHashes(reference, candidate) == HashSimilarity[<<reference.hash, candidate.hash>>]

\* compare().
ComparePrints(reference, candidate) ==
    IF NoPrint \in {reference, candidate}
    THEN [available |-> FALSE, verdict |-> "unknown", events |-> {},
          status |-> [m \in Metrics |-> "unknown"], similarity |-> Unknown]
    ELSE Judged([m \in Metrics |-> CompareMetric(m, reference.average[m], candidate.average[m])],
                CompareHashes(reference, candidate))
=============================================================================
