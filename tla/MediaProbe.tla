----------------------------- MODULE MediaProbe -----------------------------
(***************************************************************************)
(* What the analyzers of the AI node that open a file report of it:        *)
(* ffprobe (app/analyzer/ffprobe.py), mediainfo (app/analyzer/mediainfo.py) *)
(* and the visual fingerprint (app/analyzer/quality_fingerprint.py).       *)
(*                                                                         *)
(* A file is [tracks, bitrate, frames]: its tracks in their order, the bit *)
(* rate of its container and, for each way of sampling them, the frames    *)
(* that can be read.  A track of kind "video" has a codec, width, height,  *)
(* rate, bitrate, the marks of its pixel format and of its dynamic range,  *)
(* and what mediainfo says of it: depth, scan and hdr.  One of kind        *)
(* "audio" has a codec, channels and the number of channels mediainfo says *)
(* it has.                                                                 *)
(***************************************************************************)
EXTENDS Integers, Sequences, FiniteSetsExt

CONSTANT Unknown        \* None
ASSUME UnknownAssumption == Unknown \notin Int
Number == Nat \cup {Unknown}

NoPrint == [none |-> TRUE]

\* The tracks of a kind, as both tools list them.
TracksOf(kind, file) == SelectSeq(file.tracks, LAMBDA t : t.kind = kind)

\* FFProbeAnalyzer: the streams and the bit rate of the container.
Probe(file) ==
    [video |-> TracksOf("video", file), audio |-> TracksOf("audio", file),
     bitrate |-> file.bitrate]

\* MediaInfoAnalyzer's summary: the first video and the first audio track.
NoSummary == [depth |-> Unknown, hdr |-> Unknown, scan |-> Unknown, channels |-> Unknown]
Summary(file) ==
    LET video == TracksOf("video", file)
        audio == TracksOf("audio", file)
    IN [NoSummary EXCEPT
          !.depth = IF video = <<>> THEN @ ELSE video[1].depth,
          !.hdr = IF video = <<>> THEN @ ELSE video[1].hdr,
          !.scan = IF video = <<>> THEN @ ELSE video[1].scan,
          !.channels = IF audio = <<>> THEN @ ELSE audio[1].said]

\* _detect_hdr: from the transfer curve and the side data of the stream.
DetectHdr(stream) == IF stream.dynamic \cap {"dovi", "pq", "hlg"} # {} THEN TRUE ELSE Unknown

\* _detect_bit_depth: from the name of the pixel format.
DetectBitDepth(pixels) ==
    CASE "p16" \in pixels -> 16
      [] "p16" \notin pixels /\ "p12" \in pixels -> 12
      [] pixels \cap {"p16", "p12"} = {} /\ "p10" \in pixels -> 10
      [] pixels \cap {"p16", "p12", "p10"} = {} /\ "p9" \in pixels -> 9
      [] pixels = {"yuv"} -> 8
      [] OTHER -> Unknown

\* What the quality analyzer takes from them: the first video stream, the bit
\* rate of the container when the stream names none, mediainfo's depth before
\* the one of the pixel format.
MediaOf(probe, summary) ==
    LET first == probe.video[1]
    IN [width |-> first.width, height |-> first.height, codec |-> first.codec, rate |-> first.rate,
        bitrate |-> IF first.bitrate = Unknown THEN probe.bitrate ELSE first.bitrate,
        depth |-> IF summary.depth = Unknown THEN DetectBitDepth(first.pixels) ELSE summary.depth,
        hdr |-> IF DetectHdr(first) = Unknown THEN summary.hdr ELSE TRUE,
        scan |-> summary.scan, channels |-> summary.channels, audio |-> probe.audio]

\* _aggregate of the frames that could be read: the mean of each metric over
\* the frames, and the hash of the middle one.
Aggregate(frames, metrics) ==
    LET mean(m) == MapThenSumSet(LAMBDA n : frames[n].value[m], DOMAIN frames) \div Len(frames)
        hashes == SelectSeq([n \in DOMAIN frames |-> frames[n].hash], LAMBDA h : h # Unknown)
    IN [average |-> [m \in metrics |-> mean(m)],
        hash |-> IF hashes = <<>> THEN Unknown ELSE hashes[Len(hashes) \div 2 + 1]]
=============================================================================
