---------------------------- MODULE MCReferences ----------------------------
(* Two clients beside the job worker, a table of two rows and eight files.  *)
EXTENDS References, TLC

CONSTANTS s1, s2
Symmetry == Permutations({s1, s2})

Video(codec, width, height, rate, bitrate, pixels, dynamic, depth, scan) ==
    [kind |-> "video", codec |-> codec, width |-> width, height |-> height, rate |-> rate,
     bitrate |-> bitrate, pixels |-> pixels, dynamic |-> dynamic, depth |-> depth, scan |-> scan,
     hdr |-> IF dynamic = {} THEN Unknown ELSE TRUE]
Audio(codec, channels) ==
    [kind |-> "audio", codec |-> codec, channels |-> channels, said |-> channels]

\* A frame: sharpness, noise and blockiness vary, and whether there is clipped white.
Frame(sharpness, noise, blockiness, white, contrast, hash) ==
    [value |-> [sharpness |-> sharpness, noise |-> noise, blockiness |-> blockiness,
                clipped_white_ratio |-> white, black_ratio |-> 50, brightness |-> 900,
                contrast |-> contrast, saturation |-> 700],
     hash |-> hash]

Plain == Video("h264", 1920, 1080, 25, 8000, {"yuv"}, {}, 8, "progressive")
Sharp == Frame(4000, 300, 500, 10, 500, "h1")

MCSamplings == {"eight", "three"}
Pictures(eight, three) == [eight |-> eight, three |-> three]

MCFiles ==
    [plain  |-> [tracks |-> <<Plain, Audio("ac3", 6)>>, bitrate |-> 9000,
                 frames |-> Pictures(<<Sharp>>, <<Frame(2900, 200, 300, 0, 480, "h2")>>)],
     near   |-> [tracks |-> <<[Plain EXCEPT !.bitrate = 8200], Audio("ac3", 6)>>,
                 bitrate |-> 9200,
                 frames |-> Pictures(<<Frame(3800, 310, 510, 10, 500, "h1")>>, <<Frame(3800, 310, 510, 10, 500, "h1")>>)],
     soft   |-> [tracks |-> <<Plain, Audio("aac", 2)>>, bitrate |-> 9000,
                 frames |-> Pictures(<<Frame(2900, 200, 300, 0, 480, "h2"), Frame(2900, 200, 300, 0, 480, Unknown)>>,
                                     <<Frame(2900, 200, 300, 0, 480, Unknown)>>)],
     best   |-> [tracks |-> <<Video("av1", 7680, 4320, 50, 40000, {"yuv", "p10"}, {"pq"}, 12,
                                    "progressive"), Audio("aac", 2), Audio("truehd", 8)>>,
                 bitrate |-> 45000,
                 frames |-> Pictures(<<Frame(8000, 150, 200, 10, 500, "h1")>>, <<>>)],
     old    |-> [tracks |-> <<Video("mpeg4", 720, 576, 25, Unknown, {"yuv"}, {}, Unknown, "interlaced"),
                              Audio("mp3", 2)>>,
                 bitrate |-> 1000, frames |-> Pictures(<<>>, <<>>)],
     middle |-> [tracks |-> <<Audio("aac", 2),
                              Video("h264", 1280, 720, 25, 900, {"yuv"}, {}, 8, Unknown)>>,
                 bitrate |-> 1100,
                 frames |-> Pictures(<<Frame(1000, 900, 1500, 200, 400, "h2")>>, <<Frame(1000, 900, 1500, 200, 400, "h2")>>)],
     broken |-> [tracks |-> <<Video("mjpeg", Unknown, Unknown, Unknown, Unknown, {}, {}, Unknown, Unknown)>>,
                 bitrate |-> Unknown, frames |-> Pictures(<<>>, <<>>)],
     sound  |-> [tracks |-> <<Audio("flac", 2)>>, bitrate |-> 700, frames |-> Pictures(<<>>, <<>>)]]

MCFrames ==
    {Frame(sharpness, noise, blockiness, white, 500, "h1") :
       sharpness \in {2000, 2200, 2700, 4000}, noise \in {100, 300, 340}, blockiness \in {250, 500},
       white \in {0, 10}}

Hashes == {"h1", "h2", Unknown}
MCHashSimilarity ==
    [h \in Hashes \X Hashes |-> IF Unknown \in {h[1], h[2]} THEN Unknown
                                ELSE IF h[1] = h[2] THEN 10000 ELSE 5000]

MCIds == 1 .. 2

QualityOf(f) == Quality(MediaOf(Probe(MCFiles[f]), Summary(MCFiles[f])), "balanced")

\* A reference with the data of a file, whose score is in them alone, and one
\* of a score alone.
MCDrafts ==
    {[name |-> "a", quality |-> NoQuality, print |-> NoPrint, score |-> 50, profile |-> Unknown,
      allowed |-> Unknown, enabled |-> TRUE],
     [name |-> "c", quality |-> QualityOf("near"), print |-> NoPrint, score |-> Unknown,
      profile |-> "archive", allowed |-> 0, enabled |-> TRUE]}

MCChanges ==
    {[quality |-> QualityOf("middle"), score |-> 60],
     [print |-> Aggregate(MCFiles["soft"].frames["eight"], Metrics), name |-> "a"],
     [enabled |-> FALSE]}

Compare(reference, file, profile, allowed, sampling) ==
    [kind |-> "compare", reference |-> reference, file |-> file, profile |-> profile,
     allowed |-> allowed, sampling |-> sampling]
Create(name, file, profile) ==
    [kind |-> "create", name |-> name, file |-> file, profile |-> profile, allowed |-> Unknown,
     enabled |-> TRUE, sampling |-> "eight"]

MCPayloads ==
    {Create("a", "plain", Unknown),
     Compare(1, "plain", Unknown, 0, "eight"), Compare(1, "plain", "archive", Unknown, "three"),
     Compare(2, "soft", "archive", Unknown, "eight")}
=============================================================================
