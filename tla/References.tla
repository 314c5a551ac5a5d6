----------------------------- MODULE References -----------------------------
(***************************************************************************)
(* The reference profiles of the AI node: the service that stores them     *)
(* (app/references/service.py) behind its HTTP routes                      *)
(* (app/api/references.py), and the two jobs that make one from a file and *)
(* compare a file with one (app/jobs/reference_create.py,                  *)
(* app/jobs/reference_compare.py) through the analyzer pipeline            *)
(* (app/analyzer/manager.py).                                              *)
(*                                                                         *)
(* Routes run in threads, each with a session of its own that reads a row  *)
(* and writes it later; the one job worker runs beside them.  SQLite gives *)
(* a new row the highest id plus one.  The text of a file is that of one   *)
(* file throughout a job.  Of the options of a job's payload the pipeline  *)
(* reads the number of pictures and their width: together the sampling.    *)
(***************************************************************************)
EXTENDS QualityCompare

CONSTANTS
    Files,          \* name |-> what the analyzers can find in the file
    Samplings,      \* how the fingerprint takes its pictures: their number and their width
    Frames,         \* pictures to compare beside theirs
    Ids,            \* 1 .. the most rows at a time
    Drafts,         \* the profiles clients store: a row without uuid and version
    Changes,        \* what clients change: column |-> value
    Payloads,       \* the jobs clients submit
    Sessions,       \* the threads of the routes
    MaxCalls,       \* calls of the routes that change something
    MaxJobs,        \* jobs
    Idle, NoRow

ASSUME RouteAssumption ==
    /\ MaxCalls \in Nat /\ MaxJobs \in Nat
    /\ Ids \subseteq Nat \ {0}

Columns == {"uuid", "version", "name", "quality", "print", "score", "profile", "allowed", "enabled"}

\* What routes and jobs take: a score of 0 .. 100 for its column, any number in the quality data
\* (api/references.py).
Acceptable(columns) ==
    /\ "enabled" \in DOMAIN columns => columns.enabled \in BOOLEAN
    /\ "score" \in DOMAIN columns => columns.score \in 0 .. 100 \cup {Unknown}
    /\ "quality" \in DOMAIN columns =>
          columns.quality = NoQuality \/ columns.quality.score \in Int \cup {Unknown}

\* Clients choose neither the uuid of a profile nor its version.
ASSUME DraftAssumption == \A d \in Drafts :
    DOMAIN d = Columns \ {"uuid", "version"} /\ Acceptable(d)
ASSUME ChangeAssumption == \A c \in Changes :
    DOMAIN c \subseteq Columns \ {"uuid", "version"} /\ Acceptable(c)
ASSUME PayloadAssumption == \A p \in Payloads :
    /\ p.file \in DOMAIN Files
    /\ p.allowed \in Int \cup {Unknown}
    /\ p.sampling \in Samplings
    /\ p.kind = "create" => p.enabled \in BOOLEAN

VARIABLES
    rows,           \* the table: id |-> row or NoRow
    uuids,          \* the uuids given so far: 1 .. uuids
    session,        \* thread |-> the request between its SELECT and its COMMIT, or Idle
    job,            \* the job the worker runs, or Idle
    answer,         \* the result of the last reference.compare, or Idle
    calls, jobs,    \* counts, for the bounds
    committed,      \* history: every content a row ever had
    raced,          \* history: the uuids of rows an update was overtaken on
    made            \* history: what reference.create stored, and from what

vars == <<rows, uuids, session, job, answer, calls, jobs, committed, raced, made>>

Init ==
    /\ rows = [id \in Ids |-> NoRow]
    /\ uuids = 0
    /\ session = [s \in Sessions |-> Idle]
    /\ job = Idle
    /\ answer = Idle
    /\ calls = 0
    /\ jobs = 0
    /\ committed = {}
    /\ raced = {}
    /\ made = {}

----------------------------------------------------------------------------
(* The table. *)

Live == {id \in Ids : rows[id] # NoRow}
NextId == Max({0} \cup Live) + 1

\* A slip: the name of a disabled reference counts as free.
NameTakenByEnabled(name, own) ==
    \E id \in Live \ {own} : rows[id].name = name /\ rows[id].enabled

\* The unique constraint on the name.
NameTaken(name, own) == \E id \in Live \ {own} : rows[id].name = name

\* create: a fresh uuid, version 1.  A taken name breaks the unique constraint.
Insert(draft) ==
    /\ ~NameTaken(draft.name, 0)
    /\ NextId \in Ids
    /\ uuids' = uuids + 1
    /\ rows' = [rows EXCEPT ![NextId] = Over([uuid |-> uuids + 1, version |-> 1], draft)]
    /\ committed' = committed \cup {rows'[NextId]}

\* update: what the UPDATE sets, the columns that differ from the row read and
\* the version after the one read.
Planned(read, change) ==
    LET new == {c \in DOMAIN change : change[c] # read[c]}
    IN Over([version |-> Max({read.version + 1, 2})], [c \in new |-> change[c]])

\* A slip: an update of a row that is gone stores it again.
WrittenAnyway(row, plan, read) == IF row = NoRow THEN Over(plan, read) ELSE Over(plan, row)

\* UPDATE ... WHERE id: of a row that is gone it fails (StaleDataError).
Written(row, plan, read) == IF row = NoRow THEN NoRow ELSE Over(plan, row)

----------------------------------------------------------------------------
(* The routes. *)

Call == calls < MaxCalls /\ calls' = calls + 1

\* POST /references.
CreateReference(draft) ==
    /\ Call
    /\ Insert(draft)
    /\ UNCHANGED <<session, job, answer, jobs, raced, made>>

\* PUT and DELETE /references/{id} up to the row they read; without one they
\* answer 404.
Begin(s, kind, id, change) ==
    /\ Call
    /\ session[s] = Idle
    /\ rows[id] # NoRow
    /\ session' = [session EXCEPT ![s] = [kind |-> kind, id |-> id, read |-> rows[id],
                                          change |-> change]]
    /\ UNCHANGED <<rows, uuids, job, answer, jobs, committed, raced, made>>
UpdateReference(s, id) == \E change \in Changes : Begin(s, "update", id, change)
DeleteReference(s, id) == Begin(s, "delete", id, <<>>)

End(s) ==
    /\ session' = [session EXCEPT ![s] = Idle]
    /\ UNCHANGED <<uuids, job, answer, calls, jobs, made>>

\* The commit of an update: a taken name rolls it back.
CommitUpdate(s) ==
    /\ session[s] # Idle
    /\ session[s].kind = "update"
    /\ End(s)
    /\ LET id == session[s].id
           read == session[s].read
           plan == Planned(read, session[s].change)
       IN \/ /\ "name" \in DOMAIN plan
             /\ NameTaken(plan.name, id)
             /\ UNCHANGED <<rows, committed, raced>>
          \/ /\ "name" \in DOMAIN plan => ~NameTaken(plan.name, id)
             /\ rows' = [rows EXCEPT ![id] = Written(@, plan, read)]
             /\ committed' = committed \cup ({rows'[id]} \ {NoRow})
             /\ raced' = raced \cup IF rows[id] \in {read, NoRow} THEN {} ELSE {rows[id].uuid}

\* The commit of a deletion: DELETE ... WHERE id, whatever row has the id now.
CommitDelete(s) ==
    /\ session[s] # Idle
    /\ session[s].kind = "delete"
    /\ End(s)
    /\ rows' = [rows EXCEPT ![session[s].id] = NoRow]
    /\ UNCHANGED <<committed, raced>>

----------------------------------------------------------------------------
(* The jobs. *)

\* AnalyzerRegistry.list_analyzers: by priority.  The analyzers of the file's
\* name (10) and of its directory entry (20) come first and find nothing the
\* others use.
Order == <<"ffprobe", "mediainfo", "quality_fingerprint", "quality">>

HasVideo(file) == Probe(Files[file]).video # <<>>
HasFrames(file, sampling) == Files[file].frames[sampling] # <<>>

\* can_analyze: ffprobe and mediainfo need their tool and the file, which may be
\* missing; the others need video streams in the shared data, and the
\* fingerprint a frame it can read.
MaySucceed(analyzer, file, sampling, found) ==
    \/ analyzer \in {"ffprobe", "mediainfo"}
    \/ analyzer = "quality_fingerprint" /\ "ffprobe" \in found /\ HasVideo(file)
                                              /\ HasFrames(file, sampling)
    \/ analyzer = "quality" /\ "ffprobe" \in found /\ HasVideo(file)

\* The data of the pipeline, by which analyzers succeeded.
FoundQuality(file, found, profile) ==
    IF "quality" \notin found THEN NoQuality
    ELSE Quality(MediaOf(Probe(Files[file]),
                         IF "mediainfo" \in found THEN Summary(Files[file]) ELSE NoSummary),
                 profile)
FoundPrint(file, found, sampling) ==
    IF "quality_fingerprint" \in found THEN Aggregate(Files[file].frames[sampling], Metrics) ELSE NoPrint

Chosen(first, second) ==
    IF first # Unknown THEN first ELSE IF second # Unknown THEN second ELSE "balanced"

StartJob(payload, reference, profile) ==
    /\ jobs < MaxJobs
    /\ jobs' = jobs + 1
    /\ job = Idle
    /\ job' = [payload |-> payload, reference |-> reference, profile |-> profile, step |-> 1,
               found |-> {}]
    /\ UNCHANGED <<rows, uuids, session, answer, calls, committed, raced, made>>

\* reference.create up to the pipeline.
StartCreate(payload) ==
    /\ payload.kind = "create"
    /\ StartJob(payload, NoRow, Chosen(payload.profile, Unknown))

\* reference.compare up to the pipeline: it reads the reference here, and refuses
\* one that is missing or disabled.
StartCompare(payload) ==
    /\ payload.kind = "compare"
    /\ payload.reference \in Live
    /\ rows[payload.reference].enabled
    /\ StartJob(payload, rows[payload.reference],
                Chosen(payload.profile, rows[payload.reference].profile))

\* AnalyzerManager.analyze: one analyzer after the other.  One that fails or is
\* skipped adds nothing; that of the quality does not fail.
Analyze(succeeds) ==
    /\ job # Idle
    /\ job.step <= Len(Order)
    /\ LET analyzer == Order[job.step]
           may == MaySucceed(analyzer, job.payload.file, job.payload.sampling, job.found)
       IN /\ succeeds => may
          /\ analyzer = "quality" => (succeeds <=> may)
          /\ job' = [job EXCEPT !.step = @ + 1,
                                !.found = IF succeeds THEN @ \cup {analyzer} ELSE @]
    /\ UNCHANGED <<rows, uuids, session, answer, calls, jobs, committed, raced, made>>

\* A slip: any analyzer that succeeded is enough.
ValidWithAny(found) == found # {}

\* _validate_analysis.
ValidAnalysis(found) == "quality" \in found

\* The end of a job, one that fails included.
EndJob ==
    /\ job # Idle
    /\ job.step > Len(Order)
    /\ job' = Idle
    /\ UNCHANGED <<session, calls, jobs, raced>>

\* A slip: the reference is looked up once more for the answer.
NamedReferenceNow(j) ==
    IF rows[j.payload.reference] = NoRow THEN j.reference ELSE rows[j.payload.reference]

\* The reference an answer names: the one read at the start.
NamedReference(j) == j.reference

\* reference.compare after the pipeline.
FinishCompare ==
    /\ EndJob
    /\ job.payload.kind = "compare"
    /\ UNCHANGED <<rows, uuids, committed, made>>
    /\ IF ValidAnalysis(job.found) /\ Comparable(job.reference)
       THEN \E quality \in {FoundQuality(job.payload.file, job.found, job.profile)},
               print \in {FoundPrint(job.payload.file, job.found, job.payload.sampling)} :
              answer' = [uuid |-> NamedReference(job).uuid,
                         version |-> NamedReference(job).version,
                         file |-> job.payload.file, found |-> job.found,
                         sampling |-> job.payload.sampling,
                         quality |-> quality, print |-> print, allowed |-> job.payload.allowed,
                         result |-> CompareFile(job.reference, quality, print, job.payload.allowed)]
       ELSE UNCHANGED answer

\* reference.create after the pipeline.
FinishCreate ==
    /\ EndJob
    /\ job.payload.kind = "create"
    /\ UNCHANGED answer
    /\ IF ValidAnalysis(job.found) /\ ~NameTaken(job.payload.name, 0)
       THEN \E quality \in {FoundQuality(job.payload.file, job.found, job.profile)} :
              /\ Insert([name |-> job.payload.name, quality |-> quality,
                         print |-> FoundPrint(job.payload.file, job.found, job.payload.sampling),
                         score |-> IF quality = NoQuality THEN Unknown ELSE quality.score,
                         profile |-> job.profile, allowed |-> job.payload.allowed,
                         enabled |-> job.payload.enabled])
              /\ made' = made \cup {[uuid |-> uuids', file |-> job.payload.file,
                                     found |-> job.found, sampling |-> job.payload.sampling]}
       ELSE UNCHANGED <<rows, uuids, committed, made>>

----------------------------------------------------------------------------
Next ==
    \/ \E draft \in Drafts : CreateReference(draft)
    \/ \E s \in Sessions, id \in Ids : UpdateReference(s, id) \/ DeleteReference(s, id)
    \/ \E s \in Sessions : CommitUpdate(s) \/ CommitDelete(s)
    \/ \E payload \in Payloads : StartCreate(payload) \/ StartCompare(payload)
    \/ \E succeeds \in BOOLEAN : Analyze(succeeds)
    \/ FinishCompare
    \/ FinishCreate

Spec == Init /\ [][Next]_vars

----------------------------------------------------------------------------
(* The state. *)

IsRow(r) ==
    /\ DOMAIN r = Columns
    /\ r.uuid \in 1 .. uuids
    /\ r.version \in 1 .. calls + 1
    /\ Acceptable(r)

\* Rows keep their shape, versions grow with the calls alone, and no two rows
\* share a name or a uuid (the unique constraints of app/references/models.py).
TypeOK ==
    /\ DOMAIN rows = Ids
    /\ \A id \in Live : IsRow(rows[id])
    /\ \A i, j \in Live : i # j => rows[i].name # rows[j].name /\ rows[i].uuid # rows[j].uuid
    /\ \A s \in Sessions : session[s] # Idle =>
          session[s].kind \in {"update", "delete"} /\ IsRow(session[s].read)
    /\ job # Idle =>
          /\ job.step \in 1 .. Len(Order) + 1
          /\ job.found \subseteq {Order[n] : n \in 1 .. job.step - 1}
          /\ job.reference = NoRow \/ IsRow(job.reference)

(* The reference and its answer. *)

\* A client that reads the uuid and the version an answer names, and looks up
\* what the profile of that version held, finds what the file was compared
\* with, whatever was edited, deleted or stored under the same id since
\* (jobs/reference_compare.py:45-137).  Only an update that was overtaken by
\* another gives one version two contents (service.py:206-209).
AnswerNamesWhatItCompared ==
    answer # Idle =>
      LET named == {r \in committed : r.uuid = answer.uuid /\ r.version = answer.version}
      IN /\ named # {}
         /\ answer.uuid \notin raced =>
              \A r \in named :
                answer.result = CompareFile(r, answer.quality, answer.print, answer.allowed)

\* A reference made by reference.create can be compared with as long as nobody
\* edits it: it has quality data, its column holds the score of these data, and
\* a file of its own score is similar to it (jobs/reference_create.py:121-160).
JobMadeReferenceIsComparable ==
    \A m \in made, r \in committed :
      m.uuid = r.uuid /\ r.version = 1 =>
        /\ Comparable(r)
        /\ r.score = r.quality.score
        /\ r.quality.score = TotalOf(Details(
             MediaOf(Probe(Files[m.file]), IF "mediainfo" \in m.found THEN Summary(Files[m.file])
                                           ELSE NoSummary)))

\* A file compared with the reference made from it by the same analyzers is
\* similar, under every profile and every allowed difference, edits of other
\* profiles between the two jobs included.  It is neither better nor worse in any
\* area; only its pictures may be, when the two jobs sampled them in different
\* ways: nothing compares the samplings (references/compare.py:46-196,
\* analyzer/quality_fingerprint.py:51-64).
OwnFileIsSimilar ==
    answer # Idle =>
      \A m \in made :
        m.uuid = answer.uuid /\ answer.version = 1 /\ m.file = answer.file /\ m.found = answer.found =>
          /\ answer.result.verdict = "similar"
          /\ answer.result.summary.better \cup answer.result.summary.worse
               \subseteq IF m.sampling = answer.sampling THEN {} ELSE {"visual_quality"}

\* A reference made by reference.create serves its purpose.
MadeReferenceWorks == JobMadeReferenceIsComparable /\ OwnFileIsSimilar

\* A profile that was deleted stays deleted: what appears in the table is a new
\* profile with a uuid nobody had, whatever update of the deleted one is still
\* under way (service.py:161-244).
DeletedStaysDeleted ==
    [][\A id \in Ids : rows'[id] # NoRow =>
         rows'[id].uuid \in {rows[i].uuid : i \in Live} \cup {uuids + 1}]_vars

(* The judgement of files, over all files and profiles.  It depends on no     *)
(* variable, so it is looked at once, in the initial state.                  *)

Untouched == calls = 0 /\ jobs = 0

WithVideo == {f \in DOMAIN Files : HasVideo(f)}
Media == UNION {{MediaOf(Probe(Files[f]), summary) : summary \in {NoSummary, Summary(Files[f])}} :
                  f \in WithVideo}
Prints == {Aggregate(frames, Metrics) :
             frames \in {Files[f].frames[s] : f \in DOMAIN Files, s \in Samplings} \ {<<>>}}
            \cup {Aggregate(<<frame>>, Metrics) : frame \in Frames}

\* The tools report numbers or nothing, and the means of the metrics are numbers.
ASSUME MediaAssumption == \A file \in Media :
    /\ {file.width, file.height, file.bitrate, file.rate, file.depth, file.channels} \subseteq Number
    /\ file.audio \in Seq(Streams(file.audio))
    /\ \A s \in Streams(file.audio) : s.channels \in Number
ASSUME PrintAssumption == \A p \in Prints : p.average \in [Metrics -> Nat]

\* The score is the sum of its details, each within the maximum it names: the
\* clamp to 0 .. 100 hides nothing (analyzer/quality.py:135-218).  And what the
\* strict profile rates is never rated lower by a more lenient one, nor is a
\* file complete for the strict one and not for the lenient ones: the archive
\* profile is the strict one, the permissive one for old recordings and small
\* files (analyzer/quality_profiles.py:11, 28, 45).
RatingsAgree ==
    LET levels == <<"poor", "improvable", "acceptable", "good", "very_good", "excellent">>
        rank(level) == CHOOSE n \in DOMAIN levels : levels[n] = level
        strictness == <<"permissive", "balanced", "archive">>
    IN Untouched => \A file \in Media :
         /\ Score(file) = TotalOf(Details(file))
         /\ \A d \in DOMAIN Maximum : Details(file)[d] \in 0 .. Maximum[d]
         /\ \A n \in 1 .. 2 :
              /\ rank(QualityLevel(Score(file), strictness[n + 1]))
                   <= rank(QualityLevel(Score(file), strictness[n]))
              /\ Recommendation(file, strictness[n + 1]) = "complete" =>
                   Recommendation(file, strictness[n]) = "complete"

\* No two files are each better than the other, neither in an area nor by their
\* pictures, though every tolerance is a share of the one
\* that is the reference (compare.py:240-313, fingerprint_compare.py:319-420).
NeverBetterBothWays ==
    Untouched =>
      /\ \A f, g \in Media :
           LET a == Quality(f, "balanced")
               b == Quality(g, "balanced")
               there == Categories(a, b, ComparePrints(NoPrint, NoPrint))
               back == Categories(b, a, ComparePrints(NoPrint, NoPrint))
           IN \A n \in DOMAIN there : {there[n], back[n]} # {"better"}
      /\ \A p, q \in Prints :
           {ComparePrints(p, q).verdict, ComparePrints(q, p).verdict} # {"better"}

\* Softening a picture is never an improvement: of two pictures that lose a
\* quarter of their sharpness the verdict is worse, and less noise, blockiness
\* or clipped white does not count for it (fingerprint_compare.py:8-15).
BlurIsNoImprovement ==
    Untouched => \A p, q \in Prints :
      4 * q.average["sharpness"] <= 3 * p.average["sharpness"] /\ p.average["sharpness"] > 0 =>
        /\ ComparePrints(p, q).verdict = "worse"
        /\ \A m \in Lower : ComparePrints(p, q).status[m] # "better"
=============================================================================
