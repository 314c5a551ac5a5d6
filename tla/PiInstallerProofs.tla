-------------------------- MODULE PiInstallerProofs --------------------------
(* Proofs about PiInstaller, for every number of callers, versions, backups, calls, failing      *)
(* operations and crashes: first what its steps do to the calls and to the folders, one lemma    *)
(* for each action, and the type invariant, then the folders and the answers.                    *)
(*                                                                                               *)
(* While calls do not overlap there is one call at a time (Alone), and the invariant says of it  *)
(* how it leaves the folders at each of its steps: Sound, that what is installed, saved and      *)
(* staged has no holes, and Tidy, that it will take away every hidden folder.  A call that has   *)
(* come or gone meanwhile finds the folders whole.                                               *)
(*                                                                                               *)
(* AnswersInv adds what a call knows: which version is active, set aside or saved while it works *)
(* (Current, Holds), and that its answer will say what it has done (Truth).                      *)
(*                                                                                               *)
(* RaceInv is about the first two calls when they do overlap: what each of them is careful of,   *)
(* whatever the other does, and how they stay apart.  A step of one is looked at next to any     *)
(* other call (StepOfTwo), so each action has one lemma about itself and about that other one.   *)
EXTENDS PiInstaller, TLAPS

-----------------------------------------------------------------------------
Functions == {"install", "remove", "rollback", "delete"}
Swapping  == {"install", "rollback"}
PCs == {"idle", "check", "copy", "copying", "provision", "backup", "backingUp", "setAside",
        "activate", "recover", "cleanup", "cleaning", "discard", "discarding",
        "remove", "removing", "verify", "done"}
Call == [pc : PCs, op : Functions \union {"none"}, fn : Functions \union {"none"},
         ver : Versions \union {NoVersion}, bak : Backups \union {NoBackup},
         keep : BOOLEAN, replaced : BOOLEAN, result : {"none", "ok", "failed"},
         start : Folder, src : Folder]

\* What a call is doing belongs to its function, and names folders it may name.
CallFits(c) ==
  /\ call[c].bak # NoBackup => call[c].bak \in used
  /\ call[c].fn \in {"rollback", "delete"} => call[c].bak # NoBackup
  /\ call[c].fn = "install" => call[c].ver \in Versions
  /\ Active(c) => call[c].fn \in Functions
  /\ call[c].pc \in {"copy", "copying", "setAside", "activate", "recover", "cleanup",
                     "cleaning", "discard", "discarding"} => call[c].fn \in Swapping
  /\ call[c].pc \in {"provision", "verify"} => call[c].fn = "install"
  /\ call[c].pc \in {"backup", "backingUp"} => call[c].fn \in {"install", "remove"}
  /\ call[c].pc = "backingUp" => call[c].bak # NoBackup
  /\ call[c].pc \in {"remove", "removing"} => call[c].fn \in {"remove", "delete"}
  /\ call[c].src.whole => call[c].src = Whole(call[c].src.ver) /\ call[c].src.ver \in Versions

CallsFit == call \in [Callers -> Call] /\ \A c \in Callers : CallFits(c)

TypeInv == TypeOK /\ CallsFit

-----------------------------------------------------------------------------
\* What the steps of a call have in common: the others stay where they are, and c goes to q
\* in the function and for the request it is in.
Moved(c, q) ==
  /\ call' \in [Callers -> Call]
  /\ \A d \in Callers : d # c => call'[d] = call[d]
  /\ call'[c].pc = q
  /\ call'[c].op = call[c].op /\ call'[c].ver = call[c].ver
  /\ call'[c].keep = call[c].keep /\ call'[c].start = call[c].start

\* The function, its folders and its copy stay what they were.
Keeps(c) ==
  /\ call'[c].fn = call[c].fn /\ call'[c].bak = call[c].bak
  /\ call'[c].replaced = call[c].replaced /\ call'[c].src = call[c].src

\* Only the folder p changes, to f.
Filled(p, f) ==
  /\ disk' \in [Places -> Folder]
  /\ disk'[p] = f
  /\ \A q \in Places : q # p => disk'[q] = disk[q]

(* How the parts of an action change the calls. *)
LEMMA GotoMoves ==
    ASSUME call \in [Callers -> Call], NEW c \in Callers, NEW q \in PCs, Goto(c, q)
    PROVE  /\ Moved(c, q)
           /\ Keeps(c) /\ call'[c].result = call[c].result
<1> DEFINE r == [call[c] EXCEPT !.pc = q]
<1>1. call[c] \in Call
  OBVIOUS
<1>2. /\ r \in Call
      /\ r.pc = q /\ r.op = call[c].op /\ r.fn = call[c].fn
      /\ r.ver = call[c].ver /\ r.bak = call[c].bak /\ r.keep = call[c].keep
      /\ r.replaced = call[c].replaced /\ r.result = call[c].result /\ r.start = call[c].start
      /\ r.src = call[c].src
  BY <1>1, ZenonT(60) DEF Call, PCs
<1>3. call' = [call EXCEPT ![c] = r]
  BY DEF Goto
<1> HIDE DEF r
<1>4. call' \in [Callers -> Call] /\ call'[c] = r /\ \A d \in Callers : d # c => call'[d] = call[d]
  BY <1>2, <1>3
<1> QED BY <1>2, <1>4 DEF Moved, Keeps

(* ... an exception inside the try, on to the finally clause ... *)
LEMMA RaiseMoves ==
    ASSUME call \in [Callers -> Call], NEW c \in Callers, Raise(c)
    PROVE  /\ Moved(c, "cleanup")
           /\ Keeps(c) /\ call'[c].result = "failed"
<1> DEFINE r == [call[c] EXCEPT !.pc = "cleanup", !.result = "failed"]
<1>1. call[c] \in Call
  OBVIOUS
<1>2. /\ r \in Call
      /\ r.pc = "cleanup" /\ r.op = call[c].op /\ r.fn = call[c].fn
      /\ r.ver = call[c].ver /\ r.bak = call[c].bak /\ r.keep = call[c].keep
      /\ r.replaced = call[c].replaced /\ r.result = "failed" /\ r.start = call[c].start
      /\ r.src = call[c].src
  BY <1>1, ZenonT(60) DEF Call, PCs
<1>3. call' = [call EXCEPT ![c] = r]
  BY DEF Raise
<1> HIDE DEF r
<1>4. call' \in [Callers -> Call] /\ call'[c] = r /\ \A d \in Callers : d # c => call'[d] = call[d]
  BY <1>2, <1>3
<1> QED BY <1>2, <1>4 DEF Moved, Keeps

(* ... the end of a function ... *)
LEMMA LeaveMoves ==
    ASSUME call \in [Callers -> Call], NEW c \in Callers, NEW outcome \in {"ok", "failed"},
           Leave(c, outcome)
    PROVE  /\ Moved(c, IF call[c].fn = "install" /\ outcome = "ok" THEN "verify" ELSE "done")
           /\ Keeps(c) /\ call'[c].result = IF call[c].op # call[c].fn THEN "failed" ELSE outcome
<1> DEFINE answer == IF call[c].op # call[c].fn THEN "failed" ELSE outcome
           next == IF call[c].fn = "install" /\ outcome = "ok" THEN "verify" ELSE "done"
<1>0. answer \in {"none", "ok", "failed"} /\ next \in PCs
  BY DEF PCs
<1> HIDE DEF answer, next
<1> DEFINE r == [call[c] EXCEPT !.result = answer, !.pc = next]
<1>1. call[c] \in Call
  OBVIOUS
<1>2. /\ r \in Call
      /\ r.pc = next /\ r.op = call[c].op /\ r.fn = call[c].fn
      /\ r.ver = call[c].ver /\ r.bak = call[c].bak /\ r.keep = call[c].keep
      /\ r.replaced = call[c].replaced /\ r.result = answer /\ r.start = call[c].start
      /\ r.src = call[c].src
  BY <1>0, <1>1 DEF Call
<1>3. call' = [call EXCEPT ![c] = r]
  BY DEF Leave, answer, next
<1> HIDE DEF r
<1>4. call' \in [Callers -> Call] /\ call'[c] = r /\ \A d \in Callers : d # c => call'[d] = call[d]
  BY <1>2, <1>3
<1> QED BY <1>2, <1>4 DEF Moved, Keeps, next, answer

(* ... the beginning of a copy ... *)
LEMMA CopyMoves ==
    ASSUME call \in [Callers -> Call], NEW c \in Callers, NEW f \in Folder,
           call' = [call EXCEPT ![c].pc = "copying", ![c].src = f]
    PROVE  /\ Moved(c, "copying")
           /\ call'[c].fn = call[c].fn /\ call'[c].bak = call[c].bak /\ call'[c].replaced = call[c].replaced
           /\ call'[c].result = call[c].result /\ call'[c].src = f
<1> DEFINE r == [call[c] EXCEPT !.pc = "copying", !.src = f]
<1>1. call[c] \in Call
  OBVIOUS
<1>2. /\ r \in Call
      /\ r.pc = "copying" /\ r.op = call[c].op /\ r.fn = call[c].fn
      /\ r.ver = call[c].ver /\ r.bak = call[c].bak /\ r.keep = call[c].keep
      /\ r.replaced = call[c].replaced /\ r.result = call[c].result /\ r.start = call[c].start
      /\ r.src = f
  BY <1>1, ZenonT(60) DEF Call, PCs
<1>3. call' = [call EXCEPT ![c] = r]
  BY <1>1
<1> HIDE DEF r
<1>4. call' \in [Callers -> Call] /\ call'[c] = r /\ \A d \in Callers : d # c => call'[d] = call[d]
  BY <1>2, <1>3
<1> QED BY <1>2, <1>4 DEF Moved

BackingUp(c, b, f) ==
  call' = [call EXCEPT ![c].pc = "backingUp", ![c].bak = b, ![c].src = f]

(* ... of a backup copy ... *)
LEMMA BackupMoves ==
    ASSUME call \in [Callers -> Call], NEW c \in Callers, NEW f \in Folder, NEW b \in Backups,
           BackingUp(c, b, f)
    PROVE  /\ Moved(c, "backingUp")
           /\ call'[c].fn = call[c].fn /\ call'[c].bak = b /\ call'[c].replaced = call[c].replaced
           /\ call'[c].result = call[c].result /\ call'[c].src = f
<1> DEFINE r == [call[c] EXCEPT !.pc = "backingUp", !.bak = b, !.src = f]
<1>1. call[c] \in Call
  OBVIOUS
<1>2. /\ r \in Call
      /\ r.pc = "backingUp" /\ r.op = call[c].op /\ r.fn = call[c].fn
      /\ r.ver = call[c].ver /\ r.bak = b /\ r.keep = call[c].keep
      /\ r.replaced = call[c].replaced /\ r.result = call[c].result /\ r.start = call[c].start
      /\ r.src = f
  BY <1>1, ZenonT(60) DEF Call, PCs
<1>3. call' = [call EXCEPT ![c] = r]
  BY DEF BackingUp
<1> HIDE DEF r
<1>4. call' \in [Callers -> Call] /\ call'[c] = r /\ \A d \in Callers : d # c => call'[d] = call[d]
  BY <1>2, <1>3
<1> QED BY <1>2, <1>4 DEF Moved

(* ... its end ... *)
LEMMA BackupDoneMoves ==
    ASSUME call \in [Callers -> Call], NEW c \in Callers, NEW b \in Backups, BackupDone(c, b)
    PROVE  /\ Moved(c, IF call[c].fn = "remove" THEN "remove" ELSE "setAside")
           /\ call'[c].fn = call[c].fn /\ call'[c].bak = b /\ call'[c].replaced = call[c].replaced
           /\ call'[c].result = call[c].result /\ call'[c].src = call[c].src
<1> DEFINE next == IF call[c].fn = "remove" THEN "remove" ELSE "setAside"
<1>0. next \in PCs
  BY DEF PCs
<1> HIDE DEF next
<1> DEFINE r == [call[c] EXCEPT !.bak = b, !.pc = next]
<1>1. call[c] \in Call
  OBVIOUS
<1>2. /\ r \in Call
      /\ r.pc = next /\ r.op = call[c].op /\ r.fn = call[c].fn
      /\ r.ver = call[c].ver /\ r.bak = b /\ r.keep = call[c].keep
      /\ r.replaced = call[c].replaced /\ r.result = call[c].result /\ r.start = call[c].start
      /\ r.src = call[c].src
  BY <1>0, <1>1 DEF Call
<1>3. call' = [call EXCEPT ![c] = r]
  BY DEF BackupDone, next
<1> HIDE DEF r
<1>4. call' \in [Callers -> Call] /\ call'[c] = r /\ \A d \in Callers : d # c => call'[d] = call[d]
  BY <1>2, <1>3
<1> QED BY <1>2, <1>4 DEF Moved, next

(* ... the installed folder set aside, or none ... *)
LEMMA AsideMoves ==
    ASSUME call \in [Callers -> Call], NEW c \in Callers, NEW b \in BOOLEAN,
           call' = [call EXCEPT ![c].pc = "activate", ![c].replaced = b]
    PROVE  /\ Moved(c, "activate")
           /\ call'[c].fn = call[c].fn /\ call'[c].bak = call[c].bak /\ call'[c].replaced = b
           /\ call'[c].result = call[c].result /\ call'[c].src = call[c].src
<1> DEFINE r == [call[c] EXCEPT !.pc = "activate", !.replaced = b]
<1>1. call[c] \in Call
  OBVIOUS
<1>2. /\ r \in Call
      /\ r.pc = "activate" /\ r.op = call[c].op /\ r.fn = call[c].fn
      /\ r.ver = call[c].ver /\ r.bak = call[c].bak /\ r.keep = call[c].keep
      /\ r.replaced = b /\ r.result = call[c].result /\ r.start = call[c].start
      /\ r.src = call[c].src
  BY <1>1, ZenonT(60) DEF Call, PCs
<1>3. call' = [call EXCEPT ![c] = r]
  BY <1>1
<1> HIDE DEF r
<1>4. call' \in [Callers -> Call] /\ call'[c] = r /\ \A d \in Callers : d # c => call'[d] = call[d]
  BY <1>2, <1>3
<1> QED BY <1>2, <1>4 DEF Moved

(* ... the new version activated ... *)
LEMMA ActivatedMoves ==
    ASSUME call \in [Callers -> Call], NEW c \in Callers,
           call' = [call EXCEPT ![c].pc = "cleanup", ![c].result = "ok"]
    PROVE  /\ Moved(c, "cleanup")
           /\ Keeps(c) /\ call'[c].result = "ok"
<1> DEFINE r == [call[c] EXCEPT !.pc = "cleanup", !.result = "ok"]
<1>1. call[c] \in Call
  OBVIOUS
<1>2. /\ r \in Call
      /\ r.pc = "cleanup" /\ r.op = call[c].op /\ r.fn = call[c].fn
      /\ r.ver = call[c].ver /\ r.bak = call[c].bak /\ r.keep = call[c].keep
      /\ r.replaced = call[c].replaced /\ r.result = "ok" /\ r.start = call[c].start
      /\ r.src = call[c].src
  BY <1>1, ZenonT(60) DEF Call, PCs
<1>3. call' = [call EXCEPT ![c] = r]
  BY <1>1
<1> HIDE DEF r
<1>4. call' \in [Callers -> Call] /\ call'[c] = r /\ \A d \in Callers : d # c => call'[d] = call[d]
  BY <1>2, <1>3
<1> QED BY <1>2, <1>4 DEF Moved, Keeps

(* ... the plugin taken back. *)
LEMMA VerifyMoves ==
    ASSUME call \in [Callers -> Call], NEW c \in Callers, NEW f \in {"rollback", "remove"},
           call' = [call EXCEPT ![c].pc = "check", ![c].fn = f]
    PROVE  /\ Moved(c, "check")
           /\ call'[c].fn = f /\ call'[c].bak = call[c].bak /\ call'[c].replaced = call[c].replaced
           /\ call'[c].result = call[c].result /\ call'[c].src = call[c].src
<1> DEFINE r == [call[c] EXCEPT !.pc = "check", !.fn = f]
<1>1. call[c] \in Call
  OBVIOUS
<1>2. /\ r \in Call
      /\ r.pc = "check" /\ r.op = call[c].op /\ r.fn = f
      /\ r.ver = call[c].ver /\ r.bak = call[c].bak /\ r.keep = call[c].keep
      /\ r.replaced = call[c].replaced /\ r.result = call[c].result /\ r.start = call[c].start
      /\ r.src = call[c].src
  BY <1>1, ZenonT(60) DEF Call, PCs, Functions
<1>3. call' = [call EXCEPT ![c] = r]
  BY <1>1
<1> HIDE DEF r
<1>4. call' \in [Callers -> Call] /\ call'[c] = r /\ \A d \in Callers : d # c => call'[d] = call[d]
  BY <1>2, <1>3
<1> QED BY <1>2, <1>4 DEF Moved

(* How they change the folders. *)
LEMMA PutFills ==
    ASSUME disk \in [Places -> Folder], NEW p \in Places, NEW f \in Folder, Put(p, f)
    PROVE  Filled(p, f)
  BY DEF Put, Filled

LEMMA RenameMoves ==
    ASSUME disk \in [Places -> Folder], NEW p \in Places, NEW q \in Places, p # q, Rename(p, q)
    PROVE  /\ disk' \in [Places -> Folder]
           /\ disk'[q] = disk[p] /\ disk'[p] = Nothing
           /\ \A x \in Places : x # p /\ x # q => disk'[x] = disk[x]
<1>1. Nothing \in Folder
  BY DEF Nothing, Folder
<1> QED BY <1>1 DEF Rename

(* The kinds of folders. *)
LEMMA Kinds ==
    /\ Nothing \in Folder /\ ~Nothing.whole /\ Nothing.by = NoCaller /\ Nothing.ver = NoVersion
    /\ \A v \in Versions \union {NoVersion} :
         /\ Whole(v) \in Folder /\ Whole(v) # Nothing
         /\ Whole(v).ver = v /\ Whole(v).whole /\ Whole(v).by = NoCaller
    /\ \A v \in Versions \union {NoVersion}, c \in Callers \union {NoCaller} :
         /\ Torn(v, c) \in Folder /\ ~Torn(v, c).whole /\ Torn(v, c).by = c
         /\ c \in Callers => Torn(v, c) # Nothing
    /\ \A f \in Folder :
         /\ f.ver \in Versions \union {NoVersion} /\ f.whole \in BOOLEAN
         /\ [f EXCEPT !.by = NoCaller] \in Folder
         /\ [f EXCEPT !.by = NoCaller].whole = f.whole
         /\ [f EXCEPT !.by = NoCaller].ver = f.ver
         /\ [f EXCEPT !.by = NoCaller].by = NoCaller
  BY CallersAssumption DEF Nothing, Whole, Torn, Folder

(* A request that arrives. *)
LEMMA IdleCall == Idle \in Call /\ Idle.pc = "idle" /\ Idle.bak = NoBackup /\ Idle.fn = "none"
                  /\ ~Idle.src.whole /\ Idle.op = "none" /\ Idle.replaced = FALSE
  BY DEF Idle, Call, PCs, Functions, Folder, Nothing

(* A request changes its caller and clears the answers that were given. *)
LEMMA ArriveMoves ==
    ASSUME call \in [Callers -> Call], disk \in [Places -> Folder], NEW c \in Callers,
           NEW r \in Call, Arrive(c, r)
    PROVE  /\ call' \in [Callers -> Call]
           /\ \A d \in Callers : d # c => call'[d] = IF At(d, "done") THEN Idle ELSE call[d]
           /\ call'[c].pc = r.pc /\ call'[c].fn = r.fn /\ call'[c].op = r.op
           /\ call'[c].ver = r.ver /\ call'[c].bak = r.bak /\ call'[c].replaced = r.replaced
           /\ call'[c].src = r.src /\ call'[c].keep = r.keep /\ call'[c].start = disk["install"]
<1> DEFINE s == [r EXCEPT !.start = disk["install"]]
<1>1. disk["install"] \in Folder
  BY DEF Places
<1>2. /\ s \in Call
      /\ s.pc = r.pc /\ s.fn = r.fn /\ s.op = r.op /\ s.ver = r.ver /\ s.bak = r.bak
      /\ s.replaced = r.replaced /\ s.src = r.src
      /\ s.keep = r.keep /\ s.start = disk["install"]
  BY <1>1 DEF Call
<1>3. call' = [d \in Callers |-> IF d = c THEN s
                                 ELSE IF At(d, "done") THEN Idle ELSE call[d]]
  BY DEF Arrive
<1> HIDE DEF s
<1>4. \A d \in Callers : (IF At(d, "done") THEN Idle ELSE call[d]) \in Call
  BY IdleCall
<1>5. call' \in [Callers -> Call]
  BY <1>2, <1>3, <1>4
<1>6. call'[c] = s
  BY <1>3
<1> QED BY <1>2, <1>3, <1>5, <1>6
-----------------------------------------------------------------------------

\* The ways a step of c ends: it goes on, raises, returns or fails.
Goes(c, q) == Moved(c, q) /\ Keeps(c) /\ call'[c].result = call[c].result
Raised(c) == Moved(c, "cleanup") /\ Keeps(c) /\ call'[c].result = "failed"
Failed(c) == Moved(c, "done") /\ Keeps(c) /\ call'[c].result = "failed"
Answered(c) == Keeps(c) /\ call'[c].result = IF call[c].op # call[c].fn THEN "failed" ELSE "ok"
Returned(c) == Moved(c, IF call[c].fn = "install" THEN "verify" ELSE "done") /\ Answered(c)
Shifted(p, q) ==
  /\ disk' \in [Places -> Folder]
  /\ disk'[q] = disk[p] /\ disk'[p] = Nothing
  /\ \A x \in Places : x # p /\ x # q => disk'[x] = disk[x]

AfterCopy(c) == IF call[c].fn = "install" THEN "provision" ELSE "setAside"
AfterBackup(c) == IF call[c].fn = "remove" THEN "remove" ELSE "setAside"
Aside2(c, b) ==
  /\ Moved(c, "activate") /\ call'[c].fn = call[c].fn /\ call'[c].bak = call[c].bak
  /\ call'[c].replaced = b /\ call'[c].src = call[c].src

\* What the steps rely on of the types.
LEMMA Known ==
    ASSUME TypeInv, NEW c \in Callers
    PROVE  /\ call \in [Callers -> Call] /\ disk \in [Places -> Folder]
           /\ Stage(c) \in Places /\ Aside(c) \in Places /\ Stage(c) \in Hidden /\ Aside(c) \in Hidden
           /\ "install" \in Places /\ "install" \notin Hidden /\ Stage(c) # Aside(c)
           /\ call[c].src \in Folder /\ call[c].bak \in Backups \union {NoBackup}
           /\ call[c].bak \in Backups => call[c].bak \in Places
           /\ call[c].fn \in Functions \union {"none"}
           /\ call[c].ver \in Versions \union {NoVersion}
           /\ Backups \subseteq Places /\ \A p \in Places : disk[p] \in Folder
           /\ torn \in BOOLEAN /\ raced \in BOOLEAN
  BY DEF TypeInv, TypeOK, CallsFit, CallFits, Call, Stage, Aside, Places, Hidden

(* The ways Check ends. *)
LEMMA CheckStep ==
    ASSUME TypeInv, NEW c \in Callers, Check(c)
    PROVE  /\ At(c, "check") /\ UNCHANGED <<disk, used, history, faults>>
           /\ call[c].fn \in Functions
           /\ \/ Refused(c) /\ Failed(c)
              \/ ~Refused(c) /\ call[c].fn \in Swapping /\ Goes(c, "copy")
              \/ ~Refused(c) /\ call[c].fn = "remove" /\ call[c].keep /\ Goes(c, "backup")
              \/ /\ ~Refused(c) /\ call[c].fn \in {"remove", "delete"}
                 /\ (call[c].fn = "delete" \/ ~call[c].keep)
                 /\ Goes(c, "remove")
<1> USE BackupsAssumption, CallersAssumption, Known
<1>1. At(c, "check") /\ UNCHANGED <<disk, used, history, faults>>
  BY DEF Check, history, NoFault
<1>2. call[c].fn \in Functions
  BY <1>1, Kinds DEF TypeInv, CallsFit, CallFits, At, Active, Functions, Swapping, Origin,
       Target
<1>3. \A q \in {"copy", "backup", "remove"} : Goto(c, q) => Goes(c, q)
  BY GotoMoves DEF Goes, PCs
<1>4. ASSUME Leave(c, "failed") PROVE Failed(c)
  BY <1>4, LeaveMoves DEF Failed
<1> QED
  BY <1>1, <1>2, <1>3, <1>4 DEF Check, Functions, Swapping

(* The ways CopyBegins ends. *)
LEMMA CopyBeginsStep ==
    ASSUME TypeInv, NEW c \in Callers, CopyBegins(c)
    PROVE  /\ At(c, "copy") /\ UNCHANGED <<used, history, faults>>
           /\ call[c].fn \in Swapping /\ Origin(c) \in Folder /\ Origin(c).ver \in Versions \union {NoVersion}
           /\ \/ (Exists(Stage(c)) \/ Origin(c) = Nothing) /\ UNCHANGED disk /\ Raised(c)
              \/ /\ ~Exists(Stage(c)) /\ Origin(c) # Nothing /\ Origin(c) \in Folder
                 /\ Filled(Stage(c), Torn(Origin(c).ver, c)) /\ Moved(c, "copying")
                 /\ call'[c].fn = call[c].fn /\ call'[c].bak = call[c].bak
                 /\ call'[c].replaced = call[c].replaced /\ call'[c].src = Origin(c)
<1> USE BackupsAssumption, CallersAssumption, Known
<1>1. At(c, "copy") /\ UNCHANGED <<used, history, faults>>
  BY DEF CopyBegins, history, NoFault
<1>2. call[c].fn \in Swapping /\ Origin(c) \in Folder /\ Origin(c).ver \in Versions \union {NoVersion}
  BY <1>1, Kinds DEF TypeInv, CallsFit, CallFits, At, Active, Functions, Swapping, Origin,
       Target
<1>3. Raise(c) => Raised(c)
  BY RaiseMoves DEF Raised
<1>4. Torn(Origin(c).ver, c) \in Folder
  BY <1>2, Kinds
<1>5. CASE Raise(c) /\ UNCHANGED disk /\ (Exists(Stage(c)) \/ Origin(c) = Nothing)
  BY <1>1, <1>2, <1>3, <1>5
<1>6. CASE /\ ~Exists(Stage(c)) /\ Origin(c) # Nothing
           /\ Put(Stage(c), Torn(Origin(c).ver, c))
           /\ call' = [call EXCEPT ![c].pc = "copying", ![c].src = Origin(c)]
  <2>1. Filled(Stage(c), Torn(Origin(c).ver, c))
    BY <1>4, <1>6, PutFills
  <2> QED BY <1>1, <1>2, <1>6, <2>1, CopyMoves
<1> QED
  BY <1>1, <1>2, <1>5, <1>6 DEF CopyBegins

(* The ways CopyEnds ends. *)
LEMMA CopyEndsStep ==
    ASSUME TypeInv, NEW c \in Callers, CopyEnds(c)
    PROVE  /\ At(c, "copying") /\ UNCHANGED <<used, history>>
           /\ call[c].fn \in Swapping
           /\ \/ /\ CopyUndisturbed(c) /\ Filled(Stage(c), [call[c].src EXCEPT !.by = NoCaller])
                 /\ Goes(c, AfterCopy(c)) /\ UNCHANGED faults
              \/ ~CopyUndisturbed(c) /\ UNCHANGED <<disk, faults>> /\ Raised(c)
              \/ /\ ~CopyUndisturbed(c) /\ Filled(Stage(c), Torn(call[c].src.ver, NoCaller))
                 /\ Goes(c, AfterCopy(c)) /\ UNCHANGED faults
              \/ UNCHANGED disk /\ Raised(c) /\ faults' = faults + 1
<1> USE BackupsAssumption, CallersAssumption, Known
<1>1. At(c, "copying") /\ UNCHANGED <<used, history>>
  BY DEF CopyEnds, history
<1>2. call[c].fn \in Swapping
  BY <1>1, Kinds DEF TypeInv, CallsFit, CallFits, At, Active, Functions, Swapping, Origin,
       Target
<1> QED
  BY <1>1, <1>2, GotoMoves, RaiseMoves, PutFills, Kinds DEF CopyEnds, Goes, Raised,
       AfterCopy, PCs, Fault, NoFault, Functions, Swapping

(* The ways BackupBegins ends. *)
LEMMA BackupBeginsStep ==
    ASSUME TypeInv, NEW c \in Callers, BackupBegins(c)
    PROVE  /\ At(c, "backup") /\ UNCHANGED <<history, faults>>
           /\ call[c].fn \in {"install", "remove"}
           /\ \/ call[c].fn = "remove" /\ UNCHANGED <<disk, used>> /\ Failed(c)
              \/ ~Exists("install") /\ call[c].fn = "install" /\ UNCHANGED <<disk, used>> /\ Raised(c)
              \/ /\ Exists("install")
                 /\ \E b \in Backups \ used :
                      /\ used' = used \union {b}
                      /\ Filled(b, Torn(disk["install"].ver, c)) /\ Moved(c, "backingUp")
                      /\ call'[c].fn = call[c].fn /\ call'[c].bak = b
                      /\ call'[c].replaced = call[c].replaced /\ call'[c].src = disk["install"]
<1> USE BackupsAssumption, CallersAssumption, Known
<1>1. At(c, "backup") /\ UNCHANGED <<history, faults>>
  BY DEF BackupBegins, history, NoFault
<1>2. call[c].fn \in {"install", "remove"}
  BY <1>1, Kinds DEF TypeInv, CallsFit, CallFits, At, Active, Functions, Swapping, Origin,
       Target
<1>3. BackupFails(c) => /\ call[c].fn = "remove" => Failed(c)
                        /\ call[c].fn # "remove" => Raised(c)
  BY LeaveMoves, RaiseMoves DEF BackupFails, Failed, Raised
<1>4. CASE ~Exists("install") /\ BackupFails(c) /\ UNCHANGED <<disk, used>>
  BY <1>1, <1>2, <1>3, <1>4
<1>5. ASSUME NEW b \in Backups \ used, Exists("install"), used' = used \union {b},
             Put(b, Torn(disk["install"].ver, c)),
             call' = [call EXCEPT ![c].pc = "backingUp", ![c].bak = b, ![c].src = disk["install"]]
      PROVE  /\ Filled(b, Torn(disk["install"].ver, c)) /\ Moved(c, "backingUp")
             /\ call'[c].fn = call[c].fn /\ call'[c].bak = b
             /\ call'[c].replaced = call[c].replaced /\ call'[c].src = disk["install"]
  <2>1. disk["install"] \in Folder /\ Torn(disk["install"].ver, c) \in Folder /\ b \in Places
    BY Kinds
  <2>2. Filled(b, Torn(disk["install"].ver, c))
    BY <1>5, <2>1, PutFills
  <2>3. /\ Moved(c, "backingUp") /\ call'[c].fn = call[c].fn /\ call'[c].bak = b
        /\ call'[c].replaced = call[c].replaced /\ call'[c].src = disk["install"]
    <3>1. BackingUp(c, b, disk["install"])
      BY <1>5 DEF BackingUp
    <3> QED BY <2>1, <3>1, BackupMoves
  <2> QED BY <2>2, <2>3
<1> QED
  BY <1>1, <1>2, <1>4, <1>5 DEF BackupBegins

(* The ways BackupEnds ends. *)
LEMMA BackupEndsStep ==
    ASSUME TypeInv, NEW c \in Callers, BackupEnds(c)
    PROVE  /\ At(c, "backingUp") /\ UNCHANGED <<used, current, unsaved, raced, calls, crashes>>
           /\ call[c].fn \in {"install", "remove"} /\ call[c].bak \in Backups
           /\ \/ /\ BackupUndisturbed(c) /\ Filled(call[c].bak, [call[c].src EXCEPT !.by = NoCaller])
                 /\ Goes(c, AfterBackup(c)) /\ UNCHANGED <<faults, torn>>
              \/ ~BackupUndisturbed(c) /\ UNCHANGED <<disk, faults, torn>> /\ call[c].fn = "remove" /\ Failed(c)
              \/ ~BackupUndisturbed(c) /\ UNCHANGED <<disk, faults, torn>> /\ call[c].fn = "install" /\ Raised(c)
              \/ /\ ~BackupUndisturbed(c) /\ Exists("install")
                 /\ Filled(call[c].bak, Torn(call[c].src.ver, NoCaller))
                 /\ Goes(c, AfterBackup(c)) /\ UNCHANGED <<faults, torn>>
              \/ UNCHANGED disk /\ torn' = TRUE /\ faults' = faults + 1 /\ (Failed(c) \/ (Raised(c) /\ call[c].fn = "install"))
<1> USE BackupsAssumption, CallersAssumption, Known
<1>1. At(c, "backingUp") /\ UNCHANGED <<used, current, unsaved, raced, calls, crashes>>
  BY DEF BackupEnds, history
<1>2. call[c].fn \in {"install", "remove"} /\ call[c].bak \in Backups
  BY <1>1, Kinds DEF TypeInv, CallsFit, CallFits, At, Active, Functions, Swapping, Origin,
       Target
<1>3. BackupFails(c) => /\ call[c].fn = "remove" => Failed(c)
                        /\ call[c].fn # "remove" => Raised(c)
  BY LeaveMoves, RaiseMoves DEF BackupFails, Failed, Raised
<1>4. BackupDone(c, call[c].bak) => Goes(c, AfterBackup(c))
  BY <1>2, BackupDoneMoves DEF Goes, AfterBackup, Keeps
<1>5. /\ Put(call[c].bak, [call[c].src EXCEPT !.by = NoCaller])
         => Filled(call[c].bak, [call[c].src EXCEPT !.by = NoCaller])
      /\ Put(call[c].bak, Torn(call[c].src.ver, NoCaller))
         => Filled(call[c].bak, Torn(call[c].src.ver, NoCaller))
  BY <1>2, PutFills, Kinds
<1>6. CASE /\ BackupUndisturbed(c) /\ Put(call[c].bak, [call[c].src EXCEPT !.by = NoCaller])
           /\ BackupDone(c, call[c].bak) /\ NoFault /\ UNCHANGED torn
  BY <1>1, <1>2, <1>4, <1>5, <1>6 DEF NoFault
<1>7. CASE ~BackupUndisturbed(c) /\ NoFault /\ UNCHANGED torn /\ BackupFails(c) /\ UNCHANGED disk
  BY <1>1, <1>2, <1>3, <1>7 DEF NoFault
<1>8. CASE /\ ~BackupUndisturbed(c) /\ NoFault /\ UNCHANGED torn /\ Exists("install")
           /\ Put(call[c].bak, Torn(call[c].src.ver, NoCaller)) /\ BackupDone(c, call[c].bak)
  BY <1>1, <1>2, <1>4, <1>5, <1>8 DEF NoFault
<1>9. CASE Fault /\ BackupFails(c) /\ UNCHANGED disk /\ torn' = TRUE
  <2>1. faults' = faults + 1 /\ torn' = TRUE /\ UNCHANGED disk
    BY <1>9 DEF Fault
  <2>2. CASE call[c].fn = "remove"
    <3>1. Leave(c, "failed")
      BY <1>9, <2>2 DEF BackupFails
    <3>2. Failed(c)
      BY <3>1, LeaveMoves DEF Failed
    <3> QED BY <1>1, <1>2, <2>1, <3>2, Zenon
  <2>3. CASE call[c].fn = "install"
    <3>1. Raise(c)
      BY <1>9, <2>3 DEF BackupFails
    <3>2. Raised(c)
      BY <3>1, RaiseMoves DEF Raised
    <3> QED BY <1>1, <1>2, <2>1, <2>3, <3>2, Zenon
  <2> QED BY <1>2, <2>2, <2>3
<1> QED
  BY <1>6, <1>7, <1>8, <1>9 DEF BackupEnds

(* The ways SetAside ends. *)
LEMMA SetAsideStep ==
    ASSUME TypeInv, NEW c \in Callers, SetAside(c)
    PROVE  /\ At(c, "setAside") /\ UNCHANGED <<used, history>>
           /\ call[c].fn \in Swapping
           /\ \/ /\ call[c].fn = "rollback" /\ ~Exists("install") /\ UNCHANGED <<disk, faults>>
                 /\ Aside2(c, FALSE)
              \/ /\ CanRename("install", Aside(c)) /\ Shifted("install", Aside(c)) /\ UNCHANGED faults
                 /\ Aside2(c, TRUE)
              \/ /\ ~CanRename("install", Aside(c)) /\ (call[c].fn = "install" \/ Exists("install"))
                 /\ UNCHANGED <<disk, faults>> /\ Raised(c)
              \/ UNCHANGED disk /\ Raised(c) /\ faults' = faults + 1
<1> USE BackupsAssumption, CallersAssumption, Known
<1>1. At(c, "setAside") /\ UNCHANGED <<used, history>>
  BY DEF SetAside, history
<1>2. call[c].fn \in Swapping
  BY <1>1, Kinds DEF TypeInv, CallsFit, CallFits, At, Active, Functions, Swapping, Origin,
       Target
<1>3. Raise(c) => Raised(c)
  BY RaiseMoves DEF Raised
<1>4. Rename("install", Aside(c)) => Shifted("install", Aside(c))
  BY RenameMoves DEF Shifted
<1>5. \A b \in BOOLEAN :
        call' = [call EXCEPT ![c].pc = "activate", ![c].replaced = b] => Aside2(c, b)
  BY AsideMoves DEF Aside2
<1> QED
  BY <1>1, <1>2, <1>3, <1>4, <1>5 DEF SetAside, Fault, NoFault

(* The ways Activate ends. *)
LEMMA ActivateStep ==
    ASSUME TypeInv, NEW c \in Callers, Activate(c)
    PROVE  /\ At(c, "activate") /\ UNCHANGED <<used, unsaved, torn, raced, calls, crashes>>
           /\ call[c].fn \in Swapping
           /\ \/ /\ CanRename(Stage(c), "install") /\ Shifted(Stage(c), "install") /\ UNCHANGED faults
                 /\ current' = IF disk[Stage(c)].whole THEN disk[Stage(c)].ver
                               ELSE IF call[c].fn = "rollback" THEN NoVersion ELSE current
                 /\ Moved(c, "cleanup") /\ Keeps(c) /\ call'[c].result = "ok"
              \/ ~CanRename(Stage(c), "install") /\ UNCHANGED <<disk, current, faults>> /\ Goes(c, "recover")
              \/ UNCHANGED <<disk, current>> /\ Goes(c, "recover") /\ faults' = faults + 1
<1> USE BackupsAssumption, CallersAssumption, Known
<1>1. At(c, "activate") /\ UNCHANGED <<used, unsaved, torn, raced, calls, crashes>>
  BY DEF Activate, history
<1>2. call[c].fn \in Swapping
  BY <1>1, Kinds DEF TypeInv, CallsFit, CallFits, At, Active, Functions, Swapping, Origin,
       Target
<1>3. Goto(c, "recover") => Goes(c, "recover")
  BY GotoMoves DEF Goes, PCs
<1>4. Rename(Stage(c), "install") => Shifted(Stage(c), "install")
  BY RenameMoves DEF Shifted
<1>5. call' = [call EXCEPT ![c].pc = "cleanup", ![c].result = "ok"]
        => Moved(c, "cleanup") /\ Keeps(c) /\ call'[c].result = "ok"
  BY ActivatedMoves
<1> QED
  BY <1>1, <1>2, <1>3, <1>4, <1>5 DEF Activate, Fault, NoFault

(* The ways Recover ends. *)
LEMMA RecoverStep ==
    ASSUME TypeInv, NEW c \in Callers, Recover(c)
    PROVE  /\ At(c, "recover") /\ UNCHANGED <<used, history>>
           /\ call[c].fn \in Swapping
           /\ \/ /\ HasAside(c) /\ CanRename(Aside(c), "install") /\ Shifted(Aside(c), "install")
                 /\ UNCHANGED faults /\ Raised(c)
              \/ /\ ~(HasAside(c) /\ CanRename(Aside(c), "install")) /\ UNCHANGED <<disk, faults>>
                 /\ Raised(c)
              \/ UNCHANGED disk /\ faults' = faults + 1 /\ Raised(c)
<1> USE BackupsAssumption, CallersAssumption, Known
<1>1. At(c, "recover") /\ UNCHANGED <<used, history>>
  BY DEF Recover, history
<1>2. call[c].fn \in Swapping
  BY <1>1, Kinds DEF TypeInv, CallsFit, CallFits, At, Active, Functions, Swapping, Origin,
       Target
<1>3. Raise(c) => Raised(c)
  BY RaiseMoves DEF Raised
<1>4. Rename(Aside(c), "install") => Shifted(Aside(c), "install")
  BY RenameMoves DEF Shifted
<1> QED
  BY <1>1, <1>2, <1>3, <1>4 DEF Recover, Fault, NoFault

(* The ways Cleanup ends. *)
LEMMA CleanupStep ==
    ASSUME TypeInv, NEW c \in Callers, Cleanup(c)
    PROVE  /\ At(c, "cleanup") /\ UNCHANGED <<used, history, faults>>
           /\ call[c].fn \in Swapping
           /\ \/ Exists(Stage(c)) /\ Filled(Stage(c), Torn(disk[Stage(c)].ver, c)) /\ Goes(c, "cleaning")
              \/ ~Exists(Stage(c)) /\ UNCHANGED disk /\ call[c].result = "ok" /\ Goes(c, "discard")
              \/ ~Exists(Stage(c)) /\ UNCHANGED disk /\ call[c].result # "ok" /\ Failed(c)
<1> USE BackupsAssumption, CallersAssumption, Known
<1>1. At(c, "cleanup") /\ UNCHANGED <<used, history, faults>>
  BY DEF Cleanup, history, NoFault
<1>2. call[c].fn \in Swapping
  BY <1>1, Kinds DEF TypeInv, CallsFit, CallFits, At, Active, Functions, Swapping, Origin,
       Target
<1>3. \A q \in {"cleaning", "discard"} : Goto(c, q) => Goes(c, q)
  BY GotoMoves DEF Goes, PCs
<1>4. ASSUME Leave(c, "failed") PROVE Failed(c)
  BY <1>4, LeaveMoves DEF Failed
<1>5. Put(Stage(c), Torn(disk[Stage(c)].ver, c)) => Filled(Stage(c), Torn(disk[Stage(c)].ver, c))
  BY PutFills, Kinds
<1> QED
  BY <1>1, <1>2, <1>3, <1>4, <1>5 DEF Cleanup, Empty

(* The ways Cleaned ends. *)
LEMMA CleanedStep ==
    ASSUME TypeInv, NEW c \in Callers, Cleaned(c)
    PROVE  /\ At(c, "cleaning") /\ UNCHANGED <<used, history>>
           /\ call[c].fn \in Swapping
           /\ \/ /\ disk[Stage(c)].by = c /\ Filled(Stage(c), Nothing) /\ UNCHANGED faults
                 /\ \/ call[c].result = "ok" /\ Goes(c, "discard")
                    \/ call[c].result # "ok" /\ Failed(c)
              \/ disk[Stage(c)].by # c /\ UNCHANGED <<disk, faults>> /\ Failed(c)
              \/ UNCHANGED disk /\ Failed(c) /\ faults' = faults + 1
<1> USE BackupsAssumption, CallersAssumption, Known
<1>1. At(c, "cleaning") /\ UNCHANGED <<used, history>>
  BY DEF Cleaned, history
<1>2. call[c].fn \in Swapping
  BY <1>1, Kinds DEF TypeInv, CallsFit, CallFits, At, Active, Functions, Swapping, Origin,
       Target
<1> QED
  BY <1>1, <1>2, GotoMoves, LeaveMoves, PutFills, Kinds DEF Cleaned, Goes, Failed, PCs,
       Fault, NoFault, Functions, Swapping

(* The ways Discard ends. *)
LEMMA DiscardStep ==
    ASSUME TypeInv, NEW c \in Callers, Discard(c)
    PROVE  /\ At(c, "discard") /\ UNCHANGED <<used, history, faults>>
           /\ call[c].fn \in Swapping
           /\ \/ /\ HasAside(c) /\ Exists(Aside(c)) /\ Filled(Aside(c), Torn(disk[Aside(c)].ver, c))
                 /\ Goes(c, "discarding")
              \/ ~(HasAside(c) /\ Exists(Aside(c))) /\ UNCHANGED disk /\ (Failed(c) \/ Returned(c))
<1> USE BackupsAssumption, CallersAssumption, Known
<1>1. At(c, "discard") /\ UNCHANGED <<used, history, faults>>
  BY DEF Discard, history, NoFault
<1>2. call[c].fn \in Swapping
  BY <1>1, Kinds DEF TypeInv, CallsFit, CallFits, At, Active, Functions, Swapping, Origin,
       Target
<1>3. Goto(c, "discarding") => Goes(c, "discarding")
  BY GotoMoves DEF Goes, PCs
<1>4. /\ Leave(c, "failed") => Failed(c)
      /\ Leave(c, "ok") => Returned(c)
  BY LeaveMoves DEF Failed, Returned, Answered
<1>5. Put(Aside(c), Torn(disk[Aside(c)].ver, c)) => Filled(Aside(c), Torn(disk[Aside(c)].ver, c))
  BY PutFills, Kinds
<1> QED
  BY <1>1, <1>2, <1>3, <1>4, <1>5 DEF Discard, Empty

(* The ways Discarded ends. *)
LEMMA DiscardedStep ==
    ASSUME TypeInv, NEW c \in Callers, Discarded(c)
    PROVE  /\ At(c, "discarding") /\ UNCHANGED <<used, history>>
           /\ call[c].fn \in Swapping
           /\ \/ disk[Aside(c)].by = c /\ Filled(Aside(c), Nothing) /\ UNCHANGED faults /\ Returned(c)
              \/ disk[Aside(c)].by # c /\ UNCHANGED <<disk, faults>> /\ Failed(c)
              \/ UNCHANGED disk /\ Failed(c) /\ faults' = faults + 1
<1> USE BackupsAssumption, CallersAssumption, Known
<1>1. At(c, "discarding") /\ UNCHANGED <<used, history>>
  BY DEF Discarded, history
<1>2. call[c].fn \in Swapping
  BY <1>1, Kinds DEF TypeInv, CallsFit, CallFits, At, Active, Functions, Swapping, Origin,
       Target
<1> QED
  BY <1>1, <1>2, LeaveMoves, PutFills, Kinds DEF Discarded, Failed, Returned, Answered, PCs, Fault,
       NoFault, Functions, Swapping

(* The ways Remove ends. *)
LEMMA RemoveStep ==
    ASSUME TypeInv, NEW c \in Callers, Remove(c)
    PROVE  /\ At(c, "remove") /\ UNCHANGED <<used, torn, raced, calls, faults, crashes>>
           /\ call[c].fn \in {"remove", "delete"} /\ Target(c) \in Places
           /\ \/ /\ Exists(Target(c)) /\ Filled(Target(c), Torn(disk[Target(c)].ver, c))
                 /\ current' = (IF GivesUp(c) THEN NoVersion ELSE current)
                 /\ unsaved' \in BOOLEAN /\ Goes(c, "removing")
              \/ ~Exists(Target(c)) /\ UNCHANGED <<disk, current, unsaved>> /\ Failed(c)
<1> USE BackupsAssumption, CallersAssumption, Known
<1>1. At(c, "remove") /\ UNCHANGED <<used, torn, raced, calls, faults, crashes>>
  BY DEF Remove, history, NoFault
<1>2. call[c].fn \in {"remove", "delete"} /\ Target(c) \in Places
  BY <1>1, Kinds DEF TypeInv, CallsFit, CallFits, At, Active, Functions, Swapping, Origin,
       Target
<1>3. Goto(c, "removing") => Goes(c, "removing")
  BY GotoMoves DEF Goes, PCs
<1>4. ASSUME Leave(c, "failed") PROVE Failed(c)
  BY <1>4, LeaveMoves DEF Failed
<1>5. Put(Target(c), Torn(disk[Target(c)].ver, c)) => Filled(Target(c), Torn(disk[Target(c)].ver, c))
  BY <1>2, PutFills, Kinds
<1>6. unsaved \in BOOLEAN
  BY DEF TypeInv, TypeOK
<1> QED
  BY <1>1, <1>2, <1>3, <1>4, <1>5, <1>6 DEF Remove, Empty

(* The ways Removed ends. *)
LEMMA RemovedStep ==
    ASSUME TypeInv, NEW c \in Callers, Removed(c)
    PROVE  /\ At(c, "removing") /\ UNCHANGED <<used, current, unsaved, raced, calls, crashes>>
           /\ call[c].fn \in {"remove", "delete"} /\ Target(c) \in Places
           /\ \/ /\ disk[Target(c)].by = c /\ Filled(Target(c), Nothing) /\ UNCHANGED <<faults, torn>>
                 /\ Moved(c, "done") /\ Answered(c)
              \/ disk[Target(c)].by # c /\ UNCHANGED <<disk, faults, torn>> /\ Failed(c)
              \/ UNCHANGED disk /\ Failed(c) /\ torn' = TRUE /\ faults' = faults + 1
<1> USE BackupsAssumption, CallersAssumption, Known
<1>1. At(c, "removing") /\ UNCHANGED <<used, current, unsaved, raced, calls, crashes>>
  BY DEF Removed, history
<1>2. call[c].fn \in {"remove", "delete"} /\ Target(c) \in Places
  BY <1>1, Kinds DEF TypeInv, CallsFit, CallFits, At, Active, Functions, Swapping, Origin,
       Target
<1> QED
  BY <1>1, <1>2, LeaveMoves, PutFills, Kinds DEF Removed, Failed, Answered, Target, PCs, Fault,
       NoFault, Functions, Swapping

-----------------------------------------------------------------------------
\* The parts of the type invariant a step of one call can change.
FoldersFit ==
  /\ disk \in [Places -> Folder]
  /\ \A p \in Places : disk[p].whole => disk[p] = Whole(disk[p].ver) /\ disk[p].ver \in Versions
  /\ used \subseteq Backups
  /\ \A b \in Backups \ used : disk[b] = Nothing

CountersFit ==
  /\ current \in Versions \union {NoVersion}
  /\ unsaved \in BOOLEAN /\ torn \in BOOLEAN /\ raced \in BOOLEAN
  /\ calls \in 0..MaxCalls /\ faults \in 0..MaxFaults /\ crashes \in 0..MaxCrashes

(* What a step does to the folders keeps them well-formed. *)
LEMMA FilledFits ==
    ASSUME FoldersFit, NEW p \in Places, NEW f \in Folder, Filled(p, f),
           f.whole => f = Whole(f.ver) /\ f.ver \in Versions,
           p \in Backups => p \in used', used \subseteq used', used' \subseteq Backups
    PROVE  FoldersFit'
  BY DEF FoldersFit, Filled, Places

LEMMA ShiftedFits ==
    ASSUME FoldersFit, NEW p \in Places \ Backups, NEW q \in Places \ Backups, p # q,
           Shifted(p, q), UNCHANGED used
    PROVE  FoldersFit'
  BY Kinds DEF FoldersFit, Shifted, Places

LEMMA SameFits ==
    ASSUME FoldersFit, UNCHANGED <<disk, used>>
    PROVE  FoldersFit'
  BY DEF FoldersFit

\* An operation failed, or none did.
FaultsOrNot == UNCHANGED faults \/ Fault

LEMMA CountsFit ==
    ASSUME TypeInv, FaultsOrNot, NEW v \in Versions \union {NoVersion}, current' = v,
           unsaved' \in BOOLEAN, torn' \in BOOLEAN, raced' \in BOOLEAN, UNCHANGED <<calls, crashes>>
    PROVE  CountersFit'
  BY BoundsAssumption DEF CountersFit, FaultsOrNot, TypeInv, TypeOK, Fault

(* A step of one call keeps the type invariant if its own parts fit. *)
LEMMA OneMoves ==
    ASSUME TypeInv, NEW c \in Callers, NEW q, Moved(c, q), used \subseteq used',
           CallFits(c)', FoldersFit', CountersFit'
    PROVE  TypeInv'
<1>1. \A d \in Callers : d # c => CallFits(d)'
  BY DEF TypeInv, CallsFit, CallFits, Moved, Active
<1>2. CallsFit'
  BY <1>1 DEF CallsFit, Moved
<1>3. \A d \in Callers : call'[d].op \in {"none", "install", "remove", "rollback", "delete"}
  BY DEF TypeInv, TypeOK, Moved
<1> QED BY <1>2, <1>3 DEF TypeInv, TypeOK, FoldersFit, CountersFit

(* The type invariant in its parts. *)
LEMMA HaveFits ==
    ASSUME TypeInv
    PROVE  FoldersFit /\ CountersFit /\ \A c \in Callers : CallFits(c)
  BY DEF TypeInv, TypeOK, CallsFit, FoldersFit, CountersFit

(* The ways Provision ends. *)
LEMMA ProvisionStep ==
    ASSUME TypeInv, NEW c \in Callers, Provision(c)
    PROVE  /\ At(c, "provision") /\ UNCHANGED <<disk, used, history, faults>> /\ call[c].fn = "install"
           /\ \/ call[c].replaced /\ Goes(c, "backup")
              \/ ~call[c].replaced /\ Goes(c, "activate")
              \/ Raised(c)
<1>1. At(c, "provision") /\ UNCHANGED <<disk, used, history, faults>>
  BY DEF Provision
<1>2. call[c].fn = "install"
  BY <1>1 DEF TypeInv, CallsFit, CallFits, At
<1>3. ASSUME NEW q \in {"backup", "activate"}, Goto(c, q) PROVE Goes(c, q)
  BY <1>3, GotoMoves, Known DEF Goes, PCs
<1>4. Raise(c) => Raised(c)
  BY RaiseMoves, Known DEF Raised
<1> QED BY <1>1, <1>2, <1>3, <1>4 DEF Provision

(* The ways Verify ends. *)
LEMMA VerifyStep ==
    ASSUME TypeInv, NEW c \in Callers, Verify(c)
    PROVE  /\ At(c, "verify") /\ UNCHANGED <<disk, used, history, faults>>
           /\ \/ Goes(c, "done")
              \/ /\ Moved(c, "check") /\ call'[c].bak = call[c].bak /\ call'[c].src = call[c].src
                 /\ \/ call'[c].fn = "rollback" /\ call[c].bak # NoBackup
                    \/ call'[c].fn = "remove" /\ call[c].bak = NoBackup
<1>1. At(c, "verify") /\ UNCHANGED <<disk, used, history, faults>>
  BY DEF Verify
<1>2. CASE Goto(c, "done")
  <2>1. Goes(c, "done")
    BY <1>2, GotoMoves, Known DEF Goes, PCs
  <2> QED BY <1>1, <2>1
<1>3. ASSUME NEW f \in {"rollback", "remove"}, f = "rollback" => call[c].bak # NoBackup,
             call' = [call EXCEPT ![c].pc = "check", ![c].fn = f]
      PROVE  /\ Moved(c, "check") /\ call'[c].fn = f /\ call'[c].bak = call[c].bak
             /\ call'[c].src = call[c].src
  BY <1>3, VerifyMoves, Known
<1>4. CASE call' = [call EXCEPT ![c].pc = "check",
                                ![c].fn = IF call[c].bak # NoBackup THEN "rollback" ELSE "remove"]
  <2>1. CASE call[c].bak # NoBackup
    <3>1. call' = [call EXCEPT ![c].pc = "check", ![c].fn = "rollback"]
      BY <1>4, <2>1
    <3> QED BY <1>1, <1>3, <2>1, <3>1
  <2>2. CASE call[c].bak = NoBackup
    <3>1. call' = [call EXCEPT ![c].pc = "check", ![c].fn = "remove"]
      BY <1>4, <2>2
    <3> QED BY <1>1, <1>3, <2>2, <3>1
  <2> QED BY <2>1, <2>2
<1> QED BY <1>2, <1>4 DEF Verify

LEMMA TornFits ==
    ASSUME FoldersFit, NEW p \in Places, NEW v \in Versions \union {NoVersion},
           NEW b \in Callers \union {NoCaller}, Filled(p, Torn(v, b)),
           p \in Backups => p \in used, UNCHANGED used
    PROVE  FoldersFit'
  BY Kinds, FilledFits DEF FoldersFit

LEMMA WholeFits ==
    ASSUME FoldersFit, NEW p \in Places, NEW f \in Folder, Filled(p, [f EXCEPT !.by = NoCaller]),
           f.whole => f = Whole(f.ver) /\ f.ver \in Versions,
           p \in Backups => p \in used, UNCHANGED used
    PROVE  FoldersFit'
<1> DEFINE g == [f EXCEPT !.by = NoCaller]
<1>1. g \in Folder /\ g.whole = f.whole /\ g.ver = f.ver
  BY Kinds
<1>2. f.whole => g = Whole(f.ver)
  <2>1. f.by = NoCaller => g = f
    BY DEF Folder
  <2>2. f.whole => f.by = NoCaller
    BY Kinds
  <2> QED BY <2>1, <2>2
<1>3. used \subseteq Backups
  BY DEF FoldersFit
<1> HIDE DEF g
<1>4. Filled(p, g)
  BY DEF g
<1> QED BY <1>1, <1>2, <1>3, <1>4, FilledFits

LEMMA EmptyFits ==
    ASSUME FoldersFit, NEW p \in Places, Filled(p, Nothing), UNCHANGED used
    PROVE  FoldersFit'
  BY Kinds DEF FoldersFit, Filled, Places

Request(c) == InstallRequest(c) \/ RemoveRequest(c) \/ RollbackRequest(c) \/ DeleteRequest(c)

\* A request for the function it names, with a version to install or a backup to use.
Fresh(r) ==
  /\ r.pc = "check" /\ r.op \in Functions /\ r.fn = r.op /\ ~r.src.whole
  /\ r.bak # NoBackup => r.bak \in used
  /\ r.fn = "install" => r.ver \in Versions /\ r.replaced = Exists("install") /\ ~r.keep
                             /\ r.bak = NoBackup
  /\ r.fn \in {"rollback", "delete"} => r.bak # NoBackup
  /\ r.fn # "remove" => ~r.keep

(* A request is a fresh call. *)
LEMMA RequestsArrive ==
    ASSUME TypeInv, NEW c \in Callers, Request(c)
    PROVE  \E r \in Call : Arrive(c, r) /\ Fresh(r)
<1> USE IdleCall, HaveFits, BackupsAssumption DEF Idle, Call, PCs, Functions, Folder,
     Nothing, FoldersFit
<1>1. ASSUME NEW v \in Versions,
       Arrive(c, [Idle EXCEPT !.pc = "check",
                              !.op = "install", !.fn = "install", !.ver = v, !.replaced = Exists("install")])
      PROVE  \E r \in Call : Arrive(c, r) /\ Fresh(r)
  <2> DEFINE r == [Idle EXCEPT !.pc = "check",
                               !.op = "install", !.fn = "install", !.ver = v, !.replaced = Exists("install")]
  <2>1. r \in Call /\ Fresh(r)
    BY ZenonT(120) DEF Fresh, Exists
  <2>2. Arrive(c, r)
    BY <1>1
  <2> HIDE DEF r
  <2> QED BY <2>1, <2>2
<1>2. ASSUME NEW k \in BOOLEAN,
       Arrive(c, [Idle EXCEPT !.pc = "check",
                              !.op = "remove", !.fn = "remove", !.keep = k])
      PROVE  \E r \in Call : Arrive(c, r) /\ Fresh(r)
  <2> DEFINE r == [Idle EXCEPT !.pc = "check",
                               !.op = "remove", !.fn = "remove", !.keep = k]
  <2>1. r \in Call /\ Fresh(r)
    BY ZenonT(120) DEF Fresh, Exists
  <2>2. Arrive(c, r)
    BY <1>2
  <2> HIDE DEF r
  <2> QED BY <2>1, <2>2
<1>3. ASSUME NEW b \in used,
       Arrive(c, [Idle EXCEPT !.pc = "check",
                              !.op = "rollback", !.fn = "rollback", !.bak = b])
      PROVE  \E r \in Call : Arrive(c, r) /\ Fresh(r)
  <2> DEFINE r == [Idle EXCEPT !.pc = "check",
                               !.op = "rollback", !.fn = "rollback", !.bak = b]
  <2>1. r \in Call /\ Fresh(r)
    BY ZenonT(120) DEF Fresh, Exists
  <2>2. Arrive(c, r)
    BY <1>3
  <2> HIDE DEF r
  <2> QED BY <2>1, <2>2
<1>4. ASSUME NEW b \in used,
       Arrive(c, [Idle EXCEPT !.pc = "check",
                              !.op = "delete", !.fn = "delete", !.bak = b])
      PROVE  \E r \in Call : Arrive(c, r) /\ Fresh(r)
  <2> DEFINE r == [Idle EXCEPT !.pc = "check",
                               !.op = "delete", !.fn = "delete", !.bak = b]
  <2>1. r \in Call /\ Fresh(r)
    BY ZenonT(120) DEF Fresh, Exists
  <2>2. Arrive(c, r)
    BY <1>4
  <2> HIDE DEF r
  <2> QED BY <2>1, <2>2
<1> QED
  BY <1>1, <1>2, <1>3, <1>4 DEF Request, InstallRequest, RemoveRequest, RollbackRequest,
       DeleteRequest

(* A request that arrives keeps the type invariant. *)
LEMMA ArrivesFit ==
    ASSUME TypeInv, NEW c \in Callers, Request(c)
    PROVE  TypeInv'
<1>0. PICK r \in Call : Arrive(c, r) /\ Fresh(r)
  BY RequestsArrive
<1>1. /\ call' \in [Callers -> Call]
      /\ \A d \in Callers : d # c => call'[d] = IF At(d, "done") THEN Idle ELSE call[d]
      /\ call'[c].pc = r.pc /\ call'[c].fn = r.fn /\ call'[c].op = r.op
      /\ call'[c].ver = r.ver /\ call'[c].bak = r.bak /\ call'[c].src = r.src
  BY <1>0, ArriveMoves, Known
<1>2. UNCHANGED <<disk, used, current, unsaved, torn, faults, crashes>> /\ calls < MaxCalls
      /\ calls' = calls + 1 /\ raced' \in BOOLEAN
  BY <1>0, HaveFits DEF Arrive, CountersFit
<1>3. CallFits(c)'
  BY <1>0, <1>1, <1>2 DEF CallFits, Active, Functions, Fresh
<1>4. ASSUME NEW d \in Callers, d # c PROVE CallFits(d)'
  BY <1>1, <1>2, <1>4, HaveFits, IdleCall DEF CallFits, Active, Idle, Nothing
<1>5. FoldersFit'
  BY <1>2, HaveFits DEF FoldersFit
<1>6. CountersFit'
  BY <1>2, HaveFits, BoundsAssumption DEF CountersFit
<1>7. \A d \in Callers : call'[d].op \in {"none", "install", "remove", "rollback", "delete"}
  BY <1>0, <1>1, IdleCall DEF TypeInv, TypeOK, Functions, Fresh
<1> QED BY <1>1, <1>3, <1>4, <1>5, <1>6, <1>7 DEF TypeInv, TypeOK, CallsFit, FoldersFit, CountersFit

(* Every variable keeps its type, and every call fits what it is doing. *)
THEOREM TypeCorrect == Spec => []TypeInv
<1> USE BackupsAssumption, CallersAssumption, VersionsAssumption, BoundsAssumption
<1>1. Init => TypeInv
  <2> SUFFICES ASSUME Init PROVE TypeInv
    OBVIOUS
  <2>1. /\ call = [c \in Callers |-> Idle] /\ current \in Versions \union {NoVersion}
        /\ unsaved = FALSE /\ torn = FALSE /\ raced = FALSE
        /\ calls = 0 /\ faults = 0 /\ crashes = 0
    BY Kinds DEF Init, Nothing, Whole
  <2>2. FoldersFit
    BY Kinds DEF Init, FoldersFit, Places, Hidden
  <2>3. CallsFit
    BY <2>1, IdleCall DEF CallsFit, CallFits, Active, Idle, Nothing
  <2>4. \A c \in Callers : call[c].op = "none"
    BY <2>1, IdleCall
  <2>5. unsaved \in BOOLEAN /\ torn \in BOOLEAN /\ raced \in BOOLEAN
    BY <2>1, Zenon
  <2>6. CountersFit
    BY <2>1, <2>5, BoundsAssumption DEF CountersFit
  <2> QED
    BY <2>2, <2>3, <2>4, <2>6 DEF TypeInv, TypeOK, FoldersFit, CountersFit
<1>2. TypeInv /\ [Next]_vars => TypeInv'
  <2> SUFFICES ASSUME TypeInv, [Next]_vars PROVE TypeInv'
    OBVIOUS
  <2>1. ASSUME NEW c \in Callers, Request(c) PROVE TypeInv'
    BY <2>1, ArrivesFit
  <2>2. ASSUME NEW c \in Callers, Check(c) PROVE TypeInv'
    <3>1. At(c, "check") /\ UNCHANGED <<disk, used, history, faults>> /\ CallFits(c) /\ FoldersFit /\ CountersFit
          /\ call[c].fn \in Functions
      BY <2>2, CheckStep, HaveFits
    <3>2. CountersFit'
      BY <3>1 DEF CountersFit, history
    <3>3. CASE Refused(c) /\ Failed(c)
      <4>1. CallFits(c)' /\ \E q \in PCs : Moved(c, q)
        BY <3>1, <3>3, Known, Kinds DEF Failed, Keeps, Moved, CallFits, Active, At,
             Functions, Swapping, PCs
      <4>2. FoldersFit'
        BY <3>1, <3>3, Known, Kinds, BackupsAssumption, SameFits DEF CallFits,
             Target, Hidden, Functions
      <4> QED BY <3>1, <3>2, <3>3, <4>1, <4>2, OneMoves
    <3>4. CASE ~Refused(c) /\ call[c].fn \in Swapping /\ Goes(c, "copy")
      <4>1. CallFits(c)' /\ \E q \in PCs : Moved(c, q)
        BY <3>1, <3>4, Known, Kinds DEF Goes, Keeps, Moved, CallFits, Active, At,
             Functions, Swapping, PCs
      <4>2. FoldersFit'
        BY <3>1, <3>4, Known, Kinds, BackupsAssumption, SameFits DEF CallFits,
             Target, Hidden, Functions
      <4> QED BY <3>1, <3>2, <3>4, <4>1, <4>2, OneMoves
    <3>5. CASE ~Refused(c) /\ call[c].fn = "remove" /\ Goes(c, "backup")
      <4>1. CallFits(c)' /\ \E q \in PCs : Moved(c, q)
        BY <3>1, <3>5, Known, Kinds DEF Goes, Keeps, Moved, CallFits, Active, At,
             Functions, Swapping, PCs
      <4>2. FoldersFit'
        BY <3>1, <3>5, Known, Kinds, BackupsAssumption, SameFits DEF CallFits,
             Target, Hidden, Functions
      <4> QED BY <3>1, <3>2, <3>5, <4>1, <4>2, OneMoves
    <3>6. CASE ~Refused(c) /\ call[c].fn \in {"remove", "delete"} /\ Goes(c, "remove")
      <4>1. CallFits(c)' /\ \E q \in PCs : Moved(c, q)
        BY <3>1, <3>6, Known, Kinds DEF Goes, Keeps, Moved, CallFits, Active, At,
             Functions, Swapping, PCs
      <4>2. FoldersFit'
        BY <3>1, <3>6, Known, Kinds, BackupsAssumption, SameFits DEF CallFits,
             Target, Hidden, Functions
      <4> QED BY <3>1, <3>2, <3>6, <4>1, <4>2, OneMoves
    <3> QED
      BY <2>2, <3>3, <3>4, <3>5, <3>6, CheckStep
  <2>3. ASSUME NEW c \in Callers, CopyBegins(c) PROVE TypeInv'
    <3>1. At(c, "copy") /\ UNCHANGED <<used, history, faults>> /\ CallFits(c) /\ FoldersFit /\ CountersFit
          /\ call[c].fn \in Swapping /\ Origin(c) \in Folder /\ Origin(c).ver \in Versions \union {NoVersion}
      BY <2>3, CopyBeginsStep, HaveFits
    <3>2. CountersFit'
      BY <3>1 DEF CountersFit, history
    <3>3. Origin(c).whole => Origin(c) = Whole(Origin(c).ver) /\ Origin(c).ver \in Versions
      BY <3>1, Known, Kinds DEF Origin, CallFits, FoldersFit, Swapping
    <3>4. CASE (Exists(Stage(c)) \/ Origin(c) = Nothing) /\ UNCHANGED disk /\ Raised(c)
      <4>1. CallFits(c)' /\ \E q \in PCs : Moved(c, q)
        BY <3>1, <3>4, <3>3, Known, Kinds DEF Raised, Keeps, Moved, CallFits,
             Active, At, Functions, Swapping, PCs
      <4>2. FoldersFit'
        BY <3>1, <3>4, Known, Kinds, BackupsAssumption, SameFits DEF CallFits,
             Target, Hidden, Functions
      <4> QED BY <3>1, <3>2, <3>4, <4>1, <4>2, OneMoves
    <3>5. CASE /\ ~Exists(Stage(c)) /\ Origin(c) # Nothing /\ Origin(c) \in Folder
              /\ Filled(Stage(c), Torn(Origin(c).ver, c)) /\ Moved(c, "copying")
              /\ call'[c].fn = call[c].fn /\ call'[c].bak = call[c].bak
              /\ call'[c].replaced = call[c].replaced /\ call'[c].src = Origin(c)
      <4>1. CallFits(c)' /\ \E q \in PCs : Moved(c, q)
        BY <3>1, <3>5, <3>3, Known, Kinds DEF Moved, CallFits, Active, At,
             Functions, Swapping, PCs
      <4>2. /\ Origin(c).ver \in Versions \union {NoVersion}
            /\ Stage(c) \in Places /\ (Stage(c) \in Backups => Stage(c) \in used)
        BY <3>1, Known, Kinds, BackupsAssumption DEF CallFits, Target, Hidden
      <4>3. FoldersFit'
        BY <3>1, <3>5, <4>2, Known, Kinds, BackupsAssumption, TornFits DEF CallFits,
             Target, Hidden, Functions
      <4> QED BY <3>1, <3>2, <3>5, <4>1, <4>3, OneMoves
    <3> QED
      BY <2>3, <3>4, <3>5, CopyBeginsStep
  <2>4. ASSUME NEW c \in Callers, CopyEnds(c) PROVE TypeInv'
    <3>1. At(c, "copying") /\ UNCHANGED <<used, history>> /\ CallFits(c) /\ FoldersFit /\ CountersFit
          /\ call[c].fn \in Swapping
      BY <2>4, CopyEndsStep, HaveFits
    <3>2. CountersFit'
      <4>1. Fault \/ UNCHANGED faults
        BY <2>4 DEF CopyEnds, NoFault
      <4>2. \A p \in Places : disk[p].ver \in Versions \union {NoVersion}
        BY Known, Kinds
      <4>3. current' \in Versions \union {NoVersion} /\ torn' \in BOOLEAN /\ unsaved' \in BOOLEAN
        BY <2>4, <3>1, <4>2, CopyEndsStep, Known DEF CountersFit, history
      <4> QED BY <3>1, <4>1, <4>3, BoundsAssumption DEF CountersFit, Fault, history
    <3>3. CASE /\ CopyUndisturbed(c) /\ Filled(Stage(c), [call[c].src EXCEPT !.by = NoCaller])
              /\ Goes(c, AfterCopy(c)) /\ UNCHANGED faults
      <4>1. CallFits(c)' /\ \E q \in PCs : Moved(c, q)
        BY <3>1, <3>3, Known, Kinds DEF Goes, Keeps, Moved, CallFits, Active, At,
             Functions, Swapping, AfterCopy, PCs
      <4>2. FoldersFit'
        BY <3>1, <3>3, Known, Kinds, BackupsAssumption, WholeFits DEF CallFits,
             Target, Hidden, Functions
      <4> QED BY <3>1, <3>2, <3>3, <4>1, <4>2, OneMoves
    <3>4. CASE ~CopyUndisturbed(c) /\ UNCHANGED <<disk, faults>> /\ Raised(c)
      <4>1. CallFits(c)' /\ \E q \in PCs : Moved(c, q)
        BY <3>1, <3>4, Known, Kinds DEF Raised, Keeps, Moved, CallFits, Active, At,
             Functions, Swapping, PCs
      <4>2. FoldersFit'
        BY <3>1, <3>4, Known, Kinds, BackupsAssumption, SameFits DEF CallFits,
             Target, Hidden, Functions
      <4> QED BY <3>1, <3>2, <3>4, <4>1, <4>2, OneMoves
    <3>5. CASE /\ ~CopyUndisturbed(c) /\ Filled(Stage(c), Torn(call[c].src.ver, NoCaller))
              /\ Goes(c, AfterCopy(c)) /\ UNCHANGED faults
      <4>1. CallFits(c)' /\ \E q \in PCs : Moved(c, q)
        BY <3>1, <3>5, Known, Kinds DEF Goes, Keeps, Moved, CallFits, Active, At,
             Functions, Swapping, AfterCopy, PCs
      <4>2. /\ call[c].src.ver \in Versions \union {NoVersion}
            /\ Stage(c) \in Places /\ (Stage(c) \in Backups => Stage(c) \in used)
        BY <3>1, Known, Kinds, BackupsAssumption DEF CallFits, Target, Hidden
      <4>3. FoldersFit'
        BY <3>1, <3>5, <4>2, Known, Kinds, BackupsAssumption, TornFits DEF CallFits,
             Target, Hidden, Functions
      <4> QED BY <3>1, <3>2, <3>5, <4>1, <4>3, OneMoves
    <3>6. CASE UNCHANGED disk /\ Raised(c) /\ faults' = faults + 1
      <4>1. CallFits(c)' /\ \E q \in PCs : Moved(c, q)
        BY <3>1, <3>6, Known, Kinds DEF Raised, Keeps, Moved, CallFits, Active, At,
             Functions, Swapping, PCs
      <4>2. FoldersFit'
        BY <3>1, <3>6, Known, Kinds, BackupsAssumption, SameFits DEF CallFits,
             Target, Hidden, Functions
      <4> QED BY <3>1, <3>2, <3>6, <4>1, <4>2, OneMoves
    <3> QED
      BY <2>4, <3>3, <3>4, <3>5, <3>6, CopyEndsStep
  <2>5. ASSUME NEW c \in Callers, Provision(c) PROVE TypeInv'
    <3>1. CallFits(c)' /\ \E q \in PCs : Moved(c, q)
      BY <2>5, ProvisionStep, Known, Kinds, HaveFits DEF Goes, Raised, Keeps, Moved,
           CallFits, Active, At, Functions, Swapping, PCs
    <3>2. FoldersFit' /\ used \subseteq used'
      BY <2>5, ProvisionStep, Known, Kinds, HaveFits, SameFits DEF CallFits, Target,
           Places, Hidden, Functions
    <3>3. CountersFit'
      BY <2>5, ProvisionStep, Known, Kinds, HaveFits DEF CountersFit, Provision,
           Fault, NoFault, history
    <3> QED
      BY <3>1, <3>2, <3>3, OneMoves
  <2>6. ASSUME NEW c \in Callers, BackupBegins(c) PROVE TypeInv'
    <3>1. At(c, "backup") /\ UNCHANGED <<history, faults>> /\ CallFits(c) /\ FoldersFit /\ CountersFit
          /\ call[c].fn \in {"install", "remove"}
      BY <2>6, BackupBeginsStep, HaveFits
    <3>2. CountersFit'
      BY <3>1 DEF CountersFit, history
    <3>3. disk["install"].whole => disk["install"] = Whole(disk["install"].ver) /\ disk["install"].ver \in Versions
      BY <3>1, Known DEF FoldersFit
    <3>4. CASE call[c].fn = "remove" /\ UNCHANGED <<disk, used>> /\ Failed(c)
      <4>1. CallFits(c)' /\ \E q \in PCs : Moved(c, q)
        BY <3>1, <3>4, <3>3, Known, Kinds DEF Failed, Keeps, Moved, CallFits,
             Active, At, Functions, Swapping, PCs
      <4>2. FoldersFit'
        BY <3>1, <3>4, Known, Kinds, BackupsAssumption, SameFits DEF CallFits,
             Target, Hidden, Functions
      <4> QED BY <3>1, <3>2, <3>4, <4>1, <4>2, OneMoves
    <3>5. CASE ~Exists("install") /\ call[c].fn = "install" /\ UNCHANGED <<disk, used>> /\ Raised(c)
      <4>1. CallFits(c)' /\ \E q \in PCs : Moved(c, q)
        BY <3>1, <3>5, <3>3, Known, Kinds DEF Raised, Keeps, Moved, CallFits,
             Active, At, Functions, Swapping, PCs
      <4>2. FoldersFit'
        BY <3>1, <3>5, Known, Kinds, BackupsAssumption, SameFits DEF CallFits,
             Target, Hidden, Functions
      <4> QED BY <3>1, <3>2, <3>5, <4>1, <4>2, OneMoves
    <3>6. CASE /\ Exists("install")
              /\ \E b \in Backups \ used :
                   /\ used' = used \union {b}
                   /\ Filled(b, Torn(disk["install"].ver, c)) /\ Moved(c, "backingUp")
                   /\ call'[c].fn = call[c].fn /\ call'[c].bak = b
                   /\ call'[c].replaced = call[c].replaced /\ call'[c].src = disk["install"]
      <4>1. PICK b \in Backups \ used :
              /\ used' = used \union {b}
              /\ Filled(b, Torn(disk["install"].ver, c)) /\ Moved(c, "backingUp")
              /\ call'[c].fn = call[c].fn /\ call'[c].bak = b
              /\ call'[c].replaced = call[c].replaced /\ call'[c].src = disk["install"]
        BY <3>6
      <4>2. /\ Torn(disk["install"].ver, c) \in Folder /\ ~Torn(disk["install"].ver, c).whole
            /\ b \in Places /\ used' \subseteq Backups /\ used \subseteq used' /\ b \in used'
        BY <3>1, <4>1, Known, Kinds, ZenonT(60) DEF FoldersFit
      <4>3. FoldersFit'
        BY <3>1, <4>1, <4>2, FilledFits
      <4>4. CallFits(c)'
        BY <3>1, <3>3, <4>1, <4>2, BackupsAssumption DEF CallFits, Active, At,
             Functions, Moved
      <4> QED BY <3>2, <4>1, <4>2, <4>3, <4>4, OneMoves
    <3> QED
      BY <2>6, <3>4, <3>5, <3>6, BackupBeginsStep
  <2>7. ASSUME NEW c \in Callers, BackupEnds(c) PROVE TypeInv'
    <3>1. At(c, "backingUp") /\ UNCHANGED <<used, current, unsaved, raced, calls, crashes>> /\ CallFits(c) /\ FoldersFit /\ CountersFit
          /\ call[c].fn \in {"install", "remove"} /\ call[c].bak \in Backups
      BY <2>7, BackupEndsStep, HaveFits
    <3>2. CountersFit'
      <4>1. Fault \/ UNCHANGED faults
        BY <2>7 DEF BackupEnds, NoFault
      <4>2. \A p \in Places : disk[p].ver \in Versions \union {NoVersion}
        BY Known, Kinds
      <4>3. current' \in Versions \union {NoVersion} /\ torn' \in BOOLEAN /\ unsaved' \in BOOLEAN
        BY <2>7, <3>1, <4>2, BackupEndsStep, Known DEF CountersFit, history
      <4> QED BY <3>1, <4>1, <4>3, BoundsAssumption DEF CountersFit, Fault, history
    <3>3. CASE /\ BackupUndisturbed(c) /\ Filled(call[c].bak, [call[c].src EXCEPT !.by = NoCaller])
              /\ Goes(c, AfterBackup(c)) /\ UNCHANGED <<faults, torn>>
      <4>1. CallFits(c)' /\ \E q \in PCs : Moved(c, q)
        BY <3>1, <3>3, Known, Kinds DEF Goes, Keeps, Moved, CallFits, Active, At,
             Functions, Swapping, AfterBackup, PCs
      <4>2. FoldersFit'
        BY <3>1, <3>3, Known, Kinds, BackupsAssumption, WholeFits DEF CallFits,
             Target, Hidden, Functions
      <4> QED BY <3>1, <3>2, <3>3, <4>1, <4>2, OneMoves
    <3>4. CASE ~BackupUndisturbed(c) /\ UNCHANGED <<disk, faults, torn>> /\ call[c].fn = "remove" /\ Failed(c)
      <4>1. CallFits(c)' /\ \E q \in PCs : Moved(c, q)
        BY <3>1, <3>4, Known, Kinds DEF Failed, Keeps, Moved, CallFits, Active, At,
             Functions, Swapping, PCs
      <4>2. FoldersFit'
        BY <3>1, <3>4, Known, Kinds, BackupsAssumption, SameFits DEF CallFits,
             Target, Hidden, Functions
      <4> QED BY <3>1, <3>2, <3>4, <4>1, <4>2, OneMoves
    <3>5. CASE ~BackupUndisturbed(c) /\ UNCHANGED <<disk, faults, torn>> /\ call[c].fn = "install" /\ Raised(c)
      <4>1. CallFits(c)' /\ \E q \in PCs : Moved(c, q)
        BY <3>1, <3>5, Known, Kinds DEF Raised, Keeps, Moved, CallFits, Active, At,
             Functions, Swapping, PCs
      <4>2. FoldersFit'
        BY <3>1, <3>5, Known, Kinds, BackupsAssumption, SameFits DEF CallFits,
             Target, Hidden, Functions
      <4> QED BY <3>1, <3>2, <3>5, <4>1, <4>2, OneMoves
    <3>6. CASE /\ ~BackupUndisturbed(c) /\ Filled(call[c].bak, Torn(call[c].src.ver, NoCaller))
              /\ Goes(c, AfterBackup(c)) /\ UNCHANGED <<faults, torn>>
      <4>1. CallFits(c)' /\ \E q \in PCs : Moved(c, q)
        BY <3>1, <3>6, Known, Kinds DEF Goes, Keeps, Moved, CallFits, Active, At,
             Functions, Swapping, AfterBackup, PCs
      <4>2. /\ call[c].src.ver \in Versions \union {NoVersion}
            /\ call[c].bak \in Places /\ (call[c].bak \in Backups => call[c].bak \in used)
        BY <3>1, Known, Kinds, BackupsAssumption DEF CallFits, Target, Hidden
      <4>3. FoldersFit'
        BY <3>1, <3>6, <4>2, Known, Kinds, BackupsAssumption, TornFits DEF CallFits,
             Target, Hidden, Functions
      <4> QED BY <3>1, <3>2, <3>6, <4>1, <4>3, OneMoves
    <3>7. CASE UNCHANGED disk /\ torn' = TRUE /\ faults' = faults + 1 /\ (Failed(c) \/ (Raised(c) /\ call[c].fn = "install"))
      <4>1. CallFits(c)' /\ \E q \in PCs : Moved(c, q)
        BY <3>1, <3>7, Known, Kinds DEF Raised, Failed, Keeps, Moved, CallFits,
             Active, At, Functions, Swapping, PCs
      <4>2. FoldersFit'
        BY <3>1, <3>7, Known, Kinds, BackupsAssumption, SameFits DEF CallFits,
             Target, Hidden, Functions
      <4> QED BY <3>1, <3>2, <3>7, <4>1, <4>2, OneMoves
    <3> QED
      BY <2>7, <3>3, <3>4, <3>5, <3>6, <3>7, BackupEndsStep
  <2>8. ASSUME NEW c \in Callers, SetAside(c) PROVE TypeInv'
    <3>1. At(c, "setAside") /\ UNCHANGED <<used, history>> /\ CallFits(c) /\ FoldersFit /\ CountersFit
          /\ call[c].fn \in Swapping
      BY <2>8, SetAsideStep, HaveFits
    <3>2. CountersFit'
      <4>1. Fault \/ UNCHANGED faults
        BY <2>8 DEF SetAside, NoFault
      <4>2. \A p \in Places : disk[p].ver \in Versions \union {NoVersion}
        BY Known, Kinds
      <4>3. current' \in Versions \union {NoVersion} /\ torn' \in BOOLEAN /\ unsaved' \in BOOLEAN
        BY <2>8, <3>1, <4>2, SetAsideStep, Known DEF CountersFit, history
      <4> QED BY <3>1, <4>1, <4>3, BoundsAssumption DEF CountersFit, Fault, history
    <3>3. CASE /\ call[c].fn = "rollback" /\ ~Exists("install") /\ UNCHANGED <<disk, faults>>
              /\ Aside2(c, FALSE)
      <4>1. CallFits(c)' /\ \E q \in PCs : Moved(c, q)
        BY <3>1, <3>3, Known, Kinds DEF Moved, CallFits, Active, At, Functions,
             Swapping, Aside2, PCs
      <4>2. FoldersFit'
        BY <3>1, <3>3, Known, Kinds, BackupsAssumption, SameFits DEF CallFits,
             Target, Hidden, Functions
      <4> QED BY <3>1, <3>2, <3>3, <4>1, <4>2, OneMoves
    <3>4. CASE /\ CanRename("install", Aside(c)) /\ Shifted("install", Aside(c)) /\ UNCHANGED faults
              /\ Aside2(c, TRUE)
      <4>1. CallFits(c)' /\ \E q \in PCs : Moved(c, q)
        BY <3>1, <3>4, Known, Kinds DEF Moved, CallFits, Active, At, Functions,
             Swapping, Aside2, PCs
      <4>2. FoldersFit'
        BY <3>1, <3>4, Known, Kinds, BackupsAssumption, ShiftedFits DEF CallFits,
             Target, Hidden, Functions, At, CanRename
      <4> QED BY <3>1, <3>2, <3>4, <4>1, <4>2, OneMoves
    <3>5. CASE /\ ~CanRename("install", Aside(c)) /\ (call[c].fn = "install" \/ Exists("install"))
              /\ UNCHANGED <<disk, faults>> /\ Raised(c)
      <4>1. CallFits(c)' /\ \E q \in PCs : Moved(c, q)
        BY <3>1, <3>5, Known, Kinds DEF Raised, Keeps, Moved, CallFits, Active, At,
             Functions, Swapping, PCs
      <4>2. FoldersFit'
        BY <3>1, <3>5, Known, Kinds, BackupsAssumption, SameFits DEF CallFits,
             Target, Hidden, Functions
      <4> QED BY <3>1, <3>2, <3>5, <4>1, <4>2, OneMoves
    <3>6. CASE UNCHANGED disk /\ Raised(c) /\ faults' = faults + 1
      <4>1. CallFits(c)' /\ \E q \in PCs : Moved(c, q)
        BY <3>1, <3>6, Known, Kinds DEF Raised, Keeps, Moved, CallFits, Active, At,
             Functions, Swapping, PCs
      <4>2. FoldersFit'
        BY <3>1, <3>6, Known, Kinds, BackupsAssumption, SameFits DEF CallFits,
             Target, Hidden, Functions
      <4> QED BY <3>1, <3>2, <3>6, <4>1, <4>2, OneMoves
    <3> QED
      BY <2>8, <3>3, <3>4, <3>5, <3>6, SetAsideStep
  <2>9. ASSUME NEW c \in Callers, Activate(c) PROVE TypeInv'
    <3>1. At(c, "activate") /\ UNCHANGED <<used, unsaved, torn, raced, calls, crashes>> /\ CallFits(c) /\ FoldersFit /\ CountersFit
          /\ call[c].fn \in Swapping
      BY <2>9, ActivateStep, HaveFits
    <3>2. CountersFit'
      <4>1. Fault \/ UNCHANGED faults
        BY <2>9 DEF Activate, NoFault
      <4>2. \A p \in Places : disk[p].ver \in Versions \union {NoVersion}
        BY Known, Kinds
      <4>3. current' \in Versions \union {NoVersion} /\ torn' \in BOOLEAN /\ unsaved' \in BOOLEAN
        BY <2>9, <3>1, <4>2, ActivateStep, Known DEF CountersFit, history
      <4> QED BY <3>1, <4>1, <4>3, BoundsAssumption DEF CountersFit, Fault, history
    <3>3. CASE /\ CanRename(Stage(c), "install") /\ Shifted(Stage(c), "install") /\ UNCHANGED faults
              /\ current' \in {disk[Stage(c)].ver, NoVersion, current}
              /\ Moved(c, "cleanup") /\ Keeps(c) /\ call'[c].result = "ok"
      <4>1. CallFits(c)' /\ \E q \in PCs : Moved(c, q)
        BY <3>1, <3>3, Known, Kinds DEF Keeps, Moved, CallFits, Active, At,
             Functions, Swapping, PCs
      <4>2. FoldersFit'
        BY <3>1, <3>3, Known, Kinds, BackupsAssumption, ShiftedFits DEF CallFits,
             Target, Hidden, Functions, At, CanRename
      <4> QED BY <3>1, <3>2, <3>3, <4>1, <4>2, OneMoves
    <3>4. CASE ~CanRename(Stage(c), "install") /\ UNCHANGED <<disk, current, faults>> /\ Goes(c, "recover")
      <4>1. CallFits(c)' /\ \E q \in PCs : Moved(c, q)
        BY <3>1, <3>4, Known, Kinds DEF Goes, Keeps, Moved, CallFits, Active, At,
             Functions, Swapping, PCs
      <4>2. FoldersFit'
        BY <3>1, <3>4, Known, Kinds, BackupsAssumption, SameFits DEF CallFits,
             Target, Hidden, Functions
      <4> QED BY <3>1, <3>2, <3>4, <4>1, <4>2, OneMoves
    <3>5. CASE UNCHANGED <<disk, current>> /\ Goes(c, "recover") /\ faults' = faults + 1
      <4>1. CallFits(c)' /\ \E q \in PCs : Moved(c, q)
        BY <3>1, <3>5, Known, Kinds DEF Goes, Keeps, Moved, CallFits, Active, At,
             Functions, Swapping, PCs
      <4>2. FoldersFit'
        BY <3>1, <3>5, Known, Kinds, BackupsAssumption, SameFits DEF CallFits,
             Target, Hidden, Functions
      <4> QED BY <3>1, <3>2, <3>5, <4>1, <4>2, OneMoves
    <3> QED
      BY <2>9, <3>3, <3>4, <3>5, ActivateStep
  <2>10. ASSUME NEW c \in Callers, Recover(c) PROVE TypeInv'
    <3>1. At(c, "recover") /\ UNCHANGED <<used, history>> /\ CallFits(c) /\ FoldersFit /\ CountersFit
          /\ call[c].fn \in Swapping
      BY <2>10, RecoverStep, HaveFits
    <3>2. CountersFit'
      <4>1. Fault \/ UNCHANGED faults
        BY <2>10 DEF Recover, NoFault
      <4>2. \A p \in Places : disk[p].ver \in Versions \union {NoVersion}
        BY Known, Kinds
      <4>3. current' \in Versions \union {NoVersion} /\ torn' \in BOOLEAN /\ unsaved' \in BOOLEAN
        BY <2>10, <3>1, <4>2, RecoverStep, Known DEF CountersFit, history
      <4> QED BY <3>1, <4>1, <4>3, BoundsAssumption DEF CountersFit, Fault, history
    <3>3. CASE /\ HasAside(c) /\ CanRename(Aside(c), "install") /\ Shifted(Aside(c), "install")
              /\ UNCHANGED faults /\ Raised(c)
      <4>1. CallFits(c)' /\ \E q \in PCs : Moved(c, q)
        BY <3>1, <3>3, Known, Kinds DEF Raised, Keeps, Moved, CallFits, Active, At,
             Functions, Swapping, PCs
      <4>2. FoldersFit'
        BY <3>1, <3>3, Known, Kinds, BackupsAssumption, ShiftedFits DEF CallFits,
             Target, Hidden, Functions, At, CanRename
      <4> QED BY <3>1, <3>2, <3>3, <4>1, <4>2, OneMoves
    <3>4. CASE UNCHANGED disk /\ (UNCHANGED faults \/ faults' = faults + 1) /\ Raised(c)
      <4>1. CallFits(c)' /\ \E q \in PCs : Moved(c, q)
        BY <3>1, <3>4, Known, Kinds DEF Raised, Keeps, Moved, CallFits, Active, At,
             Functions, Swapping, PCs
      <4>2. FoldersFit'
        BY <3>1, <3>4, Known, Kinds, BackupsAssumption, SameFits DEF CallFits,
             Target, Hidden, Functions
      <4> QED BY <3>1, <3>2, <3>4, <4>1, <4>2, OneMoves
    <3> QED
      BY <2>10, <3>3, <3>4, RecoverStep
  <2>11. ASSUME NEW c \in Callers, Cleanup(c) PROVE TypeInv'
    <3>1. At(c, "cleanup") /\ UNCHANGED <<used, history, faults>> /\ CallFits(c) /\ FoldersFit /\ CountersFit
          /\ call[c].fn \in Swapping
      BY <2>11, CleanupStep, HaveFits
    <3>2. CountersFit'
      BY <3>1 DEF CountersFit, history
    <3>3. CASE Exists(Stage(c)) /\ Filled(Stage(c), Torn(disk[Stage(c)].ver, c)) /\ Goes(c, "cleaning")
      <4>1. CallFits(c)' /\ \E q \in PCs : Moved(c, q)
        BY <3>1, <3>3, Known, Kinds DEF Goes, Keeps, Moved, CallFits, Active, At,
             Functions, Swapping, PCs
      <4>2. /\ disk[Stage(c)].ver \in Versions \union {NoVersion}
            /\ Stage(c) \in Places /\ (Stage(c) \in Backups => Stage(c) \in used)
        BY <3>1, Known, Kinds, BackupsAssumption DEF CallFits, Target, Hidden
      <4>3. FoldersFit'
        BY <3>1, <3>3, <4>2, Known, Kinds, BackupsAssumption, TornFits DEF CallFits,
             Target, Hidden, Functions
      <4> QED BY <3>1, <3>2, <3>3, <4>1, <4>3, OneMoves
    <3>4. CASE ~Exists(Stage(c)) /\ UNCHANGED disk /\ call[c].result = "ok" /\ Goes(c, "discard")
      <4>1. CallFits(c)' /\ \E q \in PCs : Moved(c, q)
        BY <3>1, <3>4, Known, Kinds DEF Goes, Keeps, Moved, CallFits, Active, At,
             Functions, Swapping, PCs
      <4>2. FoldersFit'
        BY <3>1, <3>4, Known, Kinds, BackupsAssumption, SameFits DEF CallFits,
             Target, Hidden, Functions
      <4> QED BY <3>1, <3>2, <3>4, <4>1, <4>2, OneMoves
    <3>5. CASE ~Exists(Stage(c)) /\ UNCHANGED disk /\ call[c].result # "ok" /\ Failed(c)
      <4>1. CallFits(c)' /\ \E q \in PCs : Moved(c, q)
        BY <3>1, <3>5, Known, Kinds DEF Failed, Keeps, Moved, CallFits, Active, At,
             Functions, Swapping, PCs
      <4>2. FoldersFit'
        BY <3>1, <3>5, Known, Kinds, BackupsAssumption, SameFits DEF CallFits,
             Target, Hidden, Functions
      <4> QED BY <3>1, <3>2, <3>5, <4>1, <4>2, OneMoves
    <3> QED
      BY <2>11, <3>3, <3>4, <3>5, CleanupStep
  <2>12. ASSUME NEW c \in Callers, Cleaned(c) PROVE TypeInv'
    <3>1. At(c, "cleaning") /\ UNCHANGED <<used, history>> /\ CallFits(c) /\ FoldersFit /\ CountersFit
          /\ call[c].fn \in Swapping
      BY <2>12, CleanedStep, HaveFits
    <3>2. CountersFit'
      <4>1. Fault \/ UNCHANGED faults
        BY <2>12 DEF Cleaned, NoFault
      <4>2. \A p \in Places : disk[p].ver \in Versions \union {NoVersion}
        BY Known, Kinds
      <4>3. current' \in Versions \union {NoVersion} /\ torn' \in BOOLEAN /\ unsaved' \in BOOLEAN
        BY <2>12, <3>1, <4>2, CleanedStep, Known DEF CountersFit, history
      <4> QED BY <3>1, <4>1, <4>3, BoundsAssumption DEF CountersFit, Fault, history
    <3>3. CASE /\ disk[Stage(c)].by = c /\ Filled(Stage(c), Nothing) /\ UNCHANGED faults
              /\ \/ call[c].result = "ok" /\ Goes(c, "discard")
                 \/ call[c].result # "ok" /\ Failed(c)
      <4>1. CallFits(c)' /\ \E q \in PCs : Moved(c, q)
        BY <3>1, <3>3, Known, Kinds DEF Goes, Failed, Keeps, Moved, CallFits,
             Active, At, Functions, Swapping, PCs
      <4>2. FoldersFit'
        BY <3>1, <3>3, Known, Kinds, BackupsAssumption, EmptyFits DEF CallFits,
             Target, Hidden, Functions
      <4> QED BY <3>1, <3>2, <3>3, <4>1, <4>2, OneMoves
    <3>4. CASE disk[Stage(c)].by # c /\ UNCHANGED <<disk, faults>> /\ Failed(c)
      <4>1. CallFits(c)' /\ \E q \in PCs : Moved(c, q)
        BY <3>1, <3>4, Known, Kinds DEF Failed, Keeps, Moved, CallFits, Active, At,
             Functions, Swapping, PCs
      <4>2. FoldersFit'
        BY <3>1, <3>4, Known, Kinds, BackupsAssumption, SameFits DEF CallFits,
             Target, Hidden, Functions
      <4> QED BY <3>1, <3>2, <3>4, <4>1, <4>2, OneMoves
    <3>5. CASE UNCHANGED disk /\ Failed(c) /\ faults' = faults + 1
      <4>1. CallFits(c)' /\ \E q \in PCs : Moved(c, q)
        BY <3>1, <3>5, Known, Kinds DEF Failed, Keeps, Moved, CallFits, Active, At,
             Functions, Swapping, PCs
      <4>2. FoldersFit'
        BY <3>1, <3>5, Known, Kinds, BackupsAssumption, SameFits DEF CallFits,
             Target, Hidden, Functions
      <4> QED BY <3>1, <3>2, <3>5, <4>1, <4>2, OneMoves
    <3> QED
      BY <2>12, <3>3, <3>4, <3>5, CleanedStep
  <2>13. ASSUME NEW c \in Callers, Discard(c) PROVE TypeInv'
    <3>1. At(c, "discard") /\ UNCHANGED <<used, history, faults>> /\ CallFits(c) /\ FoldersFit /\ CountersFit
          /\ call[c].fn \in Swapping
      BY <2>13, DiscardStep, HaveFits
    <3>2. CountersFit'
      BY <3>1 DEF CountersFit, history
    <3>3. CASE /\ HasAside(c) /\ Exists(Aside(c)) /\ Filled(Aside(c), Torn(disk[Aside(c)].ver, c))
              /\ Goes(c, "discarding")
      <4>1. CallFits(c)' /\ \E q \in PCs : Moved(c, q)
        BY <3>1, <3>3, Known, Kinds DEF Goes, Keeps, Moved, CallFits, Active, At,
             Functions, Swapping, PCs
      <4>2. /\ disk[Aside(c)].ver \in Versions \union {NoVersion}
            /\ Aside(c) \in Places /\ (Aside(c) \in Backups => Aside(c) \in used)
        BY <3>1, Known, Kinds, BackupsAssumption DEF CallFits, Target, Hidden
      <4>3. FoldersFit'
        BY <3>1, <3>3, <4>2, Known, Kinds, BackupsAssumption, TornFits DEF CallFits,
             Target, Hidden, Functions
      <4> QED BY <3>1, <3>2, <3>3, <4>1, <4>3, OneMoves
    <3>4. CASE ~(HasAside(c) /\ Exists(Aside(c))) /\ UNCHANGED disk /\ (Failed(c) \/ Returned(c))
      <4>1. CallFits(c)' /\ \E q \in PCs : Moved(c, q)
        BY <3>1, <3>4, Known, Kinds DEF Failed, Returned, Answered, Keeps, Moved, CallFits,
             Active, At, Functions, Swapping, PCs
      <4>2. FoldersFit'
        BY <3>1, <3>4, Known, Kinds, BackupsAssumption, SameFits DEF CallFits,
             Target, Hidden, Functions
      <4> QED BY <3>1, <3>2, <3>4, <4>1, <4>2, OneMoves
    <3> QED
      BY <2>13, <3>3, <3>4, DiscardStep
  <2>14. ASSUME NEW c \in Callers, Discarded(c) PROVE TypeInv'
    <3>1. At(c, "discarding") /\ UNCHANGED <<used, history>> /\ CallFits(c) /\ FoldersFit /\ CountersFit
          /\ call[c].fn \in Swapping
      BY <2>14, DiscardedStep, HaveFits
    <3>2. CountersFit'
      <4>1. Fault \/ UNCHANGED faults
        BY <2>14 DEF Discarded, NoFault
      <4>2. \A p \in Places : disk[p].ver \in Versions \union {NoVersion}
        BY Known, Kinds
      <4>3. current' \in Versions \union {NoVersion} /\ torn' \in BOOLEAN /\ unsaved' \in BOOLEAN
        BY <2>14, <3>1, <4>2, DiscardedStep, Known DEF CountersFit, history
      <4> QED BY <3>1, <4>1, <4>3, BoundsAssumption DEF CountersFit, Fault, history
    <3>3. CASE disk[Aside(c)].by = c /\ Filled(Aside(c), Nothing) /\ UNCHANGED faults /\ Returned(c)
      <4>1. CallFits(c)' /\ \E q \in PCs : Moved(c, q)
        BY <3>1, <3>3, Known, Kinds DEF Returned, Answered, Keeps, Moved, CallFits, Active,
             At, Functions, Swapping, PCs
      <4>2. FoldersFit'
        BY <3>1, <3>3, Known, Kinds, BackupsAssumption, EmptyFits DEF CallFits,
             Target, Hidden, Functions
      <4> QED BY <3>1, <3>2, <3>3, <4>1, <4>2, OneMoves
    <3>4. CASE disk[Aside(c)].by # c /\ UNCHANGED <<disk, faults>> /\ Failed(c)
      <4>1. CallFits(c)' /\ \E q \in PCs : Moved(c, q)
        BY <3>1, <3>4, Known, Kinds DEF Failed, Keeps, Moved, CallFits, Active, At,
             Functions, Swapping, PCs
      <4>2. FoldersFit'
        BY <3>1, <3>4, Known, Kinds, BackupsAssumption, SameFits DEF CallFits,
             Target, Hidden, Functions
      <4> QED BY <3>1, <3>2, <3>4, <4>1, <4>2, OneMoves
    <3>5. CASE UNCHANGED disk /\ Failed(c) /\ faults' = faults + 1
      <4>1. CallFits(c)' /\ \E q \in PCs : Moved(c, q)
        BY <3>1, <3>5, Known, Kinds DEF Failed, Keeps, Moved, CallFits, Active, At,
             Functions, Swapping, PCs
      <4>2. FoldersFit'
        BY <3>1, <3>5, Known, Kinds, BackupsAssumption, SameFits DEF CallFits,
             Target, Hidden, Functions
      <4> QED BY <3>1, <3>2, <3>5, <4>1, <4>2, OneMoves
    <3> QED
      BY <2>14, <3>3, <3>4, <3>5, DiscardedStep
  <2>15. ASSUME NEW c \in Callers, Remove(c) PROVE TypeInv'
    <3>1. At(c, "remove") /\ UNCHANGED <<used, torn, raced, calls, faults, crashes>> /\ CallFits(c) /\ FoldersFit /\ CountersFit
          /\ call[c].fn \in {"remove", "delete"} /\ Target(c) \in Places
      BY <2>15, RemoveStep, HaveFits
    <3>2. CountersFit'
      <4>1. UNCHANGED faults
        BY <2>15 DEF Remove, NoFault
      <4>2. \A p \in Places : disk[p].ver \in Versions \union {NoVersion}
        BY Known, Kinds
      <4>3. current' \in Versions \union {NoVersion} /\ torn' \in BOOLEAN /\ unsaved' \in BOOLEAN
        BY <2>15, <3>1, <4>2, RemoveStep, Known DEF CountersFit, history
      <4> QED BY <3>1, <4>1, <4>3, BoundsAssumption DEF CountersFit, Fault, history
    <3>3. CASE /\ Exists(Target(c)) /\ Filled(Target(c), Torn(disk[Target(c)].ver, c))
              /\ current' \in {NoVersion, current} /\ unsaved' \in BOOLEAN /\ Goes(c, "removing")
      <4>1. CallFits(c)' /\ \E q \in PCs : Moved(c, q)
        BY <3>1, <3>3, Known, Kinds DEF Goes, Keeps, Moved, CallFits, Active, At,
             Functions, Swapping, PCs
      <4>2. /\ disk[Target(c)].ver \in Versions \union {NoVersion}
            /\ Target(c) \in Places /\ (Target(c) \in Backups => Target(c) \in used)
        BY <3>1, Known, Kinds, BackupsAssumption DEF CallFits, Target, Hidden
      <4>3. FoldersFit'
        BY <3>1, <3>3, <4>2, Known, Kinds, BackupsAssumption, TornFits DEF CallFits,
             Target, Hidden, Functions
      <4> QED BY <3>1, <3>2, <3>3, <4>1, <4>3, OneMoves
    <3>4. CASE ~Exists(Target(c)) /\ UNCHANGED <<disk, current, unsaved>> /\ Failed(c)
      <4>1. CallFits(c)' /\ \E q \in PCs : Moved(c, q)
        BY <3>1, <3>4, Known, Kinds DEF Failed, Keeps, Moved, CallFits, Active, At,
             Functions, Swapping, PCs
      <4>2. FoldersFit'
        BY <3>1, <3>4, Known, Kinds, BackupsAssumption, SameFits DEF CallFits,
             Target, Hidden, Functions
      <4> QED BY <3>1, <3>2, <3>4, <4>1, <4>2, OneMoves
    <3> QED
      BY <2>15, <3>3, <3>4, RemoveStep
  <2>16. ASSUME NEW c \in Callers, Removed(c) PROVE TypeInv'
    <3>1. At(c, "removing") /\ UNCHANGED <<used, current, unsaved, raced, calls, crashes>> /\ CallFits(c) /\ FoldersFit /\ CountersFit
          /\ call[c].fn \in {"remove", "delete"} /\ Target(c) \in Places
      BY <2>16, RemovedStep, HaveFits
    <3>2. CountersFit'
      <4>1. Fault \/ UNCHANGED faults
        BY <2>16 DEF Removed, NoFault
      <4>2. \A p \in Places : disk[p].ver \in Versions \union {NoVersion}
        BY Known, Kinds
      <4>3. current' \in Versions \union {NoVersion} /\ torn' \in BOOLEAN /\ unsaved' \in BOOLEAN
        BY <2>16, <3>1, <4>2, RemovedStep, Known DEF CountersFit, history
      <4> QED BY <3>1, <4>1, <4>3, BoundsAssumption DEF CountersFit, Fault, history
    <3>3. CASE /\ disk[Target(c)].by = c /\ Filled(Target(c), Nothing) /\ UNCHANGED <<faults, torn>>
              /\ Moved(c, "done") /\ Answered(c)
      <4>1. CallFits(c)' /\ \E q \in PCs : Moved(c, q)
        BY <3>1, <3>3, Known, Kinds DEF Answered, Keeps, Moved, CallFits, Active, At,
             Functions, Swapping, PCs
      <4>2. FoldersFit'
        BY <3>1, <3>3, Known, Kinds, BackupsAssumption, EmptyFits DEF CallFits,
             Target, Hidden, Functions
      <4> QED BY <3>1, <3>2, <3>3, <4>1, <4>2, OneMoves
    <3>4. CASE disk[Target(c)].by # c /\ UNCHANGED <<disk, faults, torn>> /\ Failed(c)
      <4>1. CallFits(c)' /\ \E q \in PCs : Moved(c, q)
        BY <3>1, <3>4, Known, Kinds DEF Failed, Keeps, Moved, CallFits, Active, At,
             Functions, Swapping, PCs
      <4>2. FoldersFit'
        BY <3>1, <3>4, Known, Kinds, BackupsAssumption, SameFits DEF CallFits,
             Target, Hidden, Functions
      <4> QED BY <3>1, <3>2, <3>4, <4>1, <4>2, OneMoves
    <3>5. CASE UNCHANGED disk /\ Failed(c) /\ torn' = TRUE /\ faults' = faults + 1
      <4>1. CallFits(c)' /\ \E q \in PCs : Moved(c, q)
        BY <3>1, <3>5, Known, Kinds DEF Failed, Keeps, Moved, CallFits, Active, At,
             Functions, Swapping, PCs
      <4>2. FoldersFit'
        BY <3>1, <3>5, Known, Kinds, BackupsAssumption, SameFits DEF CallFits,
             Target, Hidden, Functions
      <4> QED BY <3>1, <3>2, <3>5, <4>1, <4>2, OneMoves
    <3> QED
      BY <2>16, <3>3, <3>4, <3>5, RemovedStep
  <2>17. ASSUME NEW c \in Callers, Verify(c) PROVE TypeInv'
    <3>1. CallFits(c)' /\ \E q \in PCs : Moved(c, q)
      BY <2>17, VerifyStep, Known, Kinds, HaveFits DEF Goes, Raised, Keeps, Moved,
           CallFits, Active, At, Functions, Swapping, PCs
    <3>2. FoldersFit' /\ used \subseteq used'
      BY <2>17, VerifyStep, Known, Kinds, HaveFits, SameFits DEF CallFits, Target,
           Places, Hidden, Functions
    <3>3. CountersFit'
      BY <2>17, VerifyStep, Known, Kinds, HaveFits DEF CountersFit, Verify, Fault,
           NoFault, history
    <3> QED
      BY <3>1, <3>2, <3>3, OneMoves
  <2>18. ASSUME Crash PROVE TypeInv'
    <3>1. CallsFit'
      BY <2>18, IdleCall DEF Crash, CallsFit, CallFits, Active, Idle, Nothing
    <3>2. FoldersFit'
      BY <2>18, HaveFits DEF Crash, FoldersFit
    <3>3. CountersFit'
      BY <2>18, HaveFits DEF Crash, CountersFit
    <3> QED
      BY <2>18, <3>1, <3>2, <3>3, IdleCall DEF Crash, TypeInv, TypeOK, FoldersFit,
           CountersFit
  <2>19. CASE UNCHANGED vars
    BY <2>19 DEF vars, TypeInv, TypeOK, CallsFit, CallFits, Active, Target
  <2> QED
    BY <2>1, <2>2, <2>3, <2>4, <2>5, <2>6, <2>7, <2>8, <2>9, <2>10, <2>11, <2>12, <2>13,
         <2>14, <2>15, <2>16, <2>17, <2>18, <2>19 DEF Next, Request
<1> QED
  BY <1>1, <1>2, PTL DEF Spec

-----------------------------------------------------------------------------
\* One call at a time, as long as none have overlapped.
Alone == ~raced => \A c, d \in Callers : Active(c) /\ Active(d) => c = d

\* A backup is whole unless a call fills or deletes it.
BackupsAreWhole ==
  \A b \in Backups : Exists(b) =>
    \/ disk[b].whole
    \/ Removing(b)
    \/ \E c \in Callers : At(c, "backingUp") /\ call[c].bak = b

\* The folders a call works on are as it left them: the copy under way, the copy that is
\* complete and will be activated, the version set aside.
Intact(c) ==
  /\ At(c, "copying") => call[c].src.whole /\ CopyUndisturbed(c)
  /\ At(c, "backingUp") => call[c].src.whole /\ BackupUndisturbed(c)
  /\ At(c, "removing") => disk[Target(c)].by = c
  /\ At(c, "cleaning") => disk[Stage(c)].by = c
  /\ At(c, "discarding") => disk[Aside(c)].by = c
  /\ call[c].fn \in Swapping =>
       /\ call[c].pc \in {"provision", "backup", "backingUp", "setAside", "activate"}
            => disk[Stage(c)].whole
       /\ call[c].pc \in {"copy", "copying", "provision", "backup", "backingUp", "setAside"}
            => ~Exists(Aside(c))
       /\ call[c].pc \in {"activate", "recover"} /\ Exists(Aside(c)) => disk[Aside(c)].whole

WorkIsIntact == \A c \in Callers : Intact(c)

\* What is installed, what is saved and what is about to be installed has no holes.
FoldersInv ==
  /\ Alone
  /\ ~raced /\ ~torn =>
       /\ Exists("install") => disk["install"].whole \/ Removing("install")
       /\ BackupsAreWhole
       /\ WorkIsIntact

\* Without a failing operation a swap does what it looked for at first.
Swaps(c) ==
  /\ ~At(c, "recover")
  /\ call[c].fn = "install" /\ call[c].pc \in {"check", "copy", "copying", "provision",
                                               "backup", "backingUp", "setAside"}
       => call[c].replaced = Exists("install")
  /\ At(c, "activate") => ~Exists("install")

SwapSucceeds == \A c \in Callers : Swaps(c)

\* p is a folder the call c will take away again.
Passing(c, p) ==
  /\ call[c].fn \in Swapping
  /\ \/ /\ p = Stage(c)
        /\ call[c].pc \in {"copying", "provision", "backup", "backingUp", "setAside", "activate",
                           "cleanup", "cleaning"}
     \/ /\ p = Aside(c) /\ call[c].replaced
        /\ \/ At(c, "activate")
           \/ call[c].pc \in {"cleanup", "cleaning"} /\ call[c].result = "ok"
           \/ call[c].pc \in {"discard", "discarding"}

\* Every hidden folder has a call that will take it away.
RemainsInv ==
  /\ faults = 0 /\ crashes = 0 => ~torn
  /\ ~raced /\ faults = 0 /\ crashes = 0 =>
       /\ SwapSucceeds
       /\ \A p \in Hidden : Exists(p) => \E c \in Callers : Passing(c, p)

-----------------------------------------------------------------------------
\* The folders as the only call there is, c, leaves them.
Sound(c) ==
  /\ Exists("install") =>
       disk["install"].whole \/ (At(c, "removing") /\ Target(c) = "install")
  /\ \A b \in Backups : Exists(b) =>
       \/ disk[b].whole
       \/ At(c, "removing") /\ Target(c) = b
       \/ At(c, "backingUp") /\ call[c].bak = b
  /\ Intact(c)

(* A folder being emptied is in the hands of the call that empties it. *)
LEMMA EmptiedBy ==
    ASSUME TypeInv, NEW c \in Callers, NEW p \in Places, Filled(p, Torn(disk[p].ver, c))
    PROVE  disk'[p].by = c
<1>1. disk[p].ver \in Versions \union {NoVersion}
  BY Known, Kinds
<1> QED BY <1>1, Kinds DEF Filled

(* A caller that waits works on no folder. *)
LEMMA IdleIsIntact ==
    ASSUME NEW c \in Callers, ~Active(c)
    PROVE  Intact(c)
  BY DEF Active, Intact, At

(* What the invariant says when there is only one call. *)
LEMMA SoloIsSound ==
    ASSUME FoldersInv, ~raced, ~torn, NEW c \in Callers, \A d \in Callers : Active(d) => d = c
    PROVE  Sound(c)
  BY DEF FoldersInv, Sound, BackupsAreWhole, WorkIsIntact, Removing, Active, At

LEMMA IdleNext ==
    ASSUME NEW c \in Callers, ~Active(c)'
    PROVE  Intact(c)'
  BY DEF Active, Intact, At

\* A step of the only call there is keeps the folders, if it keeps them sound.
LEMMA SoloStep ==
    ASSUME FoldersInv, NEW c \in Callers, Active(c), NEW q \in PCs, Moved(c, q), UNCHANGED raced,
           torn => torn',
           ~raced /\ ~torn' /\ Sound(c) => Sound(c)'
    PROVE  FoldersInv'
<1>1. CASE raced
  BY <1>1 DEF FoldersInv, Alone
<1>2. CASE ~raced
  <2>1. \A d \in Callers : Active(d) => d = c
    BY <1>2 DEF FoldersInv, Alone
  <2>2. \A d \in Callers : Active(d)' => d = c
    BY <2>1 DEF Moved, Active
  <2>3. CASE torn'
    BY <2>2, <2>3 DEF FoldersInv, Alone
  <2>4. CASE ~torn'
    <3>1. Sound(c)'
      BY <1>2, <2>1, <2>4, SoloIsSound
    <3> QED BY <2>2, <3>1, IdleNext DEF FoldersInv, Alone, Sound, BackupsAreWhole, WorkIsIntact,
         Removing, At
  <2> QED BY <2>3, <2>4
<1> QED BY <1>1, <1>2

(* A request that arrives finds the folders whole, or overlaps another. *)
LEMMA ArrivalKeepsFolders ==
    ASSUME TypeInv, FoldersInv, NEW c \in Callers, Request(c)
    PROVE  FoldersInv'
<1>0. PICK r \in Call : Arrive(c, r) /\ Fresh(r)
  BY RequestsArrive
<1>1. /\ UNCHANGED <<disk, torn>> /\ raced' = (raced \/ \E d \in Callers : Active(d))
      /\ call'[c].pc = "check"
      /\ \A d \in Callers : d # c => call'[d] = IF At(d, "done") THEN Idle ELSE call[d]
  BY <1>0, ArriveMoves, Known DEF Arrive, Fresh
<1>2. CASE raced'
  BY <1>2 DEF FoldersInv, Alone
<1>3. CASE ~raced'
  <2>1. ~raced /\ \A d \in Callers : ~Active(d)
    BY <1>1, <1>3
  <2>2. \A d \in Callers : Active(d)' => d = c
    BY <1>1, <2>1, IdleCall DEF Active
  <2>3. CASE torn'
    BY <2>2, <2>3 DEF FoldersInv, Alone
  <2>4. CASE ~torn'
    <3>1. /\ Exists("install") => disk["install"].whole
          /\ \A b \in Backups : Exists(b) => disk[b].whole
      BY <1>1, <2>1, <2>4 DEF FoldersInv, BackupsAreWhole, Removing, At, Active
    <3>2. Intact(c)'
      BY <1>1 DEF Intact, At
    <3> QED
      BY <1>1, <2>2, <3>1, <3>2, IdleNext DEF FoldersInv, Alone, BackupsAreWhole,
           WorkIsIntact, Exists
  <2> QED BY <2>3, <2>4
<1> QED BY <1>2, <1>3

-----------------------------------------------------------------------------
\* The hidden folders as the only call there is, c, leaves them.
Tidy(c) == Swaps(c) /\ \A p \in Hidden : Exists(p) => Passing(c, p)

(* A caller that waits has no folder to take away. *)
LEMMA IdleIsTidy ==
    ASSUME NEW c \in Callers, ~Active(c)
    PROVE  Swaps(c) /\ \A p \in Hidden : ~Passing(c, p)
  BY DEF Active, Swaps, Passing, At

LEMMA IdleTidyNext ==
    ASSUME NEW c \in Callers, ~Active(c)'
    PROVE  Swaps(c)'
  BY DEF Active, Swaps, At

(* A step of the only call there is keeps the hidden folders tidy, if it leaves them so. *)
LEMMA SoloTidies ==
    ASSUME FoldersInv, RemainsInv, NEW c \in Callers, Active(c), NEW q \in PCs, Moved(c, q),
           UNCHANGED <<raced, crashes>>, faults' = 0 => faults = 0 /\ torn' = torn,
           ~raced /\ faults' = 0 /\ crashes = 0 /\ ~torn /\ Sound(c) /\ Tidy(c) => Tidy(c)'
    PROVE  RemainsInv'
<1>1. faults' = 0 /\ crashes' = 0 => ~torn'
  BY DEF RemainsInv
<1>2. ASSUME ~raced, faults' = 0, crashes = 0
      PROVE  SwapSucceeds' /\ \A p \in Hidden : Exists(p)' => \E d \in Callers : Passing(d, p)'
  <2>1. \A d \in Callers : Active(d) => d = c
    BY <1>2 DEF FoldersInv, Alone
  <2>2. \A d \in Callers : Active(d)' => d = c
    BY <2>1 DEF Moved, Active
  <2>3. ~torn /\ Sound(c)
    BY <1>2, <2>1, SoloIsSound DEF RemainsInv
  <2>4. Tidy(c)
    BY <1>2, <2>1, IdleIsTidy DEF RemainsInv, SwapSucceeds, Tidy
  <2>5. Tidy(c)'
    BY <1>2, <2>3, <2>4
  <2> QED BY <2>2, <2>5, IdleTidyNext DEF Tidy, SwapSucceeds
<1> QED BY <1>1, <1>2 DEF RemainsInv

(* A request that arrives finds no hidden folder, or overlaps another. *)
LEMMA ArrivalIsTidy ==
    ASSUME TypeInv, FoldersInv, RemainsInv, NEW c \in Callers, Request(c)
    PROVE  RemainsInv'
<1>0. PICK r \in Call : Arrive(c, r) /\ Fresh(r)
  BY RequestsArrive
<1>1. /\ UNCHANGED <<disk, torn, faults, crashes>>
      /\ raced' = (raced \/ \E d \in Callers : Active(d))
      /\ call'[c].pc = "check" /\ call'[c].fn = r.fn /\ call'[c].replaced = r.replaced
      /\ \A d \in Callers : d # c => call'[d] = IF At(d, "done") THEN Idle ELSE call[d]
  BY <1>0, ArriveMoves, Known DEF Arrive, Fresh
<1>2. ASSUME ~raced', faults = 0, crashes = 0
      PROVE  SwapSucceeds' /\ \A p \in Hidden : ~Exists(p)'
  <2>1. ~raced /\ \A d \in Callers : ~Active(d)
    BY <1>1, <1>2
  <2>2. \A d \in Callers : d # c => ~Active(d)'
    BY <1>1, <2>1, IdleCall DEF Active
  <2>3. \A p \in Hidden : ~Exists(p)
    BY <1>2, <2>1, IdleIsTidy DEF RemainsInv
  <2>4. Swaps(c)'
    BY <1>0, <1>1 DEF Swaps, At, Exists, Fresh
  <2> QED BY <1>1, <2>2, <2>3, <2>4, IdleTidyNext DEF SwapSucceeds, Exists
<1> QED BY <1>1, <1>2 DEF RemainsInv

(* What is installed, what is saved and what is about to be installed has no holes, and without
   a failing operation every hidden folder has a call that will take it away. *)
THEOREM FoldersInvariant == Spec => [](FoldersInv /\ RemainsInv)
<1>1. Init => FoldersInv /\ RemainsInv
  <2> SUFFICES ASSUME Init PROVE FoldersInv /\ RemainsInv
    OBVIOUS
  <2>1. ~torn /\ \A c \in Callers : ~Active(c)
    BY IdleCall DEF Init, Active
  <2>2. \A p \in Places : Exists(p) => disk[p].whole
    BY Kinds DEF Init, Exists
  <2>3. \A p \in Hidden : ~Exists(p)
    BY BackupsAssumption DEF Init, Exists, Places, Hidden
  <2>4. FoldersInv
    BY <2>1, <2>2, IdleIsIntact DEF FoldersInv, Alone, BackupsAreWhole, WorkIsIntact, Places
  <2> QED
    BY <2>1, <2>3, <2>4, IdleIsTidy DEF RemainsInv, SwapSucceeds
<1>2. TypeInv /\ FoldersInv /\ RemainsInv /\ [Next]_vars => FoldersInv' /\ RemainsInv'
  <2> SUFFICES ASSUME TypeInv, FoldersInv, RemainsInv, [Next]_vars PROVE FoldersInv' /\ RemainsInv'
    OBVIOUS
  <2>1. ASSUME NEW c \in Callers, Request(c) PROVE FoldersInv' /\ RemainsInv'
    BY <2>1, ArrivalKeepsFolders, ArrivalIsTidy
  <2>2. ASSUME NEW c \in Callers, Check(c) PROVE FoldersInv' /\ RemainsInv'
    <3>1. /\ At(c, "check") /\ Active(c) /\ UNCHANGED <<raced, crashes>> /\ (torn => torn')
          /\ UNCHANGED <<disk, used, history, faults>>
          /\ call[c].fn \in Functions /\ CallFits(c) /\ FoldersFit
      BY <2>2, CheckStep, HaveFits DEF Active, At, history, CallFits
    <3>2. \E q \in PCs : Moved(c, q)
      BY <2>2, CheckStep DEF Goes, Failed, PCs
    <3>3. faults' = 0 => faults = 0 /\ torn' = torn
      BY <3>1 DEF history
    <3>4. ASSUME ~raced, ~torn', Sound(c)
          PROVE  Sound(c)' /\ (faults' = 0 /\ Tidy(c) => Tidy(c)')
      <4> USE <3>1, <3>4, Known, Kinds, BackupsAssumption
          DEF Sound, Intact, CallFits, FoldersFit, Target, history, Keeps, Moved,
               At, Exists,
              Functions, Swapping, Stage, Aside, Hidden, Places
      <4>1. faults \in Nat
        BY HaveFits, BoundsAssumption DEF CountersFit
      <4>2. CASE Refused(c) /\ Failed(c)
        <5>1. Sound(c)'
          BY <4>2 DEF Failed, Refused
        <5>2. ASSUME faults' = 0, Tidy(c) PROVE Tidy(c)'
          BY <3>3, <4>1, <4>2, <5>2 DEF Tidy, Swaps, Passing, Failed
        <5> QED BY <5>1, <5>2
      <4>3. CASE ~Refused(c) /\ call[c].fn \in Swapping /\ Goes(c, "copy")
        <5>1. Sound(c)'
          BY <4>3, ZenonT(60) DEF Goes, Refused
        <5>2. ASSUME faults' = 0, Tidy(c) PROVE Tidy(c)'
          BY <3>3, <4>1, <4>3, <5>2 DEF Tidy, Swaps, Passing, Goes
        <5> QED BY <5>1, <5>2
      <4>4. CASE ~Refused(c) /\ call[c].fn = "remove" /\ Goes(c, "backup")
        <5>1. Sound(c)'
          BY <4>4 DEF Goes, Refused
        <5>2. ASSUME faults' = 0, Tidy(c) PROVE Tidy(c)'
          BY <3>3, <4>1, <4>4, <5>2 DEF Tidy, Swaps, Passing, Goes
        <5> QED BY <5>1, <5>2
      <4>5. CASE ~Refused(c) /\ call[c].fn \in {"remove", "delete"} /\ Goes(c, "remove")
        <5>1. Sound(c)'
          BY <4>5 DEF Goes, Refused
        <5>2. ASSUME faults' = 0, Tidy(c) PROVE Tidy(c)'
          BY <3>3, <4>1, <4>5, <5>2 DEF Tidy, Swaps, Passing, Goes
        <5> QED BY <5>1, <5>2
      <4> QED
        BY <2>2, <4>2, <4>3, <4>4, <4>5, CheckStep
    <3> QED
      BY <3>1, <3>2, <3>3, <3>4, SoloStep, SoloTidies
  <2>3. ASSUME NEW c \in Callers, CopyBegins(c) PROVE FoldersInv' /\ RemainsInv'
    <3>1. /\ At(c, "copy") /\ Active(c) /\ UNCHANGED <<raced, crashes>> /\ (torn => torn')
          /\ UNCHANGED <<used, history, faults>>
          /\ call[c].fn \in Swapping /\ Origin(c) \in Folder /\ Origin(c).ver \in Versions \union {NoVersion} /\ CallFits(c) /\ FoldersFit
      BY <2>3, CopyBeginsStep, HaveFits DEF Active, At, history, CallFits
    <3>2. \E q \in PCs : Moved(c, q)
      BY <2>3, CopyBeginsStep DEF Raised, PCs
    <3>3. faults' = 0 => faults = 0 /\ torn' = torn
      BY <3>1 DEF history
    <3>4. ASSUME ~raced, ~torn', Sound(c)
          PROVE  Sound(c)' /\ (faults' = 0 /\ Tidy(c) => Tidy(c)')
      <4> USE <3>1, <3>4, Known, Kinds, BackupsAssumption
          DEF Sound, Intact, CallFits, FoldersFit, Target, history, Keeps, Moved,
               At, Exists,
              Functions, Swapping, Stage, Aside, Hidden, Places
      <4>1. faults \in Nat
        BY HaveFits, BoundsAssumption DEF CountersFit
      <4>2. CASE (Exists(Stage(c)) \/ Origin(c) = Nothing) /\ UNCHANGED disk /\ Raised(c)
        <5>1. Sound(c)'
          BY <4>2 DEF Raised, CopyUndisturbed, Origin
        <5>2. ASSUME faults' = 0, Tidy(c) PROVE Tidy(c)'
          BY <3>3, <4>1, <4>2, <5>2 DEF Tidy, Swaps, Passing, Raised
        <5> QED BY <5>1, <5>2
      <4>3. CASE /\ ~Exists(Stage(c)) /\ Origin(c) # Nothing /\ Origin(c) \in Folder
                /\ Filled(Stage(c), Torn(Origin(c).ver, c)) /\ Moved(c, "copying")
                /\ call'[c].fn = call[c].fn /\ call'[c].bak = call[c].bak
                /\ call'[c].replaced = call[c].replaced /\ call'[c].src = Origin(c)
        <5>1. Sound(c)'
          BY <4>3 DEF Filled, CopyUndisturbed, Origin
        <5>2. ASSUME faults' = 0, Tidy(c) PROVE Tidy(c)'
          BY <3>3, <4>1, <4>3, <5>2 DEF Tidy, Swaps, Passing, Filled
        <5> QED BY <5>1, <5>2
      <4> QED
        BY <2>3, <4>2, <4>3, CopyBeginsStep, SMTT(60)
    <3> QED
      BY <3>1, <3>2, <3>3, <3>4, SoloStep, SoloTidies
  <2>4. ASSUME NEW c \in Callers, CopyEnds(c) PROVE FoldersInv' /\ RemainsInv'
    <3>1. /\ At(c, "copying") /\ Active(c) /\ UNCHANGED <<raced, crashes>> /\ (torn => torn')
          /\ UNCHANGED <<used, history>>
          /\ call[c].fn \in Swapping /\ CallFits(c) /\ FoldersFit
      BY <2>4, CopyEndsStep, HaveFits DEF Active, At, history, CallFits
    <3>2. \E q \in PCs : Moved(c, q)
      BY <2>4, CopyEndsStep DEF Goes, Raised, AfterCopy, PCs
    <3>3. faults' = 0 => faults = 0 /\ torn' = torn
      <4>1. faults \in Nat
        BY HaveFits, BoundsAssumption DEF CountersFit
      <4> QED
        BY <2>4, <3>1, <4>1 DEF CopyEnds, Fault, NoFault, history
    <3>4. ASSUME ~raced, ~torn', Sound(c)
          PROVE  Sound(c)' /\ (faults' = 0 /\ Tidy(c) => Tidy(c)')
      <4> USE <3>1, <3>4, Known, Kinds, BackupsAssumption
          DEF Sound, Intact, CallFits, FoldersFit, Target, history, Keeps, Moved,
               At, Exists,
              Functions, Swapping, Stage, Aside, Hidden, Places
      <4>1. faults \in Nat
        BY HaveFits, BoundsAssumption DEF CountersFit
      <4>2. CASE /\ CopyUndisturbed(c) /\ Filled(Stage(c), [call[c].src EXCEPT !.by = NoCaller])
                /\ Goes(c, AfterCopy(c)) /\ UNCHANGED faults
        <5>1. Sound(c)'
          <6>1. call[c].src.whole /\ disk'[Stage(c)].whole
            BY <4>2 DEF Filled
          <6>2. \A q \in Places : q # Stage(c) => disk'[q] = disk[q]
            BY <4>2 DEF Filled
          <6>3. Goes(c, AfterCopy(c))
            BY <4>2
          <6> QED
            BY <6>1, <6>2, <6>3 DEF Goes, AfterCopy, CopyUndisturbed, Origin
        <5>2. ASSUME faults' = 0, Tidy(c) PROVE Tidy(c)'
          BY <3>3, <4>1, <4>2, <5>2 DEF Tidy, Swaps, Passing, Goes, AfterCopy, Filled
        <5> QED BY <5>1, <5>2
      <4>3. CASE ~CopyUndisturbed(c) /\ UNCHANGED <<disk, faults>> /\ Raised(c)
        <5>1. Sound(c)'
          BY <4>3 DEF Raised, CopyUndisturbed, Origin
        <5>2. ASSUME faults' = 0, Tidy(c) PROVE Tidy(c)'
          BY <3>3, <4>1, <4>3, <5>2 DEF Tidy, Swaps, Passing, Raised
        <5> QED BY <5>1, <5>2
      <4>4. CASE /\ ~CopyUndisturbed(c) /\ Filled(Stage(c), Torn(call[c].src.ver, NoCaller))
                /\ Goes(c, AfterCopy(c)) /\ UNCHANGED faults
        <5>1. Sound(c)'
          BY <4>4 DEF Goes, AfterCopy, Filled, CopyUndisturbed, Origin
        <5>2. ASSUME faults' = 0, Tidy(c) PROVE Tidy(c)'
          BY <3>3, <4>1, <4>4, <5>2 DEF Tidy, Swaps, Passing, Goes, AfterCopy, Filled
        <5> QED BY <5>1, <5>2
      <4>5. CASE UNCHANGED disk /\ Raised(c) /\ faults' = faults + 1
        <5>1. Sound(c)'
          BY <4>5 DEF Raised, CopyUndisturbed, Origin
        <5>2. ASSUME faults' = 0, Tidy(c) PROVE Tidy(c)'
          BY <3>3, <4>1, <4>5, <5>2 DEF Tidy, Swaps, Passing, Raised
        <5> QED BY <5>1, <5>2
      <4> QED
        BY <2>4, <4>2, <4>3, <4>4, <4>5, CopyEndsStep
    <3> QED
      BY <3>1, <3>2, <3>3, <3>4, SoloStep, SoloTidies
  <2>5. ASSUME NEW c \in Callers, Provision(c) PROVE FoldersInv' /\ RemainsInv'
    <3>1. /\ At(c, "provision") /\ Active(c) /\ UNCHANGED <<raced, crashes>> /\ (torn => torn')
          /\ UNCHANGED <<disk, used, history, faults>>
          /\ call[c].fn = "install" /\ CallFits(c) /\ FoldersFit
      BY <2>5, ProvisionStep, HaveFits DEF Active, At, history, CallFits
    <3>2. \E q \in PCs : Moved(c, q)
      BY <2>5, ProvisionStep DEF Goes, Raised, PCs
    <3>3. faults' = 0 => faults = 0 /\ torn' = torn
      BY <3>1 DEF history
    <3>4. ASSUME ~raced, ~torn', Sound(c)
          PROVE  Sound(c)' /\ (faults' = 0 /\ Tidy(c) => Tidy(c)')
      <4> USE <3>1, <3>4, Known, Kinds, BackupsAssumption
          DEF Sound, Intact, CallFits, FoldersFit, Target, history, Keeps, Moved,
               At, Exists,
              Functions, Swapping, Stage, Aside, Hidden, Places
      <4>1. faults \in Nat
        BY HaveFits, BoundsAssumption DEF CountersFit
      <4>2. CASE call[c].replaced /\ Goes(c, "backup")
        <5>1. Sound(c)'
          BY <4>2 DEF Goes
        <5>2. ASSUME faults' = 0, Tidy(c) PROVE Tidy(c)'
          <6>1. Goes(c, "backup")
            BY <4>2
          <6> QED
            BY <5>2, <6>1 DEF Tidy, Swaps, Passing, Goes
        <5> QED BY <5>1, <5>2
      <4>3. CASE ~call[c].replaced /\ Goes(c, "activate")
        <5>1. Sound(c)'
          BY <4>3 DEF Goes
        <5>2. ASSUME faults' = 0, Tidy(c) PROVE Tidy(c)'
          <6>1. Goes(c, "activate")
            BY <4>3
          <6>2. call[c].replaced = Exists("install")
            BY <5>2 DEF Tidy, Swaps
          <6>3. ~Exists("install")
            BY <4>3, <6>2, Zenon
          <6> QED
            BY <5>2, <6>1, <6>3 DEF Tidy, Swaps, Passing, Goes
        <5> QED BY <5>1, <5>2
      <4>4. CASE Raised(c)
        <5>1. Sound(c)'
          BY <4>4 DEF Raised
        <5>2. ASSUME faults' = 0, Tidy(c) PROVE Tidy(c)'
          BY <3>3, <4>1, <4>4, <5>2 DEF Tidy, Swaps, Passing, Raised
        <5> QED BY <5>1, <5>2
      <4> QED
        BY <2>5, <4>2, <4>3, <4>4, ProvisionStep
    <3> QED
      BY <3>1, <3>2, <3>3, <3>4, SoloStep, SoloTidies
  <2>6. ASSUME NEW c \in Callers, BackupBegins(c) PROVE FoldersInv' /\ RemainsInv'
    <3>1. /\ At(c, "backup") /\ Active(c) /\ UNCHANGED <<raced, crashes>> /\ (torn => torn')
          /\ UNCHANGED <<history, faults>>
          /\ call[c].fn \in {"install", "remove"} /\ CallFits(c) /\ FoldersFit
      BY <2>6, BackupBeginsStep, HaveFits DEF Active, At, history, CallFits
    <3>2. \E q \in PCs : Moved(c, q)
      BY <2>6, BackupBeginsStep DEF Raised, Failed, PCs
    <3>3. faults' = 0 => faults = 0 /\ torn' = torn
      BY <3>1 DEF history
    <3>4. ASSUME ~raced, ~torn', Sound(c)
          PROVE  Sound(c)' /\ (faults' = 0 /\ Tidy(c) => Tidy(c)')
      <4> USE <3>1, <3>4, Known, Kinds, BackupsAssumption
          DEF Sound, Intact, CallFits, FoldersFit, Target, history, Keeps, Moved,
               At, Exists,
              Functions, Swapping, Stage, Aside, Hidden, Places
      <4>1. faults \in Nat
        BY HaveFits, BoundsAssumption DEF CountersFit
      <4>2. CASE call[c].fn = "remove" /\ UNCHANGED <<disk, used>> /\ Failed(c)
        <5>1. Sound(c)'
          BY <4>2 DEF Failed, BackupUndisturbed
        <5>2. ASSUME faults' = 0, Tidy(c) PROVE Tidy(c)'
          BY <3>3, <4>1, <4>2, <5>2 DEF Tidy, Swaps, Passing, Failed
        <5> QED BY <5>1, <5>2
      <4>3. CASE ~Exists("install") /\ call[c].fn = "install" /\ UNCHANGED <<disk, used>> /\ Raised(c)
        <5>1. Sound(c)'
          BY <4>3 DEF Raised, BackupUndisturbed
        <5>2. ASSUME faults' = 0, Tidy(c) PROVE Tidy(c)'
          BY <3>3, <4>1, <4>3, <5>2 DEF Tidy, Swaps, Passing, Raised
        <5> QED BY <5>1, <5>2
      <4>4. CASE /\ Exists("install")
                /\ \E b \in Backups \ used :
                     /\ used' = used \union {b}
                     /\ Filled(b, Torn(disk["install"].ver, c)) /\ Moved(c, "backingUp")
                     /\ call'[c].fn = call[c].fn /\ call'[c].bak = b
                     /\ call'[c].replaced = call[c].replaced /\ call'[c].src = disk["install"]
        <5>1. Sound(c)'
          BY <4>4 DEF Filled, BackupUndisturbed
        <5>2. ASSUME faults' = 0, Tidy(c) PROVE Tidy(c)'
          BY <3>3, <4>1, <4>4, <5>2 DEF Tidy, Swaps, Passing, Filled
        <5> QED BY <5>1, <5>2
      <4> QED
        BY <2>6, <4>2, <4>3, <4>4, BackupBeginsStep
    <3> QED
      BY <3>1, <3>2, <3>3, <3>4, SoloStep, SoloTidies
  <2>7. ASSUME NEW c \in Callers, BackupEnds(c) PROVE FoldersInv' /\ RemainsInv'
    <3>1. /\ At(c, "backingUp") /\ Active(c) /\ UNCHANGED <<raced, crashes>> /\ (torn => torn')
          /\ UNCHANGED <<used, current, unsaved, raced, calls, crashes>>
          /\ call[c].fn \in {"install", "remove"} /\ call[c].bak \in Backups /\ CallFits(c) /\ FoldersFit
      BY <2>7, BackupEndsStep, HaveFits DEF Active, At, history, CallFits
    <3>2. \E q \in PCs : Moved(c, q)
      BY <2>7, BackupEndsStep DEF Goes, Raised, Failed, AfterBackup, PCs
    <3>3. faults' = 0 => faults = 0 /\ torn' = torn
      <4>1. faults \in Nat
        BY HaveFits, BoundsAssumption DEF CountersFit
      <4> QED
        BY <2>7, <3>1, <4>1 DEF BackupEnds, Fault, NoFault, history
    <3>4. ASSUME ~raced, ~torn', Sound(c)
          PROVE  Sound(c)' /\ (faults' = 0 /\ Tidy(c) => Tidy(c)')
      <4> USE <3>1, <3>4, Known, Kinds, BackupsAssumption
          DEF Sound, Intact, CallFits, FoldersFit, Target, history, Keeps, Moved,
               At, Exists,
              Functions, Swapping, Stage, Aside, Hidden, Places
      <4>1. faults \in Nat
        BY HaveFits, BoundsAssumption DEF CountersFit
      <4>2. CASE /\ BackupUndisturbed(c) /\ Filled(call[c].bak, [call[c].src EXCEPT !.by = NoCaller])
                /\ Goes(c, AfterBackup(c)) /\ UNCHANGED <<faults, torn>>
        <5>1. Sound(c)'
          <6>1. call[c].src.whole /\ disk'[call[c].bak].whole
            BY <4>2 DEF Filled
          <6>2. \A q \in Places : q # call[c].bak => disk'[q] = disk[q]
            BY <4>2 DEF Filled
          <6>3. Goes(c, AfterBackup(c))
            BY <4>2
          <6> QED
            BY <6>1, <6>2, <6>3 DEF Goes, AfterBackup, BackupUndisturbed
        <5>2. ASSUME faults' = 0, Tidy(c) PROVE Tidy(c)'
          BY <3>3, <4>1, <4>2, <5>2 DEF Tidy, Swaps, Passing, Goes, AfterBackup, Filled
        <5> QED BY <5>1, <5>2
      <4>3. CASE ~BackupUndisturbed(c) /\ UNCHANGED <<disk, faults, torn>> /\ call[c].fn = "remove" /\ Failed(c)
        <5>1. Sound(c)'
          BY <4>3 DEF Failed, BackupUndisturbed
        <5>2. ASSUME faults' = 0, Tidy(c) PROVE Tidy(c)'
          BY <3>3, <4>1, <4>3, <5>2 DEF Tidy, Swaps, Passing, Failed
        <5> QED BY <5>1, <5>2
      <4>4. CASE ~BackupUndisturbed(c) /\ UNCHANGED <<disk, faults, torn>> /\ call[c].fn = "install" /\ Raised(c)
        <5>1. Sound(c)'
          BY <4>4 DEF Raised, BackupUndisturbed
        <5>2. ASSUME faults' = 0, Tidy(c) PROVE Tidy(c)'
          BY <3>3, <4>1, <4>4, <5>2 DEF Tidy, Swaps, Passing, Raised
        <5> QED BY <5>1, <5>2
      <4>5. CASE /\ ~BackupUndisturbed(c) /\ Filled(call[c].bak, Torn(call[c].src.ver, NoCaller))
                /\ Goes(c, AfterBackup(c)) /\ UNCHANGED <<faults, torn>>
        <5>1. Sound(c)'
          BY <4>5 DEF Goes, AfterBackup, Filled, BackupUndisturbed
        <5>2. ASSUME faults' = 0, Tidy(c) PROVE Tidy(c)'
          BY <3>3, <4>1, <4>5, <5>2 DEF Tidy, Swaps, Passing, Goes, AfterBackup, Filled
        <5> QED BY <5>1, <5>2
      <4>6. CASE UNCHANGED disk /\ torn' = TRUE /\ faults' = faults + 1 /\ (Failed(c) \/ (Raised(c) /\ call[c].fn = "install"))
        <5>1. Sound(c)'
          BY <4>6 DEF Raised, Failed, BackupUndisturbed
        <5>2. ASSUME faults' = 0, Tidy(c) PROVE Tidy(c)'
          BY <3>3, <4>1, <4>6, <5>2 DEF Tidy, Swaps, Passing, Raised, Failed
        <5> QED BY <5>1, <5>2
      <4> QED
        BY <2>7, <4>2, <4>3, <4>4, <4>5, <4>6, BackupEndsStep
    <3> QED
      BY <3>1, <3>2, <3>3, <3>4, SoloStep, SoloTidies
  <2>8. ASSUME NEW c \in Callers, SetAside(c) PROVE FoldersInv' /\ RemainsInv'
    <3>1. /\ At(c, "setAside") /\ Active(c) /\ UNCHANGED <<raced, crashes>> /\ (torn => torn')
          /\ UNCHANGED <<used, history>>
          /\ call[c].fn \in Swapping /\ CallFits(c) /\ FoldersFit
      BY <2>8, SetAsideStep, HaveFits DEF Active, At, history, CallFits
    <3>2. \E q \in PCs : Moved(c, q)
      BY <2>8, SetAsideStep DEF Raised, Aside2, PCs
    <3>3. faults' = 0 => faults = 0 /\ torn' = torn
      <4>1. faults \in Nat
        BY HaveFits, BoundsAssumption DEF CountersFit
      <4> QED
        BY <2>8, <3>1, <4>1 DEF SetAside, Fault, NoFault, history
    <3>4. ASSUME ~raced, ~torn', Sound(c)
          PROVE  Sound(c)' /\ (faults' = 0 /\ Tidy(c) => Tidy(c)')
      <4> USE <3>1, <3>4, Known, Kinds, BackupsAssumption
          DEF Sound, Intact, CallFits, FoldersFit, Target, history, Keeps, Moved,
               At, Exists,
              Functions, Swapping, Stage, Aside, Hidden, Places
      <4>1. faults \in Nat
        BY HaveFits, BoundsAssumption DEF CountersFit
      <4>2. CASE /\ call[c].fn = "rollback" /\ ~Exists("install") /\ UNCHANGED <<disk, faults>>
                /\ Aside2(c, FALSE)
        <5>1. Sound(c)'
          BY <4>2 DEF Aside2
        <5>2. ASSUME faults' = 0, Tidy(c) PROVE Tidy(c)'
          BY <3>3, <4>1, <4>2, <5>2 DEF Tidy, Swaps, Passing, Aside2
        <5> QED BY <5>1, <5>2
      <4>3. CASE /\ CanRename("install", Aside(c)) /\ Shifted("install", Aside(c)) /\ UNCHANGED faults
                /\ Aside2(c, TRUE)
        <5>1. Sound(c)'
          BY <4>3 DEF Aside2, Shifted, CanRename
        <5>2. ASSUME faults' = 0, Tidy(c) PROVE Tidy(c)'
          BY <3>3, <4>1, <4>3, <5>2 DEF Tidy, Swaps, Passing, Aside2, Shifted, CanRename
        <5> QED BY <5>1, <5>2
      <4>4. CASE /\ ~CanRename("install", Aside(c)) /\ (call[c].fn = "install" \/ Exists("install"))
                /\ UNCHANGED <<disk, faults>> /\ Raised(c)
        <5>1. Sound(c)'
          BY <4>4 DEF Raised, CanRename
        <5>2. ASSUME faults' = 0, Tidy(c) PROVE Tidy(c)'
          BY <3>3, <4>1, <4>4, <5>2 DEF Tidy, Swaps, Passing, Raised, CanRename
        <5> QED BY <5>1, <5>2
      <4>5. CASE UNCHANGED disk /\ Raised(c) /\ faults' = faults + 1
        <5>1. Sound(c)'
          BY <4>5 DEF Raised
        <5>2. ASSUME faults' = 0, Tidy(c) PROVE Tidy(c)'
          BY <3>3, <4>1, <4>5, <5>2 DEF Tidy, Swaps, Passing, Raised
        <5> QED BY <5>1, <5>2
      <4> QED
        BY <2>8, <4>2, <4>3, <4>4, <4>5, SetAsideStep
    <3> QED
      BY <3>1, <3>2, <3>3, <3>4, SoloStep, SoloTidies
  <2>9. ASSUME NEW c \in Callers, Activate(c) PROVE FoldersInv' /\ RemainsInv'
    <3>1. /\ At(c, "activate") /\ Active(c) /\ UNCHANGED <<raced, crashes>> /\ (torn => torn')
          /\ UNCHANGED <<used, unsaved, torn, raced, calls, crashes>>
          /\ call[c].fn \in Swapping /\ CallFits(c) /\ FoldersFit
      BY <2>9, ActivateStep, HaveFits DEF Active, At, history, CallFits
    <3>2. \E q \in PCs : Moved(c, q)
      BY <2>9, ActivateStep DEF Goes, PCs
    <3>3. faults' = 0 => faults = 0 /\ torn' = torn
      <4>1. faults \in Nat
        BY HaveFits, BoundsAssumption DEF CountersFit
      <4> QED
        BY <2>9, <3>1, <4>1 DEF Activate, Fault, NoFault, history
    <3>4. ASSUME ~raced, ~torn', Sound(c)
          PROVE  Sound(c)' /\ (faults' = 0 /\ Tidy(c) => Tidy(c)')
      <4> USE <3>1, <3>4, Known, Kinds, BackupsAssumption
          DEF Sound, Intact, CallFits, FoldersFit, Target, history, Keeps, Moved,
               At, Exists,
              Functions, Swapping, Stage, Aside, Hidden, Places
      <4>1. faults \in Nat
        BY HaveFits, BoundsAssumption DEF CountersFit
      <4>2. CASE /\ CanRename(Stage(c), "install") /\ Shifted(Stage(c), "install") /\ UNCHANGED faults
                /\ current' \in {disk[Stage(c)].ver, NoVersion, current}
                /\ Moved(c, "cleanup") /\ Keeps(c) /\ call'[c].result = "ok"
        <5>1. Sound(c)'
          BY <4>2 DEF Shifted, CanRename
        <5>2. ASSUME faults' = 0, Tidy(c) PROVE Tidy(c)'
          BY <3>3, <4>1, <4>2, <5>2 DEF Tidy, Swaps, Passing, Shifted, CanRename
        <5> QED BY <5>1, <5>2
      <4>3. CASE ~CanRename(Stage(c), "install") /\ UNCHANGED <<disk, current, faults>> /\ Goes(c, "recover")
        <5>1. Sound(c)'
          BY <4>3 DEF Goes, CanRename
        <5>2. ASSUME faults' = 0, Tidy(c) PROVE Tidy(c)'
          BY <3>3, <4>1, <4>3, <5>2 DEF Tidy, Swaps, Passing, Goes, CanRename
        <5> QED BY <5>1, <5>2
      <4>4. CASE UNCHANGED <<disk, current>> /\ Goes(c, "recover") /\ faults' = faults + 1
        <5>1. Sound(c)'
          BY <4>4 DEF Goes
        <5>2. ASSUME faults' = 0, Tidy(c) PROVE Tidy(c)'
          BY <3>3, <4>1, <4>4, <5>2 DEF Tidy, Swaps, Passing, Goes
        <5> QED BY <5>1, <5>2
      <4> QED
        BY <2>9, <4>2, <4>3, <4>4, ActivateStep, ZenonT(60)
    <3> QED
      BY <3>1, <3>2, <3>3, <3>4, SoloStep, SoloTidies
  <2>10. ASSUME NEW c \in Callers, Recover(c) PROVE FoldersInv' /\ RemainsInv'
    <3>1. /\ At(c, "recover") /\ Active(c) /\ UNCHANGED <<raced, crashes>> /\ (torn => torn')
          /\ UNCHANGED <<used, history>>
          /\ call[c].fn \in Swapping /\ CallFits(c) /\ FoldersFit
      BY <2>10, RecoverStep, HaveFits DEF Active, At, history, CallFits
    <3>2. \E q \in PCs : Moved(c, q)
      BY <2>10, RecoverStep DEF Raised, PCs
    <3>3. faults' = 0 => faults = 0 /\ torn' = torn
      <4>1. faults \in Nat
        BY HaveFits, BoundsAssumption DEF CountersFit
      <4> QED
        BY <2>10, <3>1, <4>1 DEF Recover, Fault, NoFault, history
    <3>4. ASSUME ~raced, ~torn', Sound(c)
          PROVE  Sound(c)' /\ (faults' = 0 /\ Tidy(c) => Tidy(c)')
      <4> USE <3>1, <3>4, Known, Kinds, BackupsAssumption
          DEF Sound, Intact, CallFits, FoldersFit, Target, history, Keeps, Moved,
               At, Exists,
              Functions, Swapping, Stage, Aside, Hidden, Places
      <4>1. faults \in Nat
        BY HaveFits, BoundsAssumption DEF CountersFit
      <4>2. CASE /\ HasAside(c) /\ CanRename(Aside(c), "install") /\ Shifted(Aside(c), "install")
                /\ UNCHANGED faults /\ Raised(c)
        <5>1. Sound(c)'
          BY <4>2 DEF Raised, Shifted, CanRename, HasAside
        <5>2. ASSUME faults' = 0, Tidy(c) PROVE Tidy(c)'
          BY <3>3, <4>1, <4>2, <5>2 DEF Tidy, Swaps, Passing, Raised, Shifted,
               CanRename, HasAside
        <5> QED BY <5>1, <5>2
      <4>3. CASE UNCHANGED disk /\ (UNCHANGED faults \/ faults' = faults + 1) /\ Raised(c)
        <5>1. Sound(c)'
          BY <4>3 DEF Raised
        <5>2. ASSUME faults' = 0, Tidy(c) PROVE Tidy(c)'
          BY <3>3, <4>1, <4>3, <5>2 DEF Tidy, Swaps, Passing, Raised
        <5> QED BY <5>1, <5>2
      <4> QED
        BY <2>10, <4>2, <4>3, RecoverStep
    <3> QED
      BY <3>1, <3>2, <3>3, <3>4, SoloStep, SoloTidies
  <2>11. ASSUME NEW c \in Callers, Cleanup(c) PROVE FoldersInv' /\ RemainsInv'
    <3>1. /\ At(c, "cleanup") /\ Active(c) /\ UNCHANGED <<raced, crashes>> /\ (torn => torn')
          /\ UNCHANGED <<used, history, faults>>
          /\ call[c].fn \in Swapping /\ CallFits(c) /\ FoldersFit
      BY <2>11, CleanupStep, HaveFits DEF Active, At, history, CallFits
    <3>2. \E q \in PCs : Moved(c, q)
      BY <2>11, CleanupStep DEF Goes, Failed, PCs
    <3>3. faults' = 0 => faults = 0 /\ torn' = torn
      BY <3>1 DEF history
    <3>4. ASSUME ~raced, ~torn', Sound(c)
          PROVE  Sound(c)' /\ (faults' = 0 /\ Tidy(c) => Tidy(c)')
      <4> USE <3>1, <3>4, Known, Kinds, BackupsAssumption
          DEF Sound, Intact, CallFits, FoldersFit, Target, history, Keeps, Moved,
               At, Exists,
              Functions, Swapping, Stage, Aside, Hidden, Places
      <4>1. faults \in Nat
        BY HaveFits, BoundsAssumption DEF CountersFit
      <4>2. CASE Exists(Stage(c)) /\ Filled(Stage(c), Torn(disk[Stage(c)].ver, c)) /\ Goes(c, "cleaning")
        <5>1. Sound(c)'
          <6>1. disk'[Stage(c)].by = c
            BY <4>2, EmptiedBy
          <6>2. \A q \in Places : q # Stage(c) => disk'[q] = disk[q]
            BY <4>2 DEF Filled
          <6>3. Goes(c, "cleaning")
            BY <4>2
          <6> QED
            BY <6>1, <6>2, <6>3 DEF Goes
        <5>2. ASSUME faults' = 0, Tidy(c) PROVE Tidy(c)'
          BY <3>3, <4>1, <4>2, <5>2 DEF Tidy, Swaps, Passing, Goes, Filled
        <5> QED BY <5>1, <5>2
      <4>3. CASE ~Exists(Stage(c)) /\ UNCHANGED disk /\ call[c].result = "ok" /\ Goes(c, "discard")
        <5>1. Sound(c)'
          BY <4>3 DEF Goes
        <5>2. ASSUME faults' = 0, Tidy(c) PROVE Tidy(c)'
          BY <3>3, <4>1, <4>3, <5>2 DEF Tidy, Swaps, Passing, Goes
        <5> QED BY <5>1, <5>2
      <4>4. CASE ~Exists(Stage(c)) /\ UNCHANGED disk /\ call[c].result # "ok" /\ Failed(c)
        <5>1. Sound(c)'
          BY <4>4 DEF Failed
        <5>2. ASSUME faults' = 0, Tidy(c) PROVE Tidy(c)'
          BY <3>3, <4>1, <4>4, <5>2 DEF Tidy, Swaps, Passing, Failed
        <5> QED BY <5>1, <5>2
      <4> QED
        BY <2>11, <4>2, <4>3, <4>4, CleanupStep
    <3> QED
      BY <3>1, <3>2, <3>3, <3>4, SoloStep, SoloTidies
  <2>12. ASSUME NEW c \in Callers, Cleaned(c) PROVE FoldersInv' /\ RemainsInv'
    <3>1. /\ At(c, "cleaning") /\ Active(c) /\ UNCHANGED <<raced, crashes>> /\ (torn => torn')
          /\ UNCHANGED <<used, history>>
          /\ call[c].fn \in Swapping /\ CallFits(c) /\ FoldersFit
      BY <2>12, CleanedStep, HaveFits DEF Active, At, history, CallFits
    <3>2. \E q \in PCs : Moved(c, q)
      BY <2>12, CleanedStep DEF Goes, Failed, PCs
    <3>3. faults' = 0 => faults = 0 /\ torn' = torn
      <4>1. faults \in Nat
        BY HaveFits, BoundsAssumption DEF CountersFit
      <4> QED
        BY <2>12, <3>1, <4>1 DEF Cleaned, Fault, NoFault, history
    <3>4. ASSUME ~raced, ~torn', Sound(c)
          PROVE  Sound(c)' /\ (faults' = 0 /\ Tidy(c) => Tidy(c)')
      <4> USE <3>1, <3>4, Known, Kinds, BackupsAssumption
          DEF Sound, Intact, CallFits, FoldersFit, Target, history, Keeps, Moved,
               At, Exists,
              Functions, Swapping, Stage, Aside, Hidden, Places
      <4>1. faults \in Nat
        BY HaveFits, BoundsAssumption DEF CountersFit
      <4>2. CASE /\ disk[Stage(c)].by = c /\ Filled(Stage(c), Nothing) /\ UNCHANGED faults
                /\ \/ call[c].result = "ok" /\ Goes(c, "discard")
                   \/ call[c].result # "ok" /\ Failed(c)
        <5>1. Sound(c)'
          BY <4>2 DEF Goes, Failed, Filled
        <5>2. ASSUME faults' = 0, Tidy(c) PROVE Tidy(c)'
          BY <3>3, <4>1, <4>2, <5>2 DEF Tidy, Swaps, Passing, Goes, Failed, Filled
        <5> QED BY <5>1, <5>2
      <4>3. CASE disk[Stage(c)].by # c /\ UNCHANGED <<disk, faults>> /\ Failed(c)
        <5>1. Sound(c)'
          BY <4>3 DEF Failed
        <5>2. ASSUME faults' = 0, Tidy(c) PROVE Tidy(c)'
          BY <3>3, <4>1, <4>3, <5>2 DEF Tidy, Swaps, Passing, Failed
        <5> QED BY <5>1, <5>2
      <4>4. CASE UNCHANGED disk /\ Failed(c) /\ faults' = faults + 1
        <5>1. Sound(c)'
          BY <4>4 DEF Failed
        <5>2. ASSUME faults' = 0, Tidy(c) PROVE Tidy(c)'
          BY <3>3, <4>1, <4>4, <5>2 DEF Tidy, Swaps, Passing, Failed
        <5> QED BY <5>1, <5>2
      <4> QED
        BY <2>12, <4>2, <4>3, <4>4, CleanedStep
    <3> QED
      BY <3>1, <3>2, <3>3, <3>4, SoloStep, SoloTidies
  <2>13. ASSUME NEW c \in Callers, Discard(c) PROVE FoldersInv' /\ RemainsInv'
    <3>1. /\ At(c, "discard") /\ Active(c) /\ UNCHANGED <<raced, crashes>> /\ (torn => torn')
          /\ UNCHANGED <<used, history, faults>>
          /\ call[c].fn \in Swapping /\ CallFits(c) /\ FoldersFit
      BY <2>13, DiscardStep, HaveFits DEF Active, At, history, CallFits
    <3>2. \E q \in PCs : Moved(c, q)
      BY <2>13, DiscardStep DEF Goes, Failed, Returned, Answered, PCs
    <3>3. faults' = 0 => faults = 0 /\ torn' = torn
      BY <3>1 DEF history
    <3>4. ASSUME ~raced, ~torn', Sound(c)
          PROVE  Sound(c)' /\ (faults' = 0 /\ Tidy(c) => Tidy(c)')
      <4> USE <3>1, <3>4, Known, Kinds, BackupsAssumption
          DEF Sound, Intact, CallFits, FoldersFit, Target, history, Keeps, Moved,
               At, Exists,
              Functions, Swapping, Stage, Aside, Hidden, Places
      <4>1. faults \in Nat
        BY HaveFits, BoundsAssumption DEF CountersFit
      <4>2. CASE /\ HasAside(c) /\ Exists(Aside(c)) /\ Filled(Aside(c), Torn(disk[Aside(c)].ver, c))
                /\ Goes(c, "discarding")
        <5>1. Sound(c)'
          <6>1. disk'[Aside(c)].by = c
            BY <4>2, EmptiedBy
          <6>2. \A q \in Places : q # Aside(c) => disk'[q] = disk[q]
            BY <4>2 DEF Filled
          <6>3. Goes(c, "discarding")
            BY <4>2
          <6> QED
            BY <6>1, <6>2, <6>3 DEF Goes, HasAside
        <5>2. ASSUME faults' = 0, Tidy(c) PROVE Tidy(c)'
          BY <3>3, <4>1, <4>2, <5>2 DEF Tidy, Swaps, Passing, Goes, Filled, HasAside
        <5> QED BY <5>1, <5>2
      <4>3. CASE ~(HasAside(c) /\ Exists(Aside(c))) /\ UNCHANGED disk /\ (Failed(c) \/ Returned(c))
        <5>1. Sound(c)'
          BY <4>3 DEF Failed, Returned, Answered, HasAside
        <5>2. ASSUME faults' = 0, Tidy(c) PROVE Tidy(c)'
          BY <3>3, <4>1, <4>3, <5>2 DEF Tidy, Swaps, Passing, Failed, Returned, Answered, HasAside
        <5> QED BY <5>1, <5>2
      <4> QED
        BY <2>13, <4>2, <4>3, DiscardStep
    <3> QED
      BY <3>1, <3>2, <3>3, <3>4, SoloStep, SoloTidies
  <2>14. ASSUME NEW c \in Callers, Discarded(c) PROVE FoldersInv' /\ RemainsInv'
    <3>1. /\ At(c, "discarding") /\ Active(c) /\ UNCHANGED <<raced, crashes>> /\ (torn => torn')
          /\ UNCHANGED <<used, history>>
          /\ call[c].fn \in Swapping /\ CallFits(c) /\ FoldersFit
      BY <2>14, DiscardedStep, HaveFits DEF Active, At, history, CallFits
    <3>2. \E q \in PCs : Moved(c, q)
      BY <2>14, DiscardedStep DEF Failed, Returned, Answered, PCs
    <3>3. faults' = 0 => faults = 0 /\ torn' = torn
      <4>1. faults \in Nat
        BY HaveFits, BoundsAssumption DEF CountersFit
      <4> QED
        BY <2>14, <3>1, <4>1 DEF Discarded, Fault, NoFault, history
    <3>4. ASSUME ~raced, ~torn', Sound(c)
          PROVE  Sound(c)' /\ (faults' = 0 /\ Tidy(c) => Tidy(c)')
      <4> USE <3>1, <3>4, Known, Kinds, BackupsAssumption
          DEF Sound, Intact, CallFits, FoldersFit, Target, history, Keeps, Moved,
               At, Exists,
              Functions, Swapping, Stage, Aside, Hidden, Places
      <4>1. faults \in Nat
        BY HaveFits, BoundsAssumption DEF CountersFit
      <4>2. CASE disk[Aside(c)].by = c /\ Filled(Aside(c), Nothing) /\ UNCHANGED faults /\ Returned(c)
        <5>1. Sound(c)'
          BY <4>2 DEF Returned, Answered, Filled
        <5>2. ASSUME faults' = 0, Tidy(c) PROVE Tidy(c)'
          BY <3>3, <4>1, <4>2, <5>2 DEF Tidy, Swaps, Passing, Returned, Answered, Filled
        <5> QED BY <5>1, <5>2
      <4>3. CASE disk[Aside(c)].by # c /\ UNCHANGED <<disk, faults>> /\ Failed(c)
        <5>1. Sound(c)'
          BY <4>3 DEF Failed
        <5>2. ASSUME faults' = 0, Tidy(c) PROVE Tidy(c)'
          BY <3>3, <4>1, <4>3, <5>2 DEF Tidy, Swaps, Passing, Failed
        <5> QED BY <5>1, <5>2
      <4>4. CASE UNCHANGED disk /\ Failed(c) /\ faults' = faults + 1
        <5>1. Sound(c)'
          BY <4>4 DEF Failed
        <5>2. ASSUME faults' = 0, Tidy(c) PROVE Tidy(c)'
          BY <3>3, <4>1, <4>4, <5>2 DEF Tidy, Swaps, Passing, Failed
        <5> QED BY <5>1, <5>2
      <4> QED
        BY <2>14, <4>2, <4>3, <4>4, DiscardedStep
    <3> QED
      BY <3>1, <3>2, <3>3, <3>4, SoloStep, SoloTidies
  <2>15. ASSUME NEW c \in Callers, Remove(c) PROVE FoldersInv' /\ RemainsInv'
    <3>1. /\ At(c, "remove") /\ Active(c) /\ UNCHANGED <<raced, crashes>> /\ (torn => torn')
          /\ UNCHANGED <<used, torn, raced, calls, faults, crashes>>
          /\ call[c].fn \in {"remove", "delete"} /\ Target(c) \in Places /\ CallFits(c) /\ FoldersFit
      BY <2>15, RemoveStep, HaveFits DEF Active, At, history, CallFits
    <3>2. \E q \in PCs : Moved(c, q)
      BY <2>15, RemoveStep DEF Goes, Failed, PCs
    <3>3. faults' = 0 => faults = 0 /\ torn' = torn
      BY <3>1 DEF history
    <3>4. ASSUME ~raced, ~torn', Sound(c)
          PROVE  Sound(c)' /\ (faults' = 0 /\ Tidy(c) => Tidy(c)')
      <4> USE <3>1, <3>4, Known, Kinds, BackupsAssumption
          DEF Sound, Intact, CallFits, FoldersFit, Target, history, Keeps, Moved,
               At, Exists,
              Functions, Swapping, Stage, Aside, Hidden, Places
      <4>1. faults \in Nat
        BY HaveFits, BoundsAssumption DEF CountersFit
      <4>2. CASE /\ Exists(Target(c)) /\ Filled(Target(c), Torn(disk[Target(c)].ver, c))
                /\ current' \in {NoVersion, current} /\ unsaved' \in BOOLEAN /\ Goes(c, "removing")
        <5>1. Sound(c)'
          BY <4>2 DEF Goes, Filled
        <5>2. ASSUME faults' = 0, Tidy(c) PROVE Tidy(c)'
          BY <3>3, <4>1, <4>2, <5>2 DEF Tidy, Swaps, Passing, Goes, Filled
        <5> QED BY <5>1, <5>2
      <4>3. CASE ~Exists(Target(c)) /\ UNCHANGED <<disk, current, unsaved>> /\ Failed(c)
        <5>1. Sound(c)'
          BY <4>3 DEF Failed
        <5>2. ASSUME faults' = 0, Tidy(c) PROVE Tidy(c)'
          BY <3>3, <4>1, <4>3, <5>2 DEF Tidy, Swaps, Passing, Failed
        <5> QED BY <5>1, <5>2
      <4> QED
        BY <2>15, <4>2, <4>3, RemoveStep
    <3> QED
      BY <3>1, <3>2, <3>3, <3>4, SoloStep, SoloTidies
  <2>16. ASSUME NEW c \in Callers, Removed(c) PROVE FoldersInv' /\ RemainsInv'
    <3>1. /\ At(c, "removing") /\ Active(c) /\ UNCHANGED <<raced, crashes>> /\ (torn => torn')
          /\ UNCHANGED <<used, current, unsaved, raced, calls, crashes>>
          /\ call[c].fn \in {"remove", "delete"} /\ Target(c) \in Places /\ CallFits(c) /\ FoldersFit
      BY <2>16, RemovedStep, HaveFits DEF Active, At, history, CallFits
    <3>2. \E q \in PCs : Moved(c, q)
      BY <2>16, RemovedStep DEF Failed, PCs
    <3>3. faults' = 0 => faults = 0 /\ torn' = torn
      <4>1. faults \in Nat
        BY HaveFits, BoundsAssumption DEF CountersFit
      <4> QED
        BY <2>16, <3>1, <4>1 DEF Removed, Fault, NoFault, history
    <3>4. ASSUME ~raced, ~torn', Sound(c)
          PROVE  Sound(c)' /\ (faults' = 0 /\ Tidy(c) => Tidy(c)')
      <4> USE <3>1, <3>4, Known, Kinds, BackupsAssumption
          DEF Sound, Intact, CallFits, FoldersFit, Target, history, Keeps, Moved,
               At, Exists,
              Functions, Swapping, Stage, Aside, Hidden, Places
      <4>1. faults \in Nat
        BY HaveFits, BoundsAssumption DEF CountersFit
      <4>2. CASE /\ disk[Target(c)].by = c /\ Filled(Target(c), Nothing) /\ UNCHANGED <<faults, torn>>
                /\ Moved(c, "done") /\ Answered(c)
        <5>1. Sound(c)'
          BY <4>2 DEF Filled, Answered
        <5>2. ASSUME faults' = 0, Tidy(c) PROVE Tidy(c)'
          BY <3>3, <4>1, <4>2, <5>2 DEF Tidy, Swaps, Passing, Filled, Answered
        <5> QED BY <5>1, <5>2
      <4>3. CASE disk[Target(c)].by # c /\ UNCHANGED <<disk, faults, torn>> /\ Failed(c)
        <5>1. Sound(c)'
          BY <4>3 DEF Failed
        <5>2. ASSUME faults' = 0, Tidy(c) PROVE Tidy(c)'
          BY <3>3, <4>1, <4>3, <5>2 DEF Tidy, Swaps, Passing, Failed
        <5> QED BY <5>1, <5>2
      <4>4. CASE UNCHANGED disk /\ Failed(c) /\ torn' = TRUE /\ faults' = faults + 1
        <5>1. Sound(c)'
          BY <4>4 DEF Failed
        <5>2. ASSUME faults' = 0, Tidy(c) PROVE Tidy(c)'
          BY <3>3, <4>1, <4>4, <5>2 DEF Tidy, Swaps, Passing, Failed
        <5> QED BY <5>1, <5>2
      <4> QED
        BY <2>16, <4>2, <4>3, <4>4, RemovedStep, ZenonT(60)
    <3> QED
      BY <3>1, <3>2, <3>3, <3>4, SoloStep, SoloTidies
  <2>17. ASSUME NEW c \in Callers, Verify(c) PROVE FoldersInv' /\ RemainsInv'
    <3>1. /\ At(c, "verify") /\ Active(c) /\ UNCHANGED <<raced, crashes>> /\ (torn => torn')
          /\ UNCHANGED <<disk, used, history, faults>>
          /\ call[c].fn = "install" /\ CallFits(c) /\ FoldersFit
      BY <2>17, VerifyStep, HaveFits DEF Active, At, history, CallFits
    <3>2. \E q \in PCs : Moved(c, q)
      BY <2>17, VerifyStep DEF Goes, Raised, PCs
    <3>3. faults' = 0 => faults = 0 /\ torn' = torn
      BY <3>1 DEF history
    <3>4. ASSUME ~raced, ~torn', Sound(c)
          PROVE  Sound(c)' /\ (faults' = 0 /\ Tidy(c) => Tidy(c)')
      <4> USE <3>1, <3>4, Known, Kinds, BackupsAssumption
          DEF Sound, Intact, CallFits, FoldersFit, Target, history, Keeps, Moved,
               At, Exists,
              Functions, Swapping, Stage, Aside, Hidden, Places
      <4>1. faults \in Nat
        BY HaveFits, BoundsAssumption DEF CountersFit
      <4>2. CASE Goes(c, "done")
        <5>1. Sound(c)'
          BY <4>2 DEF Goes
        <5>2. ASSUME faults' = 0, Tidy(c) PROVE Tidy(c)'
          BY <3>3, <4>1, <4>2, <5>2 DEF Tidy, Swaps, Passing, Goes
        <5> QED BY <5>1, <5>2
      <4>3. CASE Moved(c, "check") /\ call'[c].fn \in {"rollback", "remove"}
        <5>1. Sound(c)'
          BY <4>3
        <5>2. ASSUME faults' = 0, Tidy(c) PROVE Tidy(c)'
          BY <3>3, <4>1, <4>3, <5>2 DEF Tidy, Swaps, Passing
        <5> QED BY <5>1, <5>2
      <4> QED
        BY <2>17, <4>2, <4>3, VerifyStep
    <3> QED
      BY <3>1, <3>2, <3>3, <3>4, SoloStep, SoloTidies
  <2>18. ASSUME Crash PROVE FoldersInv' /\ RemainsInv'
    <3>1. /\ \A c \in Callers : ~Active(c)'
          /\ UNCHANGED <<disk, raced>> /\ torn' = (torn \/ \E c \in Callers : Half(c))
      BY <2>18, IdleCall DEF Crash, Active
    <3>2. ASSUME ~raced, ~torn'
          PROVE  /\ Exists("install") => disk["install"].whole
                 /\ \A b \in Backups : Exists(b) => disk[b].whole
      BY <3>1, <3>2 DEF FoldersInv, BackupsAreWhole, Removing, At, Half
    <3>3. FoldersInv'
      BY <3>1, <3>2, IdleNext DEF FoldersInv, Alone, BackupsAreWhole, WorkIsIntact, Exists
    <3>4. crashes' # 0
      BY <2>18, HaveFits, BoundsAssumption DEF Crash, CountersFit
    <3> QED
      BY <3>3, <3>4 DEF RemainsInv
  <2>19. CASE UNCHANGED vars
    BY <2>19 DEF vars, FoldersInv, Alone, Active, Exists, Removing, BackupsAreWhole,
         WorkIsIntact, Intact, At, CopyUndisturbed, BackupUndisturbed, Origin, Stage,
         Aside, Target, RemainsInv, SwapSucceeds, Swaps, Passing
  <2> QED
    BY <2>1, <2>2, <2>3, <2>4, <2>5, <2>6, <2>7, <2>8, <2>9, <2>10, <2>11, <2>12, <2>13,
         <2>14, <2>15, <2>16, <2>17, <2>18, <2>19 DEF Next, Request
<1> QED
  BY <1>1, <1>2, TypeCorrect, PTL DEF Spec

(* The node never runs a plugin folder with holes, while calls do not overlap and no backup copy *)
(* or removal was cut short.                                                                     *)
THEOREM RunsWholeVersions == Spec => []InstalledIsWhole
<1>1. FoldersInv => InstalledIsWhole
  BY DEF FoldersInv, InstalledIsWhole
<1> QED BY <1>1, FoldersInvariant, PTL

(* A call that met no failing operation leaves no hidden folder behind. *)
THEOREM LeavesNothing == Spec => []NothingLeftBehind
<1>1. RemainsInv => NothingLeftBehind
  BY IdleIsTidy DEF RemainsInv, NothingLeftBehind
<1> QED BY <1>1, FoldersInvariant, PTL

(* What the runs check of the folders at any moment. *)
THEOREM IsConsistent == Spec => []Consistent
<1>1. TypeInv /\ InstalledIsWhole /\ NothingLeftBehind => Consistent
  BY DEF TypeInv, Consistent
<1> QED BY <1>1, TypeCorrect, RunsWholeVersions, LeavesNothing, PTL

-----------------------------------------------------------------------------
(* What callers are told, and the version last activated.                                        *)

\* The function of a swap has put its new version into place.
Activated(c) ==
  \/ call[c].pc \in {"cleanup", "cleaning", "done"} /\ call[c].result = "ok"
  \/ call[c].pc \in {"discard", "discarding", "verify"}

\* Before a swap touches the installed folder.
Opening == {"check", "copy", "copying", "provision", "backup", "backingUp", "setAside"}

\* While a call is active no other one is there, not even its answer.
OnlyCall == ~raced => \A c, d \in Callers : Active(c) /\ d # c => At(d, "idle")

\* The copies an installation or a removal makes are undisturbed, whatever failed before.
Copies(c) ==
  /\ At(c, "backingUp") => BackupUndisturbed(c)
  /\ call[c].fn = "install" =>
       /\ call[c].op = "install"
       /\ At(c, "copying") => CopyUndisturbed(c) /\ call[c].src = Whole(call[c].ver)
       /\ call[c].pc \in {"provision", "backup", "backingUp", "setAside", "activate"}
            => disk["staged"] = Whole(call[c].ver)
       /\ Activated(c) => disk["install"] = Whole(call[c].ver)

\* Where the version last activated may be: not in what the call is about to remove.
Safe(c) == {p \in Places \ {"staged", "restoring"} :
  /\ Activated(c) /\ ~At(c, "done") /\ ~At(c, "verify") => p # Aside(c)
  /\ At(c, "remove") /\ call[c].fn = "remove" /\ call[c].keep => p # "install"}

Holds(c) == current # NoVersion => \E p \in Safe(c) : disk[p] = Whole(current)

\* The version last activated is held by the call that works on the folders, or stays in them.
CurrentInv == ~raced =>
  /\ \A c \in Callers : Active(c) => Copies(c) /\ Holds(c)
  /\ ActiveVersionSurvives

\* What an installation or a rollback that found a version leaves of it.
KeepsVersion(c) ==
  LET left == disk["install"].whole \/ (faults >= 2 /\ ~Exists("install") /\ disk[Aside(c)].whole) IN
  call[c].op \in {"install", "rollback"} /\ call[c].start.whole =>
    /\ call[c].fn \in {"install", "rollback"}
    /\ call[c].pc \in Opening \union {"verify", "discard", "discarding"} => disk["install"].whole
    /\ call[c].pc \in {"activate", "recover"} =>
         call[c].replaced /\ disk[Aside(c)].whole /\ ~Exists("install")
    /\ At(c, "recover") => faults >= 1
    /\ call[c].pc \in {"cleanup", "cleaning"} =>
         IF call[c].result = "ok" THEN disk["install"].whole ELSE left
    /\ At(c, "done") /\ call[c].result = "failed" => left

\* What a call knows of the version it found: in the plugin's place, in its backup.
Found(c) ==
  /\ call[c].op \in Functions
  /\ call[c].start = Nothing \/ call[c].start.whole
  /\ call[c].op = call[c].fn =>
       /\ call[c].pc \in Opening \union {"remove"} /\ call[c].op # "delete" => disk["install"] = call[c].start
       /\ call[c].op = "install" /\ call[c].pc \in Opening => (call[c].replaced <=> call[c].start # Nothing)
       /\ call[c].op = "install" /\ call[c].pc \in {"check", "copy", "copying", "provision", "backup"}
            => call[c].bak = NoBackup
       /\ call[c].op = "install" /\ call[c].pc = "activate" /\ call[c].start # Nothing => call[c].replaced
       /\ call[c].op = "remove" /\ call[c].pc \in {"remove", "removing", "done"} /\ call[c].keep /\ call[c].start.whole
            /\ (At(c, "done") => call[c].result = "ok")
            => call[c].bak # NoBackup /\ disk[call[c].bak] = call[c].start
       /\ call[c].op = "remove" /\ At(c, "done") /\ call[c].result = "ok" => ~Exists("install")
       /\ call[c].op = "install" /\ (call[c].pc \in {"setAside", "activate", "recover"} \/ Activated(c)) =>
            \/ call[c].bak = NoBackup /\ call[c].start = Nothing
            \/ call[c].bak # NoBackup /\ call[c].start.whole /\ disk[call[c].bak] = call[c].start
  /\ call[c].op # call[c].fn =>
       /\ call[c].op = "install" /\ call[c].fn \in {"remove", "rollback"} /\ ~call[c].keep
       /\ At(c, "done") => call[c].result = "failed"
  /\ call[c].op = "install" => ~call[c].keep

\* An installation that is taken back without a failing operation brings back what it found.
TakesBack(c) == call[c].op # call[c].fn /\ faults = 0 /\ crashes = 0 =>
  /\ call[c].fn = "rollback" =>
       /\ call[c].bak # NoBackup /\ call[c].start.whole /\ disk[call[c].bak] = call[c].start
       /\ ~At(c, "recover")
       /\ At(c, "copying") => call[c].src = call[c].start
       /\ call[c].pc \in {"setAside", "activate"} => disk["restoring"] = call[c].start
       /\ call[c].pc \in {"cleanup", "cleaning"} => call[c].result = "ok"
       /\ Activated(c) \/ At(c, "done") => disk["install"] = call[c].start
  /\ call[c].fn = "remove" =>
       /\ call[c].start = Nothing
       /\ call[c].pc \in {"check", "remove"} => Exists("install")
       /\ call[c].pc \in {"check", "remove", "removing", "done"}
       /\ At(c, "done") => ~Exists("install")

Truth(c) == Copies(c) /\ KeepsVersion(c) /\ Found(c) /\ TakesBack(c)
TruthInv == ~raced /\ ~torn => \A c \in Callers : ~At(c, "idle") => Truth(c)

AnswersInv == OnlyCall /\ CurrentInv /\ TruthInv

(* To release a folder nobody holds changes nothing. *)
LEMMA Unheld == \A f \in Folder : f.by = NoCaller => [f EXCEPT !.by = NoCaller] = f
  BY DEF Folder

(* A step of the only call there is keeps the invariant, if it keeps what holds of that call. *)
LEMMA SoloAnswers ==
    ASSUME FoldersInv, RemainsInv, AnswersInv, NEW c \in Callers, Active(c), NEW q \in PCs, Moved(c, q),
           UNCHANGED <<raced, crashes>>, torn => torn', faults' = 0 => faults = 0,
           ~raced /\ Copies(c) /\ Holds(c) => Copies(c)' /\ Holds(c)',
           ~raced /\ ~torn' /\ Sound(c) /\ Truth(c) /\ (faults' = 0 /\ crashes = 0 => Tidy(c))
             => KeepsVersion(c)' /\ Found(c)' /\ TakesBack(c)'
    PROVE  AnswersInv'
<1>1. CASE raced
  BY <1>1 DEF AnswersInv, OnlyCall, CurrentInv, TruthInv, ActiveVersionSurvives
<1>2. CASE ~raced
  <2>1. \A d \in Callers : d # c => At(d, "idle")
    BY <1>2 DEF AnswersInv, OnlyCall
  <2>2. \A d \in Callers : d # c => At(d, "idle")' /\ ~Active(d)'
    BY <2>1 DEF Moved, At, Active
  <2>3. OnlyCall'
    BY <2>2 DEF OnlyCall
  <2>4. Copies(c)' /\ Holds(c)'
    BY <1>2 DEF AnswersInv, CurrentInv
  <2>5. CurrentInv'
    <3>1. ActiveVersionSurvives'
      BY <2>4 DEF Holds, Safe, ActiveVersionSurvives
    <3> QED BY <2>2, <2>4, <3>1 DEF CurrentInv
  <2>6. ASSUME ~torn' PROVE Truth(c)'
    <3>1. \A d \in Callers : Active(d) => d = c
      BY <2>1 DEF At, Active
    <3>2. Sound(c)
      BY <1>2, <2>6, <3>1, SoloIsSound
    <3>3. Truth(c)
      BY <1>2, <2>6 DEF AnswersInv, TruthInv, At, Active
    <3>4. faults' = 0 /\ crashes = 0 => Tidy(c)
      BY <1>2, <3>1, IdleIsTidy DEF RemainsInv, SwapSucceeds, Tidy
    <3> QED BY <1>2, <2>4, <2>6, <3>2, <3>3, <3>4 DEF Truth
  <2> QED BY <2>2, <2>3, <2>5, <2>6 DEF AnswersInv, TruthInv
<1> QED BY <1>1, <1>2

(* A request finds the version last activated where it was, and notes what is installed. *)
LEMMA ArrivalIsTrue ==
    ASSUME TypeInv, FoldersInv, AnswersInv, NEW c \in Callers, Request(c)
    PROVE  AnswersInv'
<1>0. PICK r \in Call : Arrive(c, r) /\ Fresh(r)
  BY RequestsArrive
<1>1. /\ UNCHANGED <<disk, torn, current, faults, crashes>>
      /\ raced' = (raced \/ \E d \in Callers : Active(d))
      /\ call'[c].pc = "check" /\ call'[c].fn = r.fn /\ call'[c].op = r.fn /\ r.fn \in Functions
      /\ call'[c].replaced = r.replaced /\ call'[c].start = disk["install"] /\ call'[c].keep = r.keep
      /\ call'[c].bak = r.bak
      /\ r.fn = "install" => r.replaced = Exists("install") /\ ~r.keep /\ r.bak = NoBackup
      /\ \A d \in Callers : d # c => call'[d] = IF At(d, "done") THEN Idle ELSE call[d]
  BY <1>0, ArriveMoves, Known, ZenonT(60) DEF Arrive, Fresh
<1>2. CASE raced'
  BY <1>2 DEF AnswersInv, OnlyCall, CurrentInv, TruthInv, ActiveVersionSurvives
<1>3. CASE ~raced'
  <2>1. ~raced /\ \A d \in Callers : ~Active(d)
    BY <1>1, <1>3
  <2>2. \A d \in Callers : d # c => At(d, "idle")' /\ ~Active(d)'
    BY <1>1, <2>1, IdleCall DEF Active, At
  <2>3. OnlyCall'
    BY <2>2 DEF OnlyCall
  <2>4. ActiveVersionSurvives'
    BY <1>1, <2>1 DEF AnswersInv, CurrentInv, ActiveVersionSurvives
  <2>5. Copies(c)' /\ Holds(c)'
    <3>1. Copies(c)'
      BY <1>1 DEF Copies, At, Activated
    <3>2. Safe(c)' = Places \ {"staged", "restoring"}
      BY <1>1 DEF Safe, Activated, At
    <3> QED BY <1>1, <2>1, <2>4, <3>1, <3>2 DEF Holds, ActiveVersionSurvives
  <2>6. ASSUME ~torn' PROVE Truth(c)'
    <3>1. Exists("install") => disk["install"].whole
      BY <1>1, <2>1, <2>6 DEF FoldersInv, Removing, Active
    <3>2. KeepsVersion(c)' /\ Found(c)' /\ TakesBack(c)'
      BY <1>1, <3>1 DEF KeepsVersion, Found, TakesBack, At, Activated, Opening, Exists, Functions
    <3> QED BY <2>5, <3>2 DEF Truth
  <2> QED BY <2>2, <2>3, <2>4, <2>5, <2>6 DEF AnswersInv, CurrentInv, TruthInv
<1> QED BY <1>2, <1>3

(* A failing activation leaves the version set aside where Recover finds it. *)
LEMMA ActivateKeeps ==
    ASSUME TypeInv, NEW c \in Callers, Activate(c), Sound(c), KeepsVersion(c), Found(c)
    PROVE  KeepsVersion(c)'
<1>1. /\ At(c, "activate") /\ call[c].fn \in Swapping /\ disk[Stage(c)].whole
      /\ Exists(Stage(c)) /\ Aside(c) # "install" /\ Aside(c) # Stage(c) /\ Aside(c) \in Places
  BY ActivateStep, Kinds, Known DEF Sound, Intact, At, Exists
<1>2. CASE call[c].op \in {"install", "rollback"} /\ call[c].start.whole
  <2>1. /\ call[c].fn \in {"install", "rollback"} /\ call[c].replaced
        /\ disk[Aside(c)].whole /\ ~Exists("install")
    BY <1>1, <1>2 DEF KeepsVersion, At
  <2>2. CASE /\ CanRename(Stage(c), "install") /\ Shifted(Stage(c), "install")
             /\ Moved(c, "cleanup") /\ Keeps(c) /\ call'[c].result = "ok"
    <3>1. disk'["install"] = disk[Stage(c)]
      BY <2>2 DEF Shifted
    <3>2. disk'["install"].whole
      BY <1>1, <3>1
    <3> QED BY <2>1, <2>2, <3>2 DEF KeepsVersion, Moved, Keeps, Opening, At
  <2>3. CASE UNCHANGED disk /\ Goes(c, "recover") /\ faults' = faults + 1
    <3>1. faults' >= 1
      BY <2>3, HaveFits, BoundsAssumption DEF CountersFit
    <3>2. call'[c].replaced /\ disk'[Aside(c)'].whole /\ ~Exists("install")'
      BY <2>1, <2>3 DEF Goes, Keeps, Aside, Exists
    <3> QED BY <2>1, <2>3, <3>1, <3>2 DEF KeepsVersion, Goes, Moved, Keeps, Opening, At
  <2> QED BY <1>1, <2>1, <2>2, <2>3, ActivateStep DEF CanRename
<1>3. CASE ~(call[c].op \in {"install", "rollback"} /\ call[c].start.whole)
  <2>1. call'[c].op = call[c].op /\ call'[c].start = call[c].start
    BY ActivateStep DEF Goes, Moved
  <2> QED BY <1>3, <2>1 DEF KeepsVersion
<1> QED BY <1>2, <1>3

(* A removal that is not cut short empties its folder, or finds it in other hands. *)
LEMMA RemovedInFull ==
    ASSUME TypeInv, NEW c \in Callers, Removed(c), ~torn'
    PROVE  \/ disk[Target(c)].by = c /\ Filled(Target(c), Nothing) /\ Moved(c, "done") /\ Answered(c)
           \/ disk[Target(c)].by # c /\ UNCHANGED disk /\ Failed(c)
<1>1. torn' # TRUE
  OBVIOUS
<1> QED BY <1>1, RemovedStep

(* The version last activated survives, and what calls are told is true. *)
THEOREM AnswersInvariant == Spec => []AnswersInv
<1>1. Init => AnswersInv
  <2> SUFFICES ASSUME Init PROVE AnswersInv
    OBVIOUS
  <2>1. \A c \in Callers : At(c, "idle") /\ ~Active(c)
    BY IdleCall DEF Init, Active, At
  <2>2. ActiveVersionSurvives
    BY BackupsAssumption, Kinds DEF Init, ActiveVersionSurvives, Places, Hidden
  <2> QED BY <2>1, <2>2 DEF AnswersInv, OnlyCall, CurrentInv, TruthInv
<1>2. TypeInv /\ FoldersInv /\ RemainsInv /\ AnswersInv /\ [Next]_vars => AnswersInv'
  <2> SUFFICES ASSUME TypeInv, FoldersInv, RemainsInv, AnswersInv, [Next]_vars PROVE AnswersInv'
    OBVIOUS
  <2>1. ASSUME NEW c \in Callers, Request(c) PROVE AnswersInv'
    BY <2>1, ArrivalIsTrue
  <2>2. ASSUME NEW c \in Callers, Check(c) PROVE AnswersInv'
    <3>1. /\ At(c, "check") /\ UNCHANGED <<disk, used, history, faults>>
          /\ call[c].fn \in Functions
      BY <2>2, CheckStep
    <3>2. Active(c) /\ UNCHANGED <<raced, crashes>> /\ (torn => torn')
      BY <2>2, <3>1 DEF Active, At, history
    <3>3. faults \in Nat /\ (faults' = 0 => faults = 0)
      BY <2>2, <3>1, HaveFits, BoundsAssumption DEF CountersFit, history
    <3>4. \E q \in PCs : Moved(c, q)
      BY <2>2, CheckStep DEF Failed, Goes, PCs
    <3> USE <2>2, <3>1, <3>2, <3>3, Known, Kinds, BackupsAssumption, HaveFits DEF At, Moved,
          Keeps,
          CallFits, FoldersFit, Exists, Functions, Swapping, Stage, Aside, Hidden, Places
    <3>5. ASSUME ~raced, Copies(c), Holds(c) PROVE Copies(c)' /\ Holds(c)'
      <4> USE <3>5
      <4>1. Copies(c)'
        BY CheckStep DEF Failed, Goes, Copies, Activated
      <4>2. Holds(c)'
        BY CheckStep DEF Failed, Goes, Copies, Holds, Safe, Activated, history
      <4> QED BY <4>1, <4>2
    <3>6. ASSUME ~raced, ~torn', Sound(c), Truth(c), faults' = 0 /\ crashes = 0 => Tidy(c)
          PROVE  KeepsVersion(c)' /\ Found(c)' /\ TakesBack(c)'
      <4> USE <3>6 DEF Truth, Opening, Activated
      <4>1. KeepsVersion(c)'
        BY CheckStep DEF Failed, Goes, KeepsVersion, Found, Copies
      <4>2. Found(c)'
        BY CheckStep DEF Failed, Goes, Found, Copies
      <4>3. TakesBack(c)'
        <5>1. CASE Refused(c) /\ Failed(c)
            <6>1. ASSUME call[c].op # call[c].fn, faults = 0, crashes = 0 PROVE FALSE
              <7>1. CASE call[c].fn = "rollback"
                <8>1. Exists(call[c].bak)
                  BY <6>1, <7>1 DEF TakesBack
                <8>2. \A p \in Hidden : ~Exists(p)
                  BY <6>1 DEF Tidy, Passing, history
                <8> QED BY <5>1, <7>1, <8>1, <8>2 DEF Refused
              <7>2. CASE call[c].fn = "remove"
                <8>1. Exists("install")
                  BY <6>1, <7>2 DEF TakesBack
                <8> QED BY <5>1, <7>2, <8>1 DEF Refused
              <7> QED BY <6>1, <7>1, <7>2 DEF Found
            <6> QED BY <5>1, <6>1 DEF Failed, TakesBack, history
        <5>2. CASE ~Refused(c) /\ call[c].fn \in Swapping /\ Goes(c, "copy")
            BY <5>2 DEF Goes, TakesBack, Found, Tidy, Swaps, Passing, Refused
        <5>3. CASE ~Refused(c) /\ call[c].fn = "remove" /\ call[c].keep /\ Goes(c, "backup")
            BY <5>3 DEF Goes, TakesBack, Found, Tidy, Swaps, Passing, Refused
        <5>4. CASE /\ ~Refused(c) /\ call[c].fn \in {"remove", "delete"}
                    /\ (call[c].fn = "delete" \/ ~call[c].keep)
                    /\ Goes(c, "remove")
            BY <5>4 DEF Goes, TakesBack, Found, Tidy, Swaps, Passing, Refused
        <5> QED BY <5>1, <5>2, <5>3, <5>4, CheckStep
      <4> QED BY <4>1, <4>2, <4>3
    <3> QED BY <3>2, <3>3, <3>4, <3>5, <3>6, SoloAnswers
  <2>3. ASSUME NEW c \in Callers, CopyBegins(c) PROVE AnswersInv'
    <3>1. /\ At(c, "copy") /\ UNCHANGED <<used, history, faults>>
          /\ call[c].fn \in Swapping /\ Origin(c) \in Folder /\ Origin(c).ver \in Versions \union {NoVersion}
      BY <2>3, CopyBeginsStep
    <3>2. Active(c) /\ UNCHANGED <<raced, crashes>> /\ (torn => torn')
      BY <2>3, <3>1 DEF Active, At, history
    <3>3. faults \in Nat /\ (faults' = 0 => faults = 0)
      BY <2>3, <3>1, HaveFits, BoundsAssumption DEF CountersFit, history
    <3>4. \E q \in PCs : Moved(c, q)
      BY <2>3, CopyBeginsStep DEF Raised, PCs
    <3> USE <2>3, <3>1, <3>2, <3>3, Known, Kinds, BackupsAssumption, HaveFits DEF At, Moved,
          Keeps,
          CallFits, FoldersFit, Exists, Functions, Swapping, Stage, Aside, Hidden, Places
    <3>5. ASSUME ~raced, Copies(c), Holds(c) PROVE Copies(c)' /\ Holds(c)'
      <4> USE <3>5
      <4>1. Copies(c)'
        <5>1. CASE (Exists(Stage(c)) \/ Origin(c) = Nothing) /\ UNCHANGED disk /\ Raised(c)
            BY <5>1 DEF Raised, Origin, CopyUndisturbed, Copies, Activated
        <5>2. CASE /\ ~Exists(Stage(c)) /\ Origin(c) # Nothing /\ Origin(c) \in Folder
                    /\ Filled(Stage(c), Torn(Origin(c).ver, c)) /\ Moved(c, "copying")
                    /\ call'[c].fn = call[c].fn /\ call'[c].bak = call[c].bak
                    /\ call'[c].replaced = call[c].replaced /\ call'[c].src = Origin(c)
            BY <5>2 DEF Filled, Origin, CopyUndisturbed, Copies, Activated
        <5> QED BY <5>1, <5>2, CopyBeginsStep
      <4>2. Holds(c)'
        BY CopyBeginsStep DEF Raised, Filled, Copies, Holds, Safe, Activated, history
      <4> QED BY <4>1, <4>2
    <3>6. ASSUME ~raced, ~torn', Sound(c), Truth(c), faults' = 0 /\ crashes = 0 => Tidy(c)
          PROVE  KeepsVersion(c)' /\ Found(c)' /\ TakesBack(c)'
      <4> USE <3>6 DEF Truth, Opening, Activated
      <4>1. KeepsVersion(c)'
        BY CopyBeginsStep DEF Raised, Filled, KeepsVersion, Found, Copies
      <4>2. Found(c)'
        BY CopyBeginsStep DEF Raised, Filled, Found, Copies
      <4>3. TakesBack(c)'
        <5>1. CASE (Exists(Stage(c)) \/ Origin(c) = Nothing) /\ UNCHANGED disk /\ Raised(c)
            BY <5>1 DEF Raised, Origin, TakesBack, Found, Tidy, Swaps, Passing
        <5>2. CASE /\ ~Exists(Stage(c)) /\ Origin(c) # Nothing /\ Origin(c) \in Folder
                    /\ Filled(Stage(c), Torn(Origin(c).ver, c)) /\ Moved(c, "copying")
                    /\ call'[c].fn = call[c].fn /\ call'[c].bak = call[c].bak
                    /\ call'[c].replaced = call[c].replaced /\ call'[c].src = Origin(c)
            BY <5>2 DEF Filled, Origin, TakesBack, Found, Tidy, Swaps, Passing
        <5> QED BY <5>1, <5>2, CopyBeginsStep
      <4> QED BY <4>1, <4>2, <4>3
    <3> QED BY <3>2, <3>3, <3>4, <3>5, <3>6, SoloAnswers
  <2>4. ASSUME NEW c \in Callers, CopyEnds(c) PROVE AnswersInv'
    <3>1. /\ At(c, "copying") /\ UNCHANGED <<used, history>>
          /\ call[c].fn \in Swapping
      BY <2>4, CopyEndsStep
    <3>2. Active(c) /\ UNCHANGED <<raced, crashes>> /\ (torn => torn')
      BY <2>4, <3>1 DEF Active, At, history
    <3>3. faults \in Nat /\ (faults' = 0 => faults = 0)
      BY <2>4, <3>1, HaveFits, BoundsAssumption DEF CountersFit, CopyEnds, Fault, NoFault, history
    <3>4. \E q \in PCs : Moved(c, q)
      BY <2>4, CopyEndsStep DEF Goes, Raised, AfterCopy, PCs
    <3> USE <2>4, <3>1, <3>2, <3>3, Known, Kinds, BackupsAssumption, HaveFits DEF At, Moved,
          Keeps,
          CallFits, FoldersFit, Exists, Functions, Swapping, Stage, Aside, Hidden, Places
    <3>5. ASSUME ~raced, Copies(c), Holds(c) PROVE Copies(c)' /\ Holds(c)'
      <4> USE <3>5
      <4>1. Copies(c)'
        <5>1. CASE /\ CopyUndisturbed(c) /\ Filled(Stage(c), [call[c].src EXCEPT !.by = NoCaller])
                    /\ Goes(c, AfterCopy(c)) /\ UNCHANGED faults
            BY <5>1, Unheld DEF Goes, Filled, AfterCopy, CopyUndisturbed, Origin, Copies,
                 Activated
        <5>2. CASE ~CopyUndisturbed(c) /\ UNCHANGED <<disk, faults>> /\ Raised(c)
            BY <5>2 DEF Raised, CopyUndisturbed, Origin, Copies, Activated
        <5>3. CASE /\ ~CopyUndisturbed(c) /\ Filled(Stage(c), Torn(call[c].src.ver, NoCaller))
                    /\ Goes(c, AfterCopy(c)) /\ UNCHANGED faults
            BY <5>3 DEF Goes, Filled, AfterCopy, CopyUndisturbed, Origin, Copies, Activated
        <5>4. CASE UNCHANGED disk /\ Raised(c) /\ faults' = faults + 1
            BY <5>4 DEF Raised, Copies, Activated
        <5> QED BY <5>1, <5>2, <5>3, <5>4, CopyEndsStep
      <4>2. Holds(c)'
        <5>1. CASE /\ CopyUndisturbed(c) /\ Filled(Stage(c), [call[c].src EXCEPT !.by = NoCaller])
                    /\ Goes(c, AfterCopy(c)) /\ UNCHANGED faults
            BY <5>1 DEF Goes, Filled, AfterCopy, CopyUndisturbed, Origin, Copies, Holds, Safe,
                 Activated, history
        <5>2. CASE ~CopyUndisturbed(c) /\ UNCHANGED <<disk, faults>> /\ Raised(c)
            BY <5>2 DEF Raised, CopyUndisturbed, Origin, Copies, Holds, Safe, Activated, history
        <5>3. CASE /\ ~CopyUndisturbed(c) /\ Filled(Stage(c), Torn(call[c].src.ver, NoCaller))
                    /\ Goes(c, AfterCopy(c)) /\ UNCHANGED faults
            BY <5>3 DEF Goes, Filled, AfterCopy, CopyUndisturbed, Origin, Copies, Holds, Safe,
                 Activated, history
        <5>4. CASE UNCHANGED disk /\ Raised(c) /\ faults' = faults + 1
            BY <5>4 DEF Raised, Copies, Holds, Safe, Activated, history
        <5> QED BY <5>1, <5>2, <5>3, <5>4, CopyEndsStep
      <4> QED BY <4>1, <4>2
    <3>6. ASSUME ~raced, ~torn', Sound(c), Truth(c), faults' = 0 /\ crashes = 0 => Tidy(c)
          PROVE  KeepsVersion(c)' /\ Found(c)' /\ TakesBack(c)'
      <4> USE <3>6 DEF Truth, Opening, Activated
      <4>1. KeepsVersion(c)'
        <5>1. CASE /\ CopyUndisturbed(c) /\ Filled(Stage(c), [call[c].src EXCEPT !.by = NoCaller])
                    /\ Goes(c, AfterCopy(c)) /\ UNCHANGED faults
            BY <5>1 DEF Goes, Filled, AfterCopy, CopyUndisturbed, Origin, KeepsVersion, Found,
                 Copies
        <5>2. CASE ~CopyUndisturbed(c) /\ UNCHANGED <<disk, faults>> /\ Raised(c)
            BY <5>2 DEF Raised, CopyUndisturbed, Origin, KeepsVersion, Found, Copies
        <5>3. CASE /\ ~CopyUndisturbed(c) /\ Filled(Stage(c), Torn(call[c].src.ver, NoCaller))
                    /\ Goes(c, AfterCopy(c)) /\ UNCHANGED faults
            BY <5>3 DEF Goes, Filled, AfterCopy, CopyUndisturbed, Origin, KeepsVersion, Found,
                 Copies
        <5>4. CASE UNCHANGED disk /\ Raised(c) /\ faults' = faults + 1
            BY <5>4 DEF Raised, KeepsVersion, Found, Copies
        <5> QED BY <5>1, <5>2, <5>3, <5>4, CopyEndsStep
      <4>2. Found(c)'
        <5>1. CASE /\ CopyUndisturbed(c) /\ Filled(Stage(c), [call[c].src EXCEPT !.by = NoCaller])
                    /\ Goes(c, AfterCopy(c)) /\ UNCHANGED faults
            BY <5>1 DEF Goes, Filled, AfterCopy, CopyUndisturbed, Origin, Found, Copies
        <5>2. CASE ~CopyUndisturbed(c) /\ UNCHANGED <<disk, faults>> /\ Raised(c)
            BY <5>2 DEF Raised, CopyUndisturbed, Origin, Found, Copies
        <5>3. CASE /\ ~CopyUndisturbed(c) /\ Filled(Stage(c), Torn(call[c].src.ver, NoCaller))
                    /\ Goes(c, AfterCopy(c)) /\ UNCHANGED faults
            BY <5>3 DEF Goes, Filled, AfterCopy, CopyUndisturbed, Origin, Found, Copies
        <5>4. CASE UNCHANGED disk /\ Raised(c) /\ faults' = faults + 1
            BY <5>4 DEF Raised, Found, Copies
        <5> QED BY <5>1, <5>2, <5>3, <5>4, CopyEndsStep
      <4>3. TakesBack(c)'
        <5>1. CASE /\ CopyUndisturbed(c) /\ Filled(Stage(c), [call[c].src EXCEPT !.by = NoCaller])
                    /\ Goes(c, AfterCopy(c)) /\ UNCHANGED faults
            BY <5>1, Unheld DEF Goes, Filled, AfterCopy, CopyUndisturbed, Origin, TakesBack,
                 Found, Tidy, Swaps, Passing, Sound, Intact
        <5>2. CASE ~CopyUndisturbed(c) /\ UNCHANGED <<disk, faults>> /\ Raised(c)
            BY <5>2 DEF Raised, CopyUndisturbed, Origin, TakesBack, Found, Tidy, Swaps, Passing,
                 Sound, Intact, AfterCopy
        <5>3. CASE /\ ~CopyUndisturbed(c) /\ Filled(Stage(c), Torn(call[c].src.ver, NoCaller))
                    /\ Goes(c, AfterCopy(c)) /\ UNCHANGED faults
            BY <5>3 DEF Goes, Filled, AfterCopy, CopyUndisturbed, Origin, TakesBack, Found,
                 Tidy, Swaps, Passing, Sound, Intact
        <5>4. CASE UNCHANGED disk /\ Raised(c) /\ faults' = faults + 1
            BY <5>4 DEF Raised, TakesBack, Found, Tidy, Swaps, Passing, Sound, Intact,
                 AfterCopy, CopyUndisturbed, Origin
        <5> QED BY <5>1, <5>2, <5>3, <5>4, CopyEndsStep
      <4> QED BY <4>1, <4>2, <4>3
    <3> QED BY <3>2, <3>3, <3>4, <3>5, <3>6, SoloAnswers
  <2>5. ASSUME NEW c \in Callers, Provision(c) PROVE AnswersInv'
    <3>1. /\ At(c, "provision") /\ UNCHANGED <<disk, used, history, faults>> /\ call[c].fn = "install"
      BY <2>5, ProvisionStep
    <3>2. Active(c) /\ UNCHANGED <<raced, crashes>> /\ (torn => torn')
      BY <2>5, <3>1 DEF Active, At, history
    <3>3. faults \in Nat /\ (faults' = 0 => faults = 0)
      BY <2>5, <3>1, HaveFits, BoundsAssumption DEF CountersFit, history
    <3>4. \E q \in PCs : Moved(c, q)
      BY <2>5, ProvisionStep DEF Goes, Raised, PCs
    <3> USE <2>5, <3>1, <3>2, <3>3, Known, Kinds, BackupsAssumption, HaveFits DEF At, Moved,
          Keeps,
          CallFits, FoldersFit, Exists, Functions, Swapping, Stage, Aside, Hidden, Places
    <3>5. ASSUME ~raced, Copies(c), Holds(c) PROVE Copies(c)' /\ Holds(c)'
      <4> USE <3>5
      <4>1. Copies(c)'
        BY ProvisionStep DEF Goes, Raised, Copies, Activated
      <4>2. Holds(c)'
        BY ProvisionStep DEF Goes, Raised, Copies, Holds, Safe, Activated, history
      <4> QED BY <4>1, <4>2
    <3>6. ASSUME ~raced, ~torn', Sound(c), Truth(c), faults' = 0 /\ crashes = 0 => Tidy(c)
          PROVE  KeepsVersion(c)' /\ Found(c)' /\ TakesBack(c)'
      <4> USE <3>6 DEF Truth, Opening, Activated
      <4>1. KeepsVersion(c)'
        <5>1. CASE call[c].replaced /\ Goes(c, "backup")
            BY <5>1 DEF Goes, KeepsVersion, Found, Copies
        <5>2. CASE ~call[c].replaced /\ Goes(c, "activate")
            BY <5>2 DEF Goes, KeepsVersion, Found, Copies
        <5>3. CASE Raised(c)
            BY <5>3 DEF Raised, KeepsVersion, Found, Copies
        <5> QED BY <5>1, <5>2, <5>3, ProvisionStep
      <4>2. Found(c)'
        <5>1. CASE call[c].replaced /\ Goes(c, "backup")
            BY <5>1 DEF Goes, Found, Copies
        <5>2. CASE ~call[c].replaced /\ Goes(c, "activate")
            BY <5>2 DEF Goes, Found, Copies
        <5>3. CASE Raised(c)
            BY <5>3 DEF Raised, Found, Copies
        <5> QED BY <5>1, <5>2, <5>3, ProvisionStep
      <4>3. TakesBack(c)'
        BY ProvisionStep DEF Goes, Raised, TakesBack, Found, Tidy, Swaps, Passing
      <4> QED BY <4>1, <4>2, <4>3
    <3> QED BY <3>2, <3>3, <3>4, <3>5, <3>6, SoloAnswers
  <2>6. ASSUME NEW c \in Callers, BackupBegins(c) PROVE AnswersInv'
    <3>1. /\ At(c, "backup") /\ UNCHANGED <<history, faults>>
          /\ call[c].fn \in {"install", "remove"}
      BY <2>6, BackupBeginsStep
    <3>2. Active(c) /\ UNCHANGED <<raced, crashes>> /\ (torn => torn')
      BY <2>6, <3>1 DEF Active, At, history
    <3>3. faults \in Nat /\ (faults' = 0 => faults = 0)
      BY <2>6, <3>1, HaveFits, BoundsAssumption DEF CountersFit, history
    <3>4. \E q \in PCs : Moved(c, q)
      BY <2>6, BackupBeginsStep DEF Failed, Raised, PCs
    <3> USE <2>6, <3>1, <3>2, <3>3, Known, Kinds, BackupsAssumption, HaveFits DEF At, Moved,
          Keeps,
          CallFits, FoldersFit, Exists, Functions, Swapping, Stage, Aside, Hidden, Places
    <3>5. ASSUME ~raced, Copies(c), Holds(c) PROVE Copies(c)' /\ Holds(c)'
      <4> USE <3>5
      <4>1. Copies(c)'
        <5>1. CASE call[c].fn = "remove" /\ UNCHANGED <<disk, used>> /\ Failed(c)
            BY <5>1 DEF Failed, BackupUndisturbed, Copies, Activated
        <5>2. CASE ~Exists("install") /\ call[c].fn = "install" /\ UNCHANGED <<disk, used>> /\ Raised(c)
            BY <5>2 DEF Raised, BackupUndisturbed, Copies, Activated
        <5>3. CASE /\ Exists("install")
                    /\ \E b \in Backups \ used :
                         /\ used' = used \union {b}
                         /\ Filled(b, Torn(disk["install"].ver, c)) /\ Moved(c, "backingUp")
                         /\ call'[c].fn = call[c].fn /\ call'[c].bak = b
                         /\ call'[c].replaced = call[c].replaced /\ call'[c].src = disk["install"]
            <6>1. PICK b \in Backups \ used :
                    /\ Filled(b, Torn(disk["install"].ver, c)) /\ Moved(c, "backingUp")
                    /\ call'[c].fn = call[c].fn /\ call'[c].bak = b
                    /\ call'[c].replaced = call[c].replaced /\ call'[c].src = disk["install"]
              BY <5>3
            <6>2. b \in Places /\ b # "install" /\ b # "staged"
              OBVIOUS
            <6>3. disk'[b].by = c
              <7> HIDE Known, HaveFits DEF Places, Hidden
              <7>1. disk["install"].ver \in Versions \union {NoVersion}
                <8>1. disk["install"] \in Folder
                  BY Known
                <8> QED BY <8>1, Kinds
              <7> QED BY <6>1, <7>1 DEF Filled
            <6>4. disk'["install"] = disk["install"] /\ disk'["staged"] = disk["staged"]
              BY <6>1, <6>2 DEF Filled
            <6> QED BY <6>1, <6>3, <6>4 DEF Copies, Activated, BackupUndisturbed
        <5> QED BY <5>1, <5>2, <5>3, BackupBeginsStep
      <4>2. Holds(c)'
        <5>1. CASE call[c].fn = "remove" /\ UNCHANGED <<disk, used>> /\ Failed(c)
            BY <5>1 DEF Failed, BackupUndisturbed, Copies, Holds, Safe, Activated, history
        <5>2. CASE ~Exists("install") /\ call[c].fn = "install" /\ UNCHANGED <<disk, used>> /\ Raised(c)
            BY <5>2 DEF Raised, BackupUndisturbed, Copies, Holds, Safe, Activated, history
        <5>3. CASE /\ Exists("install")
                    /\ \E b \in Backups \ used :
                         /\ used' = used \union {b}
                         /\ Filled(b, Torn(disk["install"].ver, c)) /\ Moved(c, "backingUp")
                         /\ call'[c].fn = call[c].fn /\ call'[c].bak = b
                         /\ call'[c].replaced = call[c].replaced /\ call'[c].src = disk["install"]
            <6>0. PICK b \in Backups \ used :
                    /\ Filled(b, Torn(disk["install"].ver, c)) /\ Moved(c, "backingUp")
              BY <5>3
            <6>1. CASE current = NoVersion
              BY <6>1 DEF Holds, history
            <6>2. CASE current # NoVersion
              <7>1. PICK p \in Safe(c) : disk[p] = Whole(current)
                BY <6>2 DEF Holds
              <7>2. current \in Versions \union {NoVersion} /\ Whole(current).by = NoCaller /\ Whole(current).whole
                BY DEF CountersFit
              <7>3. p \in Places /\ p # b
                BY <7>1, <7>2 DEF Safe
              <7>4. disk'[p] = Whole(current)
                BY <6>0, <7>1, <7>3 DEF Filled
              <7>5. p \in Safe(c)'
                BY <6>0, <7>1 DEF Safe, Activated
              <7> QED BY <7>4, <7>5 DEF Holds, history
            <6> QED BY <6>1, <6>2
        <5> QED BY <5>1, <5>2, <5>3, BackupBeginsStep
      <4> QED BY <4>1, <4>2
    <3>6. ASSUME ~raced, ~torn', Sound(c), Truth(c), faults' = 0 /\ crashes = 0 => Tidy(c)
          PROVE  KeepsVersion(c)' /\ Found(c)' /\ TakesBack(c)'
      <4> USE <3>6 DEF Truth, Opening, Activated
      <4>1. KeepsVersion(c)'
        BY BackupBeginsStep DEF Failed, Raised, Filled, BackupUndisturbed, KeepsVersion, Found,
             Copies
      <4>2. Found(c)'
        BY BackupBeginsStep DEF Failed, Raised, Filled, BackupUndisturbed, Found, Copies
      <4>3. TakesBack(c)'
        BY BackupBeginsStep DEF Failed, Raised, Filled, BackupUndisturbed, TakesBack, Found,
             Tidy, Swaps, Passing
      <4> QED BY <4>1, <4>2, <4>3
    <3> QED BY <3>2, <3>3, <3>4, <3>5, <3>6, SoloAnswers
  <2>7. ASSUME NEW c \in Callers, BackupEnds(c) PROVE AnswersInv'
    <3>1. /\ At(c, "backingUp") /\ UNCHANGED <<used, current, unsaved, raced, calls, crashes>>
          /\ call[c].fn \in {"install", "remove"} /\ call[c].bak \in Backups
      BY <2>7, BackupEndsStep
    <3>2. Active(c) /\ UNCHANGED <<raced, crashes>> /\ (torn => torn')
      BY <2>7, <3>1, BackupEndsStep DEF Active, At, history
    <3>3. faults \in Nat /\ (faults' = 0 => faults = 0)
      BY <2>7, <3>1, HaveFits, BoundsAssumption DEF CountersFit, BackupEnds, Fault, NoFault,
           history
    <3>4. \E q \in PCs : Moved(c, q)
      BY <2>7, BackupEndsStep DEF Goes, Failed, Raised, AfterBackup, PCs
    <3> USE <2>7, <3>1, <3>2, <3>3, Known, Kinds, BackupsAssumption, HaveFits DEF At, Moved,
          Keeps,
          CallFits, FoldersFit, Exists, Functions, Swapping, Stage, Aside, Hidden, Places
    <3>5. ASSUME ~raced, Copies(c), Holds(c) PROVE Copies(c)' /\ Holds(c)'
      <4> USE <3>5
      <4>1. Copies(c)'
        <5>1. CASE /\ BackupUndisturbed(c) /\ Filled(call[c].bak, [call[c].src EXCEPT !.by = NoCaller])
                    /\ Goes(c, AfterBackup(c)) /\ UNCHANGED <<faults, torn>>
            BY <5>1 DEF Goes, Filled, AfterBackup, BackupUndisturbed, Copies, Activated
        <5>2. CASE ~BackupUndisturbed(c) /\ UNCHANGED <<disk, faults, torn>> /\ call[c].fn = "remove" /\ Failed(c)
            BY <5>2 DEF Failed, BackupUndisturbed, Copies, Activated
        <5>3. CASE ~BackupUndisturbed(c) /\ UNCHANGED <<disk, faults, torn>> /\ call[c].fn = "install" /\ Raised(c)
            BY <5>3 DEF Raised, BackupUndisturbed, Copies, Activated
        <5>4. CASE /\ ~BackupUndisturbed(c) /\ Filled(call[c].bak, Torn(call[c].src.ver, NoCaller))
                    /\ Goes(c, AfterBackup(c)) /\ UNCHANGED <<faults, torn>>
            BY <5>4 DEF Goes, Filled, AfterBackup, BackupUndisturbed, Copies, Activated
        <5>5. CASE UNCHANGED disk /\ torn' = TRUE /\ faults' = faults + 1 /\ (Failed(c) \/ (Raised(c) /\ call[c].fn = "install"))
            BY <5>5 DEF Failed, Raised, BackupUndisturbed, Copies, Activated
        <5> QED BY <5>1, <5>2, <5>3, <5>4, <5>5, BackupEndsStep
      <4>2. Holds(c)'
        <5>1. CASE /\ BackupUndisturbed(c) /\ Filled(call[c].bak, [call[c].src EXCEPT !.by = NoCaller])
                    /\ Goes(c, AfterBackup(c)) /\ UNCHANGED <<faults, torn>>
            <6>1. CASE current = NoVersion
              BY <5>1, <6>1 DEF Holds, history
            <6>2. CASE current # NoVersion
              <7>1. PICK p \in Safe(c) : disk[p] = Whole(current)
                BY <6>2 DEF Holds
              <7>2. current \in Versions \union {NoVersion} /\ Whole(current).by = NoCaller /\ Whole(current).whole
                BY DEF CountersFit
              <7>3. disk[call[c].bak].by = c /\ disk["install"] = call[c].src
                BY <5>1 DEF BackupUndisturbed
              <7>4. p \in Places /\ p # call[c].bak
                BY <7>1, <7>2, <7>3, CallersAssumption DEF Safe
              <7>5. CASE p # "install"
                <8>1. disk'[p] = Whole(current)
                  BY <5>1, <7>1, <7>4 DEF Filled
                <8>2. p \in Safe(c)'
                  BY <5>1, <7>1, <7>5 DEF Safe, Activated, Goes, AfterBackup
                <8> QED BY <8>1, <8>2 DEF Holds
              <7>6. CASE p = "install"
                <8>1. disk'[call[c].bak] = Whole(current)
                  BY <5>1, <7>1, <7>2, <7>3, <7>6, Unheld DEF Filled
                <8>2. call[c].bak \in Safe(c)'
                  BY <5>1 DEF Safe, Activated, Goes, AfterBackup
                <8> QED BY <8>1, <8>2 DEF Holds
              <7> QED BY <7>5, <7>6
            <6> QED BY <6>1, <6>2
        <5>2. CASE ~BackupUndisturbed(c) /\ UNCHANGED <<disk, faults, torn>> /\ call[c].fn = "remove" /\ Failed(c)
            BY <5>2 DEF Failed, BackupUndisturbed, Copies, Holds, Safe, Activated, history
        <5>3. CASE ~BackupUndisturbed(c) /\ UNCHANGED <<disk, faults, torn>> /\ call[c].fn = "install" /\ Raised(c)
            BY <5>3 DEF Raised, BackupUndisturbed, Copies, Holds, Safe, Activated, history
        <5>4. CASE /\ ~BackupUndisturbed(c) /\ Filled(call[c].bak, Torn(call[c].src.ver, NoCaller))
                    /\ Goes(c, AfterBackup(c)) /\ UNCHANGED <<faults, torn>>
            BY <5>4 DEF Goes, Filled, AfterBackup, BackupUndisturbed, Copies, Holds, Safe,
                 Activated, history
        <5>5. CASE UNCHANGED disk /\ torn' = TRUE /\ faults' = faults + 1 /\ (Failed(c) \/ (Raised(c) /\ call[c].fn = "install"))
            BY <5>5 DEF Failed, Raised, BackupUndisturbed, Copies, Holds, Safe, Activated, history
        <5> QED BY <5>1, <5>2, <5>3, <5>4, <5>5, BackupEndsStep
      <4> QED BY <4>1, <4>2
    <3>6. ASSUME ~raced, ~torn', Sound(c), Truth(c), faults' = 0 /\ crashes = 0 => Tidy(c)
          PROVE  KeepsVersion(c)' /\ Found(c)' /\ TakesBack(c)'
      <4> USE <3>6 DEF Truth, Opening, Activated
      <4>1. KeepsVersion(c)'
        <5>1. CASE /\ BackupUndisturbed(c) /\ Filled(call[c].bak, [call[c].src EXCEPT !.by = NoCaller])
                    /\ Goes(c, AfterBackup(c)) /\ UNCHANGED <<faults, torn>>
            BY <5>1 DEF Goes, Filled, AfterBackup, BackupUndisturbed, KeepsVersion, Found, Copies
        <5>2. CASE ~BackupUndisturbed(c) /\ UNCHANGED <<disk, faults, torn>> /\ call[c].fn = "remove" /\ Failed(c)
            BY <5>2 DEF Failed, BackupUndisturbed, KeepsVersion, Found, Copies
        <5>3. CASE ~BackupUndisturbed(c) /\ UNCHANGED <<disk, faults, torn>> /\ call[c].fn = "install" /\ Raised(c)
            BY <5>3 DEF Raised, BackupUndisturbed, KeepsVersion, Found, Copies
        <5>4. CASE /\ ~BackupUndisturbed(c) /\ Filled(call[c].bak, Torn(call[c].src.ver, NoCaller))
                    /\ Goes(c, AfterBackup(c)) /\ UNCHANGED <<faults, torn>>
            BY <5>4 DEF Goes, Filled, AfterBackup, BackupUndisturbed, KeepsVersion, Found, Copies
        <5>5. CASE UNCHANGED disk /\ torn' = TRUE /\ faults' = faults + 1 /\ (Failed(c) \/ (Raised(c) /\ call[c].fn = "install"))
            BY <5>5 DEF Failed, Raised, BackupUndisturbed, KeepsVersion, Found, Copies
        <5> QED BY <5>1, <5>2, <5>3, <5>4, <5>5, BackupEndsStep
      <4>2. Found(c)'
        <5>1. CASE /\ BackupUndisturbed(c) /\ Filled(call[c].bak, [call[c].src EXCEPT !.by = NoCaller])
                    /\ Goes(c, AfterBackup(c)) /\ UNCHANGED <<faults, torn>>
            <6>1. call[c].src.whole /\ call[c].src = disk["install"]
              BY <5>1 DEF Sound, Intact, BackupUndisturbed
            <6>2. disk'[call[c].bak] = call[c].src
              BY <5>1, <6>1, Unheld DEF Filled
            <6>3. disk'["install"] = disk["install"]
              BY <5>1 DEF Filled
            <6>4. call[c].op = call[c].fn => call[c].start = call[c].src
              BY <6>1 DEF Found
            <6> QED BY <5>1, <6>1, <6>2, <6>3, <6>4 DEF Goes, AfterBackup, Found
        <5>2. CASE ~BackupUndisturbed(c) /\ UNCHANGED <<disk, faults, torn>> /\ call[c].fn = "remove" /\ Failed(c)
            BY <5>2 DEF Failed, BackupUndisturbed, Found, Copies
        <5>3. CASE ~BackupUndisturbed(c) /\ UNCHANGED <<disk, faults, torn>> /\ call[c].fn = "install" /\ Raised(c)
            BY <5>3 DEF Raised, BackupUndisturbed, Found, Copies
        <5>4. CASE /\ ~BackupUndisturbed(c) /\ Filled(call[c].bak, Torn(call[c].src.ver, NoCaller))
                    /\ Goes(c, AfterBackup(c)) /\ UNCHANGED <<faults, torn>>
            BY <5>4 DEF Goes, Filled, AfterBackup, BackupUndisturbed, Found, Copies
        <5>5. CASE UNCHANGED disk /\ torn' = TRUE /\ faults' = faults + 1 /\ (Failed(c) \/ (Raised(c) /\ call[c].fn = "install"))
            BY <5>5 DEF Failed, Raised, BackupUndisturbed, Found, Copies
        <5> QED BY <5>1, <5>2, <5>3, <5>4, <5>5, BackupEndsStep
      <4>3. TakesBack(c)'
        BY BackupEndsStep, ZenonT(60) DEF Goes, Failed, Raised, Filled, AfterBackup, BackupUndisturbed,
             TakesBack, Found, Tidy, Swaps, Passing
      <4> QED BY <4>1, <4>2, <4>3
    <3> QED BY <3>2, <3>3, <3>4, <3>5, <3>6, SoloAnswers
  <2>8. ASSUME NEW c \in Callers, SetAside(c) PROVE AnswersInv'
    <3>1. /\ At(c, "setAside") /\ UNCHANGED <<used, history>>
          /\ call[c].fn \in Swapping
      BY <2>8, SetAsideStep
    <3>2. Active(c) /\ UNCHANGED <<raced, crashes>> /\ (torn => torn')
      BY <2>8, <3>1 DEF Active, At, history
    <3>3. faults \in Nat /\ (faults' = 0 => faults = 0)
      BY <2>8, <3>1, HaveFits, BoundsAssumption DEF CountersFit, SetAside, Fault, NoFault, history
    <3>4. \E q \in PCs : Moved(c, q)
      BY <2>8, SetAsideStep DEF Aside2, Raised, PCs
    <3> USE <2>8, <3>1, <3>2, <3>3, Known, Kinds, BackupsAssumption, HaveFits DEF At, Moved,
          Keeps,
          CallFits, FoldersFit, Exists, Functions, Swapping, Stage, Aside, Hidden, Places
    <3>5. ASSUME ~raced, Copies(c), Holds(c) PROVE Copies(c)' /\ Holds(c)'
      <4> USE <3>5
      <4>1. Copies(c)'
        <5>1. CASE /\ call[c].fn = "rollback" /\ ~Exists("install") /\ UNCHANGED <<disk, faults>>
                    /\ Aside2(c, FALSE)
            BY <5>1 DEF Aside2, Copies, Activated
        <5>2. CASE /\ CanRename("install", Aside(c)) /\ Shifted("install", Aside(c)) /\ UNCHANGED faults
                    /\ Aside2(c, TRUE)
            BY <5>2 DEF Shifted, Aside2, CanRename, Copies, Activated
        <5>3. CASE /\ ~CanRename("install", Aside(c)) /\ (call[c].fn = "install" \/ Exists("install"))
                    /\ UNCHANGED <<disk, faults>> /\ Raised(c)
            BY <5>3 DEF Raised, CanRename, Copies, Activated
        <5>4. CASE UNCHANGED disk /\ Raised(c) /\ faults' = faults + 1
            BY <5>4 DEF Raised, Copies, Activated
        <5> QED BY <5>1, <5>2, <5>3, <5>4, SetAsideStep
      <4>2. Holds(c)'
        <5>1. CASE /\ call[c].fn = "rollback" /\ ~Exists("install") /\ UNCHANGED <<disk, faults>>
                    /\ Aside2(c, FALSE)
            BY <5>1 DEF Aside2, Copies, Holds, Safe, Activated, history
        <5>2. CASE /\ CanRename("install", Aside(c)) /\ Shifted("install", Aside(c)) /\ UNCHANGED faults
                    /\ Aside2(c, TRUE)
            BY <5>2 DEF Shifted, Aside2, CanRename, Copies, Holds, Safe, Activated, history
        <5>3. CASE /\ ~CanRename("install", Aside(c)) /\ (call[c].fn = "install" \/ Exists("install"))
                    /\ UNCHANGED <<disk, faults>> /\ Raised(c)
            BY <5>3 DEF Raised, CanRename, Copies, Holds, Safe, Activated, history
        <5>4. CASE UNCHANGED disk /\ Raised(c) /\ faults' = faults + 1
            BY <5>4 DEF Raised, Copies, Holds, Safe, Activated, history
        <5> QED BY <5>1, <5>2, <5>3, <5>4, SetAsideStep
      <4> QED BY <4>1, <4>2
    <3>6. ASSUME ~raced, ~torn', Sound(c), Truth(c), faults' = 0 /\ crashes = 0 => Tidy(c)
          PROVE  KeepsVersion(c)' /\ Found(c)' /\ TakesBack(c)'
      <4> USE <3>6 DEF Truth, Opening, Activated
      <4>1. KeepsVersion(c)'
        <5>1. CASE /\ call[c].fn = "rollback" /\ ~Exists("install") /\ UNCHANGED <<disk, faults>>
                    /\ Aside2(c, FALSE)
            BY <5>1 DEF Aside2, KeepsVersion, Found, Copies
        <5>2. CASE /\ CanRename("install", Aside(c)) /\ Shifted("install", Aside(c)) /\ UNCHANGED faults
                    /\ Aside2(c, TRUE)
            BY <5>2 DEF Shifted, Aside2, CanRename, KeepsVersion, Found, Copies
        <5>3. CASE /\ ~CanRename("install", Aside(c)) /\ (call[c].fn = "install" \/ Exists("install"))
                    /\ UNCHANGED <<disk, faults>> /\ Raised(c)
            BY <5>3 DEF Raised, CanRename, KeepsVersion, Found, Copies
        <5>4. CASE UNCHANGED disk /\ Raised(c) /\ faults' = faults + 1
            BY <5>4 DEF Raised, KeepsVersion, Found, Copies
        <5> QED BY <5>1, <5>2, <5>3, <5>4, SetAsideStep
      <4>2. Found(c)'
        <5>1. CASE /\ call[c].fn = "rollback" /\ ~Exists("install") /\ UNCHANGED <<disk, faults>>
                    /\ Aside2(c, FALSE)
            BY <5>1 DEF Aside2, Found, Copies
        <5>2. CASE /\ CanRename("install", Aside(c)) /\ Shifted("install", Aside(c)) /\ UNCHANGED faults
                    /\ Aside2(c, TRUE)
            BY <5>2 DEF Shifted, Aside2, CanRename, Found, Copies
        <5>3. CASE /\ ~CanRename("install", Aside(c)) /\ (call[c].fn = "install" \/ Exists("install"))
                    /\ UNCHANGED <<disk, faults>> /\ Raised(c)
            BY <5>3 DEF Raised, CanRename, Found, Copies
        <5>4. CASE UNCHANGED disk /\ Raised(c) /\ faults' = faults + 1
            BY <5>4 DEF Raised, Found, Copies
        <5> QED BY <5>1, <5>2, <5>3, <5>4, SetAsideStep
      <4>3. TakesBack(c)'
        <5>1. CASE /\ call[c].fn = "rollback" /\ ~Exists("install") /\ UNCHANGED <<disk, faults>>
                    /\ Aside2(c, FALSE)
            BY <5>1 DEF Aside2, TakesBack, Found, Tidy, Swaps, Passing
        <5>2. CASE /\ CanRename("install", Aside(c)) /\ Shifted("install", Aside(c)) /\ UNCHANGED faults
                    /\ Aside2(c, TRUE)
            BY <5>2 DEF Shifted, Aside2, CanRename, TakesBack, Found, Tidy, Swaps, Passing
        <5>3. CASE /\ ~CanRename("install", Aside(c)) /\ (call[c].fn = "install" \/ Exists("install"))
                    /\ UNCHANGED <<disk, faults>> /\ Raised(c)
            BY <5>3 DEF Raised, CanRename, TakesBack, Found, Tidy, Swaps, Passing
        <5>4. CASE UNCHANGED disk /\ Raised(c) /\ faults' = faults + 1
            BY <5>4 DEF Raised, TakesBack, Found, Tidy, Swaps, Passing
        <5> QED BY <5>1, <5>2, <5>3, <5>4, SetAsideStep
      <4> QED BY <4>1, <4>2, <4>3
    <3> QED BY <3>2, <3>3, <3>4, <3>5, <3>6, SoloAnswers
  <2>9. ASSUME NEW c \in Callers, Activate(c) PROVE AnswersInv'
    <3>1. /\ At(c, "activate") /\ UNCHANGED <<used, unsaved, torn, raced, calls, crashes>>
          /\ call[c].fn \in Swapping
      BY <2>9, ActivateStep
    <3>2. Active(c) /\ UNCHANGED <<raced, crashes>> /\ (torn => torn')
      BY <2>9, <3>1 DEF Active, At, history
    <3>3. faults \in Nat /\ (faults' = 0 => faults = 0)
      BY <2>9, <3>1, HaveFits, BoundsAssumption DEF CountersFit, Activate, Fault, NoFault, history
    <3>4. \E q \in PCs : Moved(c, q)
      BY <2>9, ActivateStep DEF Goes, PCs
    <3> USE <2>9, <3>1, <3>2, <3>3, Known, Kinds, BackupsAssumption, HaveFits DEF At, Moved,
          Keeps,
          CallFits, FoldersFit, Exists, Functions, Swapping, Stage, Aside, Hidden, Places
    <3>5. ASSUME ~raced, Copies(c), Holds(c) PROVE Copies(c)' /\ Holds(c)'
      <4> USE <3>5
      <4>1. Copies(c)'
        BY ActivateStep DEF Shifted, Goes, CanRename, Copies, Activated
      <4>2. Holds(c)'
        BY ActivateStep DEF Shifted, Goes, CanRename, Copies, Holds, Safe, Activated, history
      <4> QED BY <4>1, <4>2
    <3>6. ASSUME ~raced, ~torn', Sound(c), Truth(c), faults' = 0 /\ crashes = 0 => Tidy(c)
          PROVE  KeepsVersion(c)' /\ Found(c)' /\ TakesBack(c)'
      <4> USE <3>6 DEF Truth, Opening, Activated
      <4>1. KeepsVersion(c)'
        BY ActivateKeeps
      <4>2. Found(c)'
        BY ActivateStep DEF Shifted, Goes, CanRename, Found, Copies
      <4>3. TakesBack(c)'
        BY ActivateStep DEF Shifted, Goes, CanRename, TakesBack, Found, Tidy, Swaps, Passing
      <4> QED BY <4>1, <4>2, <4>3
    <3> QED BY <3>2, <3>3, <3>4, <3>5, <3>6, SoloAnswers
  <2>10. ASSUME NEW c \in Callers, Recover(c) PROVE AnswersInv'
    <3>1. /\ At(c, "recover") /\ UNCHANGED <<used, history>>
          /\ call[c].fn \in Swapping
      BY <2>10, RecoverStep
    <3>2. Active(c) /\ UNCHANGED <<raced, crashes>> /\ (torn => torn')
      BY <2>10, <3>1 DEF Active, At, history
    <3>3. faults \in Nat /\ (faults' = 0 => faults = 0)
      BY <2>10, <3>1, HaveFits, BoundsAssumption DEF CountersFit, Recover, Fault, NoFault, history
    <3>4. \E q \in PCs : Moved(c, q)
      BY <2>10, RecoverStep DEF Raised, PCs
    <3> USE <2>10, <3>1, <3>2, <3>3, Known, Kinds, BackupsAssumption, HaveFits DEF At, Moved,
          Keeps,
          CallFits, FoldersFit, Exists, Functions, Swapping, Stage, Aside, Hidden, Places
    <3>5. ASSUME ~raced, Copies(c), Holds(c) PROVE Copies(c)' /\ Holds(c)'
      <4> USE <3>5
      <4>1. Copies(c)'
        BY RecoverStep DEF HasAside, CanRename, Shifted, Raised, Copies, Activated
      <4>2. Holds(c)'
        <5>1. CASE /\ HasAside(c) /\ CanRename(Aside(c), "install") /\ Shifted(Aside(c), "install")
                    /\ UNCHANGED faults /\ Raised(c)
            BY <5>1 DEF Raised, Shifted, CanRename, HasAside, Copies, Holds, Safe, Activated,
                 history
        <5>2. CASE /\ ~(HasAside(c) /\ CanRename(Aside(c), "install")) /\ UNCHANGED <<disk, faults>>
                    /\ Raised(c)
            BY <5>2 DEF Raised, CanRename, HasAside, Copies, Holds, Safe, Activated, history
        <5>3. CASE UNCHANGED disk /\ faults' = faults + 1 /\ Raised(c)
            BY <5>3 DEF Raised, Copies, Holds, Safe, Activated, history
        <5> QED BY <5>1, <5>2, <5>3, RecoverStep
      <4> QED BY <4>1, <4>2
    <3>6. ASSUME ~raced, ~torn', Sound(c), Truth(c), faults' = 0 /\ crashes = 0 => Tidy(c)
          PROVE  KeepsVersion(c)' /\ Found(c)' /\ TakesBack(c)'
      <4> USE <3>6 DEF Truth, Opening, Activated
      <4>1. KeepsVersion(c)'
        BY RecoverStep DEF HasAside, CanRename, Shifted, Raised, KeepsVersion, Found, Copies
      <4>2. Found(c)'
        BY RecoverStep DEF HasAside, CanRename, Shifted, Raised, Found, Copies
      <4>3. TakesBack(c)'
        BY RecoverStep DEF HasAside, CanRename, Shifted, Raised, TakesBack, Found, Tidy, Swaps,
             Passing
      <4> QED BY <4>1, <4>2, <4>3
    <3> QED BY <3>2, <3>3, <3>4, <3>5, <3>6, SoloAnswers
  <2>11. ASSUME NEW c \in Callers, Cleanup(c) PROVE AnswersInv'
    <3>1. /\ At(c, "cleanup") /\ UNCHANGED <<used, history, faults>>
          /\ call[c].fn \in Swapping
      BY <2>11, CleanupStep
    <3>2. Active(c) /\ UNCHANGED <<raced, crashes>> /\ (torn => torn')
      BY <2>11, <3>1 DEF Active, At, history
    <3>3. faults \in Nat /\ (faults' = 0 => faults = 0)
      BY <2>11, <3>1, HaveFits, BoundsAssumption DEF CountersFit, history
    <3>4. \E q \in PCs : Moved(c, q)
      BY <2>11, CleanupStep DEF Goes, Failed, PCs
    <3> USE <2>11, <3>1, <3>2, <3>3, Known, Kinds, BackupsAssumption, HaveFits DEF At, Moved,
          Keeps,
          CallFits, FoldersFit, Exists, Functions, Swapping, Stage, Aside, Hidden, Places
    <3>5. ASSUME ~raced, Copies(c), Holds(c) PROVE Copies(c)' /\ Holds(c)'
      <4> USE <3>5
      <4>1. Copies(c)'
        BY CleanupStep DEF Filled, Goes, Failed, Copies, Activated
      <4>2. Holds(c)'
        BY CleanupStep DEF Filled, Goes, Failed, Copies, Holds, Safe, Activated, history
      <4> QED BY <4>1, <4>2
    <3>6. ASSUME ~raced, ~torn', Sound(c), Truth(c), faults' = 0 /\ crashes = 0 => Tidy(c)
          PROVE  KeepsVersion(c)' /\ Found(c)' /\ TakesBack(c)'
      <4> USE <3>6 DEF Truth, Opening, Activated
      <4>1. KeepsVersion(c)'
        BY CleanupStep DEF Filled, Goes, Failed, KeepsVersion, Found, Copies
      <4>2. Found(c)'
        BY CleanupStep DEF Filled, Goes, Failed, Found, Copies
      <4>3. TakesBack(c)'
        BY CleanupStep DEF Filled, Goes, Failed, TakesBack, Found, Tidy, Swaps, Passing
      <4> QED BY <4>1, <4>2, <4>3
    <3> QED BY <3>2, <3>3, <3>4, <3>5, <3>6, SoloAnswers
  <2>12. ASSUME NEW c \in Callers, Cleaned(c) PROVE AnswersInv'
    <3>1. /\ At(c, "cleaning") /\ UNCHANGED <<used, history>>
          /\ call[c].fn \in Swapping
      BY <2>12, CleanedStep
    <3>2. Active(c) /\ UNCHANGED <<raced, crashes>> /\ (torn => torn')
      BY <2>12, <3>1 DEF Active, At, history
    <3>3. faults \in Nat /\ (faults' = 0 => faults = 0)
      BY <2>12, <3>1, HaveFits, BoundsAssumption DEF CountersFit, Cleaned, Fault, NoFault, history
    <3>4. \E q \in PCs : Moved(c, q)
      BY <2>12, CleanedStep DEF Goes, Failed, PCs
    <3> USE <2>12, <3>1, <3>2, <3>3, Known, Kinds, BackupsAssumption, HaveFits DEF At, Moved,
          Keeps,
          CallFits, FoldersFit, Exists, Functions, Swapping, Stage, Aside, Hidden, Places
    <3>5. ASSUME ~raced, Copies(c), Holds(c) PROVE Copies(c)' /\ Holds(c)'
      <4> USE <3>5
      <4>1. Copies(c)'
        BY CleanedStep DEF Filled, Goes, Failed, Copies, Activated
      <4>2. Holds(c)'
        BY CleanedStep DEF Filled, Goes, Failed, Copies, Holds, Safe, Activated, history
      <4> QED BY <4>1, <4>2
    <3>6. ASSUME ~raced, ~torn', Sound(c), Truth(c), faults' = 0 /\ crashes = 0 => Tidy(c)
          PROVE  KeepsVersion(c)' /\ Found(c)' /\ TakesBack(c)'
      <4> USE <3>6 DEF Truth, Opening, Activated
      <4>1. KeepsVersion(c)'
        BY CleanedStep DEF Filled, Goes, Failed, KeepsVersion, Found, Copies
      <4>2. Found(c)'
        BY CleanedStep DEF Filled, Goes, Failed, Found, Copies
      <4>3. TakesBack(c)'
        BY CleanedStep DEF Filled, Goes, Failed, TakesBack, Found, Tidy, Swaps, Passing
      <4> QED BY <4>1, <4>2, <4>3
    <3> QED BY <3>2, <3>3, <3>4, <3>5, <3>6, SoloAnswers
  <2>13. ASSUME NEW c \in Callers, Discard(c) PROVE AnswersInv'
    <3>1. /\ At(c, "discard") /\ UNCHANGED <<used, history, faults>>
          /\ call[c].fn \in Swapping
      BY <2>13, DiscardStep
    <3>2. Active(c) /\ UNCHANGED <<raced, crashes>> /\ (torn => torn')
      BY <2>13, <3>1 DEF Active, At, history
    <3>3. faults \in Nat /\ (faults' = 0 => faults = 0)
      BY <2>13, <3>1, HaveFits, BoundsAssumption DEF CountersFit, history
    <3>4. \E q \in PCs : Moved(c, q)
      BY <2>13, DiscardStep DEF Goes, Failed, Returned, Answered, PCs
    <3> USE <2>13, <3>1, <3>2, <3>3, Known, Kinds, BackupsAssumption, HaveFits DEF At, Moved,
          Keeps,
          CallFits, FoldersFit, Exists, Functions, Swapping, Stage, Aside, Hidden, Places
    <3>5. ASSUME ~raced, Copies(c), Holds(c) PROVE Copies(c)' /\ Holds(c)'
      <4> USE <3>5
      <4>1. Copies(c)'
        BY DiscardStep DEF HasAside, Filled, Goes, Failed, Returned, Answered, Copies, Activated
      <4>2. Holds(c)'
        BY DiscardStep DEF HasAside, Filled, Goes, Failed, Returned, Answered, Copies, Holds,
             Safe, Activated, history
      <4> QED BY <4>1, <4>2
    <3>6. ASSUME ~raced, ~torn', Sound(c), Truth(c), faults' = 0 /\ crashes = 0 => Tidy(c)
          PROVE  KeepsVersion(c)' /\ Found(c)' /\ TakesBack(c)'
      <4> USE <3>6 DEF Truth, Opening, Activated
      <4>1. KeepsVersion(c)'
        BY DiscardStep DEF HasAside, Filled, Goes, Failed, Returned, Answered, KeepsVersion,
             Found, Copies
      <4>2. Found(c)'
        BY DiscardStep DEF HasAside, Filled, Goes, Failed, Returned, Answered, Found, Copies
      <4>3. TakesBack(c)'
        BY DiscardStep DEF HasAside, Filled, Goes, Failed, Returned, Answered, TakesBack, Found,
             Tidy, Swaps, Passing
      <4> QED BY <4>1, <4>2, <4>3
    <3> QED BY <3>2, <3>3, <3>4, <3>5, <3>6, SoloAnswers
  <2>14. ASSUME NEW c \in Callers, Discarded(c) PROVE AnswersInv'
    <3>1. /\ At(c, "discarding") /\ UNCHANGED <<used, history>>
          /\ call[c].fn \in Swapping
      BY <2>14, DiscardedStep
    <3>2. Active(c) /\ UNCHANGED <<raced, crashes>> /\ (torn => torn')
      BY <2>14, <3>1 DEF Active, At, history
    <3>3. faults \in Nat /\ (faults' = 0 => faults = 0)
      BY <2>14, <3>1, HaveFits, BoundsAssumption DEF CountersFit, Discarded, Fault, NoFault,
           history
    <3>4. \E q \in PCs : Moved(c, q)
      BY <2>14, DiscardedStep DEF Returned, Failed, Answered, PCs
    <3> USE <2>14, <3>1, <3>2, <3>3, Known, Kinds, BackupsAssumption, HaveFits DEF At, Moved,
          Keeps,
          CallFits, FoldersFit, Exists, Functions, Swapping, Stage, Aside, Hidden, Places
    <3>5. ASSUME ~raced, Copies(c), Holds(c) PROVE Copies(c)' /\ Holds(c)'
      <4> USE <3>5
      <4>1. Copies(c)'
        BY DiscardedStep DEF Filled, Returned, Answered, Failed, Copies, Activated
      <4>2. Holds(c)'
        BY DiscardedStep DEF Filled, Returned, Answered, Failed, Copies, Holds, Safe, Activated,
             history
      <4> QED BY <4>1, <4>2
    <3>6. ASSUME ~raced, ~torn', Sound(c), Truth(c), faults' = 0 /\ crashes = 0 => Tidy(c)
          PROVE  KeepsVersion(c)' /\ Found(c)' /\ TakesBack(c)'
      <4> USE <3>6 DEF Truth, Opening, Activated
      <4>1. KeepsVersion(c)'
        BY DiscardedStep DEF Filled, Returned, Answered, Failed, KeepsVersion, Found, Copies
      <4>2. Found(c)'
        BY DiscardedStep DEF Filled, Returned, Answered, Failed, Found, Copies
      <4>3. TakesBack(c)'
        BY DiscardedStep DEF Filled, Returned, Answered, Failed, TakesBack, Found, Tidy, Swaps,
             Passing
      <4> QED BY <4>1, <4>2, <4>3
    <3> QED BY <3>2, <3>3, <3>4, <3>5, <3>6, SoloAnswers
  <2>15. ASSUME NEW c \in Callers, Remove(c) PROVE AnswersInv'
    <3>1. /\ At(c, "remove") /\ UNCHANGED <<used, torn, raced, calls, faults, crashes>>
          /\ call[c].fn \in {"remove", "delete"} /\ Target(c) \in Places
      BY <2>15, RemoveStep
    <3>2. Active(c) /\ UNCHANGED <<raced, crashes>> /\ (torn => torn')
      BY <2>15, <3>1 DEF Active, At, history
    <3>3. faults \in Nat /\ (faults' = 0 => faults = 0)
      BY <2>15, <3>1, HaveFits, BoundsAssumption DEF CountersFit, history
    <3>4. \E q \in PCs : Moved(c, q)
      BY <2>15, RemoveStep DEF Goes, Failed, PCs
    <3> USE <2>15, <3>1, <3>2, <3>3, Known, Kinds, BackupsAssumption, HaveFits DEF At, Moved,
          Keeps,
          CallFits, FoldersFit, Exists, Functions, Swapping, Stage, Aside, Hidden, Places
    <3>5. ASSUME ~raced, Copies(c), Holds(c) PROVE Copies(c)' /\ Holds(c)'
      <4> USE <3>5
      <4>1. Copies(c)'
        BY RemoveStep DEF Filled, Goes, Failed, GivesUp, Copies, Activated
      <4>2. Holds(c)'
        <5>1. CASE /\ Exists(Target(c)) /\ Filled(Target(c), Torn(disk[Target(c)].ver, c))
                    /\ current' = (IF GivesUp(c) THEN NoVersion ELSE current)
                    /\ unsaved' \in BOOLEAN /\ Goes(c, "removing")
            BY <5>1 DEF Goes, Filled, GivesUp, Copies, Holds, Safe, Activated, history, Target
        <5>2. CASE ~Exists(Target(c)) /\ UNCHANGED <<disk, current, unsaved>> /\ Failed(c)
            BY <5>2 DEF Failed, Copies, Holds, Safe, Activated, history, Target, GivesUp
        <5> QED BY <5>1, <5>2, RemoveStep
      <4> QED BY <4>1, <4>2
    <3>6. ASSUME ~raced, ~torn', Sound(c), Truth(c), faults' = 0 /\ crashes = 0 => Tidy(c)
          PROVE  KeepsVersion(c)' /\ Found(c)' /\ TakesBack(c)'
      <4> USE <3>6 DEF Truth, Opening, Activated
      <4>1. KeepsVersion(c)'
        BY RemoveStep DEF Filled, Goes, Failed, GivesUp, KeepsVersion, Found, Copies
      <4>2. Found(c)'
        <5>1. CASE /\ Exists(Target(c)) /\ Filled(Target(c), Torn(disk[Target(c)].ver, c))
                    /\ current' = (IF GivesUp(c) THEN NoVersion ELSE current)
                    /\ unsaved' \in BOOLEAN /\ Goes(c, "removing")
            BY <5>1 DEF Goes, Filled, GivesUp, Found, Copies, Target
        <5>2. CASE ~Exists(Target(c)) /\ UNCHANGED <<disk, current, unsaved>> /\ Failed(c)
            BY <5>2 DEF Failed, Found, Copies, Target
        <5> QED BY <5>1, <5>2, RemoveStep
      <4>3. TakesBack(c)'
        <5>1. CASE /\ Exists(Target(c)) /\ Filled(Target(c), Torn(disk[Target(c)].ver, c))
                    /\ current' = (IF GivesUp(c) THEN NoVersion ELSE current)
                    /\ unsaved' \in BOOLEAN /\ Goes(c, "removing")
            BY <5>1 DEF Goes, Filled, GivesUp, TakesBack, Found, Tidy, Swaps, Passing, Target
        <5>2. CASE ~Exists(Target(c)) /\ UNCHANGED <<disk, current, unsaved>> /\ Failed(c)
            BY <5>2 DEF Failed, TakesBack, Found, Tidy, Swaps, Passing, Target
        <5> QED BY <5>1, <5>2, RemoveStep
      <4> QED BY <4>1, <4>2, <4>3
    <3> QED BY <3>2, <3>3, <3>4, <3>5, <3>6, SoloAnswers
  <2>16. ASSUME NEW c \in Callers, Removed(c) PROVE AnswersInv'
    <3>1. /\ At(c, "removing") /\ UNCHANGED <<used, current, unsaved, raced, calls, crashes>>
          /\ call[c].fn \in {"remove", "delete"} /\ Target(c) \in Places
      BY <2>16, RemovedStep
    <3>2. Active(c) /\ UNCHANGED <<raced, crashes>> /\ (torn => torn')
      BY <2>16, <3>1, RemovedStep DEF Active, At, history
    <3>3. faults \in Nat /\ (faults' = 0 => faults = 0)
      BY <2>16, <3>1, HaveFits, BoundsAssumption DEF CountersFit, Removed, Fault, NoFault, history
    <3>4. \E q \in PCs : Moved(c, q)
      BY <2>16, RemovedStep DEF Failed, Answered, PCs
    <3> USE <2>16, <3>1, <3>2, <3>3, Known, Kinds, BackupsAssumption, HaveFits DEF At, Moved,
          Keeps,
          CallFits, FoldersFit, Exists, Functions, Swapping, Stage, Aside, Hidden, Places
    <3>5. ASSUME ~raced, Copies(c), Holds(c) PROVE Copies(c)' /\ Holds(c)'
      <4> USE <3>5
      <4>1. Copies(c)'
        BY RemovedStep DEF Filled, Answered, Failed, Copies, Activated
      <4>2. Holds(c)'
        <5>1. CASE /\ disk[Target(c)].by = c /\ Filled(Target(c), Nothing) /\ UNCHANGED <<faults, torn>>
                    /\ Moved(c, "done") /\ Answered(c)
            <6>1. CASE current = NoVersion
              BY <5>1, <6>1 DEF Holds, history
            <6>2. CASE current # NoVersion
              <7>1. PICK p \in Safe(c) : disk[p] = Whole(current)
                BY <6>2 DEF Holds
              <7>2. current \in Versions \union {NoVersion} /\ Whole(current).by = NoCaller /\ Whole(current).whole
                BY DEF CountersFit
              <7>3. p \in Places /\ p # Target(c)
                BY <5>1, <7>1, <7>2, CallersAssumption DEF Safe
              <7>4. disk'[p] = Whole(current)
                BY <5>1, <7>1, <7>3 DEF Filled
              <7>5. p \in Safe(c)'
                BY <5>1, <7>1 DEF Safe, Activated
              <7> QED BY <7>4, <7>5 DEF Holds
            <6> QED BY <6>1, <6>2
        <5>2. CASE disk[Target(c)].by # c /\ UNCHANGED <<disk, faults, torn>> /\ Failed(c)
            BY <5>2 DEF Failed, Copies, Holds, Safe, Activated, history, Target
        <5>3. CASE UNCHANGED disk /\ Failed(c) /\ torn' = TRUE /\ faults' = faults + 1
            BY <5>3 DEF Failed, Copies, Holds, Safe, Activated, history, Target
        <5> QED BY <5>1, <5>2, <5>3, RemovedStep
      <4> QED BY <4>1, <4>2
    <3>6. ASSUME ~raced, ~torn', Sound(c), Truth(c), faults' = 0 /\ crashes = 0 => Tidy(c)
          PROVE  KeepsVersion(c)' /\ Found(c)' /\ TakesBack(c)'
      <4> USE <3>6 DEF Truth, Opening, Activated
      <4>1. KeepsVersion(c)'
        BY RemovedStep DEF Filled, Answered, Failed, KeepsVersion, Found, Copies
      <4>2. Found(c)'
        <5>1. CASE /\ disk[Target(c)].by = c /\ Filled(Target(c), Nothing)
                    /\ Moved(c, "done") /\ Answered(c)
            BY <5>1 DEF Answered, Filled, Found, Copies, Target
        <5>2. CASE disk[Target(c)].by # c /\ UNCHANGED disk /\ Failed(c)
            BY <5>2 DEF Failed, Found, Copies, Target
        <5> QED BY <5>1, <5>2, <3>6, RemovedInFull
      <4>3. TakesBack(c)'
        <5>1. CASE /\ disk[Target(c)].by = c /\ Filled(Target(c), Nothing)
                    /\ Moved(c, "done") /\ Answered(c)
            BY <5>1 DEF Answered, Filled, TakesBack, Found, Tidy, Swaps, Passing, Target, Sound,
                 Intact
        <5>2. CASE disk[Target(c)].by # c /\ UNCHANGED disk /\ Failed(c)
            BY <5>2 DEF Failed, TakesBack, Found, Tidy, Swaps, Passing, Target, Sound, Intact
        <5> QED BY <5>1, <5>2, <3>6, RemovedInFull
      <4> QED BY <4>1, <4>2, <4>3
    <3> QED BY <3>2, <3>3, <3>4, <3>5, <3>6, SoloAnswers
  <2>17. ASSUME NEW c \in Callers, Verify(c) PROVE AnswersInv'
    <3>1. /\ At(c, "verify") /\ UNCHANGED <<disk, used, history, faults>>
      BY <2>17, VerifyStep
    <3>2. Active(c) /\ UNCHANGED <<raced, crashes>> /\ (torn => torn')
      BY <2>17, <3>1 DEF Active, At, history
    <3>3. faults \in Nat /\ (faults' = 0 => faults = 0)
      BY <2>17, <3>1, HaveFits, BoundsAssumption DEF CountersFit, history
    <3>4. \E q \in PCs : Moved(c, q)
      BY <2>17, VerifyStep DEF Goes, PCs
    <3> USE <2>17, <3>1, <3>2, <3>3, Known, Kinds, BackupsAssumption, HaveFits DEF At, Moved,
          Keeps,
          CallFits, FoldersFit, Exists, Functions, Swapping, Stage, Aside, Hidden, Places
    <3>5. ASSUME ~raced, Copies(c), Holds(c) PROVE Copies(c)' /\ Holds(c)'
      <4> USE <3>5
      <4>1. Copies(c)'
        BY VerifyStep DEF Goes, Copies, Activated
      <4>2. Holds(c)'
        BY VerifyStep DEF Goes, Copies, Holds, Safe, Activated, history
      <4> QED BY <4>1, <4>2
    <3>6. ASSUME ~raced, ~torn', Sound(c), Truth(c), faults' = 0 /\ crashes = 0 => Tidy(c)
          PROVE  KeepsVersion(c)' /\ Found(c)' /\ TakesBack(c)'
      <4> USE <3>6 DEF Truth, Opening, Activated
      <4>1. KeepsVersion(c)'
        BY VerifyStep DEF Goes, KeepsVersion, Found, Copies
      <4>2. Found(c)'
        BY VerifyStep DEF Goes, Found, Copies
      <4>3. TakesBack(c)'
        <5>1. CASE Goes(c, "done")
            BY <5>1 DEF Goes, TakesBack, Found, Tidy, Swaps, Passing, Copies
        <5>2. CASE /\ Moved(c, "check") /\ call'[c].bak = call[c].bak /\ call'[c].src = call[c].src
                    /\ \/ call'[c].fn = "rollback" /\ call[c].bak # NoBackup
                       \/ call'[c].fn = "remove" /\ call[c].bak = NoBackup
            BY <5>2 DEF TakesBack, Found, Tidy, Swaps, Passing, Copies
        <5> QED BY <5>1, <5>2, VerifyStep
      <4> QED BY <4>1, <4>2, <4>3
    <3> QED BY <3>2, <3>3, <3>4, <3>5, <3>6, SoloAnswers
  <2>18. ASSUME Crash PROVE AnswersInv'
    <3>1. \A c \in Callers : At(c, "idle")' /\ ~Active(c)'
      BY <2>18, IdleCall DEF Crash, At, Active
    <3>2. UNCHANGED <<disk, current, raced>>
      BY <2>18 DEF Crash
    <3>3. CurrentInv'
      BY <3>1, <3>2 DEF AnswersInv, CurrentInv, ActiveVersionSurvives
    <3> QED BY <3>1, <3>3 DEF AnswersInv, OnlyCall, TruthInv
  <2>19. CASE UNCHANGED vars
    BY <2>19 DEF vars, AnswersInv, OnlyCall, CurrentInv, TruthInv, ActiveVersionSurvives,
         Active, At,
         Truth, Copies, Holds, Safe, KeepsVersion, Found, TakesBack, Activated, Exists, Aside, Stage,
         CopyUndisturbed, BackupUndisturbed, Origin
  <2> QED
    BY <2>1, <2>2, <2>3, <2>4, <2>5, <2>6, <2>7, <2>8, <2>9, <2>10, <2>11, <2>12, <2>13,
         <2>14, <2>15, <2>16, <2>17, <2>18, <2>19 DEF Next, Request
<1> QED
  BY <1>1, <1>2, TypeCorrect, FoldersInvariant, PTL DEF Spec

(* Whatever fails, and wherever the process dies, the version last activated remains in full until *)
(* a client gives it up, while calls do not overlap.                                              *)
THEOREM VersionStays == Spec => []ActiveVersionSurvives
<1>1. AnswersInv => ActiveVersionSurvives
  BY DEF AnswersInv, CurrentInv, ActiveVersionSurvives
<1> QED BY <1>1, AnswersInvariant, PTL

(* An update or a rollback that fails leaves a version to run; only when the swap and its undoing *)
(* failed the old one stays in the hidden folder.                                                 *)
THEOREM FailuresKeepAVersion == Spec => []FailureKeepsAVersion
<1>1. AnswersInv => FailureKeepsAVersion
  BY DEF AnswersInv, TruthInv, Truth, KeepsVersion, FailureKeepsAVersion, At
<1> QED BY <1>1, AnswersInvariant, PTL

(* What the client is told about the plugin and about its backup is true. *)
THEOREM AnswersAreTrue == Spec => []AnswerIsTrue
<1>1. AnswersInv => AnswerIsTrue
  <2> SUFFICES ASSUME AnswersInv, ~raced, ~torn, NEW c \in Callers, At(c, "done")
               PROVE  /\ call[c].op = "install" /\ call[c].result = "ok" =>
                           /\ disk["install"] = Whole(call[c].ver)
                           /\ call[c].start.whole => call[c].bak # NoBackup /\ disk[call[c].bak] = call[c].start
                      /\ call[c].op = "install" /\ call[c].fn # "install" /\ faults = 0 /\ crashes = 0 =>
                           disk["install"] = call[c].start
                      /\ call[c].op = "remove" /\ call[c].result = "ok" =>
                           /\ ~Exists("install")
                           /\ call[c].keep /\ call[c].start.whole => disk[call[c].bak] = call[c].start
    BY DEF AnswerIsTrue, At
  <2>1. Copies(c) /\ Found(c) /\ TakesBack(c)
    BY DEF AnswersInv, TruthInv, Truth, At
  <2> QED BY <2>1, Kinds DEF Copies, Found, TakesBack, At, Activated, Exists
<1> QED BY <1>1, AnswersInvariant, PTL

-----------------------------------------------------------------------------
(* Two calls that race each other.                                                            *)

\* The first call there ever was, or that call and one that overlapped it.
Few == calls <= 1 \/ (raced /\ calls <= 2)

\* No backup is whole, and no client wished it so.
Bare == ~unsaved /\ \A b \in Backups : ~disk[b].whole

\* From its copy to its activation an installation counts on the staging folder.
Staging == {"copying", "provision", "backup", "backingUp", "setAside", "activate"}

Installs(c) == call[c].fn = "install"
RollsBack(c) == call[c].fn = "rollback"

\* A rollback between the two renames of its swap, and one whose version set aside it will put
\* back or discard.
Swapped(c) == RollsBack(c) /\ call[c].pc \in {"activate", "recover"}
Through(c) == RollsBack(c) /\ call[c].replaced /\ call[c].result = "ok"
              /\ call[c].pc \in {"cleanup", "cleaning", "discard"}
Keeper(c) ==
  \/ Swapped(c) /\ call[c].replaced
  \/ Through(c)
  \/ RollsBack(c) /\ At(c, "discarding")

\* What a call leaves as it should be, whatever the other one does: without a whole backup an
\* installation sets aside only a folder with holes, and a rollback copies one with holes, so it
\* gives the version up and only an installation can activate another.
Careful(c) ==
  /\ Active(c) => (call[c].keep => call[c].op = "remove") /\ (call[c].fn = "delete" => call[c].op = "delete")
  /\ At(c, "remove") /\ call[c].fn = "remove" /\ call[c].keep => call[c].bak # NoBackup
  /\ At(c, "copying") /\ Installs(c) => call[c].src.ver # NoVersion
  /\ call[c].pc \in {"discard", "discarding"} => call[c].result = "ok"
  /\ At(c, "backingUp") /\ ~unsaved => disk[call[c].bak].by = c
  /\ Keeper(c) => Exists("beforeRollback")
  /\ calls <= 1 /\ Installs(c) /\ call[c].pc \in Staging => Exists("staged")
  /\ calls <= 1 /\ Swapped(c) => ~Exists("install")
  /\ Bare =>
       /\ At(c, "copying") /\ RollsBack(c) => ~call[c].src.whole
       /\ At(c, "setAside") /\ Installs(c) => ~disk["install"].whole
       /\ At(c, "backingUp") /\ Installs(c) /\ disk["install"].whole => disk["install"] = call[c].src
       /\ Through(c) /\ current # NoVersion => disk["install"].whole

\* What two calls cannot do to each other: only one uses the staging folder, only one the folder
\* of a rollback, and while a rollback holds the installed folder an installation sees none.
Apart(c, d) ==
  /\ Keeper(c) => ~Keeper(d)
  /\ Installs(c) /\ call[c].pc \in Staging /\ Installs(d) =>
       /\ call[d].pc \notin Staging
       /\ call[d].pc \in {"check", "copy"} => Exists("staged")
  /\ Installs(c) /\ call[c].pc \in Opening /\ Swapped(d) =>
       /\ ~Exists("install")
       /\ Bare /\ call[d].replaced /\ disk["beforeRollback"].whole =>
            ~At(c, "setAside") /\ (At(c, "backingUp") => disk["beforeRollback"] = call[c].src)

\* Without a whole backup neither a hidden folder that may be discarded nor one that may be
\* activated is whole.
NoneHidden == Bare => ~disk["before"].whole /\ ~disk["restoring"].whole

\* Some version remains in full.
OneLeft == \E p \in Places \ {"staged", "restoring"} : disk[p].whole
LastStays == raced /\ current # NoVersion /\ ~unsaved => OneLeft

\* Calls overlap from the second on, and two of them at most.
Counted ==
  /\ raced => calls >= 2
  /\ calls = 0 => \A c \in Callers : ~Active(c)
  /\ \A c, d, e \in Callers : Active(c) /\ Active(d) /\ Active(e) => c = d \/ d = e \/ c = e

\* What two calls leave of the folders, each at each of its steps.
RaceInv == Few =>
  /\ Counted /\ NoneHidden /\ LastStays
  /\ \A c \in Callers : Careful(c)
  /\ \A c, d \in Callers : c # d => Apart(c, d)

(* The folders have names of their own. *)
LEMMA Named ==
    /\ {"install", "staged", "before", "restoring", "beforeRollback"} \subseteq Places
    /\ {"install", "before", "beforeRollback"} \subseteq Places \ {"staged", "restoring"}
    /\ Backups \subseteq Places \ {"install", "staged", "before", "restoring", "beforeRollback"}
  BY BackupsAssumption DEF Places, Hidden

(* A caller that does nothing is careful, and apart from every other. *)
LEMMA RestIsCareful ==
    ASSUME NEW c \in Callers, ~Active(c)
    PROVE  Careful(c) /\ \A d \in Callers : Apart(c, d) /\ Apart(d, c)
  BY DEF Active, At, Careful, Apart, Keeper, Swapped, Through, Staging, Opening

(* The same of one that does nothing after a step. *)
LEMMA RestNext ==
    ASSUME NEW c \in Callers, ~Active(c)'
    PROVE  Careful(c)' /\ \A d \in Callers : Apart(c, d)' /\ Apart(d, c)'
  BY DEF Active, At, Careful, Apart, Keeper, Swapped, Through, Staging, Opening

\* What is left of two calls, c and d.
Both(c, d) == Careful(c) /\ Careful(d) /\ Apart(c, d) /\ Apart(d, c)

(* A folder in somebody's hands is not whole. *)
LEMMA HeldIsTorn ==
    ASSUME FoldersFit, NEW p \in Places, disk[p].by \in Callers
    PROVE  ~disk[p].whole
  BY Kinds, CallersAssumption DEF FoldersFit

(* What is whole remains whole when only a folder with holes, or a staging one, changes. *)
LEMMA OneStays ==
    ASSUME OneLeft, NEW p \in Places, NEW f, Filled(p, f), ~disk[p].whole \/ p \in {"staged", "restoring"}
    PROVE  OneLeft'
  BY DEF OneLeft, Filled

(* A whole backup is one. *)
LEMMA SavedIsLeft ==
    ASSUME ~Bare, ~unsaved
    PROVE  OneLeft
  BY Named DEF Bare, OneLeft

(* A folder with holes is in the hands of who makes it, and not a folder that is missing. *)
LEMMA TornIs ==
    /\ ~Nothing.whole /\ Nothing.by = NoCaller
    /\ \A v, c : ~Torn(v, c).whole /\ Torn(v, c).by = c
    /\ \A v : \A c \in Callers : Torn(v, c) # Nothing
    /\ \A v, c : v # NoVersion => Torn(v, c) # Nothing
  BY CallersAssumption DEF Torn, Nothing

\* What a step of c does to itself and to what all share, and what it does to another call.
Own(c) == NoneHidden' /\ (LastStays => LastStays') /\ Careful(c)'
Other(c) == \A d \in Callers :
  d # c /\ Active(d) /\ ~(calls <= 1) /\ Both(c, d) => Careful(d)' /\ Apart(c, d)' /\ Apart(d, c)'

(* A step of c keeps the invariant if it keeps it of c and any other. *)
LEMMA StepOfTwo ==
    ASSUME TypeInv, RaceInv, NEW c \in Callers, Active(c), NEW q, Moved(c, q), UNCHANGED <<calls, raced>>,
           Few /\ NoneHidden /\ Careful(c) => Own(c) /\ Other(c),
           calls <= 1 => Alone /\ ~raced
    PROVE  RaceInv'
<1> SUFFICES ASSUME Few' PROVE RaceInv'
  BY DEF RaceInv
<1>1. Few
  BY DEF Few
<1>2. Counted /\ NoneHidden /\ LastStays /\ \A d \in Callers : Careful(d)
  BY <1>1 DEF RaceInv
<1>3. \A d \in Callers : d # c => (Active(d)' <=> Active(d))
  BY DEF Moved, Active
<1>4. Counted'
  BY <1>2, <1>3 DEF Counted
<1>5. NoneHidden' /\ LastStays' /\ Careful(c)'
  BY <1>1, <1>2 DEF Own
<1>6. ASSUME NEW d \in Callers, d # c PROVE Careful(d)' /\ Apart(c, d)' /\ Apart(d, c)'
  <2>1. CASE ~Active(d)
    BY <1>3, <1>6, <2>1, RestNext
  <2>2. CASE Active(d)
    <3>1. ~(calls <= 1)
      BY <1>6, <2>2 DEF Alone
    <3>2. Both(c, d)
      BY <1>1, <1>6 DEF RaceInv, Both
    <3> QED BY <1>1, <1>2, <1>6, <2>2, <3>1, <3>2 DEF Other
  <2> QED BY <2>1, <2>2
<1>7. ASSUME NEW d \in Callers, NEW e \in Callers, d # e, d # c, e # c PROVE Apart(d, e)'
  <2>1. ~Active(d) \/ ~Active(e)
    BY <1>2, <1>7 DEF Counted
  <2> QED BY <1>3, <1>7, <2>1, RestNext
<1> QED BY <1>4, <1>5, <1>6, <1>7 DEF RaceInv

(* A call that raises or fails harms nothing by that. *)
LEMMA RaceRaises ==
    ASSUME TypeInv, NEW c \in Callers, Active(c), Raised(c) \/ Failed(c), Few, NoneHidden, Careful(c),
           UNCHANGED <<disk, current, unsaved, raced, calls>>
    PROVE  Own(c) /\ Other(c)
<1>1. Bare' => Bare
  BY DEF Bare
<1>2. NoneHidden'
  BY <1>1 DEF NoneHidden
<1>3. LastStays => LastStays'
  BY DEF LastStays, OneLeft
<1>4. /\ call'[c].pc \in {"cleanup", "done"} /\ call'[c].result = "failed"
      /\ call'[c].op = call[c].op /\ call'[c].fn = call[c].fn /\ call'[c].keep = call[c].keep
  BY DEF Raised, Failed, Moved, Keeps
<1>5. Careful(c)'
  BY <1>4 DEF Careful, Keeper, Swapped, Through, At, Staging, Active
<1>6. ASSUME NEW d \in Callers, d # c, Both(c, d)
      PROVE  Careful(d)' /\ Apart(c, d)' /\ Apart(d, c)'
  <2>1. call'[d] = call[d]
    BY <1>6 DEF Raised, Failed, Moved
  <2>2. Careful(d)'
    BY <1>1, <1>6, <2>1 DEF Both, Careful, Keeper, Swapped, Through, Installs, RollsBack, Exists, At,
         Active
  <2>3. Apart(c, d)' /\ Apart(d, c)'
    BY <1>4, <1>6, <2>1 DEF Both, Apart, Keeper, Swapped, Through, Installs, RollsBack, At, Staging, Opening
  <2> QED BY <2>2, <2>3
<1> QED BY <1>2, <1>3, <1>5, <1>6 DEF Own, Other

(* The first guards. *)
LEMMA RaceCheck ==
    ASSUME TypeInv, NEW c \in Callers, Check(c), Few, NoneHidden, Careful(c)
    PROVE  Own(c) /\ Other(c)
<1>1. /\ At(c, "check") /\ UNCHANGED <<unsaved, raced, calls>> /\ CallFits(c) /\ FoldersFit /\ Active(c)
      /\ \A d \in Callers : At(d, "backingUp") => call[d].bak \in Backups
  BY CheckStep, HaveFits DEF history, CallFits, FoldersFit, At, Active
<1>2. ASSUME NEW q \in {"copy", "backup", "remove"}, UNCHANGED <<disk, current>>, Goes(c, q),
             q = "remove" => call[c].fn = "delete" \/ ~call[c].keep,
             q = "copy" \/ call[c].fn \in {"remove", "delete"}
      PROVE  Own(c) /\ Other(c)
  <2> USE Known, Named, TornIs, CallersAssumption
      DEF Careful, Apart, Keeper, Swapped, Through, Installs, RollsBack, Staging, Opening, At, Active,
         Exists, Keeps, Moved, Stage, Aside, Swapping, Goes
  <2>1. Bare' => Bare
    BY <1>1, <1>2 DEF Bare
  <2>2. NoneHidden'
    BY <1>1, <1>2, <2>1 DEF NoneHidden
  <2>3. LastStays => LastStays'
    BY <1>1, <1>2, <2>1 DEF LastStays, OneLeft
  <2>4. Careful(c)'
    BY <1>1, <1>2, <2>1, <2>2
  <2>5. ASSUME NEW d \in Callers, d # c, Active(d), ~(calls <= 1), Both(c, d)
        PROVE  Careful(d)' /\ Apart(c, d)' /\ Apart(d, c)'
    <3>1. Careful(d)'
      BY <1>1, <1>2, <2>1, <2>5 DEF Both
    <3>2. Apart(c, d)'
      BY <1>1, <1>2, <2>1, <2>5 DEF Both
    <3>3. Apart(d, c)'
      BY <1>1, <1>2, <2>1, <2>5 DEF Both
    <3> QED BY <3>1, <3>2, <3>3
  <2> HIDE DEF Careful, Apart, Active
  <2> QED BY <2>2, <2>3, <2>4, <2>5 DEF Own, Other
<1>3. CASE UNCHANGED <<disk, current, unsaved>> /\ (Raised(c) \/ Failed(c))
  BY <1>1, <1>3, RaceRaises
<1> QED BY <1>1, <1>2, <1>3, CheckStep DEF history

(* The copy of a version begins: of a backup with holes, when no other is left. *)
LEMMA RaceCopyBegins ==
    ASSUME TypeInv, NEW c \in Callers, CopyBegins(c), Few, NoneHidden, Careful(c)
    PROVE  Own(c) /\ Other(c)
<1>1. /\ At(c, "copy") /\ UNCHANGED <<unsaved, raced, calls>> /\ CallFits(c) /\ FoldersFit /\ Active(c)
      /\ \A d \in Callers : At(d, "backingUp") => call[d].bak \in Backups
  BY CopyBeginsStep, HaveFits DEF history, CallFits, FoldersFit, At, Active
<1>2. CASE /\ ~Exists(Stage(c)) /\ Filled(Stage(c), Torn(Origin(c).ver, c)) /\ UNCHANGED current
           /\ Moved(c, "copying") /\ call[c].fn \in Swapping
           /\ call'[c].fn = call[c].fn /\ call'[c].bak = call[c].bak
           /\ call'[c].replaced = call[c].replaced /\ call'[c].src = Origin(c)
  <2> USE Known, Named, TornIs, CallersAssumption
      DEF Careful, Apart, Keeper, Swapped, Through, Installs, RollsBack, Staging, Opening, At, Active,
         Exists, Keeps, Moved, Stage, Aside, Swapping, Filled, Origin
  <2>1. Bare' => Bare
    BY <1>1, <1>2 DEF Bare
  <2>2. NoneHidden'
    BY <1>1, <1>2, <2>1 DEF NoneHidden
  <2>3. LastStays => LastStays'
    BY <1>1, <1>2, <2>1 DEF LastStays, OneLeft
  <2>4. Careful(c)'
    <3>1. Origin(c).ver # NoVersion \/ call[c].fn # "install"
      BY <1>1, Kinds, VersionsAssumption DEF CallFits
    <3>2. Bare => ~Origin(c).whole \/ call[c].fn = "install"
      BY <1>1, <1>2 DEF Bare, CallFits, FoldersFit
    <3> QED BY <1>1, <1>2, <2>1, <3>1, <3>2
  <2>5. ASSUME NEW d \in Callers, d # c, Active(d), ~(calls <= 1), Both(c, d)
        PROVE  Careful(d)' /\ Apart(c, d)' /\ Apart(d, c)'
    <3>1. Careful(d)'
      BY <1>1, <1>2, <2>1, <2>5 DEF Both
    <3>2. Apart(c, d)'
      BY <1>1, <1>2, <2>1, <2>5 DEF Both
    <3>3. Apart(d, c)'
      BY <1>1, <1>2, <2>1, <2>5 DEF Both
    <3> QED BY <3>1, <3>2, <3>3
  <2> HIDE DEF Careful, Apart, Active
  <2> QED BY <2>2, <2>3, <2>4, <2>5 DEF Own, Other
<1>3. CASE UNCHANGED <<disk, current, unsaved>> /\ (Raised(c) \/ Failed(c))
  BY <1>1, <1>3, RaceRaises
<1> QED BY <1>1, <1>2, <1>3, CopyBeginsStep DEF history

(* The copy ends. *)
LEMMA RaceCopyEnds ==
    ASSUME TypeInv, NEW c \in Callers, CopyEnds(c), Few, NoneHidden, Careful(c)
    PROVE  Own(c) /\ Other(c)
<1>1. /\ At(c, "copying") /\ UNCHANGED <<unsaved, raced, calls>> /\ CallFits(c) /\ FoldersFit /\ Active(c)
      /\ \A d \in Callers : At(d, "backingUp") => call[d].bak \in Backups
  BY CopyEndsStep, HaveFits DEF history, CallFits, FoldersFit, At, Active
<1>2. ASSUME NEW f \in Folder, Filled(Stage(c), f), Goes(c, AfterCopy(c)), UNCHANGED current,
             call[c].fn \in Swapping, f.whole => call[c].src.whole,
             call[c].src.ver # NoVersion => f # Nothing
      PROVE  Own(c) /\ Other(c)
  <2> USE Known, Named, TornIs, CallersAssumption
      DEF Careful, Apart, Keeper, Swapped, Through, Installs, RollsBack, Staging, Opening, At, Active,
         Exists, Keeps, Moved, Stage, Aside, Swapping, Filled, Goes, AfterCopy
  <2>1. Bare' => Bare
    BY <1>1, <1>2 DEF Bare
  <2>2. NoneHidden'
    BY <1>1, <1>2, <2>1 DEF NoneHidden
  <2>3. LastStays => LastStays'
    BY <1>1, <1>2, <2>1 DEF LastStays, OneLeft
  <2>4. Careful(c)'
    BY <1>1, <1>2, <2>1, <2>2
  <2>5. ASSUME NEW d \in Callers, d # c, Active(d), ~(calls <= 1), Both(c, d)
        PROVE  Careful(d)' /\ Apart(c, d)' /\ Apart(d, c)'
    <3>1. Careful(d)'
      BY <1>1, <1>2, <2>1, <2>5 DEF Both
    <3>2. Apart(c, d)'
      BY <1>1, <1>2, <2>1, <2>5 DEF Both
    <3>3. Apart(d, c)'
      BY <1>1, <1>2, <2>1, <2>5 DEF Both
    <3> QED BY <3>1, <3>2, <3>3
  <2> HIDE DEF Careful, Apart, Active
  <2> QED BY <2>2, <2>3, <2>4, <2>5 DEF Own, Other
<1>3. CASE UNCHANGED <<disk, current, unsaved>> /\ (Raised(c) \/ Failed(c))
  BY <1>1, <1>3, RaceRaises
<1>4. /\ [call[c].src EXCEPT !.by = NoCaller] \in Folder /\ Torn(call[c].src.ver, NoCaller) \in Folder
      /\ [call[c].src EXCEPT !.by = NoCaller].whole => call[c].src.whole
      /\ ~Torn(call[c].src.ver, NoCaller).whole
      /\ call[c].src.ver # NoVersion =>
           [call[c].src EXCEPT !.by = NoCaller] # Nothing /\ Torn(call[c].src.ver, NoCaller) # Nothing
  <2>1. call[c].src \in Folder
    BY Known
  <2>2. /\ [call[c].src EXCEPT !.by = NoCaller] \in Folder
        /\ [call[c].src EXCEPT !.by = NoCaller].whole = call[c].src.whole
        /\ [call[c].src EXCEPT !.by = NoCaller].ver = call[c].src.ver
        /\ Torn(call[c].src.ver, NoCaller) \in Folder
    BY <2>1, Kinds
  <2>3. call[c].src.ver # NoVersion => [call[c].src EXCEPT !.by = NoCaller] # Nothing
    BY <2>2, Zenon DEF Nothing
  <2> QED BY <2>2, <2>3, TornIs
<1>5. UNCHANGED <<current, unsaved>> /\ call[c].fn \in Swapping
  BY CopyEndsStep DEF history
<1>6. CASE Filled(Stage(c), [call[c].src EXCEPT !.by = NoCaller]) /\ Goes(c, AfterCopy(c))
  BY <1>2, <1>4, <1>5, <1>6
<1>7. CASE Filled(Stage(c), Torn(call[c].src.ver, NoCaller)) /\ Goes(c, AfterCopy(c))
  BY <1>2, <1>4, <1>5, <1>7
<1> QED BY <1>3, <1>5, <1>6, <1>7, CopyEndsStep

(* Runtimes and models are there, or not. *)
LEMMA RaceProvision ==
    ASSUME TypeInv, NEW c \in Callers, Provision(c), Few, NoneHidden, Careful(c)
    PROVE  Own(c) /\ Other(c)
<1>1. /\ At(c, "provision") /\ UNCHANGED <<unsaved, raced, calls>> /\ CallFits(c) /\ FoldersFit /\ Active(c)
      /\ \A d \in Callers : At(d, "backingUp") => call[d].bak \in Backups
  BY ProvisionStep, HaveFits DEF history, CallFits, FoldersFit, At, Active
<1>2. ASSUME NEW q \in {"backup", "activate"}, UNCHANGED <<disk, current>>, call[c].fn = "install",
             Goes(c, q)
      PROVE  Own(c) /\ Other(c)
  <2> USE Known, Named, TornIs, CallersAssumption
      DEF Careful, Apart, Keeper, Swapped, Through, Installs, RollsBack, Staging, Opening, At, Active,
         Exists, Keeps, Moved, Stage, Aside, Swapping, Goes
  <2>1. Bare' => Bare
    BY <1>1, <1>2 DEF Bare
  <2>2. NoneHidden'
    BY <1>1, <1>2, <2>1 DEF NoneHidden
  <2>3. LastStays => LastStays'
    BY <1>1, <1>2, <2>1 DEF LastStays, OneLeft
  <2>4. Careful(c)'
    BY <1>1, <1>2, <2>1, <2>2
  <2>5. ASSUME NEW d \in Callers, d # c, Active(d), ~(calls <= 1), Both(c, d)
        PROVE  Careful(d)' /\ Apart(c, d)' /\ Apart(d, c)'
    <3>1. Careful(d)'
      BY <1>1, <1>2, <2>1, <2>5 DEF Both
    <3>2. Apart(c, d)'
      BY <1>1, <1>2, <2>1, <2>5 DEF Both
    <3>3. Apart(d, c)'
      BY <1>1, <1>2, <2>1, <2>5 DEF Both
    <3> QED BY <3>1, <3>2, <3>3
  <2> HIDE DEF Careful, Apart, Active
  <2> QED BY <2>2, <2>3, <2>4, <2>5 DEF Own, Other
<1>3. CASE UNCHANGED <<disk, current, unsaved>> /\ (Raised(c) \/ Failed(c))
  BY <1>1, <1>3, RaceRaises
<1> QED BY <1>1, <1>2, <1>3, ProvisionStep DEF history

(* A backup begins in a folder of its own. *)
LEMMA RaceBackupBegins ==
    ASSUME TypeInv, NEW c \in Callers, BackupBegins(c), Few, NoneHidden, Careful(c)
    PROVE  Own(c) /\ Other(c)
<1>1. /\ At(c, "backup") /\ UNCHANGED <<unsaved, raced, calls>> /\ CallFits(c) /\ FoldersFit /\ Active(c)
      /\ \A d \in Callers : At(d, "backingUp") => call[d].bak \in Backups
  BY BackupBeginsStep, HaveFits DEF history, CallFits, FoldersFit, At, Active
<1>2. ASSUME NEW b \in Backups \ used, Exists("install"), Filled(b, Torn(disk["install"].ver, c)),
             Moved(c, "backingUp"), call[c].fn \in {"install", "remove"},
             call'[c].fn = call[c].fn, call'[c].bak = b, call'[c].replaced = call[c].replaced,
             call'[c].src = disk["install"], UNCHANGED current
      PROVE  Own(c) /\ Other(c)
  <2> USE Known, Named, TornIs, CallersAssumption
      DEF Careful, Apart, Keeper, Swapped, Through, Installs, RollsBack, Staging, Opening, At, Active,
         Exists, Keeps, Moved, Stage, Aside, Swapping, Filled
  <2>1. Bare' => Bare
    BY <1>1, <1>2, Kinds DEF Bare, FoldersFit
  <2>2. NoneHidden'
    BY <1>1, <1>2, <2>1 DEF NoneHidden
  <2>3. LastStays => LastStays'
    BY <1>1, <1>2, OneStays, Kinds DEF LastStays, FoldersFit
  <2>4. Careful(c)'
    BY <1>1, <1>2, <2>1, <2>2
  <2>5. ASSUME NEW d \in Callers, d # c, Active(d), ~(calls <= 1), Both(c, d)
        PROVE  Careful(d)' /\ Apart(c, d)' /\ Apart(d, c)'
    <3>1. Careful(d)'
      <4>1. At(d, "backingUp") => call[d].bak # b
        BY <1>2, HaveFits DEF CallFits
      <4> QED BY <1>1, <1>2, <2>1, <2>5, <4>1 DEF Both
    <3>2. Apart(c, d)'
      BY <1>1, <1>2, <2>1, <2>5 DEF Both
    <3>3. Apart(d, c)'
      BY <1>1, <1>2, <2>1, <2>5 DEF Both
    <3> QED BY <3>1, <3>2, <3>3
  <2> HIDE DEF Careful, Apart, Active
  <2> QED BY <2>2, <2>3, <2>4, <2>5 DEF Own, Other
<1>3. CASE UNCHANGED <<disk, current, unsaved>> /\ (Raised(c) \/ Failed(c))
  BY <1>1, <1>3, RaceRaises
<1> QED BY <1>1, <1>2, <1>3, BackupBeginsStep DEF history

(* A backup ends: without a whole one the installed folder has holes. *)
LEMMA RaceBackupEnds ==
    ASSUME TypeInv, NEW c \in Callers, BackupEnds(c), Few, NoneHidden, Careful(c)
    PROVE  Own(c) /\ Other(c)
<1>1. /\ At(c, "backingUp") /\ UNCHANGED <<unsaved, raced, calls>> /\ CallFits(c) /\ FoldersFit /\ Active(c)
      /\ \A d \in Callers : At(d, "backingUp") => call[d].bak \in Backups
  BY BackupEndsStep, HaveFits DEF history, CallFits, FoldersFit, At, Active
<1>2. CASE /\ BackupUndisturbed(c) /\ Filled(call[c].bak, [call[c].src EXCEPT !.by = NoCaller])
           /\ Goes(c, AfterBackup(c)) /\ UNCHANGED current /\ call[c].bak \in Backups
           /\ call[c].fn \in {"install", "remove"}
  <2> USE Known, Named, TornIs, CallersAssumption
      DEF Careful, Apart, Keeper, Swapped, Through, Installs, RollsBack, Staging, Opening, At, Active,
         Exists, Keeps, Moved, Stage, Aside, Swapping, Filled, Goes, AfterBackup
  <2>1. Bare' => Bare
    <3>1. ~unsaved => ~disk[call[c].bak].whole
      BY <1>1, <1>2, HeldIsTorn
    <3> QED BY <1>1, <1>2, <3>1 DEF Bare
  <2>2. NoneHidden'
    BY <1>1, <1>2, <2>1 DEF NoneHidden
  <2>3. LastStays => LastStays'
    <3>1. ~unsaved => ~disk[call[c].bak].whole
      BY <1>1, <1>2, HeldIsTorn
    <3>2. call[c].bak \in Places /\ UNCHANGED <<current, unsaved, raced>>
      BY <1>1, <1>2
    <3> QED BY <1>2, <3>1, <3>2, OneStays DEF LastStays
  <2>4. Careful(c)'
    <3>1. disk'[call[c].bak].whole = disk["install"].whole
      BY <1>2, Kinds DEF BackupUndisturbed
    <3>2. Bare' => ~disk["install"].whole
      BY <1>2, <3>1 DEF Bare
    <3> QED BY <1>1, <1>2, <2>1, <3>2, BackupsAssumption
  <2>5. ASSUME NEW d \in Callers, d # c, Active(d), ~(calls <= 1), Both(c, d)
        PROVE  Careful(d)' /\ Apart(c, d)' /\ Apart(d, c)'
    <3>1. Careful(d)'
      <4>1. At(d, "backingUp") /\ ~unsaved => call[d].bak # call[c].bak
        BY <1>1, <2>5 DEF Both
      <4> QED BY <1>1, <1>2, <2>1, <2>5, <4>1 DEF Both
    <3>2. Apart(c, d)'
      <4>1. disk'[call[c].bak].whole = disk["install"].whole
        BY <1>2, Kinds DEF BackupUndisturbed
      <4>2. Bare' => ~disk["install"].whole
        BY <1>2, <4>1 DEF Bare
      <4> QED BY <1>1, <1>2, <2>1, <2>5, <4>2 DEF Both, BackupUndisturbed
    <3>3. Apart(d, c)'
      BY <1>1, <1>2, <2>1, <2>5 DEF Both
    <3> QED BY <3>1, <3>2, <3>3
  <2> HIDE DEF Careful, Apart, Active
  <2> QED BY <2>2, <2>3, <2>4, <2>5 DEF Own, Other
<1>3. CASE /\ ~BackupUndisturbed(c) /\ Exists("install")
           /\ Filled(call[c].bak, Torn(call[c].src.ver, NoCaller))
           /\ Goes(c, AfterBackup(c)) /\ UNCHANGED current /\ call[c].bak \in Backups
           /\ call[c].fn \in {"install", "remove"}
  <2> USE Known, Named, TornIs, CallersAssumption
      DEF Careful, Apart, Keeper, Swapped, Through, Installs, RollsBack, Staging, Opening, At, Active,
         Exists, Keeps, Moved, Stage, Aside, Swapping, Filled, Goes, AfterBackup
  <2>1. Bare' => Bare
    <3>1. ~unsaved => ~disk[call[c].bak].whole
      BY <1>1, <1>3, HeldIsTorn
    <3> QED BY <1>1, <1>3, <3>1 DEF Bare
  <2>2. NoneHidden'
    BY <1>1, <1>3, <2>1 DEF NoneHidden
  <2>3. LastStays => LastStays'
    <3>1. ~unsaved => ~disk[call[c].bak].whole
      BY <1>1, <1>3, HeldIsTorn
    <3>2. call[c].bak \in Places /\ UNCHANGED <<current, unsaved, raced>>
      BY <1>1, <1>3
    <3> QED BY <1>3, <3>1, <3>2, OneStays DEF LastStays
  <2>4. Careful(c)'
    <3>1. Bare => disk["install"] # call[c].src
      BY <1>1, <1>3 DEF Bare, BackupUndisturbed
    <3> QED BY <1>1, <1>3, <2>1, <3>1, BackupsAssumption
  <2>5. ASSUME NEW d \in Callers, d # c, Active(d), ~(calls <= 1), Both(c, d)
        PROVE  Careful(d)' /\ Apart(c, d)' /\ Apart(d, c)'
    <3>1. Careful(d)'
      <4>1. At(d, "backingUp") /\ ~unsaved => call[d].bak # call[c].bak
        BY <1>1, <2>5 DEF Both
      <4> QED BY <1>1, <1>3, <2>1, <2>5, <4>1 DEF Both
    <3>2. Apart(c, d)'
      BY <1>1, <1>3, <2>1, <2>5 DEF Both
    <3>3. Apart(d, c)'
      BY <1>1, <1>3, <2>1, <2>5 DEF Both
    <3> QED BY <3>1, <3>2, <3>3
  <2> HIDE DEF Careful, Apart, Active
  <2> QED BY <2>2, <2>3, <2>4, <2>5 DEF Own, Other
<1>4. CASE UNCHANGED <<disk, current, unsaved>> /\ (Raised(c) \/ Failed(c))
  BY <1>1, <1>4, RaceRaises
<1> QED BY <1>1, <1>2, <1>3, <1>4, BackupEndsStep DEF history

(* The installed version goes aside: a whole one only when a backup is whole. *)
LEMMA RaceSetAside ==
    ASSUME TypeInv, NEW c \in Callers, SetAside(c), Few, NoneHidden, Careful(c)
    PROVE  Own(c) /\ Other(c)
<1>1. /\ At(c, "setAside") /\ UNCHANGED <<unsaved, raced, calls>> /\ CallFits(c) /\ FoldersFit /\ Active(c)
      /\ \A d \in Callers : At(d, "backingUp") => call[d].bak \in Backups
  BY SetAsideStep, HaveFits DEF history, CallFits, FoldersFit, At, Active
<1>2. CASE /\ call[c].fn = "rollback" /\ ~Exists("install") /\ UNCHANGED <<disk, current>>
           /\ Aside2(c, FALSE)
  <2> USE Known, Named, TornIs, CallersAssumption
      DEF Careful, Apart, Keeper, Swapped, Through, Installs, RollsBack, Staging, Opening, At, Active,
         Exists, Keeps, Moved, Stage, Aside, Swapping, Aside2
  <2>1. Bare' => Bare
    BY <1>1, <1>2 DEF Bare
  <2>2. NoneHidden'
    BY <1>1, <1>2, <2>1 DEF NoneHidden
  <2>3. LastStays => LastStays'
    BY <1>1, <1>2, <2>1 DEF LastStays, OneLeft
  <2>4. Careful(c)'
    BY <1>1, <1>2, <2>1, <2>2
  <2>5. ASSUME NEW d \in Callers, d # c, Active(d), ~(calls <= 1), Both(c, d)
        PROVE  Careful(d)' /\ Apart(c, d)' /\ Apart(d, c)'
    <3>1. Careful(d)'
      BY <1>1, <1>2, <2>1, <2>5 DEF Both
    <3>2. Apart(c, d)'
      BY <1>1, <1>2, <2>1, <2>5 DEF Both
    <3>3. Apart(d, c)'
      BY <1>1, <1>2, <2>1, <2>5 DEF Both
    <3> QED BY <3>1, <3>2, <3>3
  <2> HIDE DEF Careful, Apart, Active
  <2> QED BY <2>2, <2>3, <2>4, <2>5 DEF Own, Other
<1>3. CASE /\ CanRename("install", Aside(c)) /\ Shifted("install", Aside(c)) /\ UNCHANGED current
           /\ Aside2(c, TRUE) /\ call[c].fn \in Swapping
  <2> USE Known, Named, TornIs, CallersAssumption
      DEF Careful, Apart, Keeper, Swapped, Through, Installs, RollsBack, Staging, Opening, At, Active,
         Exists, Keeps, Moved, Stage, Aside, Swapping, Aside2, CanRename, Shifted
  <2>1. Bare' => Bare
    BY <1>1, <1>3 DEF Bare
  <2>2. NoneHidden'
    BY <1>1, <1>3, <2>1 DEF NoneHidden
  <2>3. LastStays => LastStays'
    BY <1>1, <1>3, <2>1 DEF LastStays, OneLeft
  <2>4. Careful(c)'
    BY <1>1, <1>3, <2>1, <2>2
  <2>5. ASSUME NEW d \in Callers, d # c, Active(d), ~(calls <= 1), Both(c, d)
        PROVE  Careful(d)' /\ Apart(c, d)' /\ Apart(d, c)'
    <3>1. Careful(d)'
      BY <1>1, <1>3, <2>1, <2>5 DEF Both
    <3>2. Apart(c, d)'
      BY <1>1, <1>3, <2>1, <2>5 DEF Both
    <3>3. Apart(d, c)'
      BY <1>1, <1>3, <2>1, <2>5 DEF Both
    <3> QED BY <3>1, <3>2, <3>3
  <2> HIDE DEF Careful, Apart, Active
  <2> QED BY <2>2, <2>3, <2>4, <2>5 DEF Own, Other
<1>4. CASE UNCHANGED <<disk, current, unsaved>> /\ (Raised(c) \/ Failed(c))
  BY <1>1, <1>4, RaceRaises
<1> QED BY <1>1, <1>2, <1>3, <1>4, SetAsideStep DEF history

(* The staged version is activated. *)
LEMMA RaceActivate ==
    ASSUME TypeInv, NEW c \in Callers, Activate(c), Few, NoneHidden, Careful(c)
    PROVE  Own(c) /\ Other(c)
<1>1. /\ At(c, "activate") /\ UNCHANGED <<unsaved, raced, calls>> /\ CallFits(c) /\ FoldersFit /\ Active(c)
      /\ \A d \in Callers : At(d, "backingUp") => call[d].bak \in Backups
  BY ActivateStep, HaveFits DEF history, CallFits, FoldersFit, At, Active
<1>2. CASE /\ CanRename(Stage(c), "install") /\ Shifted(Stage(c), "install")
           /\ current' = (IF disk[Stage(c)].whole THEN disk[Stage(c)].ver
                          ELSE IF call[c].fn = "rollback" THEN NoVersion ELSE current)
           /\ Moved(c, "cleanup") /\ Keeps(c) /\ call'[c].result = "ok" /\ call[c].fn \in Swapping
  <2> USE Known, Named, TornIs, CallersAssumption
      DEF Careful, Apart, Keeper, Swapped, Through, Installs, RollsBack, Staging, Opening, At, Active,
         Exists, Keeps, Moved, Stage, Aside, Swapping, CanRename, Shifted
  <2>1. Bare' => Bare
    BY <1>1, <1>2 DEF Bare
  <2>2. NoneHidden'
    BY <1>1, <1>2, <2>1 DEF NoneHidden
  <2>3. LastStays => LastStays'
    <3> SUFFICES ASSUME LastStays, raced, current' # NoVersion, ~unsaved PROVE OneLeft'
      BY <1>1 DEF LastStays
    <3>1. CASE disk[Stage(c)].whole
      BY <1>2, <3>1 DEF OneLeft
    <3>2. CASE ~disk[Stage(c)].whole
      <4>1. PICK p \in Places \ {"staged", "restoring"} : disk[p].whole
        BY <1>2, <3>2 DEF LastStays, OneLeft
      <4>2. p # "install" /\ p # Stage(c)
        BY <1>2, <4>1
      <4> QED BY <1>2, <4>1, <4>2 DEF OneLeft
    <3> QED BY <3>1, <3>2
  <2>4. Careful(c)'
    BY <1>1, <1>2, <2>1, <2>2
  <2>5. ASSUME NEW d \in Callers, d # c, Active(d), ~(calls <= 1), Both(c, d)
        PROVE  Careful(d)' /\ Apart(c, d)' /\ Apart(d, c)'
    <3>1. Careful(d)'
      BY <1>1, <1>2, <2>1, <2>5 DEF Both, NoneHidden
    <3>2. Apart(c, d)'
      BY <1>1, <1>2, <2>1, <2>5 DEF Both
    <3>3. Apart(d, c)'
      BY <1>1, <1>2, <2>1, <2>5 DEF Both
    <3> QED BY <3>1, <3>2, <3>3
  <2> HIDE DEF Careful, Apart, Active
  <2> QED BY <2>2, <2>3, <2>4, <2>5 DEF Own, Other
<1>3. CASE UNCHANGED <<disk, current>> /\ Goes(c, "recover") /\ call[c].fn \in Swapping
  <2> USE Known, Named, TornIs, CallersAssumption
      DEF Careful, Apart, Keeper, Swapped, Through, Installs, RollsBack, Staging, Opening, At, Active,
         Exists, Keeps, Moved, Stage, Aside, Swapping, Goes
  <2>1. Bare' => Bare
    BY <1>1, <1>3 DEF Bare
  <2>2. NoneHidden'
    BY <1>1, <1>3, <2>1 DEF NoneHidden
  <2>3. LastStays => LastStays'
    BY <1>1, <1>3, <2>1 DEF LastStays, OneLeft
  <2>4. Careful(c)'
    BY <1>1, <1>3, <2>1, <2>2
  <2>5. ASSUME NEW d \in Callers, d # c, Active(d), ~(calls <= 1), Both(c, d)
        PROVE  Careful(d)' /\ Apart(c, d)' /\ Apart(d, c)'
    <3>1. Careful(d)'
      BY <1>1, <1>3, <2>1, <2>5 DEF Both
    <3>2. Apart(c, d)'
      BY <1>1, <1>3, <2>1, <2>5 DEF Both
    <3>3. Apart(d, c)'
      BY <1>1, <1>3, <2>1, <2>5 DEF Both
    <3> QED BY <3>1, <3>2, <3>3
  <2> HIDE DEF Careful, Apart, Active
  <2> QED BY <2>2, <2>3, <2>4, <2>5 DEF Own, Other
<1>4. CASE UNCHANGED <<disk, current, unsaved>> /\ (Raised(c) \/ Failed(c))
  BY <1>1, <1>4, RaceRaises
<1> QED BY <1>1, <1>2, <1>3, <1>4, ActivateStep DEF history

(* The version set aside is put back. *)
LEMMA RaceRecover ==
    ASSUME TypeInv, NEW c \in Callers, Recover(c), Few, NoneHidden, Careful(c)
    PROVE  Own(c) /\ Other(c)
<1>1. /\ At(c, "recover") /\ UNCHANGED <<unsaved, raced, calls>> /\ CallFits(c) /\ FoldersFit /\ Active(c)
      /\ \A d \in Callers : At(d, "backingUp") => call[d].bak \in Backups
  BY RecoverStep, HaveFits DEF history, CallFits, FoldersFit, At, Active
<1>2. CASE /\ HasAside(c) /\ CanRename(Aside(c), "install") /\ Shifted(Aside(c), "install")
           /\ Raised(c) /\ UNCHANGED current /\ call[c].fn \in Swapping
  <2> USE Known, Named, TornIs, CallersAssumption
      DEF Careful, Apart, Keeper, Swapped, Through, Installs, RollsBack, Staging, Opening, At, Active,
         Exists, Keeps, Moved, Stage, Aside, Swapping, HasAside, CanRename, Shifted, Raised
  <2>1. Bare' => Bare
    BY <1>1, <1>2 DEF Bare
  <2>2. NoneHidden'
    BY <1>1, <1>2, <2>1 DEF NoneHidden
  <2>3. LastStays => LastStays'
    BY <1>1, <1>2, <2>1 DEF LastStays, OneLeft
  <2>4. Careful(c)'
    BY <1>1, <1>2, <2>1, <2>2
  <2>5. ASSUME NEW d \in Callers, d # c, Active(d), ~(calls <= 1), Both(c, d)
        PROVE  Careful(d)' /\ Apart(c, d)' /\ Apart(d, c)'
    <3>1. Careful(d)'
      BY <1>1, <1>2, <2>1, <2>5 DEF Both, NoneHidden
    <3>2. Apart(c, d)'
      BY <1>1, <1>2, <2>1, <2>5 DEF Both
    <3>3. Apart(d, c)'
      BY <1>1, <1>2, <2>1, <2>5 DEF Both
    <3> QED BY <3>1, <3>2, <3>3
  <2> HIDE DEF Careful, Apart, Active
  <2> QED BY <2>2, <2>3, <2>4, <2>5 DEF Own, Other
<1>3. CASE UNCHANGED <<disk, current, unsaved>> /\ (Raised(c) \/ Failed(c))
  BY <1>1, <1>3, RaceRaises
<1> QED BY <1>1, <1>2, <1>3, RecoverStep DEF history

(* The staging folder is removed, whoever filled it. *)
LEMMA RaceCleanup ==
    ASSUME TypeInv, NEW c \in Callers, Cleanup(c), Few, NoneHidden, Careful(c)
    PROVE  Own(c) /\ Other(c)
<1>1. /\ At(c, "cleanup") /\ UNCHANGED <<unsaved, raced, calls>> /\ CallFits(c) /\ FoldersFit /\ Active(c)
      /\ \A d \in Callers : At(d, "backingUp") => call[d].bak \in Backups
  BY CleanupStep, HaveFits DEF history, CallFits, FoldersFit, At, Active
<1>2. CASE /\ Exists(Stage(c)) /\ Filled(Stage(c), Torn(disk[Stage(c)].ver, c)) /\ Goes(c, "cleaning")
           /\ UNCHANGED current /\ call[c].fn \in Swapping
  <2> USE Known, Named, TornIs, CallersAssumption
      DEF Careful, Apart, Keeper, Swapped, Through, Installs, RollsBack, Staging, Opening, At, Active,
         Exists, Keeps, Moved, Stage, Aside, Swapping, Filled, Goes
  <2>1. Bare' => Bare
    BY <1>1, <1>2 DEF Bare
  <2>2. NoneHidden'
    BY <1>1, <1>2, <2>1 DEF NoneHidden
  <2>3. LastStays => LastStays'
    BY <1>1, <1>2, <2>1 DEF LastStays, OneLeft
  <2>4. Careful(c)'
    BY <1>1, <1>2, <2>1, <2>2
  <2>5. ASSUME NEW d \in Callers, d # c, Active(d), ~(calls <= 1), Both(c, d)
        PROVE  Careful(d)' /\ Apart(c, d)' /\ Apart(d, c)'
    <3>1. Careful(d)'
      BY <1>1, <1>2, <2>1, <2>5 DEF Both
    <3>2. Apart(c, d)'
      BY <1>1, <1>2, <2>1, <2>5 DEF Both
    <3>3. Apart(d, c)'
      BY <1>1, <1>2, <2>1, <2>5 DEF Both
    <3> QED BY <3>1, <3>2, <3>3
  <2> HIDE DEF Careful, Apart, Active
  <2> QED BY <2>2, <2>3, <2>4, <2>5 DEF Own, Other
<1>3. CASE /\ UNCHANGED <<disk, current>> /\ call[c].result = "ok" /\ Goes(c, "discard")
           /\ call[c].fn \in Swapping
  <2> USE Known, Named, TornIs, CallersAssumption
      DEF Careful, Apart, Keeper, Swapped, Through, Installs, RollsBack, Staging, Opening, At, Active,
         Exists, Keeps, Moved, Stage, Aside, Swapping, Goes
  <2>1. Bare' => Bare
    BY <1>1, <1>3 DEF Bare
  <2>2. NoneHidden'
    BY <1>1, <1>3, <2>1 DEF NoneHidden
  <2>3. LastStays => LastStays'
    BY <1>1, <1>3, <2>1 DEF LastStays, OneLeft
  <2>4. Careful(c)'
    BY <1>1, <1>3, <2>1, <2>2
  <2>5. ASSUME NEW d \in Callers, d # c, Active(d), ~(calls <= 1), Both(c, d)
        PROVE  Careful(d)' /\ Apart(c, d)' /\ Apart(d, c)'
    <3>1. Careful(d)'
      BY <1>1, <1>3, <2>1, <2>5 DEF Both
    <3>2. Apart(c, d)'
      BY <1>1, <1>3, <2>1, <2>5 DEF Both
    <3>3. Apart(d, c)'
      BY <1>1, <1>3, <2>1, <2>5 DEF Both
    <3> QED BY <3>1, <3>2, <3>3
  <2> HIDE DEF Careful, Apart, Active
  <2> QED BY <2>2, <2>3, <2>4, <2>5 DEF Own, Other
<1>4. CASE UNCHANGED <<disk, current, unsaved>> /\ (Raised(c) \/ Failed(c))
  BY <1>1, <1>4, RaceRaises
<1> QED BY <1>1, <1>2, <1>3, <1>4, CleanupStep DEF history

(* It is gone. *)
LEMMA RaceCleaned ==
    ASSUME TypeInv, NEW c \in Callers, Cleaned(c), Few, NoneHidden, Careful(c)
    PROVE  Own(c) /\ Other(c)
<1>1. /\ At(c, "cleaning") /\ UNCHANGED <<unsaved, raced, calls>> /\ CallFits(c) /\ FoldersFit /\ Active(c)
      /\ \A d \in Callers : At(d, "backingUp") => call[d].bak \in Backups
  BY CleanedStep, HaveFits DEF history, CallFits, FoldersFit, At, Active
<1>2. CASE /\ disk[Stage(c)].by = c /\ Filled(Stage(c), Nothing) /\ UNCHANGED current
           /\ call[c].fn \in Swapping
           /\ \/ call[c].result = "ok" /\ Goes(c, "discard")
              \/ call[c].result # "ok" /\ Failed(c)
  <2> USE Known, Named, TornIs, CallersAssumption
      DEF Careful, Apart, Keeper, Swapped, Through, Installs, RollsBack, Staging, Opening, At, Active,
         Exists, Keeps, Moved, Stage, Aside, Swapping, Filled, Goes, Failed
  <2>1. Bare' => Bare
    BY <1>1, <1>2 DEF Bare
  <2>2. NoneHidden'
    BY <1>1, <1>2, <2>1 DEF NoneHidden
  <2>3. LastStays => LastStays'
    BY <1>1, <1>2, <2>1 DEF LastStays, OneLeft
  <2>4. Careful(c)'
    BY <1>1, <1>2, <2>1, <2>2
  <2>5. ASSUME NEW d \in Callers, d # c, Active(d), ~(calls <= 1), Both(c, d)
        PROVE  Careful(d)' /\ Apart(c, d)' /\ Apart(d, c)'
    <3>1. Careful(d)'
      BY <1>1, <1>2, <2>1, <2>5 DEF Both
    <3>2. Apart(c, d)'
      BY <1>1, <1>2, <2>1, <2>5 DEF Both
    <3>3. Apart(d, c)'
      BY <1>1, <1>2, <2>1, <2>5 DEF Both
    <3> QED BY <3>1, <3>2, <3>3
  <2> HIDE DEF Careful, Apart, Active
  <2> QED BY <2>2, <2>3, <2>4, <2>5 DEF Own, Other
<1>3. CASE UNCHANGED <<disk, current, unsaved>> /\ (Raised(c) \/ Failed(c))
  BY <1>1, <1>3, RaceRaises
<1> QED BY <1>1, <1>2, <1>3, CleanedStep DEF history

(* The version set aside goes: without a whole backup another one is installed by then. *)
LEMMA RaceDiscard ==
    ASSUME TypeInv, NEW c \in Callers, Discard(c), Few, NoneHidden, Careful(c)
    PROVE  Own(c) /\ Other(c)
<1>1. /\ At(c, "discard") /\ UNCHANGED <<unsaved, raced, calls>> /\ CallFits(c) /\ FoldersFit /\ Active(c)
      /\ \A d \in Callers : At(d, "backingUp") => call[d].bak \in Backups
  BY DiscardStep, HaveFits DEF history, CallFits, FoldersFit, At, Active
<1>2. CASE /\ HasAside(c) /\ Exists(Aside(c)) /\ Filled(Aside(c), Torn(disk[Aside(c)].ver, c))
           /\ Goes(c, "discarding") /\ UNCHANGED current /\ call[c].fn \in Swapping
  <2> USE Known, Named, TornIs, CallersAssumption
      DEF Careful, Apart, Keeper, Swapped, Through, Installs, RollsBack, Staging, Opening, At, Active,
         Exists, Keeps, Moved, Stage, Aside, Swapping, HasAside, Filled, Goes
  <2>1. Bare' => Bare
    BY <1>1, <1>2 DEF Bare
  <2>2. NoneHidden'
    BY <1>1, <1>2, <2>1 DEF NoneHidden
  <2>3. LastStays => LastStays'
    <3> SUFFICES ASSUME LastStays, raced, current # NoVersion, ~unsaved PROVE OneLeft'
      BY <1>1, <1>2 DEF LastStays
    <3>1. CASE \E b \in Backups : disk[b].whole
      BY <1>2, <3>1 DEF OneLeft
    <3>2. CASE Bare /\ call[c].fn = "install"
      BY <1>1, <1>2, <3>2, OneStays DEF LastStays, NoneHidden
    <3>3. CASE Bare /\ call[c].fn = "rollback"
      BY <1>1, <1>2, <3>3 DEF OneLeft
    <3> QED BY <1>2, <3>1, <3>2, <3>3 DEF Bare
  <2>4. Careful(c)'
    BY <1>1, <1>2, <2>1, <2>2
  <2>5. ASSUME NEW d \in Callers, d # c, Active(d), ~(calls <= 1), Both(c, d)
        PROVE  Careful(d)' /\ Apart(c, d)' /\ Apart(d, c)'
    <3>1. Careful(d)'
      BY <1>1, <1>2, <2>1, <2>5 DEF Both
    <3>2. Apart(c, d)'
      BY <1>1, <1>2, <2>1, <2>5 DEF Both
    <3>3. Apart(d, c)'
      BY <1>1, <1>2, <2>1, <2>5 DEF Both
    <3> QED BY <3>1, <3>2, <3>3
  <2> HIDE DEF Careful, Apart, Active
  <2> QED BY <2>2, <2>3, <2>4, <2>5 DEF Own, Other
<1>3. CASE UNCHANGED <<disk, current>> /\ Returned(c) /\ call[c].fn \in Swapping
  <2> USE Known, Named, TornIs, CallersAssumption
      DEF Careful, Apart, Keeper, Swapped, Through, Installs, RollsBack, Staging, Opening, At, Active,
         Exists, Keeps, Moved, Stage, Aside, Swapping, Returned, Answered
  <2>1. Bare' => Bare
    BY <1>1, <1>3 DEF Bare
  <2>2. NoneHidden'
    BY <1>1, <1>3, <2>1 DEF NoneHidden
  <2>3. LastStays => LastStays'
    BY <1>1, <1>3, <2>1 DEF LastStays, OneLeft
  <2>4. Careful(c)'
    BY <1>1, <1>3, <2>1, <2>2
  <2>5. ASSUME NEW d \in Callers, d # c, Active(d), ~(calls <= 1), Both(c, d)
        PROVE  Careful(d)' /\ Apart(c, d)' /\ Apart(d, c)'
    <3>1. Careful(d)'
      BY <1>1, <1>3, <2>1, <2>5 DEF Both
    <3>2. Apart(c, d)'
      BY <1>1, <1>3, <2>1, <2>5 DEF Both
    <3>3. Apart(d, c)'
      BY <1>1, <1>3, <2>1, <2>5 DEF Both
    <3> QED BY <3>1, <3>2, <3>3
  <2> HIDE DEF Careful, Apart, Active
  <2> QED BY <2>2, <2>3, <2>4, <2>5 DEF Own, Other
<1>4. CASE UNCHANGED <<disk, current, unsaved>> /\ (Raised(c) \/ Failed(c))
  BY <1>1, <1>4, RaceRaises
<1> QED BY <1>1, <1>2, <1>3, <1>4, DiscardStep DEF history

(* It is gone. *)
LEMMA RaceDiscarded ==
    ASSUME TypeInv, NEW c \in Callers, Discarded(c), Few, NoneHidden, Careful(c)
    PROVE  Own(c) /\ Other(c)
<1>1. /\ At(c, "discarding") /\ UNCHANGED <<unsaved, raced, calls>> /\ CallFits(c) /\ FoldersFit /\ Active(c)
      /\ \A d \in Callers : At(d, "backingUp") => call[d].bak \in Backups
  BY DiscardedStep, HaveFits DEF history, CallFits, FoldersFit, At, Active
<1>2. CASE /\ disk[Aside(c)].by = c /\ Filled(Aside(c), Nothing) /\ Returned(c) /\ UNCHANGED current
           /\ call[c].fn \in Swapping
  <2> USE Known, Named, TornIs, CallersAssumption
      DEF Careful, Apart, Keeper, Swapped, Through, Installs, RollsBack, Staging, Opening, At, Active,
         Exists, Keeps, Moved, Stage, Aside, Swapping, Filled, Returned, Answered
  <2>1. Bare' => Bare
    BY <1>1, <1>2 DEF Bare
  <2>2. NoneHidden'
    BY <1>1, <1>2, <2>1 DEF NoneHidden
  <2>3. LastStays => LastStays'
    BY <1>1, <1>2, HeldIsTorn, OneStays DEF LastStays
  <2>4. Careful(c)'
    BY <1>1, <1>2, <2>1, <2>2
  <2>5. ASSUME NEW d \in Callers, d # c, Active(d), ~(calls <= 1), Both(c, d)
        PROVE  Careful(d)' /\ Apart(c, d)' /\ Apart(d, c)'
    <3>1. Careful(d)'
      <4>1. Aside(c) = "before" \/ ~Keeper(d)
        BY <1>1, <1>2, <2>5 DEF Both
      <4> QED BY <1>1, <1>2, <2>1, <2>5, <4>1 DEF Both
    <3>2. Apart(c, d)'
      BY <1>1, <1>2, <2>1, <2>5 DEF Both
    <3>3. Apart(d, c)'
      BY <1>1, <1>2, <2>1, <2>5 DEF Both
    <3> QED BY <3>1, <3>2, <3>3
  <2> HIDE DEF Careful, Apart, Active
  <2> QED BY <2>2, <2>3, <2>4, <2>5 DEF Own, Other
<1>3. CASE UNCHANGED <<disk, current, unsaved>> /\ (Raised(c) \/ Failed(c))
  BY <1>1, <1>3, RaceRaises
<1> QED BY <1>1, <1>2, <1>3, DiscardedStep DEF history

(* A folder is emptied: a client gives its version up, or has saved one. *)
LEMMA RaceRemove ==
    ASSUME TypeInv, NEW c \in Callers, Remove(c), Few, NoneHidden, Careful(c)
    PROVE  Own(c) /\ Other(c)
<1>1. /\ At(c, "remove") /\ UNCHANGED <<raced, calls>> /\ CallFits(c) /\ FoldersFit /\ Active(c)
      /\ \A d \in Callers : At(d, "backingUp") => call[d].bak \in Backups
  BY RemoveStep, HaveFits DEF history, CallFits, FoldersFit, At, Active
<1>2. CASE /\ Exists(Target(c)) /\ Filled(Target(c), Torn(disk[Target(c)].ver, c))
           /\ current' = (IF GivesUp(c) THEN NoVersion ELSE current) /\ Goes(c, "removing")
           /\ unsaved' = (unsaved \/ (call[c].op # "install" /\
                          (call[c].keep => (raced /\ ~disk[call[c].bak].whole))))
           /\ call[c].fn \in {"remove", "delete"}
  <2> USE Known, Named, TornIs, CallersAssumption
      DEF Careful, Apart, Keeper, Swapped, Through, Installs, RollsBack, Staging, Opening, At, Active,
         Exists, Keeps, Moved, Stage, Aside, Swapping, Filled, Goes, Target
  <2>1. Bare' => Bare
    BY <1>1, <1>2 DEF Bare
  <2>2. NoneHidden'
    BY <1>1, <1>2, <2>1 DEF NoneHidden
  <2>3. LastStays => LastStays'
    <3> SUFFICES ASSUME LastStays, raced, current' # NoVersion, ~unsaved' PROVE OneLeft'
      BY <1>1 DEF LastStays
    <3>1. call[c].fn = "remove" /\ call[c].keep
      BY <1>1, <1>2 DEF GivesUp
    <3>2. call[c].bak \in Backups /\ disk[call[c].bak].whole
      BY <1>1, <1>2, <3>1
    <3> QED BY <1>2, <3>1, <3>2 DEF OneLeft
  <2>4. Careful(c)'
    BY <1>1, <1>2, <2>1, <2>2
  <2>5. ASSUME NEW d \in Callers, d # c, Active(d), ~(calls <= 1), Both(c, d)
        PROVE  Careful(d)' /\ Apart(c, d)' /\ Apart(d, c)'
    <3>1. Careful(d)'
      <4>1. ~unsaved' => ~unsaved /\ call[c].fn = "remove"
        BY <1>1, <1>2
      <4>2. Bare' => current' = NoVersion
        <5>1. CASE call[c].keep
          <6>1. ~unsaved' => call[c].bak \in Backups /\ disk'[call[c].bak].whole
            BY <1>1, <1>2, <2>5, <4>1, <5>1 DEF Few
          <6> QED BY <6>1 DEF Bare
        <5>2. CASE ~call[c].keep
          BY <1>2, <4>1, <5>2 DEF GivesUp, Bare
        <5> QED BY <5>1, <5>2
      <4> QED BY <1>1, <1>2, <2>1, <2>5, <4>1, <4>2 DEF Both
    <3>2. Apart(c, d)'
      BY <1>1, <1>2, <2>1, <2>5 DEF Both
    <3>3. Apart(d, c)'
      BY <1>1, <1>2, <2>1, <2>5 DEF Both
    <3> QED BY <3>1, <3>2, <3>3
  <2> HIDE DEF Careful, Apart, Active
  <2> QED BY <2>2, <2>3, <2>4, <2>5 DEF Own, Other
<1>3. CASE UNCHANGED <<disk, current, unsaved>> /\ (Raised(c) \/ Failed(c))
  BY <1>1, <1>3, RaceRaises
<1>4. CASE Exists(Target(c))
  <2>1. unsaved' = (unsaved \/ (call[c].op # "install" /\
                          (call[c].keep => (raced /\ ~disk[call[c].bak].whole))))
    BY <1>4, Zenon DEF Remove
  <2> QED BY <1>2, <1>4, <2>1, RemoveStep
<1> QED BY <1>1, <1>3, <1>4, RemoveStep DEF Target

(* It is gone. *)
LEMMA RaceRemoved ==
    ASSUME TypeInv, NEW c \in Callers, Removed(c), Few, NoneHidden, Careful(c)
    PROVE  Own(c) /\ Other(c)
<1>1. /\ At(c, "removing") /\ UNCHANGED <<unsaved, raced, calls>> /\ CallFits(c) /\ FoldersFit /\ Active(c)
      /\ \A d \in Callers : At(d, "backingUp") => call[d].bak \in Backups
  BY RemovedStep, HaveFits DEF history, CallFits, FoldersFit, At, Active
<1>2. CASE /\ disk[Target(c)].by = c /\ Filled(Target(c), Nothing) /\ Moved(c, "done") /\ Answered(c)
           /\ UNCHANGED current /\ Target(c) \in Places
  <2> USE Known, Named, TornIs, CallersAssumption
      DEF Careful, Apart, Keeper, Swapped, Through, Installs, RollsBack, Staging, Opening, At, Active,
         Exists, Keeps, Moved, Stage, Aside, Swapping, Filled, Answered
  <2>1. Bare' => Bare
    BY <1>1, <1>2, HeldIsTorn DEF Bare
  <2>2. NoneHidden'
    BY <1>1, <1>2, <2>1 DEF NoneHidden
  <2>3. LastStays => LastStays'
    BY <1>1, <1>2, HeldIsTorn, OneStays DEF LastStays
  <2>4. Careful(c)'
    BY <1>1, <1>2, <2>1, <2>2
  <2>5. ASSUME NEW d \in Callers, d # c, Active(d), ~(calls <= 1), Both(c, d)
        PROVE  Careful(d)' /\ Apart(c, d)' /\ Apart(d, c)'
    <3>1. Careful(d)'
      <4>1. At(d, "backingUp") /\ ~unsaved => call[d].bak # Target(c)
        BY <1>1, <1>2, <2>5 DEF Both
      <4>2. Target(c) \notin {"staged", "beforeRollback"}
        BY <1>1, HaveFits DEF Target, CallFits
      <4>3. ~disk[Target(c)].whole
        BY <1>1, <1>2, HeldIsTorn
      <4> QED BY <1>1, <1>2, <2>1, <2>5, <4>1, <4>2, <4>3 DEF Both
    <3>2. Apart(c, d)'
      BY <1>1, <1>2, <2>1, <2>5 DEF Both
    <3>3. Apart(d, c)'
      BY <1>1, <1>2, <2>1, <2>5 DEF Both
    <3> QED BY <3>1, <3>2, <3>3
  <2> HIDE DEF Careful, Apart, Active
  <2> QED BY <2>2, <2>3, <2>4, <2>5 DEF Own, Other
<1>3. CASE UNCHANGED <<disk, current, unsaved>> /\ (Raised(c) \/ Failed(c))
  BY <1>1, <1>3, RaceRaises
<1> QED BY <1>1, <1>2, <1>3, RemovedStep DEF history

(* The plugin is taken back, or not. *)
LEMMA RaceVerify ==
    ASSUME TypeInv, NEW c \in Callers, Verify(c), Few, NoneHidden, Careful(c)
    PROVE  Own(c) /\ Other(c)
<1>1. /\ At(c, "verify") /\ UNCHANGED <<unsaved, raced, calls>> /\ CallFits(c) /\ FoldersFit /\ Active(c)
      /\ \A d \in Callers : At(d, "backingUp") => call[d].bak \in Backups
  BY VerifyStep, HaveFits DEF history, CallFits, FoldersFit, At, Active
<1>2. CASE UNCHANGED <<disk, current>> /\ Goes(c, "done")
  <2> USE Known, Named, TornIs, CallersAssumption
      DEF Careful, Apart, Keeper, Swapped, Through, Installs, RollsBack, Staging, Opening, At, Active,
         Exists, Keeps, Moved, Stage, Aside, Swapping, Goes
  <2>1. Bare' => Bare
    BY <1>1, <1>2 DEF Bare
  <2>2. NoneHidden'
    BY <1>1, <1>2, <2>1 DEF NoneHidden
  <2>3. LastStays => LastStays'
    BY <1>1, <1>2, <2>1 DEF LastStays, OneLeft
  <2>4. Careful(c)'
    BY <1>1, <1>2, <2>1, <2>2
  <2>5. ASSUME NEW d \in Callers, d # c, Active(d), ~(calls <= 1), Both(c, d)
        PROVE  Careful(d)' /\ Apart(c, d)' /\ Apart(d, c)'
    <3>1. Careful(d)'
      BY <1>1, <1>2, <2>1, <2>5 DEF Both
    <3>2. Apart(c, d)'
      BY <1>1, <1>2, <2>1, <2>5 DEF Both
    <3>3. Apart(d, c)'
      BY <1>1, <1>2, <2>1, <2>5 DEF Both
    <3> QED BY <3>1, <3>2, <3>3
  <2> HIDE DEF Careful, Apart, Active
  <2> QED BY <2>2, <2>3, <2>4, <2>5 DEF Own, Other
<1>3. CASE /\ UNCHANGED <<disk, current>>
           /\ Moved(c, "check") /\ call'[c].fn \in {"rollback", "remove"}
  <2> USE Known, Named, TornIs, CallersAssumption
      DEF Careful, Apart, Keeper, Swapped, Through, Installs, RollsBack, Staging, Opening, At, Active,
         Exists, Keeps, Moved, Stage, Aside, Swapping
  <2>1. Bare' => Bare
    BY <1>1, <1>3 DEF Bare
  <2>2. NoneHidden'
    BY <1>1, <1>3, <2>1 DEF NoneHidden
  <2>3. LastStays => LastStays'
    BY <1>1, <1>3, <2>1 DEF LastStays, OneLeft
  <2>4. Careful(c)'
    BY <1>1, <1>3, <2>1, <2>2
  <2>5. ASSUME NEW d \in Callers, d # c, Active(d), ~(calls <= 1), Both(c, d)
        PROVE  Careful(d)' /\ Apart(c, d)' /\ Apart(d, c)'
    <3>1. Careful(d)'
      BY <1>1, <1>3, <2>1, <2>5 DEF Both
    <3>2. Apart(c, d)'
      BY <1>1, <1>3, <2>1, <2>5 DEF Both
    <3>3. Apart(d, c)'
      BY <1>1, <1>3, <2>1, <2>5 DEF Both
    <3> QED BY <3>1, <3>2, <3>3
  <2> HIDE DEF Careful, Apart, Active
  <2> QED BY <2>2, <2>3, <2>4, <2>5 DEF Own, Other
<1> QED BY <1>1, <1>2, <1>3, VerifyStep DEF history

\* A step of a call that is under way.
StepOf(c) ==
  \/ Check(c) \/ CopyBegins(c) \/ CopyEnds(c) \/ Provision(c)
  \/ BackupBegins(c) \/ BackupEnds(c)
  \/ SetAside(c) \/ Activate(c) \/ Recover(c)
  \/ Cleanup(c) \/ Cleaned(c) \/ Discard(c) \/ Discarded(c)
  \/ Remove(c) \/ Removed(c) \/ Verify(c)

(* It moves that call only. *)
LEMMA StepMoves ==
    ASSUME TypeInv, NEW c \in Callers, StepOf(c)
    PROVE  Active(c) /\ UNCHANGED <<calls, raced>> /\ \E q : Moved(c, q)
<1> USE DEF Active, At, history, Goes, Raised, Failed, Returned, Aside2
<1>1. CASE Check(c)
  BY <1>1, CheckStep
<1>2. CASE CopyBegins(c)
  BY <1>2, CopyBeginsStep
<1>3. CASE CopyEnds(c)
  BY <1>3, CopyEndsStep
<1>4. CASE Provision(c)
  BY <1>4, ProvisionStep
<1>5. CASE BackupBegins(c)
  BY <1>5, BackupBeginsStep
<1>6. CASE BackupEnds(c)
  BY <1>6, BackupEndsStep
<1>7. CASE SetAside(c)
  BY <1>7, SetAsideStep
<1>8. CASE Activate(c)
  BY <1>8, ActivateStep
<1>9. CASE Recover(c)
  BY <1>9, RecoverStep
<1>10. CASE Cleanup(c)
  BY <1>10, CleanupStep
<1>11. CASE Cleaned(c)
  BY <1>11, CleanedStep
<1>12. CASE Discard(c)
  BY <1>12, DiscardStep
<1>13. CASE Discarded(c)
  BY <1>13, DiscardedStep
<1>14. CASE Remove(c)
  BY <1>14, RemoveStep
<1>15. CASE Removed(c)
  BY <1>15, RemovedStep
<1>16. CASE Verify(c)
  BY <1>16, VerifyStep
<1> QED BY <1>1, <1>2, <1>3, <1>4, <1>5, <1>6, <1>7, <1>8, <1>9, <1>10, <1>11, <1>12, <1>13,
       <1>14, <1>15, <1>16 DEF StepOf

(* Two calls keep the invariant. *)
LEMMA StepKeepsRace ==
    ASSUME TypeInv, Alone, RaceInv, NEW c \in Callers, StepOf(c)
    PROVE  RaceInv'
<1>1. Active(c) /\ UNCHANGED <<calls, raced>>
  BY StepMoves
<1>2. PICK q : Moved(c, q)
  BY StepMoves
<1>3. Few /\ NoneHidden /\ Careful(c) => Own(c) /\ Other(c)
  BY RaceCheck, RaceCopyBegins, RaceCopyEnds, RaceProvision, RaceBackupBegins, RaceBackupEnds,
     RaceSetAside, RaceActivate, RaceRecover, RaceCleanup, RaceCleaned, RaceDiscard,
     RaceDiscarded, RaceRemove, RaceRemoved, RaceVerify, Zenon DEF StepOf
<1>4. calls <= 1 => Alone /\ ~raced
  BY HaveFits, BoundsAssumption DEF RaceInv, Few, Counted, CountersFit
<1> QED BY <1>1, <1>2, <1>3, <1>4, StepOfTwo

(* A second request finds the first call alone. *)
LEMMA RaceArrives ==
    ASSUME TypeInv, Alone, CurrentInv, RaceInv, NEW c \in Callers, Request(c)
    PROVE  RaceInv'
<1> SUFFICES ASSUME Few' PROVE RaceInv'
  BY DEF RaceInv
<1>0. PICK r \in Call : Arrive(c, r) /\ Fresh(r)
  BY RequestsArrive
<1>1. /\ UNCHANGED <<disk, current, unsaved>> /\ ~Active(c)
      /\ calls' = calls + 1
      /\ raced' = (raced \/ \E d \in Callers : Active(d))
      /\ call'[c].pc = "check" /\ call'[c].fn = r.fn /\ call'[c].op = r.fn /\ call'[c].keep = r.keep
      /\ r.fn # "remove" => ~r.keep
      /\ \A d \in Callers : d # c => call'[d] = IF At(d, "done") THEN Idle ELSE call[d]
  BY <1>0, ArriveMoves, Known, ZenonT(60) DEF Arrive, Fresh
<1>2. calls \in Nat /\ calls <= 1 /\ ~raced /\ Few
  <2>1. calls \in Nat
    BY HaveFits, BoundsAssumption DEF CountersFit
  <2>2. calls <= 1
    BY <1>1, <2>1 DEF Few
  <2>3. Few
    BY <2>2 DEF Few
  <2> QED BY <2>1, <2>2, <2>3 DEF RaceInv, Counted
<1>3. Counted /\ NoneHidden /\ \A d \in Callers : Careful(d)
  BY <1>2 DEF RaceInv
<1>4. \A d \in Callers : d # c => (Active(d)' <=> Active(d)) /\ (Active(d) => call'[d] = call[d])
  BY <1>1, IdleCall DEF Active, At
<1>5. (\E d \in Callers : Active(d)) => calls' = 2
  <2>1. calls = 0 \/ calls = 1
    BY <1>2
  <2>2. calls = 0 => \A d \in Callers : ~Active(d)
    BY <1>3 DEF Counted
  <2> QED BY <1>1, <2>1, <2>2
<1>6. Counted'
  <2>1. raced' => calls' = 2
    BY <1>1, <1>2, <1>5
  <2>2. \A d, e \in Callers : Active(d) /\ Active(e) => d = e
    BY <1>2 DEF Alone
  <2>3. \A d, e, g \in Callers : Active(d)' /\ Active(e)' /\ Active(g)' => d = e \/ e = g \/ d = g
    BY <1>4, <2>2
  <2>4. calls' # 0
    BY <1>1, <1>2
  <2> QED BY <2>1, <2>3, <2>4 DEF Counted
<1>7. NoneHidden'
  BY <1>1, <1>3 DEF NoneHidden, Bare
<1>8. LastStays'
  BY <1>1, <1>2 DEF LastStays, OneLeft, CurrentInv, ActiveVersionSurvives, Whole
<1>9. Careful(c)' /\ ~Keeper(c)' /\ At(c, "check")'
  BY <1>1 DEF Careful, Keeper, Swapped, Through, Staging, At, Active
<1>10. ASSUME NEW d \in Callers, d # c, Active(d) PROVE Careful(d)' /\ Apart(c, d)' /\ Apart(d, c)'
  <2>1. Careful(d) /\ call'[d] = call[d]
    BY <1>3, <1>4, <1>10
  <2>2. ~(calls' <= 1)
    BY <1>5, <1>10
  <2>3. Careful(d)'
    BY <1>1, <2>1, <2>2 DEF Careful, Keeper, Swapped, Through, Installs, RollsBack, Exists, At, Active,
       Bare
  <2>4. Apart(c, d)' /\ Apart(d, c)'
    BY <1>1, <1>2, <1>9, <2>1 DEF Careful, Apart, Swapped, Installs, RollsBack, Exists, At, Staging,
       Opening
  <2> QED BY <2>3, <2>4
<1>11. \A d \in Callers : d # c => Careful(d)' /\ Apart(c, d)' /\ Apart(d, c)'
  BY <1>4, <1>10, RestNext
<1>12. ASSUME NEW d \in Callers, NEW e \in Callers, d # e, d # c, e # c PROVE Apart(d, e)'
  BY <1>2, <1>4, <1>12, RestNext DEF Alone
<1> QED BY <1>6, <1>7, <1>8, <1>9, <1>11, <1>12 DEF RaceInv

(* What the calls leave of the folders when the first two of them overlap. *)
THEOREM RaceInvariant == Spec => []RaceInv
<1>1. Init => RaceInv
  <2> SUFFICES ASSUME Init PROVE RaceInv
    OBVIOUS
  <2>1. ~raced /\ calls = 0 /\ \A c \in Callers : ~Active(c)
    BY IdleCall DEF Init, Active
  <2>2. NoneHidden
    BY BackupsAssumption, TornIs DEF Init, NoneHidden, Places, Hidden
  <2> QED BY <2>1, <2>2, RestIsCareful DEF RaceInv, Counted, LastStays
<1>2. TypeInv /\ FoldersInv /\ AnswersInv /\ RaceInv /\ [Next]_vars => RaceInv'
  <2> SUFFICES ASSUME TypeInv, FoldersInv, AnswersInv, RaceInv, [Next]_vars PROVE RaceInv'
    OBVIOUS
  <2>1. Alone /\ CurrentInv
    BY DEF FoldersInv, AnswersInv
  <2>2. ASSUME NEW c \in Callers, Request(c) PROVE RaceInv'
    BY <2>1, <2>2, RaceArrives
  <2>3. ASSUME NEW c \in Callers, StepOf(c) PROVE RaceInv'
    BY <2>1, <2>3, StepKeepsRace
  <2>4. ASSUME Crash PROVE RaceInv'
    <3>1. /\ UNCHANGED <<disk, current, unsaved, raced, calls>>
          /\ \A c \in Callers : ~Active(c)'
      BY <2>4, IdleCall DEF Crash, Active
    <3> QED BY <3>1, RestNext DEF RaceInv, Few, Counted, NoneHidden, Bare, LastStays, OneLeft
  <2>5. CASE UNCHANGED vars
    BY <2>5 DEF vars, RaceInv, Few, Counted, NoneHidden, Bare, LastStays, OneLeft, Careful, Apart,
       Keeper, Swapped, Through, Installs, RollsBack, Exists, At, Active
  <2> QED BY <2>2, <2>3, <2>4, <2>5 DEF Next, Request, StepOf
<1> QED BY <1>1, <1>2, TypeCorrect, FoldersInvariant, AnswersInvariant, PTL DEF Spec

(* No version is lost that somebody relies on: the active one while calls come one after the      *)
(* other, and not the last one when two race.                                                    *)
THEOREM VersionsRemain == Spec => []VersionsSurvive
<1>1. TypeInv /\ ActiveVersionSurvives /\ RaceInv => VersionsSurvive
  <2> SUFFICES ASSUME TypeInv, ActiveVersionSurvives, RaceInv, current # NoVersion, ~unsaved, calls <= 2
               PROVE  \E p \in Places \ {"staged", "restoring"} : disk[p].whole
    BY DEF VersionsSurvive, SomeVersionSurvives
  <2>1. CASE raced
    BY <2>1 DEF RaceInv, Few, LastStays, OneLeft
  <2>2. CASE ~raced
    BY <2>2 DEF ActiveVersionSurvives, Whole
  <2> QED BY <2>1, <2>2
<1> QED BY <1>1, TypeCorrect, VersionStays, RaceInvariant, PTL

=============================================================================
