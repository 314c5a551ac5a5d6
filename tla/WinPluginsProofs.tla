--------------------------- MODULE WinPluginsProofs ---------------------------
(* Proofs about WinPlugins. *)
EXTENDS WinPlugins, SequenceTheorems, WellFoundedInduction, TLAPS

LEMMA LeastElement ==
  ASSUME NEW T \in SUBSET Nat, T # {}
  PROVE  \E x \in T : \A y \in T : x <= y
<1>1. IsWellFoundedOn(OpToRel(<, Nat), Nat)
  BY NatLessThanWellFounded
<1>2. PICK x \in T : \A y \in T : ~(<<y, x>> \in OpToRel(<, Nat))
  BY <1>1, WFMin
<1>3. \A y \in T : ~(y < x)
  BY <1>2 DEF OpToRel
<1> QED BY <1>3

LEMMA NewerThanNewer ==
  ASSUME NEW a \in Versions, NEW b \in Versions, NEW m \in Versions, ~Older(a, b), ~Older(b, m)
  PROVE  ~Older(a, m)
<1> SUFFICES ASSUME Older(a, m) PROVE FALSE
  OBVIOUS
<1> USE DEF Versions
<1>1. Len(a) \in Nat /\ Len(b) \in Nat /\ Len(m) \in Nat
  OBVIOUS
<1>4. /\ \A x \in 1..Len(a) : a[x] \in Nat
      /\ \A x \in 1..Len(b) : b[x] \in Nat
      /\ \A x \in 1..Len(m) : m[x] \in Nat
  OBVIOUS
<1> HIDE DEF Versions
<1> DEFINE D == {j \in 1..Len(a) : j > Len(b) \/ a[j] # b[j]}
<1>2. CASE D = {}
  <2>1. \A j \in 1..Len(a) : j <= Len(b) /\ a[j] = b[j]
    <3> SUFFICES ASSUME NEW j \in 1..Len(a) PROVE j <= Len(b) /\ a[j] = b[j]
      OBVIOUS
    <3>1. j \notin D
      BY <1>2
    <3> QED BY <3>1, <1>1
  <2>4. Len(a) <= Len(b)
    <3>1. CASE Len(a) = 0
      BY <3>1, <1>1
    <3>2. CASE Len(a) # 0
      <4>1. Len(a) \in 1..Len(a)
        BY <3>2, <1>1
      <4> QED BY <4>1, <2>1
    <3> QED BY <3>1, <3>2
  <2>2. Len(a) = Len(b)
    BY <2>1, <2>4, <1>1 DEF Older
  <2>3. Older(b, m)
    <3>1. CASE \E i \in 1..Len(a) : i <= Len(m) /\ a[i] < m[i] /\ \A k \in 1..(i - 1) : a[k] = m[k]
      <4>1. PICK i \in 1..Len(a) : i <= Len(m) /\ a[i] < m[i] /\ \A k \in 1..(i - 1) : a[k] = m[k]
        BY <3>1
      <4>2. b[i] < m[i] /\ \A k \in 1..(i - 1) : b[k] = m[k]
        BY <4>1, <2>1, <1>1
      <4> QED BY <4>1, <4>2, <2>2 DEF Older
    <3>2. CASE Len(a) < Len(m) /\ \A k \in 1..Len(a) : a[k] = m[k]
      <4>1. \A k \in 1..Len(b) : b[k] = m[k]
        BY <3>2, <2>1, <2>2
      <4> QED BY <3>2, <4>1, <2>2 DEF Older
    <3> QED BY <3>1, <3>2 DEF Older
  <2> QED BY <2>3
<1>3. CASE D # {}
  <2>1. PICK j \in D : \A y \in D : j <= y
    <3>1. D \in SUBSET Nat
      OBVIOUS
    <3> HIDE DEF D
    <3> QED BY <3>1, <1>3, LeastElement
  <2>2. \A i \in 1..(j - 1) : i <= Len(b) /\ a[i] = b[i]
    BY <2>1, <1>1
  <2>8. j \in 1..Len(a) /\ j \in Nat /\ j >= 1
    BY <2>1, <1>1
  <2>3. j \in 1..Len(a) /\ (j > Len(b) \/ a[j] # b[j])
    BY <2>1
  <2>4. j > Len(b) => Len(b) < Len(a) /\ Len(b) = j - 1
    <3> SUFFICES ASSUME j > Len(b) PROVE Len(b) < Len(a) /\ Len(b) = j - 1
      OBVIOUS
    <3>1. CASE j = 1
      BY <3>1, <2>8, <1>1
    <3>2. CASE j # 1
      <4>1. j - 1 \in 1..(j - 1)
        BY <3>2, <2>8
      <4>2. j - 1 <= Len(b)
        BY <4>1, <2>2
      <4> QED BY <4>2, <2>8, <1>1
    <3> QED BY <3>1, <3>2
  <2>5. j <= Len(b) => a[j] > b[j]
    <3> SUFFICES ASSUME j <= Len(b), ~(a[j] > b[j]) PROVE FALSE
      OBVIOUS
    <3>1. a[j] \in Nat /\ b[j] \in Nat
      BY <2>3, <1>1, <1>4
    <3>2. a[j] < b[j]
      BY <3>1, <2>3
    <3> QED BY <3>2, <2>2, <2>3, <1>1 DEF Older
  <2>6. CASE \E i \in 1..Len(a) : i <= Len(m) /\ a[i] < m[i] /\ \A k \in 1..(i - 1) : a[k] = m[k]
    <3>1. PICK i \in 1..Len(a) : i <= Len(m) /\ a[i] < m[i] /\ \A k \in 1..(i - 1) : a[k] = m[k]
      BY <2>6
    <3>2. CASE i < j
      <4>1. i \in 1..Len(b) /\ b[i] < m[i] /\ \A k \in 1..(i - 1) : b[k] = m[k]
        BY <3>1, <3>2, <2>2, <2>3, <1>1
      <4> QED BY <4>1, <3>1 DEF Older
    <3>3. CASE i >= j
      <4>1. CASE j > Len(b)
        <5>1. Len(b) < Len(m) /\ \A k \in 1..Len(b) : b[k] = m[k]
          BY <4>1, <3>1, <3>3, <2>2, <2>3, <2>4, <1>1
        <5> QED BY <5>1 DEF Older
      <4>2. CASE j <= Len(b)
        <5>1. j <= Len(m) /\ i \in Nat /\ j \in 1..Len(b)
          BY <4>2, <3>1, <3>3, <2>8, <1>1
        <5>2. a[j] <= m[j] /\ a[j] \in Nat /\ m[j] \in Nat /\ b[j] \in Nat
          <6>1. a[j] \in Nat /\ m[j] \in Nat /\ b[j] \in Nat
            <7>1. a[j] \in Nat
              BY <2>8, <1>1, <1>4
            <7>2. m[j] \in Nat
              BY <5>1, <2>8, <1>1, <1>4
            <7>3. b[j] \in Nat
              BY <5>1, <1>1, <1>4
            <7> QED BY <7>1, <7>2, <7>3
          <6>2. CASE i = j
            BY <6>1, <6>2, <3>1
          <6>3. CASE i > j
            <7>1. j \in 1..(i - 1)
              BY <6>3, <5>1, <2>8
            <7> QED BY <7>1, <6>1, <3>1
          <6> QED BY <6>1, <6>2, <6>3, <3>3, <5>1, <2>8
        <5>3. b[j] < m[j]
          BY <5>2, <4>2, <2>5
        <5>4. \A k \in 1..(j - 1) : b[k] = m[k]
          <6> SUFFICES ASSUME NEW k \in 1..(j - 1) PROVE b[k] = m[k]
            OBVIOUS
          <6>1. k \in 1..(i - 1)
            BY <3>3, <5>1, <2>8
          <6> QED BY <6>1, <3>1, <2>2
        <5> QED BY <5>1, <5>3, <5>4 DEF Older
      <4> QED BY <4>1, <4>2, <2>3, <1>1
    <3> QED BY <3>2, <3>3, <2>3
  <2>7. CASE Len(a) < Len(m) /\ \A k \in 1..Len(a) : a[k] = m[k]
    <3>1. CASE j > Len(b)
      <4>1. Len(b) < Len(m) /\ \A k \in 1..Len(b) : b[k] = m[k]
        BY <3>1, <2>7, <2>2, <2>3, <2>4, <1>1
      <4> QED BY <4>1 DEF Older
    <3>2. CASE j <= Len(b)
      <4>1. b[j] < m[j] /\ j \in 1..Len(b) /\ j <= Len(m) /\ \A k \in 1..(j - 1) : b[k] = m[k]
        BY <3>2, <2>7, <2>2, <2>3, <2>5, <1>1
      <4> QED BY <4>1 DEF Older
    <3> QED BY <3>1, <3>2, <2>3, <1>1
  <2> QED BY <2>6, <2>7 DEF Older
<1> QED BY <1>2, <1>3
-----------------------------------------------------------------------------
(* Types, and what each request has at hand at each of its steps.          *)
Planning == {"plan", "accept", "resolve"}
Preparing == {"check", "runtime", "makeRuntime", "model", "fetchModel", "moveOld"}
Moving == {"moveNew", "moveBack"}
Installing == Preparing \union Moving \union {"finish"}
Removing == {"uninstall", "remove", "removing"}

FolderState == [pkg : Packages \union {NoPackage}, parts : {"none", "bare", "manifest", "whole"}]
Walk == [pkg : Packages, replace : BOOLEAN, next : Nat \ {0}]
Call == [pc : {"idle", "confirm", "cancel", "reload"} \union Planning \union Installing \union Removing,
         op : {"none", "plan", "confirm", "cancel", "uninstall"}, id : PlanIds \union {NoPlan},
         pkg : Packages \union {NoPackage}, replace : BOOLEAN, steps : Seq(InstallStep), at : Nat \ {0},
         saved : FolderState, result : {"none", "ok", "unmet", "provision", "failed"}, fresh : BOOLEAN]

\* A folder is there exactly if it belongs to a package, of that plugin.
Holds(f, p) == (f.parts = "none" <=> f.pkg = NoPackage) /\ (f.pkg # NoPackage => f.pkg.id = p)

\* The request r carries a plan out; it holds the lock.
Confirms(r) == r.pc \in Installing \/ (r.pc = "reload" /\ r.op = "confirm")
Locks(r) == r.pc \in {"accept", "resolve"} \/ Confirms(r)

Fits(r) ==
  /\ r.pc = "idle" => r.op = "none"
  /\ r.pc = "confirm" => r.op = "confirm" /\ r.at = 1 /\ r.saved = Absent
  /\ r.pc = "cancel" => r.op = "cancel"
  /\ r.pc \in Planning => r.op = "plan" /\ r.pkg \in Packages
  /\ r.pc \in Installing => r.op = "confirm"
  /\ r.pc \in Removing => r.op = "uninstall"
  /\ r.pc = "reload" => r.op \in {"confirm", "uninstall"}
  /\ r.op = "uninstall" => r.pkg \in Packages
  /\ r.pc \in {"confirm", "cancel"} \/ Locks(r) => r.id \in PlanIds
  /\ Confirms(r) => r.at <= Len(r.steps) /\ Holds(r.saved, r.steps[r.at].pkg.id)

FolderTypes ==
  /\ folder \in [Plugins -> FolderState] /\ \A p \in Plugins : Holds(folder[p], p)
  /\ catalog \subseteq Packages
  /\ loads \in [Plugins -> Loads] /\ lost \subseteq Plugins

PlanTypes ==
  /\ plans \in [PlanIds -> Plan \union {NoPlan}]
  /\ \A i \in PlanIds : plans[i] # NoPlan => plans[i].steps # <<>>
  /\ dirs \subseteq PlanIds

WalkTypes == visiting \in Seq(Walk) /\ ordered \in Seq(InstallStep) /\ done \subseteq Plugins

CallTypes ==
  /\ call \in [Callers -> Call]
  /\ \A c \in Callers : Fits(call[c]) /\ (lock = c <=> Locks(call[c]))
  /\ lock \in Callers \union {NoCaller}

TypeInv ==
  /\ FolderTypes /\ PlanTypes /\ WalkTypes /\ CallTypes
  /\ (\E c \in Callers : At(c, "resolve")) => visiting # <<>> \/ ordered # <<>>
  /\ older \in BOOLEAN /\ raced \in BOOLEAN /\ faults \in Nat /\ crashes \in Nat

-----------------------------------------------------------------------------
(* What requests and plans exclude.                                        *)
\* While no uninstallation has met another request, one that is under way is the only request.
Alone == ~raced => \A c, d \in Callers : Active(c) /\ Active(d) /\ call[c].op = "uninstall" => c = d

\* Whoever holds the lock works on a plan that is not offered any more.
Owned == \A c \in Callers : lock = c => plans[call[c].id] = NoPlan

-----------------------------------------------------------------------------
(* The list of steps: each package once, after what it needs, and new enough for all that need it. *)
Ordered(S) == \A s, t \in DOMAIN S :
  /\ S[s].pkg.id = S[t].pkg.id => s = t
  /\ \A n \in Range(S[s].pkg.needs) : n.id = S[t].pkg.id => t < s /\ Compatible(S[t].pkg.ver, n.min)

\* The packages walk() has taken, and the needs it has looked at, with v and o in progress.
TakenBy(v, o) == {o[s].pkg : s \in DOMAIN o} \union {v[f].pkg : f \in DOMAIN v}
NeedsOf(o) == UNION {Range(o[s].pkg.needs) : s \in DOMAIN o}
NeedsBefore(v) == UNION {{v[f].pkg.needs[i] : i \in 1..(v[f].next - 1)} : f \in DOMAIN v}
SeenBy(v, o) == NeedsOf(o) \union NeedsBefore(v)
Taken == TakenBy(visiting, ordered)
Seen == SeenBy(visiting, ordered)

\* Each need looked at is settled, or the one the next frame is about.
Walking(c) ==
  /\ \A k \in Taken : k \in Offers(call[c].pkg, k.id)
  /\ \A k \in Taken, n \in Seen : n.id = k.id => Compatible(k.ver, n.min)
  /\ \A s \in DOMAIN ordered :
       /\ ordered[s].pkg.id \in done
       /\ \A n \in Range(ordered[s].pkg.needs) : n.id \in done /\ \A t \in s..Len(ordered) : ordered[t].pkg.id # n.id
       /\ \A t \in DOMAIN ordered : ordered[s].pkg.id = ordered[t].pkg.id => s = t
  /\ \A f \in DOMAIN visiting :
       /\ visiting[f].pkg.id \notin done
       /\ visiting[f].next <= Len(visiting[f].pkg.needs) + 1
       /\ \A g \in DOMAIN visiting : visiting[f].pkg.id = visiting[g].pkg.id => f = g
       /\ \A i \in 1..(visiting[f].next - 1) :
            \/ visiting[f].pkg.needs[i].id \in done
            \/ f < Len(visiting) /\ visiting[f].pkg.needs[i].id = visiting[f + 1].pkg.id

StepsOrdered ==
  /\ \A i \in PlanIds : plans[i] # NoPlan => Ordered(plans[i].steps)
  /\ \A c \in Callers : Ordered(call[c].steps)

Walks ==
  /\ \A c \in Callers : At(c, "resolve") => Walking(c)
  /\ (\A c \in Callers : ~At(c, "resolve")) => visiting = <<>> /\ done = {} /\ ordered = <<>>

PlansInv == Alone /\ Owned /\ DirectoriesAreOwned /\ StepsOrdered /\ Walks

-----------------------------------------------------------------------------
(* The folders while plans are carried out.                                *)
\* The first n steps are installed, with what they need.
Stand(S, n) == \A s \in 1..n : LET k == S[s].pkg IN folder[k.id] = Whole(k) /\ NeedsMet(k)

Installed(c) ==
  /\ call[c].pc \in Preparing \union {"moveNew"} \/ (At(c, "finish") /\ call[c].result = "unmet")
       => Stand(call[c].steps, call[c].at - 1)
  /\ call[c].pc \in (Preparing \ {"check"}) \union {"moveNew"} => NeedsMet(Step(c).pkg)
  /\ At(c, "reload") /\ call[c].op = "confirm" => Stand(call[c].steps, call[c].at)
  /\ call[c].pc \in Moving => folder[Id(c)].parts = "none"
  /\ At(c, "removing") => Target(c) \notin kept

FoldersInv ==
  /\ kept \subseteq Plugins
  /\ ~raced => \A c \in Callers : Installed(c)
  /\ UpdateKeepsPlugin
  /\ InstalledAsApproved

-----------------------------------------------------------------------------
(* What an approved plan was made of is still so, until something moves.   *)
Fresh(S, first) == \A s \in first..Len(S) :
  /\ S[s].replace <=> Readable(folder[S[s].pkg.id])
  /\ \A n \in Range(S[s].pkg.needs) :
       \/ \E t \in DOMAIN S : S[t].pkg.id = n.id
       \/ /\ Readable(folder[n.id])
          /\ \E r \in DOMAIN S : \E m \in Range(S[r].pkg.needs) :
               m.id = n.id /\ Compatible(folder[n.id].pkg.ver, m.min)

WalkIsFresh ==
  /\ \A s \in DOMAIN ordered : ordered[s].replace <=> Readable(folder[ordered[s].pkg.id])
  /\ \A f \in DOMAIN visiting : visiting[f].replace <=> Readable(folder[visiting[f].pkg.id])
  /\ \A p \in done :
       \/ \E k \in Taken : k.id = p
       \/ Readable(folder[p]) /\ \E m \in Seen : m.id = p /\ Compatible(folder[p].pkg.ver, m.min)

\* No plan in waiting is up to date.
AllOutdated == \A i \in PlanIds : plans[i] # NoPlan => ~plans[i].fresh

\* Why install() refuses the step a.
Refusal(S, a) == ~NeedsMet(S[a].pkg) \/ (folder[S[a].pkg.id].parts # "none" /\ ~S[a].replace)

PlansFresh == \A i \in PlanIds : plans[i] # NoPlan /\ plans[i].fresh => Fresh(plans[i].steps, 1)

CallFresh(c) ==
  /\ At(c, "resolve") => WalkIsFresh
  /\ call[c].fresh /\ (call[c].pc \in Preparing \/ (At(c, "finish") /\ call[c].result = "unmet"))
       => Fresh(call[c].steps, call[c].at)
  /\ call[c].fresh /\ (At(c, "moveNew") \/ (At(c, "reload") /\ call[c].op = "confirm"))
       => Fresh(call[c].steps, call[c].at + 1)
  /\ At(c, "finish") /\ call[c].result = "unmet" => Refusal(call[c].steps, call[c].at)
  /\ call[c].pc \in {"moveBack", "removing"} => AllOutdated

FreshInv == ~raced => PlansFresh /\ \A c \in Callers : CallFresh(c)

-----------------------------------------------------------------------------
(* What plugins need is there.                                             *)
\* All that need the plugin p are content with the folder f in its place.
Serves(f, p) == \A q \in Plugins : folder[q].parts = "whole" =>
  \A i \in 1..Len(folder[q].pkg.needs) : LET n == folder[q].pkg.needs[i] IN
    n.id = p => Readable(f) /\ ~Older(f.pkg.ver, n.min)

DependsInv ==
  /\ DependenciesHold
  /\ faults = 0 => \A c \in Callers : ~At(c, "moveBack")
  /\ ~raced => \A c \in Callers : call[c].pc \in {"remove", "removing"} => ~Needed(Target(c))
  /\ ~raced /\ ~older /\ faults = 0 /\ crashes = 0 =>
       \A c \in Callers : At(c, "moveNew") => Serves(call[c].saved, Id(c))
-----------------------------------------------------------------------------
(* What packages and sequences are made of.                                *)
LEMMA Manifest ==
  ASSUME NEW k \in Packages
  PROVE  /\ k.id \in Plugins /\ k.ver \in Versions
         /\ k.needs \in Seq(Range(k.needs)) /\ Len(k.needs) \in Nat
         /\ \A i \in 1..Len(k.needs) : k.needs[i] \in Range(k.needs)
         /\ \A n \in Range(k.needs) : /\ n.id \in Plugins /\ n.min \in Versions
                                      /\ \E i \in 1..Len(k.needs) : n = k.needs[i]
<1>1. k.id \in Plugins /\ k.ver \in Versions /\ k.needs \in Seq(Range(k.needs))
      /\ \A n \in Range(k.needs) : n.min \in Versions
  BY ManifestsAssumption DEF Plugins
<1>2. \A n \in Range(k.needs) : n.id \in Plugins
  BY DEF Plugins
<1>3. Len(k.needs) \in Nat /\ DOMAIN k.needs = 1..Len(k.needs)
  BY <1>1
<1>4. \A i \in 1..Len(k.needs) : k.needs[i] \in Range(k.needs)
  BY <1>3 DEF Range
<1>5. \A n \in Range(k.needs) : \E i \in 1..Len(k.needs) : n = k.needs[i]
  BY <1>3 DEF Range
<1> QED BY <1>1, <1>2, <1>3, <1>4, <1>5

LEMMA Offered ==
  ASSUME NEW main \in Packages, NEW p, catalog \subseteq Packages
  PROVE  \A k \in Offers(main, p) : k \in Packages /\ k.id = p
BY DEF Offers

\* Absent is a folder state; what is saved or torn is one of its plugin.
LEMMA States ==
  /\ Absent \in FolderState /\ \A p : Holds(Absent, p)
  /\ \A k \in Packages : /\ Whole(k) \in FolderState /\ Holds(Whole(k), k.id)
                         /\ \A f \in Torn(k) : f \in FolderState /\ Holds(f, k.id)
BY PackagesAssumption DEF Absent, Whole, Torn, FolderState, Holds

LEMMA IdleFits == Idle \in Call /\ Fits(Idle) /\ ~Locks(Idle)
BY States, PlansAssumption DEF Idle, Call, Fits, Locks, Confirms, Planning, Preparing, Moving, Installing, Removing

\* The request c goes on as r, and whether it holds the lock is told by r.
Goes(c, r) == call' = [call EXCEPT ![c] = r]

LEMMA CallsMove ==
  ASSUME CallTypes, NEW c \in Callers, NEW r \in Call, Fits(r), Goes(c, r),
         lock' \in Callers \union {NoCaller}, lock' = c <=> Locks(r),
         \A d \in Callers \ {c} : lock' = d <=> lock = d
  PROVE  CallTypes'
<1>1. call' \in [Callers -> Call]
  BY DEF CallTypes, Goes
<1>2. ASSUME NEW d \in Callers PROVE Fits(call'[d]) /\ (lock' = d <=> Locks(call'[d]))
  <2>1. CASE d = c
    BY <2>1 DEF CallTypes, Goes
  <2>2. CASE d # c
    BY <2>2 DEF CallTypes, Goes
  <2> QED BY <2>1, <2>2
<1> QED BY <1>1, <1>2 DEF CallTypes

\* The ways requests go on.
LEMMA Ways ==
  ASSUME CallTypes, NEW c \in Callers
  PROVE  /\ call[c] \in Call /\ Fits(call[c]) /\ (lock = c <=> Locks(call[c])) /\ c # NoCaller
         /\ \A q : Goto(c, q) => Goes(c, [call[c] EXCEPT !.pc = q])
         /\ \A q : Fail(c, q) => Goes(c, [call[c] EXCEPT !.pc = "finish", !.result = q])
         /\ Done(c) => Goes(c, Idle)
<1>1. call[c] \in Call /\ Fits(call[c]) /\ (lock = c <=> Locks(call[c])) /\ c # NoCaller
  BY CallersAssumption DEF CallTypes
<1>2. \A q : Goto(c, q) => Goes(c, [call[c] EXCEPT !.pc = q])
  BY DEF Goto, Goes
<1>3. \A q : Fail(c, q) => Goes(c, [call[c] EXCEPT !.pc = "finish", !.result = q])
  BY DEF Fail, Goes
<1>4. Done(c) => Goes(c, Idle)
  BY DEF Done, Goes
<1> QED BY <1>1, <1>2, <1>3, <1>4

(* The step under way of a plan that is carried out. *)
LEMMA Current1 ==
  ASSUME CallTypes, NEW c \in Callers, Confirms(call[c])
  PROVE  /\ call[c].at \in 1..Len(call[c].steps) /\ call[c].steps \in Seq(InstallStep) /\ Len(call[c].steps) \in Nat
         /\ Step(c) = call[c].steps[call[c].at] /\ Step(c) \in InstallStep
         /\ Step(c).pkg \in Packages /\ Id(c) = Step(c).pkg.id /\ Id(c) \in Plugins
         /\ call[c].id \in PlanIds /\ call[c].saved \in FolderState /\ Holds(call[c].saved, Id(c))
         /\ lock = c /\ call[c].op = "confirm"
<1>1. call[c] \in Call /\ Fits(call[c]) /\ lock = c
  BY DEF CallTypes, Locks
<1>2. call[c].at \in 1..Len(call[c].steps) /\ call[c].steps \in Seq(InstallStep) /\ Len(call[c].steps) \in Nat
  BY <1>1 DEF Call, Fits
<1>3. Step(c) = call[c].steps[call[c].at] /\ Step(c) \in InstallStep
  BY <1>2 DEF Step
<1>4. Step(c).pkg \in Packages /\ Id(c) = Step(c).pkg.id
  BY <1>3 DEF InstallStep, Id
<1>5. Id(c) \in Plugins
  BY <1>4, Manifest
<1>6. call[c].id \in PlanIds /\ call[c].saved \in FolderState
  BY <1>1 DEF Call, Fits, Locks
<1>7. Holds(call[c].saved, Id(c))
  BY <1>1, <1>3, <1>4 DEF Fits
<1>8. call[c].op = "confirm"
  BY <1>1 DEF Fits, Confirms
<1> QED BY <1>1, <1>2, <1>3, <1>4, <1>5, <1>6, <1>7, <1>8

-----------------------------------------------------------------------------
(* Types.                                                                  *)
\* The variables besides the calls and the lock.
OtherTypes ==
  /\ FolderTypes /\ PlanTypes /\ WalkTypes
  /\ older \in BOOLEAN /\ raced \in BOOLEAN /\ faults \in Nat /\ crashes \in Nat

(* A step of c that goes on as r, keeps the other types and resolves as before. *)
LEMMA TypesMove ==
  ASSUME TypeInv, NEW c \in Callers, NEW r \in Call, Fits(r), Goes(c, r), OtherTypes',
         \/ UNCHANGED lock /\ (Locks(call[c]) <=> Locks(r))
         \/ lock = NoCaller /\ lock' = c /\ Locks(r)
         \/ lock = c /\ lock' = NoCaller /\ ~Locks(r),
         r.pc # "resolve", UNCHANGED <<visiting, ordered>> \/ call[c].pc = "resolve" \/ lock = c \/ lock = NoCaller
  PROVE  TypeInv'
<1>1. CallTypes /\ call[c] \in Call /\ (lock = c <=> Locks(call[c])) /\ c # NoCaller
  BY Ways DEF TypeInv
<1>2. CallTypes'
  <2>1. \A d \in Callers \ {c} : lock' = d <=> lock = d
    BY CallersAssumption
  <2>2. lock' \in Callers \union {NoCaller} /\ (lock' = c <=> Locks(r))
    BY <1>1 DEF CallTypes
  <2> QED BY <1>1, <2>1, <2>2, CallsMove
<1>3. ASSUME NEW d \in Callers, At(d, "resolve")' PROVE (visiting # <<>> \/ ordered # <<>>)'
  <2>1. d # c
    BY <1>1, <1>3 DEF At, Goes, CallTypes
  <2>2. call'[d] = call[d]
    BY <2>1 DEF Goes, CallTypes, TypeInv
  <2>3. At(d, "resolve") /\ lock = d
    BY <1>3, <2>2, <1>1 DEF At, CallTypes, Locks
  <2>4. UNCHANGED <<visiting, ordered>>
    BY <2>3, <2>1, <1>1, CallersAssumption DEF Locks
  <2> QED BY <2>3, <2>4 DEF TypeInv
<1> QED BY <1>2, <1>3 DEF TypeInv, OtherTypes

LEMMA QuietTypes == TypeInv => OtherTypes
BY DEF TypeInv, OtherTypes

LEMMA PlansStay ==
  ASSUME PlanTypes
  PROVE  /\ \A i \in PlanIds : plans[i] # NoPlan => /\ plans[i] \in Plan /\ plans[i].steps \in Seq(InstallStep)
                                                    /\ plans[i].steps # <<>> /\ 1 <= Len(plans[i].steps)
         /\ Current \in [PlanIds -> Plan \union {NoPlan}]
         /\ \A i \in PlanIds : Current[i] = NoPlan \/ (Current[i] = plans[i] /\ i \notin Expired)
         /\ \A i \in PlanIds : Current[i] # NoPlan => Current[i].steps # <<>>
<1>1. \A i \in PlanIds : plans[i] # NoPlan => plans[i] \in Plan /\ plans[i].steps \in Seq(InstallStep)
                                              /\ plans[i].steps # <<>>
  BY DEF PlanTypes, Plan
<1>2. \A i \in PlanIds : plans[i] # NoPlan => 1 <= Len(plans[i].steps)
  BY <1>1
<1>3. Current \in [PlanIds -> Plan \union {NoPlan}]
  BY DEF PlanTypes, Current
<1>4. \A i \in PlanIds : Current[i] = NoPlan \/ (Current[i] = plans[i] /\ i \notin Expired)
  BY DEF Current
<1> QED BY <1>1, <1>2, <1>3, <1>4

LEMMA OutdatedTypes ==
  ASSUME PlanTypes, Outdate
  PROVE  /\ plans' \in [PlanIds -> Plan \union {NoPlan}]
         /\ \A i \in PlanIds : plans'[i] # NoPlan <=> plans[i] # NoPlan
         /\ \A i \in PlanIds : plans'[i] # NoPlan => plans'[i].steps = plans[i].steps /\ ~plans'[i].fresh
<1> SUFFICES ASSUME NEW i \in PlanIds
             PROVE  /\ plans'[i] \in Plan \union {NoPlan}
                    /\ plans'[i] # NoPlan <=> plans[i] # NoPlan
                    /\ plans'[i] # NoPlan => plans'[i].steps = plans[i].steps /\ ~plans'[i].fresh
  BY DEF Outdate
<1>1. CASE plans[i] = NoPlan
  BY <1>1 DEF Outdate
<1>2. CASE plans[i] # NoPlan
  <2>1. plans'[i] = [plans[i] EXCEPT !.fresh = FALSE] /\ plans[i] \in Plan
    BY <1>2 DEF Outdate, PlanTypes
  <2>2. plans'[i] \in Plan /\ plans'[i].steps = plans[i].steps /\ ~plans'[i].fresh
    BY <2>1 DEF Plan
  <2> QED BY <1>2, <2>2, PlansAssumption
<1> QED BY <1>1, <1>2

LEMMA TypesOutdated == ASSUME TypeInv, Outdate, UNCHANGED dirs PROVE PlanTypes'
BY OutdatedTypes DEF TypeInv, PlanTypes

LEMMA RequestTypes ==
  ASSUME TypeInv, NEW c \in Callers,
         PlanRequest(c) \/ ConfirmRequest(c) \/ CancelRequest(c) \/ UninstallRequest(c)
  PROVE  TypeInv'
<1>1. ASSUME NEW r \in Call, Fits(r), ~Locks(r), r.pc # "resolve", Arrive(c, r), UNCHANGED kept PROVE TypeInv'
  <2>1. OtherTypes'
    BY <1>1, QuietTypes DEF OtherTypes, FolderTypes, PlanTypes, WalkTypes, Arrive, system, resolving
  <2>2. Goes(c, r) /\ UNCHANGED <<lock, visiting, ordered>>
    BY <1>1 DEF Arrive, Goes, system, resolving
  <2>3. ~Locks(call[c])
    BY <1>1 DEF Arrive, Active, At, Locks, Confirms, Planning, Preparing, Moving, Installing
  <2> QED BY <1>1, <2>1, <2>2, <2>3, TypesMove
<1>10. /\ \A q : [Idle EXCEPT !.pc = q].pc = q
       /\ Absent \in FolderState /\ Idle = [pc |-> "idle", op |-> "none", id |-> NoPlan, pkg |-> NoPackage,
            replace |-> FALSE, steps |-> <<>>, at |-> 1, saved |-> Absent, result |-> "none", fresh |-> FALSE]
  BY States DEF Idle
<1>11. "plan" \in Planning /\ "uninstall" \in Removing
  BY DEF Planning, Removing
<1>2. ASSUME NEW k \in Uploads, NEW b \in BOOLEAN
      PROVE  LET r == [Idle EXCEPT !.pc = "plan", !.op = "plan", !.pkg = k, !.replace = b] IN r \in Call /\ Fits(r) /\ ~Locks(r) /\ r.pc # "resolve"
  <2> DEFINE r == [Idle EXCEPT !.pc = "plan", !.op = "plan", !.pkg = k, !.replace = b]
  <2>1. r \in Call
    BY <1>11, IdleFits, PackagesAssumption DEF Call
  <2>2. ~Confirms(r) /\ ~Locks(r) /\ r.pc # "resolve"
    BY <1>10 DEF Locks, Confirms, Planning, Preparing, Moving, Installing, Removing
  <2>3. Fits(r)
    BY <1>10, <2>2, PackagesAssumption DEF Fits, Planning, Preparing, Moving, Installing, Removing
  <2> QED BY <2>1, <2>2, <2>3
<1>3. ASSUME NEW i \in PlanIds
      PROVE  LET r == [Idle EXCEPT !.pc = "confirm", !.op = "confirm", !.id = i] IN r \in Call /\ Fits(r) /\ ~Locks(r) /\ r.pc # "resolve"
  <2> DEFINE r == [Idle EXCEPT !.pc = "confirm", !.op = "confirm", !.id = i]
  <2>1. r \in Call
    BY <1>11, IdleFits, PackagesAssumption DEF Call
  <2>2. ~Confirms(r) /\ ~Locks(r) /\ r.pc # "resolve"
    BY <1>10 DEF Locks, Confirms, Planning, Preparing, Moving, Installing, Removing
  <2>3. Fits(r)
    BY <1>10, <2>2, PackagesAssumption DEF Fits, Planning, Preparing, Moving, Installing, Removing
  <2> QED BY <2>1, <2>2, <2>3
<1>4. ASSUME NEW i \in PlanIds
      PROVE  LET r == [Idle EXCEPT !.pc = "cancel", !.op = "cancel", !.id = i] IN r \in Call /\ Fits(r) /\ ~Locks(r) /\ r.pc # "resolve"
  <2> DEFINE r == [Idle EXCEPT !.pc = "cancel", !.op = "cancel", !.id = i]
  <2>1. r \in Call
    BY <1>11, IdleFits, PackagesAssumption DEF Call
  <2>2. ~Confirms(r) /\ ~Locks(r) /\ r.pc # "resolve"
    BY <1>10 DEF Locks, Confirms, Planning, Preparing, Moving, Installing, Removing
  <2>3. Fits(r)
    BY <1>10, <2>2, PackagesAssumption DEF Fits, Planning, Preparing, Moving, Installing, Removing
  <2> QED BY <2>1, <2>2, <2>3
<1>5. ASSUME NEW k \in Packages
      PROVE  LET r == [Idle EXCEPT !.pc = "uninstall", !.op = "uninstall", !.pkg = k] IN
             r \in Call /\ Fits(r) /\ ~Locks(r) /\ r.pc # "resolve"
  <2> DEFINE r == [Idle EXCEPT !.pc = "uninstall", !.op = "uninstall", !.pkg = k]
  <2>1. r \in Call
    BY <1>11, IdleFits, PackagesAssumption DEF Call
  <2>2. ~Confirms(r) /\ ~Locks(r) /\ r.pc # "resolve"
    BY <1>10 DEF Locks, Confirms, Planning, Preparing, Moving, Installing, Removing
  <2>3. Fits(r)
    BY <1>10, <2>2, PackagesAssumption DEF Fits, Planning, Preparing, Moving, Installing, Removing
  <2> QED BY <2>1, <2>2, <2>3
<1>6. CASE PlanRequest(c)
  BY <1>1, <1>2, <1>6 DEF PlanRequest
<1>7. CASE ConfirmRequest(c)
  BY <1>1, <1>3, <1>7 DEF ConfirmRequest
<1>8. CASE CancelRequest(c)
  BY <1>1, <1>4, <1>8 DEF CancelRequest
<1>9. CASE UninstallRequest(c)
  BY <1>1, <1>5, <1>9 DEF UninstallRequest
<1> QED BY <1>6, <1>7, <1>8, <1>9

\* How the request of an action goes on: with the same plan, at another place.
LEMMA Onward ==
  ASSUME CallTypes, NEW c \in Callers
  PROVE  /\ Confirms(call[c]) => \A q \in Installing \union {"reload"} :
              LET r == [call[c] EXCEPT !.pc = q] IN r \in Call /\ Fits(r) /\ Locks(r) /\ r.pc # "resolve"
         /\ Confirms(call[c]) => \A a \in {"none", "ok", "unmet", "provision", "failed"} :
              LET r == [call[c] EXCEPT !.pc = "finish", !.result = a] IN
              r \in Call /\ Fits(r) /\ Locks(r) /\ r.pc # "resolve"
         /\ call[c].op = "uninstall" => \A q \in {"remove", "removing", "reload"} :
              LET r == [call[c] EXCEPT !.pc = q] IN r \in Call /\ Fits(r) /\ ~Locks(r) /\ r.pc # "resolve"
<1>1. call[c] \in Call /\ Fits(call[c])
  BY Ways
<1>2. ASSUME Confirms(call[c]), NEW q \in Installing \union {"reload"}
      PROVE  LET r == [call[c] EXCEPT !.pc = q] IN r \in Call /\ Fits(r) /\ Locks(r) /\ r.pc # "resolve"
  BY <1>1, <1>2 DEF Call, Fits, Locks, Confirms, Planning, Preparing, Moving, Installing, Removing
<1>3. ASSUME Confirms(call[c]), NEW a \in {"none", "ok", "unmet", "provision", "failed"}
      PROVE  LET r == [call[c] EXCEPT !.pc = "finish", !.result = a] IN
             r \in Call /\ Fits(r) /\ Locks(r) /\ r.pc # "resolve"
  BY <1>1, <1>3 DEF Call, Fits, Locks, Confirms, Planning, Preparing, Moving, Installing, Removing
<1>4. ASSUME call[c].op = "uninstall", NEW q \in {"remove", "removing", "reload"}
      PROVE  LET r == [call[c] EXCEPT !.pc = q] IN r \in Call /\ Fits(r) /\ ~Locks(r) /\ r.pc # "resolve"
  BY <1>1, <1>4 DEF Call, Fits, Locks, Confirms, Planning, Preparing, Moving, Installing, Removing
<1> QED BY <1>2, <1>3, <1>4

LEMMA CarriedOn ==
  ASSUME TypeInv, NEW c \in Callers, Confirms(call[c]), OtherTypes', UNCHANGED <<lock, visiting, ordered>>,
         \/ \E q \in Installing \union {"reload"} : Goto(c, q)
         \/ \E a \in {"none", "ok", "unmet", "provision", "failed"} : Fail(c, a)
  PROVE  TypeInv'
<1>1. CallTypes /\ Locks(call[c])
  BY DEF TypeInv, Locks
<1>2. CASE \E q \in Installing \union {"reload"} : Goto(c, q)
  <2>1. PICK q \in Installing \union {"reload"} : Goto(c, q)
    BY <1>2
  <2> DEFINE r == [call[c] EXCEPT !.pc = q]
  <2>2. r \in Call /\ Fits(r) /\ Locks(r) /\ r.pc # "resolve" /\ Goes(c, r)
    BY <1>1, <2>1, Ways, Onward
  <2> HIDE DEF r
  <2> QED BY <1>1, <2>2, TypesMove
<1>3. CASE \E a \in {"none", "ok", "unmet", "provision", "failed"} : Fail(c, a)
  <2>1. PICK a \in {"none", "ok", "unmet", "provision", "failed"} : Fail(c, a)
    BY <1>3
  <2> DEFINE r == [call[c] EXCEPT !.pc = "finish", !.result = a]
  <2>2. r \in Call /\ Fits(r) /\ Locks(r) /\ r.pc # "resolve" /\ Goes(c, r)
    BY <1>1, <2>1, Ways, Onward
  <2> HIDE DEF r
  <2> QED BY <1>1, <2>2, TypesMove
<1> QED BY <1>2, <1>3

\* The request ends, and what it held is free.
LEMMA Ended ==
  ASSUME TypeInv, NEW c \in Callers, OtherTypes', Done(c), UNCHANGED <<visiting, ordered>> \/ lock = c,
         lock' = IF lock = c THEN NoCaller ELSE lock
  PROVE  TypeInv'
<1>1. CallTypes /\ (lock = c <=> Locks(call[c])) /\ Goes(c, Idle) /\ Idle.pc # "resolve"
  BY Ways DEF TypeInv, Idle
<1> QED BY <1>1, IdleFits, TypesMove

LEMMA PlanTypesKept ==
  ASSUME TypeInv, NEW c \in Callers,
         PlanBegins(c) \/ Accept(c) \/ Visit(c) \/ Return(c) \/ PlanEnds(c) \/ PlanBreaks(c) \/ Cancel(c)
  PROVE  TypeInv'
<1>1. /\ OtherTypes /\ FolderTypes /\ PlanTypes /\ WalkTypes /\ CallTypes
      /\ call[c] \in Call /\ Fits(call[c]) /\ (lock = c <=> Locks(call[c])) /\ c # NoCaller
  BY QuietTypes, Ways DEF TypeInv
<1>2. ASSUME call[c].pc \in {"accept", "resolve"}
      PROVE  lock = c /\ call[c].pkg \in Packages /\ call[c].id \in PlanIds /\ call[c].op = "plan" /\ ~Confirms(call[c])
  BY <1>1, <1>2 DEF Locks, Fits, Confirms, Planning, Preparing, Moving, Installing, Removing
<1>3. ASSUME PlanFails(c), call[c].pc \in {"accept", "resolve"}, FolderTypes', UNCHANGED <<plans, older, raced, crashes>>, faults' \in Nat
      PROVE  TypeInv'
  <2>1. WalkTypes' /\ PlanTypes'
    BY <1>1, <1>3 DEF PlanFails, Forget, WalkTypes, PlanTypes
  <2>2. OtherTypes'
    BY <1>1, <1>3, <2>1 DEF OtherTypes
  <2> QED BY <1>2, <1>3, <2>2, Ended DEF PlanFails
<1>4. CASE PlanBegins(c)
  <2>1. OtherTypes' /\ UNCHANGED <<visiting, ordered>>
    <3>1. FolderTypes' /\ WalkTypes' /\ UNCHANGED <<visiting, ordered, older, raced, faults, crashes>>
      BY <1>1, <1>4 DEF PlanBegins, FolderTypes, WalkTypes, resolving, history
    <3>2. PlanTypes'
      BY <1>1, <1>4, PlansStay DEF PlanBegins, PlanTypes
    <3> QED BY <1>1, <3>1, <3>2 DEF OtherTypes
  <2>2. PICK i \in PlanIds : lock = NoCaller /\ lock' = c /\ call' = [call EXCEPT ![c].pc = "accept", ![c].id = i]
    BY <1>4 DEF PlanBegins
  <2> DEFINE r == [call[c] EXCEPT !.pc = "accept", !.id = i]
  <2>3. Goes(c, r) /\ r \in Call /\ Locks(r) /\ r.pc # "resolve"
    BY <1>1, <2>2 DEF Goes, CallTypes, Call, Locks, Planning
  <2>4. Fits(r)
    BY <1>1, <1>4 DEF PlanBegins, At, Fits, Locks, Confirms, Planning, Preparing, Moving, Installing, Removing
  <2> HIDE DEF r
  <2> QED BY <2>1, <2>2, <2>3, <2>4, TypesMove
<1>5. CASE Accept(c)
  <2>1. FolderTypes' /\ UNCHANGED <<plans, older, raced, faults, crashes>> /\ call[c].pc = "accept"
    BY <1>1, <1>5 DEF Accept, FolderTypes, history, At
  <2>2. CASE PlanFails(c)
    BY <1>1, <1>3, <2>1, <2>2 DEF OtherTypes
  <2>3. CASE /\ visiting' = <<Frame(call[c].pkg)>> /\ Goto(c, "resolve")
             /\ UNCHANGED <<dirs, lock, done, ordered>>
    <3>1. Frame(call[c].pkg) \in Walk
      BY <1>2, <2>1, <1>1 DEF Frame, Walk, Readable
    <3>2. WalkTypes' /\ visiting' # <<>>
      BY <2>3, <3>1, <1>1 DEF WalkTypes
    <3>3. PlanTypes'
      BY <1>1, <2>1, <2>3 DEF PlanTypes
    <3> DEFINE r == [call[c] EXCEPT !.pc = "resolve"]
    <3>4. Goes(c, r) /\ r \in Call /\ Locks(r)
      BY <1>1, <2>3, Ways DEF Call, Locks, Planning
    <3>5. Fits(r)
      BY <1>1, <2>1 DEF Fits, Locks, Confirms, Planning, Preparing, Moving, Installing, Removing
    <3>6. CallTypes'
      <4> HIDE DEF r
      <4>1. lock = c /\ lock' = lock
        BY <2>1, <1>2, <2>3
      <4> QED BY <1>1, <3>4, <3>5, <4>1, CallsMove DEF CallTypes
    <3> QED BY <1>1, <2>1, <3>2, <3>3, <3>6 DEF TypeInv, OtherTypes
  <2> QED BY <1>5, <2>2, <2>3 DEF Accept
<1>6. CASE Visit(c)
  <2>1. FolderTypes' /\ UNCHANGED <<plans, older, raced, faults, crashes>> /\ call[c].pc = "resolve" /\ visiting # <<>>
    BY <1>1, <1>6 DEF Visit, FolderTypes, history, At
  <2>2. Len(visiting) \in 1..Len(visiting) /\ Top \in Walk
    BY <1>1, <2>1 DEF WalkTypes, Top
  <2>3. Top.pkg \in Packages /\ Top.next \in Nat \ {0} /\ Top.next <= Len(Top.pkg.needs)
    BY <2>2, <1>6 DEF Walk, Visit
  <2>4. Sought \in Range(Top.pkg.needs) /\ Sought.id \in Plugins
    BY <2>3, Manifest DEF Sought
  <2>5. Advanced \in Seq(Walk) /\ Len(Advanced) = Len(visiting)
    <3>1. [Top EXCEPT !.next = @ + 1] \in Walk
      BY <2>2 DEF Walk
    <3>2. Advanced = [visiting EXCEPT ![Len(visiting)] = [Top EXCEPT !.next = @ + 1]]
      BY <1>1, <2>2 DEF Advanced, Top, WalkTypes
    <3> QED BY <3>1, <3>2, <2>2, <1>1 DEF WalkTypes
  <2>6. CASE PlanFails(c)
    BY <1>1, <1>3, <2>1, <2>6 DEF OtherTypes
  <2>7. CASE /\ done' = done \union {Sought.id} /\ visiting' = Advanced
             /\ UNCHANGED <<dirs, lock, call, ordered>>
    <3>1. WalkTypes' /\ visiting' # <<>>
      BY <1>1, <2>1, <2>4, <2>5, <2>7 DEF WalkTypes
    <3>2. PlanTypes' /\ CallTypes'
      BY <1>1, <2>1, <2>7 DEF PlanTypes, CallTypes
    <3> QED BY <1>1, <2>1, <3>1, <3>2 DEF TypeInv, OtherTypes
  <2>8. CASE /\ \E k \in Offers(call[c].pkg, Sought.id) :
               Compatible(k.ver, Sought.min) /\ visiting' = Append(Advanced, Frame(k))
             /\ UNCHANGED <<dirs, lock, call, done, ordered>>
    <3>1. PICK k \in Offers(call[c].pkg, Sought.id) : visiting' = Append(Advanced, Frame(k))
      BY <2>8
    <3>2. k \in Packages
      BY <1>1, <1>2, <2>1, Offered DEF FolderTypes
    <3>3. Frame(k) \in Walk
      BY <3>2 DEF Frame, Walk, Readable
    <3>4. WalkTypes' /\ visiting' # <<>>
      BY <1>1, <2>5, <2>8, <3>1, <3>3 DEF WalkTypes
    <3>5. PlanTypes' /\ CallTypes'
      BY <1>1, <2>1, <2>8 DEF PlanTypes, CallTypes
    <3> QED BY <1>1, <2>1, <3>4, <3>5 DEF TypeInv, OtherTypes
  <2> QED BY <1>6, <2>6, <2>7, <2>8 DEF Visit
<1>7. CASE Return(c)
  <2>1. FolderTypes' /\ PlanTypes' /\ CallTypes' /\ UNCHANGED <<older, raced, faults, crashes>>
    BY <1>1, <1>7 DEF Return, FolderTypes, PlanTypes, CallTypes, history
  <2>2. Top \in Walk
    BY <1>1, <1>7 DEF WalkTypes, Top, Return
  <2>3. [pkg |-> Top.pkg, replace |-> Top.replace] \in InstallStep /\ Top.pkg.id \in Plugins
    BY <2>2, Manifest DEF Walk, InstallStep
  <2>4. WalkTypes' /\ ordered' # <<>>
    <3>1. visiting \in Seq(Walk) /\ visiting # <<>> /\ ordered \in Seq(InstallStep) /\ done \subseteq Plugins
      BY <1>1, <1>7 DEF WalkTypes, Return
    <3>2. Front(visiting) \in Seq(Walk)
      BY <3>1 DEF Front
    <3>3. \A x \in InstallStep : Append(ordered, x) \in Seq(InstallStep) /\ Append(ordered, x) # <<>>
      BY <3>1
    <3> QED BY <1>7, <2>3, <3>1, <3>2, <3>3 DEF WalkTypes, Return
  <2> QED BY <1>1, <2>1, <2>4 DEF TypeInv, OtherTypes
<1>8. CASE PlanEnds(c)
  <2>1. FolderTypes' /\ UNCHANGED <<dirs, older, raced, faults, crashes>>
    BY <1>1, <1>8 DEF PlanEnds, FolderTypes, history
  <2>2. call[c].pc = "resolve" /\ ordered # <<>>
    BY <1>8 DEF PlanEnds, TypeInv, At
  <2>3. [steps |-> ordered, expired |-> FALSE, fresh |-> TRUE] \in Plan
    BY <1>1 DEF WalkTypes, Plan
  <2>4. PlanTypes'
    BY <1>1, <1>8, <2>1, <2>2, <2>3 DEF PlanTypes, PlanEnds
  <2>5. WalkTypes'
    BY <1>8 DEF PlanEnds, Forget, WalkTypes
  <2>6. OtherTypes'
    BY <1>1, <2>1, <2>4, <2>5 DEF OtherTypes
  <2> QED BY <1>2, <1>8, <2>2, <2>6, Ended DEF PlanEnds
<1>9. CASE PlanBreaks(c)
  <2>1. FolderTypes' /\ UNCHANGED <<plans, older, raced, crashes>> /\ faults' \in Nat
    BY <1>1, <1>9 DEF PlanBreaks, FolderTypes, history, Fault, OtherTypes
  <2> QED BY <1>3, <1>9, <2>1 DEF PlanBreaks, At
<1>10. CASE Cancel(c)
  <2>1. OtherTypes' /\ UNCHANGED <<visiting, ordered, lock>>
    BY <1>1, <1>10 DEF Cancel, OtherTypes, FolderTypes, PlanTypes, WalkTypes, history, resolving
  <2>2. lock # c
    BY <1>1, <1>10 DEF Cancel
  <2> QED BY <1>10, <2>1, <2>2, Ended DEF Cancel
<1> QED BY <1>4, <1>5, <1>6, <1>7, <1>8, <1>9, <1>10

LEMMA ConfirmTypes ==
  ASSUME TypeInv, NEW c \in Callers, ConfirmBegins(c) \/ Finish(c)
  PROVE  TypeInv'
<1>1. /\ OtherTypes /\ FolderTypes /\ PlanTypes /\ WalkTypes /\ CallTypes
      /\ call[c] \in Call /\ Fits(call[c]) /\ (lock = c <=> Locks(call[c])) /\ c # NoCaller
  BY QuietTypes, Ways DEF TypeInv
<1>2. CASE ConfirmBegins(c)
  <2>1. FolderTypes' /\ WalkTypes' /\ UNCHANGED <<visiting, ordered, older, raced, faults, crashes>>
    BY <1>1, <1>2 DEF ConfirmBegins, FolderTypes, WalkTypes, resolving, history
  <2>2. call[c].pc = "confirm" /\ call[c].id \in PlanIds /\ lock = NoCaller /\ lock # c /\ dirs' = dirs \ Expired
    BY <1>1, <1>2 DEF ConfirmBegins, At, Fits
  <2> DEFINE p == Current[call[c].id]
  <2>3. CASE p = NoPlan /\ plans' = Current /\ Done(c) /\ UNCHANGED lock
    <3>1. PlanTypes'
      BY <1>1, <2>2, <2>3, PlansStay DEF PlanTypes
    <3>2. OtherTypes'
      BY <1>1, <2>1, <3>1 DEF OtherTypes
    <3> QED BY <2>1, <2>2, <2>3, <3>2, Ended
  <2>4. CASE /\ p # NoPlan
             /\ plans' = [Current EXCEPT ![call[c].id] = NoPlan]
             /\ lock' = c
             /\ call' = [call EXCEPT ![c].pc = "check", ![c].steps = p.steps, ![c].fresh = p.fresh]
    <3>1. PlanTypes'
      BY <1>1, <2>2, <2>4, PlansStay DEF PlanTypes
    <3>2. OtherTypes'
      BY <1>1, <2>1, <3>1 DEF OtherTypes
    <3>3. p \in Plan /\ p.steps \in Seq(InstallStep) /\ 1 <= Len(p.steps) /\ p.fresh \in BOOLEAN
      BY <1>1, <2>2, <2>4, PlansStay DEF Plan
    <3> DEFINE r == [call[c] EXCEPT !.pc = "check", !.steps = p.steps, !.fresh = p.fresh]
    <3> HIDE DEF p
    <3>4. Goes(c, r)
      BY <1>1, <2>4 DEF Goes, CallTypes
    <3>5. r \in Call
      BY <1>1, <3>3 DEF Call, Preparing, Installing
    <3>6. Locks(r) /\ r.pc # "resolve"
      BY <1>1 DEF Call, Locks, Confirms, Preparing, Installing
    <3>7. Fits(r)
      <4>1. /\ r.pc = "check" /\ r.op = "confirm" /\ r.id \in PlanIds /\ r.at = 1 /\ r.saved = Absent
            /\ r.steps = p.steps
        BY <1>1, <2>2 DEF Call, Fits
      <4>2. Holds(r.saved, r.steps[r.at].pkg.id) /\ r.at <= Len(r.steps)
        BY <4>1, <3>3, States
      <4> HIDE DEF r
      <4> QED BY <4>1, <4>2 DEF Fits, Locks, Confirms, Planning, Preparing, Moving, Installing, Removing
    <3> HIDE DEF r
    <3> QED BY <2>1, <2>2, <2>4, <3>2, <3>4, <3>5, <3>6, <3>7, TypesMove
  <2> QED BY <1>2, <2>2, <2>3, <2>4 DEF ConfirmBegins
<1>3. CASE Finish(c)
  <2>1. FolderTypes' /\ WalkTypes' /\ PlanTypes' /\ UNCHANGED <<visiting, ordered, older, raced, crashes>> /\ faults' \in Nat
    BY <1>1, <1>3 DEF Finish, FolderTypes, WalkTypes, PlanTypes, OtherTypes, resolving, history, Fault, NoFault
  <2>2. lock = c
    BY <1>1, <1>3 DEF Finish, At, Locks, Confirms, Installing
  <2> QED BY <1>1, <1>3, <2>1, <2>2, Ended DEF Finish, OtherTypes
<1> QED BY <1>2, <1>3

LEMMA InstallTypes ==
  ASSUME TypeInv, NEW c \in Callers,
         \/ InstallCheck(c) \/ PrepareRuntime(c) \/ MakeRuntime(c) \/ PrepareModel(c) \/ FetchModel(c)
         \/ MoveOld(c) \/ MoveNew(c) \/ MoveBack(c)
  PROVE  TypeInv'
<1>1. OtherTypes /\ FolderTypes /\ PlanTypes /\ WalkTypes /\ CallTypes
  BY QuietTypes DEF TypeInv
<1>2. Confirms(call[c])
  BY DEF InstallCheck, PrepareRuntime, MakeRuntime, PrepareModel, FetchModel, MoveOld, MoveNew, MoveBack, At,
         Confirms, Preparing, Moving, Installing
<1>3. /\ Step(c).pkg \in Packages /\ Id(c) = Step(c).pkg.id /\ Id(c) \in Plugins
      /\ call[c].saved \in FolderState /\ Holds(call[c].saved, Id(c)) /\ lock = c
  BY <1>1, <1>2, Current1
<1>4. /\ \A f \in FolderState : Holds(f, Id(c)) =>
           LET g == [folder EXCEPT ![Id(c)] = f] IN
           g \in [Plugins -> FolderState] /\ \A p \in Plugins : Holds(g[p], p)
      /\ lost \union {Id(c)} \subseteq Plugins
  BY <1>1, <1>3 DEF FolderTypes
<1>5. ASSUME UNCHANGED <<folder, catalog, loads, lost, plans, dirs, resolving, older, raced, crashes>>, faults' \in Nat
      PROVE  OtherTypes'
  BY <1>1, <1>5 DEF OtherTypes, FolderTypes, PlanTypes, WalkTypes, resolving
<1>6. CASE InstallCheck(c)
  BY <1>1, <1>2, <1>5, <1>6, CarriedOn DEF InstallCheck, system, resolving, history, Installing, Preparing, OtherTypes
<1>7. CASE PrepareRuntime(c)
  BY <1>1, <1>2, <1>5, <1>7, CarriedOn DEF PrepareRuntime, resolving, history, Installing, Preparing, OtherTypes
<1>8. CASE MakeRuntime(c)
  BY <1>1, <1>2, <1>5, <1>8, CarriedOn DEF MakeRuntime, resolving, history, Installing, Preparing, OtherTypes, Fault, NoFault
<1>9. CASE PrepareModel(c)
  BY <1>1, <1>2, <1>5, <1>9, CarriedOn DEF PrepareModel, resolving, history, Installing, Preparing, OtherTypes
<1>10. CASE FetchModel(c)
  BY <1>1, <1>2, <1>5, <1>10, CarriedOn DEF FetchModel, resolving, history, Installing, Preparing, OtherTypes, Fault, NoFault
<1>11. ASSUME NEW f \in FolderState, Holds(f, Id(c)), folder' = folder \/ folder' = [folder EXCEPT ![Id(c)] = f],
              lost' = lost \/ lost' = lost \union {Id(c)}, PlanTypes',
              UNCHANGED <<catalog, resolving, lock, loads, raced, crashes>>, faults' \in Nat, older' \in BOOLEAN
       PROVE  OtherTypes' /\ UNCHANGED <<lock, visiting, ordered>>
  BY <1>1, <1>4, <1>11 DEF OtherTypes, FolderTypes, WalkTypes, resolving
<1>12. folder[Id(c)] \in FolderState /\ Holds(folder[Id(c)], Id(c))
  BY <1>1, <1>3 DEF FolderTypes
<1>13. CASE MoveOld(c)
  <2>1. PlanTypes' /\ UNCHANGED <<catalog, resolving, lock, loads, raced, crashes, older>>
    BY <1>13, TypesOutdated DEF MoveOld
  <2>2. faults' \in Nat /\ older' \in BOOLEAN
    BY <1>1, <1>13, <2>1 DEF MoveOld, Fault, NoFault, OtherTypes
  <2>3. CASE UNCHANGED <<folder, lost>> /\ (Goto(c, "moveNew") \/ Fail(c, "failed"))
    BY <1>1, <1>2, <1>11, <1>12, <2>1, <2>2, <2>3, CarriedOn DEF Installing, Moving
  <2>4. CASE /\ folder' = [folder EXCEPT ![Id(c)] = Absent] /\ UNCHANGED lost
             /\ call' = [call EXCEPT ![c].pc = "moveNew", ![c].saved = folder[Id(c)]]
    <3>1. OtherTypes' /\ UNCHANGED <<lock, visiting, ordered>>
      BY <1>11, <2>1, <2>2, <2>4, States
    <3> DEFINE r == [call[c] EXCEPT !.pc = "moveNew", !.saved = folder[Id(c)]]
    <3>2. call[c] \in Call /\ Fits(call[c]) /\ Locks(call[c]) /\ Goes(c, r)
      BY <1>1, <1>2, <2>4, Ways DEF Locks, Goes, CallTypes
    <3>3. r \in Call /\ Locks(r) /\ r.pc # "resolve"
      <4>1. r \in Call
        BY <1>12, <3>2 DEF Call, Moving, Installing
      <4>2. r.pc = "moveNew"
        BY <3>2 DEF Call
      <4> QED BY <4>1, <4>2 DEF Locks, Confirms, Moving, Installing
    <3>4. Fits(r)
      <4>1. /\ r.pc = "moveNew" /\ r.op = call[c].op /\ r.id = call[c].id /\ r.at = call[c].at /\ r.saved = folder[Id(c)]
            /\ r.steps = call[c].steps /\ Id(c) = r.steps[r.at].pkg.id
        BY <3>2 DEF Call, Id, Step
      <4>2. call[c].op = "confirm" /\ call[c].id \in PlanIds /\ call[c].at <= Len(call[c].steps)
        BY <3>2, <1>2 DEF Fits, Confirms, Locks
      <4> HIDE DEF r
      <4> QED BY <4>1, <4>2, <1>12 DEF Fits, Locks, Confirms, Planning, Preparing, Moving, Installing, Removing
    <3> HIDE DEF r
    <3> QED BY <3>1, <3>2, <3>3, <3>4, TypesMove
  <2>5. CASE /\ Fail(c, "failed") /\ lost' = lost \union {Id(c)} /\ folder[Id(c)].parts # "none"
             /\ \E f \in Torn(folder[Id(c)].pkg) : folder' = [folder EXCEPT ![Id(c)] = f]
    <3>1. folder[Id(c)].pkg \in Packages /\ folder[Id(c)].pkg.id = Id(c)
      BY <1>12, <2>5 DEF Holds, FolderState
    <3>2. OtherTypes' /\ UNCHANGED <<lock, visiting, ordered>>
      BY <1>11, <2>1, <2>2, <2>5, <3>1, States
    <3> QED BY <1>2, <2>5, <3>2, CarriedOn
  <2> QED BY <1>13, <2>3, <2>4, <2>5 DEF MoveOld
<1>14. CASE MoveNew(c)
  <2>1. PlanTypes' /\ UNCHANGED <<catalog, resolving, lock, loads, raced, crashes>>
    BY <1>14, TypesOutdated DEF MoveNew
  <2>2. faults' \in Nat
    BY <1>1, <1>14 DEF MoveNew, Fault, NoFault, OtherTypes
  <2>3. older' \in BOOLEAN
    BY <1>1, <1>14 DEF MoveNew, OtherTypes
  <2>4. CASE folder' = [folder EXCEPT ![Id(c)] = Whole(Step(c).pkg)] /\ Goto(c, "reload") /\ UNCHANGED lost
    <3>1. OtherTypes' /\ UNCHANGED <<lock, visiting, ordered>>
      BY <1>3, <1>11, <2>1, <2>2, <2>3, <2>4, States
    <3> QED BY <1>2, <2>4, <3>1, CarriedOn
  <2>5. CASE Goto(c, "moveBack") /\ UNCHANGED <<folder, lost>>
    BY <1>1, <1>2, <1>11, <1>12, <2>1, <2>2, <2>3, <2>5, CarriedOn DEF Installing, Moving
  <2>6. CASE /\ Fail(c, "failed") /\ lost' = lost \union {Id(c)}
             /\ \E f \in Torn(Step(c).pkg) : folder' = [folder EXCEPT ![Id(c)] = f]
    <3>1. OtherTypes' /\ UNCHANGED <<lock, visiting, ordered>>
      BY <1>3, <1>11, <2>1, <2>2, <2>3, <2>6, States
    <3> QED BY <1>2, <2>6, <3>1, CarriedOn
  <2> QED BY <1>14, <2>4, <2>5, <2>6 DEF MoveNew
<1>15. CASE MoveBack(c)
  <2>1. PlanTypes' /\ UNCHANGED <<catalog, resolving, lock, loads, raced, crashes, older>>
    BY <1>1, <1>15 DEF MoveBack, PlanTypes
  <2>2. faults' \in Nat /\ older' \in BOOLEAN
    BY <1>1, <1>15, <2>1 DEF MoveBack, Fault, NoFault, OtherTypes
  <2>3. OtherTypes' /\ UNCHANGED <<lock, visiting, ordered>>
    BY <1>3, <1>11, <1>15, <2>1, <2>2 DEF MoveBack
  <2> QED BY <1>2, <1>15, <2>3, CarriedOn DEF MoveBack
<1> QED BY <1>6, <1>7, <1>8, <1>9, <1>10, <1>13, <1>14, <1>15

\* What load_all() makes of each plugin.
LEMMA LoadTypes == LoadResults \subseteq [Plugins -> Loads]
<1>1. \A p \in Plugins : Outcome(p) \in Loads
  BY DEF Outcome, Loads
<1> QED BY <1>1 DEF LoadResults, Loads

\* A plugin in full fails on its own only if it is a fragile one.
LEMMA LoadedOrFailed ==
  ASSUME NEW f \in LoadResults, NEW p \in Plugins, folder[p].parts = "whole"
  PROVE  f[p] = Outcome(p) \/ (f[p] = "failed" /\ p \in Fragile)
BY DEF LoadResults

LEMMA UninstallTypes ==
  ASSUME TypeInv, NEW c \in Callers,
         Reload(c) \/ UninstallCheck(c) \/ RemoveBegins(c) \/ Removed(c)
  PROVE  TypeInv'
<1>1. /\ OtherTypes /\ FolderTypes /\ PlanTypes /\ WalkTypes /\ CallTypes
      /\ call[c] \in Call /\ Fits(call[c]) /\ (lock = c <=> Locks(call[c])) /\ c # NoCaller
  BY QuietTypes, Ways DEF TypeInv
<1>2. ASSUME call[c].op = "uninstall", OtherTypes', UNCHANGED <<lock, visiting, ordered>>, ~Locks(call[c]),
             Done(c) \/ \E q \in {"remove", "removing", "reload"} : Goto(c, q)
      PROVE  TypeInv'
  <2>1. CASE Done(c)
    BY <1>1, <1>2, <2>1, Ended
  <2>2. CASE \E q \in {"remove", "removing", "reload"} : Goto(c, q)
    BY <1>1, <1>2, <2>2, Ways, Onward, TypesMove
  <2> QED BY <1>2, <2>1, <2>2
<1>3. call[c].pc \in Removing => call[c].op = "uninstall" /\ call[c].pkg \in Packages /\ ~Locks(call[c])
  BY <1>1 DEF Fits, Locks, Confirms, Planning, Preparing, Moving, Installing, Removing
<1>4. CASE Reload(c)
  <2>1. LoadResults \subseteq [Plugins -> Loads]
    BY LoadTypes
  <2>2. OtherTypes' /\ UNCHANGED <<lock, visiting, ordered>>
    BY <1>1, <1>4, <2>1 DEF Reload, OtherTypes, FolderTypes, PlanTypes, WalkTypes, resolving, history
  <2>3. CASE call[c].op = "uninstall"
    <3>1. ~Locks(call[c])
      BY <1>4, <2>3 DEF Reload, At, Locks, Confirms, Preparing, Moving, Installing
    <3> QED BY <1>2, <1>4, <2>2, <2>3, <3>1 DEF Reload
  <2>4. CASE call[c].op # "uninstall"
    <3>1. Confirms(call[c])
      BY <1>1, <1>4, <2>4 DEF Reload, At, Fits, Confirms
    <3>2. CASE Fail(c, "ok")
      BY <2>2, <3>1, <3>2, CarriedOn
    <3>3. CASE /\ call[c].at # Len(call[c].steps)
               /\ call' = [call EXCEPT ![c].pc = "check", ![c].at = @ + 1, ![c].saved = Absent]
      <4> DEFINE r == [call[c] EXCEPT !.pc = "check", !.at = @ + 1, !.saved = Absent]
      <4>1. Goes(c, r)
        BY <1>1, <3>3 DEF Goes, CallTypes
      <4>2. r \in Call
        <5>1. call[c].at + 1 \in Nat \ {0} /\ Absent \in FolderState
          BY <1>1, States DEF Call
        <5> QED BY <1>1, <5>1 DEF Call, Preparing, Installing
      <4>3. Locks(r) /\ r.pc # "resolve" /\ Locks(call[c])
        BY <1>1, <3>1 DEF Call, Locks, Confirms, Preparing, Installing
      <4>4. Fits(r)
        <5>1. /\ r.pc = "check" /\ r.op = call[c].op /\ r.id = call[c].id /\ r.at = call[c].at + 1
              /\ r.saved = Absent /\ r.steps = call[c].steps
          BY <1>1 DEF Call
        <5>2. /\ call[c].op = "confirm" /\ call[c].id \in PlanIds
              /\ call[c].at \in 1..Len(call[c].steps) /\ Len(call[c].steps) \in Nat
          BY <1>1, <3>1, Current1
        <5>3. Holds(r.saved, r.steps[r.at].pkg.id) /\ r.at <= Len(r.steps)
          BY <3>3, <5>1, <5>2, States
        <5> HIDE DEF r
        <5> QED BY <5>1, <5>2, <5>3 DEF Fits, Locks, Confirms, Planning, Preparing, Moving, Installing, Removing
      <4> HIDE DEF r
      <4> QED BY <2>2, <4>1, <4>2, <4>3, <4>4, TypesMove
    <3> QED BY <1>4, <2>4, <3>2, <3>3 DEF Reload
  <2> QED BY <2>3, <2>4
<1>5. CASE UninstallCheck(c)
  <2>1. OtherTypes' /\ UNCHANGED <<lock, visiting, ordered>>
    BY <1>1, <1>5 DEF UninstallCheck, OtherTypes, FolderTypes, PlanTypes, WalkTypes, system, resolving, history
  <2> QED BY <1>2, <1>3, <1>5, <2>1 DEF UninstallCheck, At, Removing
<1>6. CASE RemoveBegins(c)
  <2>1. call[c].pkg \in Packages /\ Target(c) \in Plugins /\ Target(c) = call[c].pkg.id
    BY <1>3, <1>6, Manifest DEF RemoveBegins, At, Removing, Target
  <2>2. folder[Target(c)] \in FolderState /\ Holds(folder[Target(c)], Target(c))
    BY <1>1, <2>1 DEF FolderTypes
  <2>3. FolderTypes'
    <3>1. CASE UNCHANGED folder
      BY <1>1, <1>6, <3>1 DEF RemoveBegins, FolderTypes
    <3>2. CASE /\ folder[Target(c)].parts # "none"
               /\ \E f \in Torn(folder[Target(c)].pkg) : folder' = [folder EXCEPT ![Target(c)] = f]
      <4>1. folder[Target(c)].pkg \in Packages /\ folder[Target(c)].pkg.id = Target(c)
        BY <2>2, <3>2 DEF Holds, FolderState
      <4>2. PICK f \in FolderState : Holds(f, Target(c)) /\ folder' = [folder EXCEPT ![Target(c)] = f]
        BY <3>2, <4>1, States
      <4> QED BY <1>1, <1>6, <2>1, <4>2 DEF RemoveBegins, FolderTypes
    <3> QED BY <1>6, <3>1, <3>2 DEF RemoveBegins
  <2>4. PlanTypes'
    BY <1>1, <1>6, TypesOutdated DEF RemoveBegins, PlanTypes
  <2>5. OtherTypes' /\ UNCHANGED <<lock, visiting, ordered>>
    BY <1>1, <1>6, <2>3, <2>4 DEF RemoveBegins, OtherTypes, WalkTypes, resolving
  <2> QED BY <1>2, <1>3, <1>6, <2>5 DEF RemoveBegins, At, Removing
<1>7. CASE Removed(c)
  <2>1. call[c].pkg \in Packages /\ Target(c) \in Plugins /\ Target(c) = call[c].pkg.id
    BY <1>3, <1>7, Manifest DEF Removed, At, Removing, Target
  <2>2. FolderTypes'
    BY <1>1, <1>7, <2>1, States DEF Removed, FolderTypes, history
  <2>3. OtherTypes' /\ UNCHANGED <<lock, visiting, ordered>>
    BY <1>1, <1>7, <2>2 DEF Removed, OtherTypes, PlanTypes, WalkTypes, resolving, history, Fault, NoFault
  <2> QED BY <1>2, <1>3, <1>7, <2>3 DEF Removed, At, Removing
<1> QED BY <1>4, <1>5, <1>6, <1>7

LEMMA OutsideTypes ==
  ASSUME TypeInv, Expire \/ Crash
  PROVE  TypeInv'
<1>1. OtherTypes /\ FolderTypes /\ PlanTypes /\ WalkTypes /\ CallTypes
  BY QuietTypes DEF TypeInv
<1>2. CASE Expire
  <2>1. PICK i \in PlanIds : plans[i] # NoPlan /\ plans' = [plans EXCEPT ![i].expired = TRUE]
    BY <1>2 DEF Expire
  <2>2. plans[i] \in Plan /\ plans[i].steps # <<>>
    BY <1>1, <2>1 DEF PlanTypes
  <2>3. [plans[i] EXCEPT !.expired = TRUE] \in Plan /\ [plans[i] EXCEPT !.expired = TRUE].steps = plans[i].steps
    BY <2>2 DEF Plan
  <2>4. plans' = [plans EXCEPT ![i] = [plans[i] EXCEPT !.expired = TRUE]]
    BY <1>1, <2>1 DEF PlanTypes
  <2>5. PlanTypes'
    BY <1>1, <1>2, <2>2, <2>3, <2>4 DEF PlanTypes, Expire
  <2>6. FolderTypes' /\ WalkTypes' /\ CallTypes' /\ UNCHANGED <<call, visiting, ordered, older, raced, faults, crashes>>
    BY <1>1, <1>2 DEF Expire, FolderTypes, WalkTypes, CallTypes, resolving, history
  <2> QED BY <2>5, <2>6 DEF TypeInv, At
<1>3. CASE Crash
  <2>1. PlanTypes' /\ WalkTypes'
    BY <1>1, <1>3 DEF Crash, PlanTypes, WalkTypes, Forget
  <2>2. CallTypes' /\ \A c \in Callers : call'[c].pc = "idle"
    BY <1>1, <1>3, IdleFits, CallersAssumption DEF Crash, CallTypes, Idle
  <2>3. FolderTypes'
    <3>1. loads' \in [Plugins -> Loads] /\ UNCHANGED <<folder, catalog>>
      BY <1>3, LoadTypes DEF Crash
    <3>2. \A d \in Callers : call[d].pc \in {"moveNew", "moveBack"} => Id(d) \in Plugins
      BY <1>1, Current1 DEF Confirms, Moving, Installing
    <3>3. lost' \subseteq Plugins
      BY <1>1, <1>3, <3>2 DEF Crash, FolderTypes
    <3> QED BY <1>1, <3>1, <3>3 DEF FolderTypes
  <2>4. UNCHANGED <<older, raced, faults>> /\ crashes' \in Nat
    BY <1>3 DEF Crash, TypeInv
  <2> QED BY <2>1, <2>2, <2>3, <2>4 DEF TypeInv, At
<1> QED BY <1>2, <1>3

\* Any other step leaves all variables alone.
LEMMA StutterTypes == TypeInv /\ UNCHANGED vars => TypeInv'
BY DEF TypeInv, FolderTypes, PlanTypes, WalkTypes, CallTypes, vars, system, resolving, At

LEMMA InitialFolders ==
  ASSUME NEW w \in Worlds,
         folder = [p \in Plugins |-> IF \E k \in w.installed : k.id = p
                                     THEN Whole(CHOOSE k \in w.installed : k.id = p) ELSE Absent]
  PROVE  /\ \A p \in Plugins : \/ folder[p] = Absent /\ ~\E k \in w.installed : k.id = p
                               \/ \E k \in w.installed : k.id = p /\ folder[p] = Whole(k)
         /\ \A k \in w.installed : k \in Packages /\ k.id \in Plugins /\ folder[k.id] = Whole(k)
<1>1. \A p \in Plugins : \/ folder[p] = Absent /\ ~\E k \in w.installed : k.id = p
                         \/ \E k \in w.installed : k.id = p /\ folder[p] = Whole(k)
  OBVIOUS
<1>2. \A k \in w.installed : k \in Packages /\ k.id \in Plugins
  BY WorldsAssumption, Manifest
<1>3. \A k \in w.installed : folder[k.id] = Whole(k)
  BY <1>1, <1>2, WorldsAssumption
<1> QED BY <1>1, <1>2, <1>3

(* Types, the lock and what each request has at hand hold always. *)
THEOREM TypeCorrect == Spec => []TypeInv
<1>1. Init => TypeInv
  <2> SUFFICES ASSUME Init PROVE TypeInv
    OBVIOUS
  <2>1. PICK w \in Worlds :
          /\ catalog = w.catalog
          /\ folder = [p \in Plugins |-> IF \E k \in w.installed : k.id = p
                                         THEN Whole(CHOOSE k \in w.installed : k.id = p) ELSE Absent]
    BY DEF Init
  <2>2. \A p \in Plugins : folder[p] \in FolderState /\ Holds(folder[p], p)
    BY <2>1, InitialFolders, States
  <2>3. FolderTypes
    BY <2>1, <2>2, LoadTypes, WorldsAssumption DEF FolderTypes, Init
  <2>4. PlanTypes /\ WalkTypes
    BY DEF Init, PlanTypes, WalkTypes
  <2>5. CallTypes /\ \A c \in Callers : call[c].pc = "idle"
    BY IdleFits, CallersAssumption DEF Init, CallTypes, Idle
  <2> QED BY <2>3, <2>4, <2>5 DEF Init, TypeInv, At
<1>2. TypeInv /\ [Next]_vars => TypeInv'
  BY RequestTypes, PlanTypesKept, ConfirmTypes, InstallTypes, UninstallTypes, OutsideTypes, StutterTypes DEF Next
<1> QED BY <1>1, <1>2, PTL DEF Spec

-----------------------------------------------------------------------------
(* The walk.                                                               *)
LEMMA Stack ==
  ASSUME WalkTypes, visiting # <<>>
  PROVE  /\ Len(visiting) \in Nat /\ Len(visiting) >= 1 /\ DOMAIN visiting = 1..Len(visiting)
         /\ Top = visiting[Len(visiting)] /\ Top \in Walk /\ Top.pkg \in Packages /\ Top.next \in Nat /\ Top.next >= 1
         /\ Len(Top.pkg.needs) \in Nat
         /\ \A f \in 1..Len(visiting) : visiting[f] \in Walk /\ visiting[f].pkg \in Packages /\ visiting[f].next \in Nat
         /\ ordered \in Seq(InstallStep) /\ Len(ordered) \in Nat /\ DOMAIN ordered = 1..Len(ordered)
<1>1. Len(visiting) \in Nat /\ Len(visiting) >= 1 /\ DOMAIN visiting = 1..Len(visiting)
      /\ ordered \in Seq(InstallStep) /\ Len(ordered) \in Nat /\ DOMAIN ordered = 1..Len(ordered)
  BY DEF WalkTypes
<1>2. \A f \in 1..Len(visiting) : visiting[f] \in Walk
  BY <1>1 DEF WalkTypes
<1>3. \A f \in 1..Len(visiting) : visiting[f].pkg \in Packages /\ visiting[f].next \in Nat /\ visiting[f].next >= 1
  BY <1>2 DEF Walk
<1>4. Top = visiting[Len(visiting)] /\ Len(visiting) \in 1..Len(visiting)
  BY <1>1 DEF Top
<1>5. Top \in Walk /\ Top.pkg \in Packages /\ Top.next \in Nat /\ Top.next >= 1
  BY <1>2, <1>3, <1>4
<1> QED BY <1>1, <1>2, <1>3, <1>4, <1>5, Manifest

\* The frame on top is one need further, the others are as they were.
LEMMA Further ==
  ASSUME WalkTypes, visiting # <<>>
  PROVE  /\ Advanced \in Seq(Walk) /\ Len(Advanced) = Len(visiting)
         /\ \A f \in 1..Len(visiting) :
              /\ Advanced[f].pkg = visiting[f].pkg /\ Advanced[f].replace = visiting[f].replace
              /\ Advanced[f].next = IF f = Len(visiting) THEN Top.next + 1 ELSE visiting[f].next
<1>1. [Top EXCEPT !.next = @ + 1] \in Walk
  BY Stack DEF Walk
<1>2. Advanced = [visiting EXCEPT ![Len(visiting)] = [Top EXCEPT !.next = @ + 1]]
  BY Stack DEF Advanced, WalkTypes
<1>3. Advanced \in Seq(Walk) /\ Len(Advanced) = Len(visiting)
  BY <1>1, <1>2, Stack DEF WalkTypes
<1>4. Advanced[Len(visiting)] = [Top EXCEPT !.next = @ + 1]
  BY <1>2, Stack DEF WalkTypes
<1>5. /\ [Top EXCEPT !.next = @ + 1].pkg = Top.pkg /\ [Top EXCEPT !.next = @ + 1].replace = Top.replace
      /\ [Top EXCEPT !.next = @ + 1].next = Top.next + 1
  BY Stack DEF Walk
<1>6. \A f \in 1..Len(visiting) : f # Len(visiting) => Advanced[f] = visiting[f]
  BY <1>2, Stack DEF WalkTypes
<1> QED BY <1>3, <1>4, <1>5, <1>6, Stack

LEMMA SeenIn ==
  ASSUME NEW v \in Seq(Walk), NEW o \in Seq(InstallStep), NEW n
  PROVE  n \in SeenBy(v, o) <=>
           \/ \E s \in 1..Len(o) : n \in Range(o[s].pkg.needs)
           \/ \E f \in 1..Len(v) : \E i \in 1..(v[f].next - 1) : n = v[f].pkg.needs[i]
<1>1. DOMAIN o = 1..Len(o) /\ DOMAIN v = 1..Len(v)
  OBVIOUS
<1>2. n \in NeedsOf(o) <=> \E s \in 1..Len(o) : n \in Range(o[s].pkg.needs)
  BY <1>1 DEF NeedsOf
<1>3. n \in NeedsBefore(v) <=> \E f \in 1..Len(v) : \E i \in 1..(v[f].next - 1) : n = v[f].pkg.needs[i]
  BY <1>1 DEF NeedsBefore
<1> QED BY <1>2, <1>3 DEF SeenBy

LEMMA TakenIn ==
  ASSUME NEW v \in Seq(Walk), NEW o \in Seq(InstallStep), NEW k
  PROVE  k \in TakenBy(v, o) <=> \/ \E s \in 1..Len(o) : k = o[s].pkg
                                 \/ \E f \in 1..Len(v) : k = v[f].pkg
<1>1. DOMAIN o = 1..Len(o) /\ DOMAIN v = 1..Len(v)
  OBVIOUS
<1> QED BY <1>1 DEF TakenBy

\* Who is taken and what is seen, before and after.
LEMMA SeenNow ==
  ASSUME WalkTypes
  PROVE  /\ \A n : n \in Seen <=>
              \/ \E s \in 1..Len(ordered) : n \in Range(ordered[s].pkg.needs)
              \/ \E f \in 1..Len(visiting) : \E i \in 1..(visiting[f].next - 1) : n = visiting[f].pkg.needs[i]
         /\ \A k : k \in Taken <=> \/ \E s \in 1..Len(ordered) : k = ordered[s].pkg
                                  \/ \E f \in 1..Len(visiting) : k = visiting[f].pkg
<1>1. visiting \in Seq(Walk) /\ ordered \in Seq(InstallStep)
  BY DEF WalkTypes
<1> QED BY <1>1, SeenIn, TakenIn DEF Seen, Taken

LEMMA SeenThen ==
  ASSUME WalkTypes'
  PROVE  /\ \A n : n \in Seen' <=>
              \/ \E s \in 1..Len(ordered') : n \in Range(ordered'[s].pkg.needs)
              \/ \E f \in 1..Len(visiting') : \E i \in 1..(visiting'[f].next - 1) : n = visiting'[f].pkg.needs[i]
         /\ \A k : k \in Taken' <=> \/ \E s \in 1..Len(ordered') : k = ordered'[s].pkg
                                   \/ \E f \in 1..Len(visiting') : k = visiting'[f].pkg
<1>1. visiting' \in Seq(Walk) /\ ordered' \in Seq(InstallStep)
  BY DEF WalkTypes
<1> QED BY <1>1, SeenIn, TakenIn DEF Seen, Taken

(* walk() goes on to the next need of the package on top: that need is seen, nothing else changes. *)
LEMMA AdvancedSees ==
  ASSUME WalkTypes, WalkTypes', visiting # <<>>, Top.next <= Len(Top.pkg.needs), visiting' = Advanced, UNCHANGED ordered
  PROVE  Taken' = Taken /\ Seen' = Seen \union {Sought}
<1>1. Len(visiting') = Len(visiting) /\ Len(ordered') = Len(ordered)
  BY Further
<1>2. \A k : k \in Taken' <=> k \in Taken
  <2>1. \A k : k \in Taken' <=> \/ \E s \in 1..Len(ordered) : k = ordered[s].pkg
                               \/ \E f \in 1..Len(visiting) : k = visiting'[f].pkg
    BY <1>1, SeenThen
  <2> QED BY <2>1, SeenNow, Further
<1>3. \A n : n \in Seen' <=> n \in Seen \union {Sought}
  <2> SUFFICES ASSUME NEW n PROVE n \in Seen' <=> n \in Seen \union {Sought}
    OBVIOUS
  <2> DEFINE Old(f) == \E i \in 1..(visiting[f].next - 1) : n = visiting[f].pkg.needs[i]
             New(f) == \E i \in 1..(visiting'[f].next - 1) : n = visiting'[f].pkg.needs[i]
  <2>1. n \in Seen' <=> \/ \E s \in 1..Len(ordered) : n \in Range(ordered[s].pkg.needs)
                        \/ \E f \in 1..Len(visiting) : New(f)
    <3> HIDE DEF New
    <3>1. n \in Seen' <=> \/ \E s \in 1..Len(ordered') : n \in Range(ordered'[s].pkg.needs)
                          \/ \E f \in 1..Len(visiting') : New(f)
      BY SeenThen DEF New
    <3> QED BY <3>1, <1>1
  <2>2. n \in Seen <=> \/ \E s \in 1..Len(ordered) : n \in Range(ordered[s].pkg.needs)
                       \/ \E f \in 1..Len(visiting) : Old(f)
    BY SeenNow
  <2>3. \A f \in 1..Len(visiting) : f # Len(visiting) => (New(f) <=> Old(f))
    BY Further
  <2>4. New(Len(visiting)) <=> Old(Len(visiting)) \/ n = Sought
    <3>1. visiting'[Len(visiting)].pkg = Top.pkg /\ visiting'[Len(visiting)].next - 1 = Top.next
      BY Further, Stack
    <3>2. New(Len(visiting)) <=> \E i \in 1..Top.next : n = Top.pkg.needs[i]
      BY <3>1
    <3>3. Old(Len(visiting)) <=> \E i \in 1..(Top.next - 1) : n = Top.pkg.needs[i]
      BY Stack
    <3>4. n = Sought <=> n = Top.pkg.needs[Top.next]
      BY DEF Sought
    <3>5. Top.next \in Nat /\ Top.next >= 1
      BY Stack
    <3> HIDE DEF Old, New
    <3> QED BY <3>2, <3>3, <3>4, <3>5
  <2> HIDE DEF Old, New
  <2>5. Len(visiting) \in 1..Len(visiting)
    BY Stack
  <2> QED BY <2>1, <2>2, <2>3, <2>4, <2>5
<1> QED BY <1>2, <1>3

\* What a frame just begun adds: its package.
LEMMA PushedSees ==
  ASSUME WalkTypes, WalkTypes', visiting # <<>>, Top.next <= Len(Top.pkg.needs), NEW k \in Packages,
         visiting' = Append(Advanced, Frame(k)), UNCHANGED ordered
  PROVE  /\ Taken' = Taken \union {k} /\ Seen' = Seen \union {Sought}
         /\ Len(visiting') = Len(visiting) + 1
         /\ visiting'[Len(visiting) + 1] = Frame(k) /\ Frame(k).pkg = k /\ Frame(k).next = 1
         /\ \A f \in 1..Len(visiting) : visiting'[f] = Advanced[f]
<1>1. /\ Advanced \in Seq(Walk) /\ Len(Advanced) = Len(visiting) /\ Len(visiting) \in Nat
  BY Further, Stack
<1>2. Frame(k) \in Walk /\ Frame(k).pkg = k /\ Frame(k).next = 1
  BY DEF Frame, Walk, Readable
<1>3. /\ Len(visiting') = Len(visiting) + 1
      /\ visiting'[Len(visiting) + 1] = Frame(k)
      /\ \A f \in 1..Len(visiting) : visiting'[f] = Advanced[f]
  BY <1>1, <1>2
<1>4. Taken' = Taken \union {k}
  <2>1. \A j : j \in Taken' <=> \/ \E s \in 1..Len(ordered) : j = ordered[s].pkg
                               \/ \E f \in 1..(Len(visiting) + 1) : j = visiting'[f].pkg
    BY <1>3, SeenThen
  <2>2. \A j : (\E f \in 1..(Len(visiting) + 1) : j = visiting'[f].pkg)
                 <=> (\E f \in 1..Len(visiting) : j = visiting[f].pkg) \/ j = k
    <3>1. \A f \in 1..Len(visiting) : visiting'[f].pkg = visiting[f].pkg
      BY <1>3, Further
    <3> QED BY <3>1, <1>1, <1>2, <1>3
  <2>3. \A j : j \in Taken <=> \/ \E s \in 1..Len(ordered) : j = ordered[s].pkg
                              \/ \E f \in 1..Len(visiting) : j = visiting[f].pkg
    BY SeenNow
  <2>4. \A j : j \in Taken' <=> j \in Taken \/ j = k
    BY <2>1, <2>2, <2>3
  <2> QED BY <2>4
<1>5. Seen' = Seen \union {Sought}
  <2> SUFFICES ASSUME NEW n PROVE n \in Seen' <=> n \in Seen \union {Sought}
    OBVIOUS
  <2> DEFINE Old(f) == \E i \in 1..(visiting[f].next - 1) : n = visiting[f].pkg.needs[i]
             New(f) == \E i \in 1..(visiting'[f].next - 1) : n = visiting'[f].pkg.needs[i]
  <2>1. n \in Seen' <=> \/ \E s \in 1..Len(ordered) : n \in Range(ordered[s].pkg.needs)
                        \/ \E f \in 1..(Len(visiting) + 1) : New(f)
    <3> HIDE DEF New
    <3>1. n \in Seen' <=> \/ \E s \in 1..Len(ordered') : n \in Range(ordered'[s].pkg.needs)
                          \/ \E f \in 1..Len(visiting') : New(f)
      BY SeenThen DEF New
    <3> QED BY <3>1, <1>3
  <2>2. n \in Seen <=> \/ \E s \in 1..Len(ordered) : n \in Range(ordered[s].pkg.needs)
                       \/ \E f \in 1..Len(visiting) : Old(f)
    BY SeenNow
  <2>3. \A f \in 1..Len(visiting) : f # Len(visiting) => (New(f) <=> Old(f))
    BY Further, <1>3
  <2>4. New(Len(visiting)) <=> Old(Len(visiting)) \/ n = Sought
    <3>1. visiting'[Len(visiting)].pkg = Top.pkg /\ visiting'[Len(visiting)].next - 1 = Top.next
      BY Further, Stack, <1>3
    <3>2. New(Len(visiting)) <=> \E i \in 1..Top.next : n = Top.pkg.needs[i]
      BY <3>1
    <3>3. Old(Len(visiting)) <=> \E i \in 1..(Top.next - 1) : n = Top.pkg.needs[i]
      BY Stack
    <3>4. n = Sought <=> n = Top.pkg.needs[Top.next]
      BY DEF Sought
    <3>5. Top.next \in Nat /\ Top.next >= 1
      BY Stack
    <3> HIDE DEF Old, New
    <3> QED BY <3>2, <3>3, <3>4, <3>5
  <2>6. ~New(Len(visiting) + 1)
    BY <1>2, <1>3
  <2> HIDE DEF Old, New
  <2>5. Len(visiting) \in 1..Len(visiting)
    BY Stack
  <2>7. (\E f \in 1..(Len(visiting) + 1) : New(f)) <=> (\E f \in 1..Len(visiting) : New(f)) \/ New(Len(visiting) + 1)
    BY <1>1
  <2> QED BY <2>1, <2>2, <2>3, <2>4, <2>5, <2>6, <2>7
<1> QED BY <1>2, <1>3, <1>4, <1>5

\* A package that is done moves from the stack into the list, with all its needs.
LEMMA ReturnedSees ==
  ASSUME WalkTypes, WalkTypes', visiting # <<>>, Top.next = Len(Top.pkg.needs) + 1, visiting' = Front(visiting),
         ordered' = Append(ordered, [pkg |-> Top.pkg, replace |-> Top.replace])
  PROVE  /\ Taken' = Taken /\ Seen' = Seen
         /\ Len(visiting') = Len(visiting) - 1 /\ Len(ordered') = Len(ordered) + 1
         /\ \A f \in 1..(Len(visiting) - 1) : visiting'[f] = visiting[f]
         /\ \A s \in 1..Len(ordered) : ordered'[s] = ordered[s]
         /\ ordered'[Len(ordered) + 1].pkg = Top.pkg /\ ordered'[Len(ordered) + 1].replace = Top.replace
<1>1. /\ Len(visiting') = Len(visiting) - 1
      /\ \A f \in 1..(Len(visiting) - 1) : visiting'[f] = visiting[f]
  <2>1. visiting \in Seq(Walk) /\ Len(visiting) \in Nat /\ Len(visiting) >= 1
    BY Stack DEF WalkTypes
  <2>2. visiting' = SubSeq(visiting, 1, Len(visiting) - 1)
    BY DEF Front
  <2>3. Len(visiting') = Len(visiting) - 1
    <3> DEFINE m == Len(visiting) - 1
    <3>1. m \in Int /\ 1 \in Int /\ m >= 0 /\ \A i \in 1..m : visiting[i] \in Walk
      BY <2>1, Stack
    <3> HIDE DEF m
    <3>2. Len(SubSeq(visiting, 1, m)) = IF 1 <= m THEN m - 1 + 1 ELSE 0
      BY <3>1, SubSeqProperties
    <3>3. Len(SubSeq(visiting, 1, m)) = m
      BY <3>1, <3>2
    <3> QED BY <2>2, <3>3 DEF m
  <2>4. ASSUME NEW f \in 1..(Len(visiting) - 1) PROVE visiting'[f] = visiting[f]
    BY <2>1, <2>2, <2>4
  <2> QED BY <2>3, <2>4
<1>2. [pkg |-> Top.pkg, replace |-> Top.replace] \in InstallStep
  BY Stack DEF Walk, InstallStep
<1>3. /\ Len(ordered') = Len(ordered) + 1
      /\ \A s \in 1..Len(ordered) : ordered'[s] = ordered[s]
      /\ ordered'[Len(ordered) + 1].pkg = Top.pkg /\ ordered'[Len(ordered) + 1].replace = Top.replace
  BY <1>2, Stack
<1>4. Len(visiting) \in Nat /\ Len(visiting) >= 1 /\ Len(ordered) \in Nat /\ Top = visiting[Len(visiting)]
  BY Stack
<1>5. Taken' = Taken
  <2> SUFFICES ASSUME NEW k PROVE k \in Taken' <=> k \in Taken
    OBVIOUS
  <2>1. k \in Taken' <=> \/ \E s \in 1..(Len(ordered) + 1) : k = ordered'[s].pkg
                         \/ \E f \in 1..(Len(visiting) - 1) : k = visiting'[f].pkg
    BY <1>1, <1>3, SeenThen
  <2>2. (\E s \in 1..(Len(ordered) + 1) : k = ordered'[s].pkg)
           <=> (\E s \in 1..Len(ordered) : k = ordered[s].pkg) \/ k = Top.pkg
    BY <1>3, <1>4
  <2>3. (\E f \in 1..Len(visiting) : k = visiting[f].pkg)
           <=> (\E f \in 1..(Len(visiting) - 1) : k = visiting'[f].pkg) \/ k = Top.pkg
    BY <1>1, <1>4, SMTT(30)
  <2> QED BY <2>1, <2>2, <2>3, SeenNow
<1>6. Seen' = Seen
  <2> SUFFICES ASSUME NEW n PROVE n \in Seen' <=> n \in Seen
    OBVIOUS
  <2> DEFINE Old(f) == \E i \in 1..(visiting[f].next - 1) : n = visiting[f].pkg.needs[i]
             New(f) == \E i \in 1..(visiting'[f].next - 1) : n = visiting'[f].pkg.needs[i]
  <2>1. n \in Seen' <=> \/ \E s \in 1..(Len(ordered) + 1) : n \in Range(ordered'[s].pkg.needs)
                        \/ \E f \in 1..(Len(visiting) - 1) : New(f)
    <3>1. n \in Seen' <=> \/ \E s \in 1..Len(ordered') : n \in Range(ordered'[s].pkg.needs)
                          \/ \E f \in 1..Len(visiting') : New(f)
      BY SeenThen, SMTT(30)
    <3> HIDE DEF New
    <3> QED BY <3>1, <1>1, <1>3
  <2>2. n \in Seen <=> \/ \E s \in 1..Len(ordered) : n \in Range(ordered[s].pkg.needs)
                       \/ \E f \in 1..Len(visiting) : Old(f)
    BY SeenNow
  <2>3. \A f \in 1..(Len(visiting) - 1) : New(f) <=> Old(f)
    BY <1>1
  <2>4. n \in Range(Top.pkg.needs) <=> Old(Len(visiting))
    <3>1. n \in Range(Top.pkg.needs) <=> \E i \in 1..Len(Top.pkg.needs) : n = Top.pkg.needs[i]
      BY Stack, Manifest
    <3>2. Top.next - 1 = Len(Top.pkg.needs)
      BY Stack
    <3> QED BY <3>1, <3>2, <1>4
  <2>5. (\E s \in 1..(Len(ordered) + 1) : n \in Range(ordered'[s].pkg.needs))
           <=> (\E s \in 1..Len(ordered) : n \in Range(ordered[s].pkg.needs)) \/ n \in Range(Top.pkg.needs)
    BY <1>3, <1>4
  <2> HIDE DEF Old, New
  <2>6. (\E f \in 1..Len(visiting) : Old(f)) <=> (\E f \in 1..(Len(visiting) - 1) : Old(f)) \/ Old(Len(visiting))
    BY <1>4
  <2> QED BY <2>1, <2>2, <2>3, <2>4, <2>5, <2>6
<1> QED BY <1>1, <1>3, <1>5, <1>6

\* A need looked at is settled or on the stack.
LEMMA SeenIsKnown ==
  ASSUME WalkTypes, NEW c \in Callers, Walking(c), NEW n \in Seen
  PROVE  n.id \in done \/ \E f \in 1..Len(visiting) : visiting[f].pkg.id = n.id
<1>1. CASE \E s \in 1..Len(ordered) : n \in Range(ordered[s].pkg.needs)
  <2>1. DOMAIN ordered = 1..Len(ordered)
    BY DEF WalkTypes
  <2> QED BY <1>1, <2>1 DEF Walking
<1>2. CASE \E f \in 1..Len(visiting) : \E i \in 1..(visiting[f].next - 1) : n = visiting[f].pkg.needs[i]
  <2>1. DOMAIN visiting = 1..Len(visiting) /\ Len(visiting) \in Nat
    BY DEF WalkTypes
  <2>2. PICK f \in 1..Len(visiting) : \E i \in 1..(visiting[f].next - 1) : n = visiting[f].pkg.needs[i]
    BY <1>2
  <2>3. n.id \in done \/ (f < Len(visiting) /\ n.id = visiting[f + 1].pkg.id)
    BY <2>1, <2>2 DEF Walking
  <2>4. f < Len(visiting) => f + 1 \in 1..Len(visiting)
    BY <2>1
  <2> QED BY <2>3, <2>4
<1> QED BY <1>1, <1>2, SeenNow

LEMMA VisitWalks ==
  ASSUME TypeInv, TypeInv', NEW c \in Callers, At(c, "resolve"), Walking(c), Visit(c), ~PlanFails(c)
  PROVE  Walking(c)'
<1>1. WalkTypes /\ WalkTypes' /\ catalog \subseteq Packages /\ call[c].pkg \in Packages
  BY Ways DEF TypeInv, FolderTypes, CallTypes, At, Fits, Planning
<1>2. visiting # <<>> /\ Top.next <= Len(Top.pkg.needs) /\ UNCHANGED <<catalog, call, ordered>>
      /\ ~Refused(call[c].pkg, Sought)
  BY DEF Visit
<1>3. PICK n : n = Sought
  OBVIOUS
<1>4. PICK main \in Packages : main = call[c].pkg /\ main = call'[c].pkg
  BY <1>1, <1>2
<1>5. \A f \in 1..Len(visiting) : visiting[f].pkg.id # n.id
  BY <1>1, <1>2, <1>3, Stack DEF Refused
<1>6. n.id \in done => \A k \in Offers(main, n.id) : Compatible(k.ver, n.min)
  BY <1>2, <1>3, <1>4 DEF Refused
<1>7. /\ Len(visiting) \in Nat /\ Len(visiting) >= 1 /\ DOMAIN visiting = 1..Len(visiting) /\ DOMAIN visiting' = 1..Len(visiting')
      /\ DOMAIN ordered = 1..Len(ordered)
  BY <1>1, <1>2, Stack DEF WalkTypes
<1>21. Len(visiting) \in Nat
  BY <1>7
<1>8. /\ Top = visiting[Len(visiting)] /\ Top.next \in Nat /\ Top.next >= 1
      /\ n = Top.pkg.needs[Top.next] /\ Len(Top.pkg.needs) \in Nat
  BY <1>1, <1>2, <1>3, Stack DEF Sought
<1>9. /\ \A k \in Taken : k \in Offers(main, k.id)
      /\ \A k \in Taken, m \in Seen : m.id = k.id => Compatible(k.ver, m.min)
  BY <1>4 DEF Walking
<1>10. \A s \in 1..Len(ordered) :
         /\ ordered[s].pkg.id \in done
         /\ \A m \in Range(ordered[s].pkg.needs) : m.id \in done /\ \A t \in s..Len(ordered) : ordered[t].pkg.id # m.id
         /\ \A t \in 1..Len(ordered) : ordered[s].pkg.id = ordered[t].pkg.id => s = t
  BY <1>7 DEF Walking
<1>11. \A f \in 1..Len(visiting) :
         /\ visiting[f].pkg.id \notin done
         /\ visiting[f].next <= Len(visiting[f].pkg.needs) + 1
  BY <1>7 DEF Walking
<1>12. \A f, g \in 1..Len(visiting) : visiting[f].pkg.id = visiting[g].pkg.id => f = g
  BY <1>7 DEF Walking
<1>13. \A f \in 1..Len(visiting) : \A i \in 1..(visiting[f].next - 1) :
         \/ visiting[f].pkg.needs[i].id \in done
         \/ f < Len(visiting) /\ visiting[f].pkg.needs[i].id = visiting[f + 1].pkg.id
  BY <1>7 DEF Walking
<1>14. \A p : Offers(main, p)' = Offers(main, p)
  BY <1>2 DEF Offers
<1>15. \A f \in 1..Len(visiting) :
         /\ Advanced[f].pkg = visiting[f].pkg
         /\ Advanced[f].next = IF f = Len(visiting) THEN Top.next + 1 ELSE visiting[f].next
  BY <1>1, <1>2, Further
<1>16. \A i \in 1..(Top.next - 1) : Top.pkg.needs[i].id \in done
  <2>1. Len(visiting) \in 1..Len(visiting) /\ ~(Len(visiting) < Len(visiting))
    BY <1>7
  <2> QED BY <2>1, <1>8, <1>13
<1>17. ASSUME NEW k \in Taken, k.id = n.id PROVE k.id \in done
  <2>1. CASE \E s \in 1..Len(ordered) : k = ordered[s].pkg
    BY <2>1, <1>10
  <2>2. CASE \E f \in 1..Len(visiting) : k = visiting[f].pkg
    BY <2>2, <1>5, <1>17
  <2> QED BY <1>1, <2>1, <2>2, SeenNow
<1> DEFINE Listed(d) == \A s \in 1..Len(ordered) :
             /\ ordered[s].pkg.id \in d
             /\ \A m \in Range(ordered[s].pkg.needs) : m.id \in d /\ \A t \in s..Len(ordered) : ordered[t].pkg.id # m.id
             /\ \A t \in 1..Len(ordered) : ordered[s].pkg.id = ordered[t].pkg.id => s = t
           Framed(v, d) == \A f \in 1..Len(v) :
             /\ v[f].pkg.id \notin d
             /\ v[f].next <= Len(v[f].pkg.needs) + 1
             /\ \A g \in 1..Len(v) : v[f].pkg.id = v[g].pkg.id => f = g
             /\ \A i \in 1..(v[f].next - 1) :
                  \/ v[f].pkg.needs[i].id \in d
                  \/ f < Len(v) /\ v[f].pkg.needs[i].id = v[f + 1].pkg.id
<1>18. ASSUME \A k \in Taken' : k \in Offers(main, k.id),
              \A k \in Taken', m \in Seen' : m.id = k.id => Compatible(k.ver, m.min),
              done \subseteq done', Framed(visiting', done')
       PROVE  Walking(c)'
  <2>1. Listed(done')
    BY <1>10, <1>18
  <2>2. \A k \in Taken' : k \in Offers(call[c].pkg, k.id)'
    BY <1>4, <1>14, <1>18
  <2>3. \A s \in DOMAIN ordered' :
          /\ ordered'[s].pkg.id \in done'
          /\ \A m \in Range(ordered'[s].pkg.needs) : m.id \in done' /\ \A t \in s..Len(ordered') : ordered'[t].pkg.id # m.id
          /\ \A t \in DOMAIN ordered' : ordered'[s].pkg.id = ordered'[t].pkg.id => s = t
    BY <1>2, <1>7, <2>1
  <2>4. \A f \in DOMAIN visiting' :
          /\ visiting'[f].pkg.id \notin done'
          /\ visiting'[f].next <= Len(visiting'[f].pkg.needs) + 1
          /\ \A g \in DOMAIN visiting' : visiting'[f].pkg.id = visiting'[g].pkg.id => f = g
          /\ \A i \in 1..(visiting'[f].next - 1) :
               \/ visiting'[f].pkg.needs[i].id \in done'
               \/ f < Len(visiting') /\ visiting'[f].pkg.needs[i].id = visiting'[f + 1].pkg.id
    BY <1>7, <1>18
  <2> QED BY <1>18, <2>2, <2>3, <2>4 DEF Walking
<1>19. CASE Settled(Sought) /\ done' = done \union {n.id} /\ visiting' = Advanced
  <2>1. Taken' = Taken /\ Seen' = Seen \union {n} /\ Len(visiting') = Len(visiting)
    BY <1>1, <1>2, <1>3, <1>19, AdvancedSees, Further
  <2>2. \A k \in Taken', m \in Seen' : m.id = k.id => Compatible(k.ver, m.min)
    <3> SUFFICES ASSUME NEW k \in Taken, n.id = k.id PROVE Compatible(k.ver, n.min)
      BY <2>1, <1>9
    <3>1. k.id \in done
      BY <1>17
    <3> QED BY <3>1, <1>6, <1>9
  <2>3. \A f \in 1..Len(visiting) :
          /\ visiting'[f].pkg = visiting[f].pkg
          /\ visiting'[f].next = IF f = Len(visiting) THEN Top.next + 1 ELSE visiting[f].next
    BY <1>15, <1>19
  <2>4. ASSUME NEW f \in 1..Len(visiting)
        PROVE  /\ visiting'[f].pkg.id \notin done'
               /\ visiting'[f].next <= Len(visiting'[f].pkg.needs) + 1
               /\ \A i \in 1..(visiting'[f].next - 1) :
                    \/ visiting'[f].pkg.needs[i].id \in done'
                    \/ f < Len(visiting) /\ visiting'[f].pkg.needs[i].id = visiting'[f + 1].pkg.id
    <3>1. visiting'[f].pkg.id \notin done'
      BY <1>5, <1>11, <1>19, <2>3
    <3>2. CASE f # Len(visiting)
      <4>1. f + 1 \in 1..Len(visiting)
        BY <1>21, <3>2
      <4>2. visiting'[f].next = visiting[f].next /\ visiting'[f + 1].pkg = visiting[f + 1].pkg /\ visiting'[f].pkg = visiting[f].pkg
        BY <4>1, <2>3, <3>2
      <4> QED BY <3>1, <4>1, <4>2, <1>11, <1>13, <1>19
    <3>3. CASE f = Len(visiting)
      <4>1. visiting'[f].next = Top.next + 1 /\ visiting'[f].pkg = Top.pkg
        BY <1>8, <2>3, <3>3
      <4>2. \A i \in 1..Top.next : Top.pkg.needs[i].id \in done'
        BY <1>8, <1>16, <1>19
      <4>3. visiting'[f].next - 1 = Top.next /\ visiting'[f].next <= Len(visiting'[f].pkg.needs) + 1
        BY <1>2, <1>8, <4>1
      <4> QED BY <3>1, <4>1, <4>2, <4>3
    <3> QED BY <3>2, <3>3
  <2>5. \A f, g \in 1..Len(visiting) : visiting'[f].pkg.id = visiting'[g].pkg.id => f = g
    BY <1>12, <2>3
  <2>6. Framed(visiting', done')
    BY <2>1, <2>4, <2>5
  <2>7. done \subseteq done' /\ \A k \in Taken' : k \in Offers(main, k.id)
    BY <1>9, <1>19, <2>1
  <2> HIDE DEF Framed
  <2> QED BY <1>18, <2>2, <2>6, <2>7
<1>20. CASE /\ ~Settled(Sought) /\ UNCHANGED done
            /\ \E k \in Offers(main, n.id) : Compatible(k.ver, n.min) /\ visiting' = Append(Advanced, Frame(k))
  <2>1. PICK k \in Offers(main, n.id) : Compatible(k.ver, n.min) /\ visiting' = Append(Advanced, Frame(k))
    BY <1>20
  <2>2. k \in Packages /\ k.id = n.id /\ n.id \notin done
    BY <1>1, <1>3, <1>20, Offered DEF Settled
  <2>3. /\ Taken' = Taken \union {k} /\ Seen' = Seen \union {n}
        /\ Len(visiting') = Len(visiting) + 1
        /\ visiting'[Len(visiting) + 1].pkg = k /\ visiting'[Len(visiting) + 1].next = 1
        /\ \A f \in 1..Len(visiting) : visiting'[f] = Advanced[f]
    BY <1>1, <1>2, <1>3, <2>1, <2>2, PushedSees
  <2>4. \A j \in Taken : j.id # n.id
    BY <1>17, <2>2
  <2>5. \A m \in Seen : m.id # n.id
    BY <1>1, <1>5, <2>2, SeenIsKnown
  <2>6. \A j \in Taken', m \in Seen' : m.id = j.id => Compatible(j.ver, m.min)
    BY <1>9, <2>1, <2>2, <2>3, <2>4, <2>5
  <2>7. \A j \in Taken' : j \in Offers(main, j.id)
    BY <2>1, <2>2, <2>3, <1>9
  <2>8. \A f \in 1..Len(visiting) :
          /\ visiting'[f].pkg = visiting[f].pkg
          /\ visiting'[f].next = IF f = Len(visiting) THEN Top.next + 1 ELSE visiting[f].next
    BY <1>15, <2>3
  <2>9. ASSUME NEW f \in 1..(Len(visiting) + 1)
        PROVE  /\ visiting'[f].pkg.id \notin done'
               /\ visiting'[f].next <= Len(visiting'[f].pkg.needs) + 1
               /\ \A i \in 1..(visiting'[f].next - 1) :
                    \/ visiting'[f].pkg.needs[i].id \in done'
                    \/ f < Len(visiting) + 1 /\ visiting'[f].pkg.needs[i].id = visiting'[f + 1].pkg.id
    <3>1. CASE f = Len(visiting) + 1
      <4>1. visiting'[f].pkg = k /\ visiting'[f].next = 1 /\ Len(k.needs) \in Nat
        BY <2>2, <2>3, <3>1, Manifest
      <4> QED BY <1>20, <2>2, <4>1
    <3>2. CASE f \in 1..Len(visiting) /\ f # Len(visiting)
      <4>1. f + 1 \in 1..Len(visiting) /\ f < Len(visiting) + 1
        BY <1>21, <3>2
      <4>2. visiting'[f].next = visiting[f].next /\ visiting'[f + 1].pkg = visiting[f + 1].pkg /\ visiting'[f].pkg = visiting[f].pkg
        BY <4>1, <2>8, <3>2
      <4> QED BY <4>1, <4>2, <3>2, <1>11, <1>13, <1>20
    <3>3. CASE f = Len(visiting)
      <4>1. f \in 1..Len(visiting) /\ f < Len(visiting) + 1
        BY <1>7, <3>3
      <4>2. visiting'[f].next = Top.next + 1 /\ visiting'[f].pkg = Top.pkg /\ visiting'[f].pkg.id \notin done'
        BY <1>8, <1>11, <1>20, <2>8, <3>3, <4>1
      <4>3. Top.pkg.needs[Top.next].id = visiting'[f + 1].pkg.id
        BY <1>8, <2>2, <2>3, <3>3
      <4>4. \A i \in 1..Top.next : Top.pkg.needs[i].id \in done' \/ Top.pkg.needs[i].id = visiting'[f + 1].pkg.id
        <5> SUFFICES ASSUME NEW i \in 1..Top.next
                     PROVE  Top.pkg.needs[i].id \in done \/ Top.pkg.needs[i].id = visiting'[f + 1].pkg.id
          BY <1>20
        <5>1. i = Top.next \/ i \in 1..(Top.next - 1)
          BY <1>8
        <5> QED BY <5>1, <1>16, <4>3
      <4>5. visiting'[f].next - 1 = Top.next /\ visiting'[f].next <= Len(visiting'[f].pkg.needs) + 1
        BY <1>2, <1>8, <4>2
      <4> QED BY <4>1, <4>2, <4>4, <4>5
    <3> QED BY <3>1, <3>2, <3>3, <1>7
  <2>10. ASSUME NEW f \in 1..(Len(visiting) + 1), NEW g \in 1..(Len(visiting) + 1), visiting'[f].pkg.id = visiting'[g].pkg.id
         PROVE  f = g
    <3>1. \A h \in 1..Len(visiting) : visiting'[h].pkg.id # visiting'[Len(visiting) + 1].pkg.id
      BY <1>5, <2>2, <2>3, <2>8
    <3>2. CASE f \in 1..Len(visiting) /\ g \in 1..Len(visiting)
      BY <1>12, <2>8, <2>10, <3>2
    <3>3. CASE f = Len(visiting) + 1 \/ g = Len(visiting) + 1
      BY <1>7, <2>10, <3>1, <3>3
    <3> QED BY <3>2, <3>3, <1>7
  <2>11. Framed(visiting', done')
    BY <2>3, <2>9, <2>10
  <2> HIDE DEF Framed
  <2> QED BY <1>18, <1>20, <2>6, <2>7, <2>11
<1> QED BY <1>2, <1>3, <1>4, <1>19, <1>20 DEF Visit

LEMMA ReturnWalks ==
  ASSUME TypeInv, TypeInv', NEW c \in Callers, At(c, "resolve"), Walking(c), Return(c)
  PROVE  Walking(c)'
<1>1. WalkTypes /\ WalkTypes' /\ catalog \subseteq Packages /\ call[c].pkg \in Packages
  BY Ways DEF TypeInv, FolderTypes, CallTypes, At, Fits, Planning
<1>2. /\ visiting # <<>> /\ Top.next > Len(Top.pkg.needs) /\ UNCHANGED <<catalog, call>>
      /\ visiting' = Front(visiting) /\ done' = done \union {Top.pkg.id}
      /\ ordered' = Append(ordered, [pkg |-> Top.pkg, replace |-> Top.replace])
  BY DEF Return
<1>3. /\ Len(visiting) \in Nat /\ Len(visiting) >= 1 /\ DOMAIN visiting = 1..Len(visiting)
      /\ DOMAIN visiting' = 1..Len(visiting') /\ DOMAIN ordered' = 1..Len(ordered')
      /\ DOMAIN ordered = 1..Len(ordered) /\ Len(ordered) \in Nat
  BY <1>1, <1>2, Stack DEF WalkTypes
<1>4. Len(visiting) \in 1..Len(visiting) /\ Top = visiting[Len(visiting)]
  BY <1>1, <1>2, Stack
<1>5. Top.next \in Nat /\ Len(Top.pkg.needs) \in Nat /\ Top.pkg \in Packages
  BY <1>1, <1>2, Stack
<1>6. /\ \A k \in Taken : k \in Offers(call[c].pkg, k.id)
      /\ \A k \in Taken, m \in Seen : m.id = k.id => Compatible(k.ver, m.min)
  BY DEF Walking
<1>7. \A s \in 1..Len(ordered) : ordered[s].pkg.id \in done
  BY <1>3 DEF Walking
<1>8. \A s \in 1..Len(ordered) : \A m \in Range(ordered[s].pkg.needs) :
        m.id \in done /\ \A t \in s..Len(ordered) : ordered[t].pkg.id # m.id
  BY <1>3 DEF Walking
<1>9. \A s, t \in 1..Len(ordered) : ordered[s].pkg.id = ordered[t].pkg.id => s = t
  BY <1>3 DEF Walking
<1>10. \A f \in 1..Len(visiting) :
         /\ visiting[f].pkg.id \notin done
         /\ visiting[f].next <= Len(visiting[f].pkg.needs) + 1
  BY <1>3 DEF Walking
<1>11. \A f, g \in 1..Len(visiting) : visiting[f].pkg.id = visiting[g].pkg.id => f = g
  BY <1>3 DEF Walking
<1>12. \A f \in 1..Len(visiting) : \A i \in 1..(visiting[f].next - 1) :
         \/ visiting[f].pkg.needs[i].id \in done
         \/ f < Len(visiting) /\ visiting[f].pkg.needs[i].id = visiting[f + 1].pkg.id
  BY <1>3 DEF Walking
<1>13. Top.next = Len(Top.pkg.needs) + 1
  BY <1>2, <1>4, <1>5, <1>10
<1>14. /\ Taken' = Taken /\ Seen' = Seen
       /\ Len(visiting') = Len(visiting) - 1 /\ Len(ordered') = Len(ordered) + 1
       /\ \A f \in 1..(Len(visiting) - 1) : visiting'[f] = visiting[f]
       /\ \A s \in 1..Len(ordered) : ordered'[s] = ordered[s]
       /\ ordered'[Len(ordered) + 1].pkg = Top.pkg
  BY <1>1, <1>2, <1>13, ReturnedSees
<1>15. \A n \in Range(Top.pkg.needs) : n.id \in done
  <2>1. \A i \in 1..(Top.next - 1) : Top.pkg.needs[i].id \in done
    <3>1. ~(Len(visiting) < Len(visiting))
      BY <1>3
    <3> QED BY <3>1, <1>4, <1>12
  <2>2. Top.next - 1 = Len(Top.pkg.needs)
    BY <1>13, <1>5
  <2> QED BY <2>1, <2>2, <1>5, Manifest
<1>16. Top.pkg.id \notin done
  BY <1>4, <1>10
<1>17. \A k \in Taken' : k \in Offers(call[c].pkg, k.id)'
  BY <1>2, <1>6, <1>14 DEF Offers
<1>18. \A k \in Taken', m \in Seen' : m.id = k.id => Compatible(k.ver, m.min)
  BY <1>6, <1>14
<1>19. ASSUME NEW s \in 1..(Len(ordered) + 1)
       PROVE  /\ ordered'[s].pkg.id \in done'
              /\ \A m \in Range(ordered'[s].pkg.needs) :
                   m.id \in done' /\ \A t \in s..(Len(ordered) + 1) : ordered'[t].pkg.id # m.id
  <2>1. CASE s = Len(ordered) + 1
    <3>1. ordered'[s].pkg = Top.pkg /\ \A t \in s..(Len(ordered) + 1) : t = s
      BY <1>3, <1>14, <2>1
    <3> QED BY <3>1, <1>2, <1>15, <1>16
  <2>2. CASE s \in 1..Len(ordered)
    <3>1. ordered'[s] = ordered[s]
      BY <1>14, <2>2
    <3>2. ASSUME NEW m \in Range(ordered[s].pkg.needs), NEW t \in s..(Len(ordered) + 1)
          PROVE  m.id \in done /\ ordered'[t].pkg.id # m.id
      <4>1. m.id \in done /\ \A u \in s..Len(ordered) : ordered[u].pkg.id # m.id
        BY <1>8, <2>2, <3>2
      <4>2. CASE t = Len(ordered) + 1
        BY <4>1, <4>2, <1>14, <1>16
      <4>3. CASE t \in s..Len(ordered)
        <5>1. t \in 1..Len(ordered)
          BY <2>2, <4>3, <1>3
        <5> QED BY <4>1, <4>3, <5>1, <1>14
      <4> QED BY <4>2, <4>3, <1>3, <2>2
    <3>3. \A m \in Range(ordered[s].pkg.needs) : m.id \in done
      BY <1>8, <2>2
    <3> QED BY <3>1, <3>2, <3>3, <2>2, <1>2, <1>7
  <2> QED BY <2>1, <2>2, <1>3
<1>20. ASSUME NEW s \in 1..(Len(ordered) + 1), NEW t \in 1..(Len(ordered) + 1), ordered'[s].pkg.id = ordered'[t].pkg.id
       PROVE  s = t
  <2>1. \A u \in 1..Len(ordered) : ordered'[u].pkg.id # ordered'[Len(ordered) + 1].pkg.id
    BY <1>7, <1>14, <1>16
  <2>2. CASE s \in 1..Len(ordered) /\ t \in 1..Len(ordered)
    BY <2>2, <1>9, <1>14, <1>20
  <2>3. CASE s = Len(ordered) + 1 \/ t = Len(ordered) + 1
    BY <2>1, <2>3, <1>3, <1>20
  <2> QED BY <2>2, <2>3, <1>3
<1>21. ASSUME NEW f \in 1..(Len(visiting) - 1)
       PROVE  /\ visiting'[f].pkg.id \notin done'
              /\ visiting'[f].next <= Len(visiting'[f].pkg.needs) + 1
              /\ \A i \in 1..(visiting'[f].next - 1) :
                   \/ visiting'[f].pkg.needs[i].id \in done'
                   \/ f < Len(visiting) - 1 /\ visiting'[f].pkg.needs[i].id = visiting'[f + 1].pkg.id
  <2>5. Len(visiting) \in Nat
    BY <1>3
  <2>6. f \in 1..Len(visiting) /\ f # Len(visiting) /\ f + 1 \in 1..Len(visiting)
    BY <2>5
  <2>1. f \in 1..Len(visiting) /\ f # Len(visiting) /\ f + 1 \in 1..Len(visiting) /\ visiting'[f] = visiting[f]
    BY <2>6, <1>14
  <2>2. visiting[f].pkg.id # Top.pkg.id
    BY <2>1, <1>4, <1>11
  <2>3. visiting'[f].pkg.id \notin done' /\ visiting'[f].next <= Len(visiting'[f].pkg.needs) + 1
    BY <2>1, <2>2, <1>2, <1>10
  <2>4. ASSUME NEW i \in 1..(visiting[f].next - 1)
        PROVE  \/ visiting[f].pkg.needs[i].id \in done'
               \/ f < Len(visiting) - 1 /\ visiting[f].pkg.needs[i].id = visiting'[f + 1].pkg.id
    <3>1. visiting[f].pkg.needs[i].id \in done \/ visiting[f].pkg.needs[i].id = visiting[f + 1].pkg.id
      BY <2>1, <2>4, <1>12
    <3>2. CASE f + 1 = Len(visiting)
      BY <3>1, <3>2, <1>2, <1>4
    <3>3. CASE f + 1 # Len(visiting)
      <4>1. f + 1 \in 1..(Len(visiting) - 1) /\ f < Len(visiting) - 1
        BY <2>5, <3>3
      <4> QED BY <3>1, <4>1, <1>2, <1>14
    <3> QED BY <3>2, <3>3
  <2> QED BY <2>1, <2>3, <2>4
<1>22. ASSUME NEW f \in 1..(Len(visiting) - 1), NEW g \in 1..(Len(visiting) - 1), visiting'[f].pkg.id = visiting'[g].pkg.id
       PROVE  f = g
  <2>1. f \in 1..Len(visiting) /\ g \in 1..Len(visiting)
    BY <1>3
  <2> QED BY <2>1, <1>11, <1>14, <1>22
<1>23. \A s \in DOMAIN ordered' :
         /\ ordered'[s].pkg.id \in done'
         /\ \A m \in Range(ordered'[s].pkg.needs) : m.id \in done' /\ \A t \in s..Len(ordered') : ordered'[t].pkg.id # m.id
         /\ \A t \in DOMAIN ordered' : ordered'[s].pkg.id = ordered'[t].pkg.id => s = t
  BY <1>3, <1>14, <1>19, <1>20
<1>24. \A f \in DOMAIN visiting' :
         /\ visiting'[f].pkg.id \notin done'
         /\ visiting'[f].next <= Len(visiting'[f].pkg.needs) + 1
         /\ \A g \in DOMAIN visiting' : visiting'[f].pkg.id = visiting'[g].pkg.id => f = g
         /\ \A i \in 1..(visiting'[f].next - 1) :
              \/ visiting'[f].pkg.needs[i].id \in done'
              \/ f < Len(visiting') /\ visiting'[f].pkg.needs[i].id = visiting'[f + 1].pkg.id
  BY <1>3, <1>14, <1>21, <1>22
<1> QED BY <1>17, <1>18, <1>23, <1>24 DEF Walking

\* The list of a walk that is complete.
LEMMA WalkedOrders ==
  ASSUME WalkTypes, NEW c \in Callers, Walking(c), visiting = <<>>
  PROVE  Ordered(ordered)
<1>1. DOMAIN ordered = 1..Len(ordered) /\ Len(ordered) \in Nat
  BY DEF WalkTypes
<1> SUFFICES ASSUME NEW s \in 1..Len(ordered), NEW t \in 1..Len(ordered)
             PROVE  /\ ordered[s].pkg.id = ordered[t].pkg.id => s = t
                    /\ \A n \in Range(ordered[s].pkg.needs) :
                         n.id = ordered[t].pkg.id => t < s /\ Compatible(ordered[t].pkg.ver, n.min)
  BY <1>1 DEF Ordered
<1>2. ordered[s].pkg.id = ordered[t].pkg.id => s = t
  BY <1>1 DEF Walking
<1>3. ASSUME NEW n \in Range(ordered[s].pkg.needs), n.id = ordered[t].pkg.id
      PROVE  t < s /\ Compatible(ordered[t].pkg.ver, n.min)
  <2>1. t \notin s..Len(ordered)
    BY <1>1, <1>3 DEF Walking
  <2>2. ordered[t].pkg \in Taken /\ n \in Seen
    BY <1>3, SeenNow
  <2>3. Compatible(ordered[t].pkg.ver, n.min)
    BY <1>3, <2>2 DEF Walking
  <2> QED BY <2>1, <2>3, <1>1
<1> QED BY <1>2, <1>3

-----------------------------------------------------------------------------
(* What requests and plans exclude: the steps.                             *)
\* What becomes of a request is idle, or the request goes on with its work.
GoesOn(c, r) == r.pc = "idle" \/ (Active(c) /\ r.op = call[c].op)

LEMMA NothingOrdered == Ordered(<<>>) /\ Ordered(Idle.steps)
BY DEF Ordered, Idle

LEMMA AloneStays ==
  ASSUME CallTypes, Alone, NEW c \in Callers, NEW r \in Call, Goes(c, r), GoesOn(c, r), UNCHANGED raced
  PROVE  Alone'
<1> SUFFICES ASSUME ~raced, NEW x \in Callers, NEW y \in Callers, Active(x)', Active(y)', call'[x].op = "uninstall"
             PROVE  x = y
  BY DEF Alone
<1>1. \A d \in Callers : call'[d] = IF d = c THEN r ELSE call[d]
  BY DEF CallTypes, Goes
<1>2. \A d \in Callers : Active(d)' => Active(d) /\ call'[d].op = call[d].op
  BY <1>1 DEF GoesOn, Active, At
<1> QED BY <1>2 DEF Alone

LEMMA WalkingStays ==
  ASSUME NEW c \in Callers, Walking(c), UNCHANGED <<catalog, visiting, done, ordered>>, call'[c].pkg = call[c].pkg
  PROVE  Walking(c)'
<1>1. Taken' = Taken /\ Seen' = Seen
  BY DEF Taken, Seen, TakenBy, SeenBy, NeedsOf, NeedsBefore
<1>2. \A main, p : Offers(main, p)' = Offers(main, p)
  BY DEF Offers
<1> QED BY <1>1, <1>2 DEF Walking

\* A step that does not concern walk().
LEMMA WalksStay ==
  ASSUME CallTypes, Walks, NEW c \in Callers, NEW r \in Call, Goes(c, r), r.pc # "resolve", call[c].pc # "resolve",
         UNCHANGED <<catalog, visiting, done, ordered>>
  PROVE  Walks'
<1>1. \A d \in Callers : call'[d] = IF d = c THEN r ELSE call[d]
  BY DEF CallTypes, Goes
<1>2. \A d \in Callers : At(d, "resolve")' <=> At(d, "resolve")
  BY <1>1 DEF At
<1>3. ASSUME NEW d \in Callers, At(d, "resolve")' PROVE Walking(d)'
  <2>1. d # c /\ Walking(d)
    BY <1>1, <1>2, <1>3 DEF At, Walks
  <2>2. call'[d].pkg = call[d].pkg
    BY <1>1, <2>1
  <2> QED BY <2>1, <2>2, WalkingStays
<1>4. (\A d \in Callers : ~At(d, "resolve")') => visiting' = <<>> /\ done' = {} /\ ordered' = <<>>
  BY <1>2 DEF Walks
<1> QED BY <1>3, <1>4 DEF Walks

\* The end of a walk: whoever resolves holds the lock.
LEMMA WalksForgotten ==
  ASSUME CallTypes, NEW c \in Callers, NEW r \in Call, Goes(c, r), r.pc # "resolve", lock = c, Forget
  PROVE  Walks'
<1>1. \A d \in Callers : call'[d] = IF d = c THEN r ELSE call[d]
  BY DEF CallTypes, Goes
<1>2. \A d \in Callers : ~At(d, "resolve")'
  BY <1>1 DEF At, CallTypes, Locks
<1> QED BY <1>2 DEF Walks, Forget

LEMMA StepsStayOrdered ==
  ASSUME CallTypes, StepsOrdered, NEW c \in Callers, NEW r \in Call, Goes(c, r), Ordered(r.steps),
         \A i \in PlanIds : plans'[i] # NoPlan => plans[i] # NoPlan /\ plans'[i].steps = plans[i].steps
  PROVE  StepsOrdered'
<1>1. \A d \in Callers : call'[d] = IF d = c THEN r ELSE call[d]
  BY DEF CallTypes, Goes
<1>2. \A S : Ordered(S)' <=> Ordered(S)
  BY DEF Ordered
<1>3. \A d \in Callers : Ordered(call'[d].steps)
  BY <1>1 DEF StepsOrdered
<1>4. \A i \in PlanIds : plans'[i] # NoPlan => Ordered(plans'[i].steps)
  BY DEF StepsOrdered
<1> QED BY <1>3, <1>4 DEF StepsOrdered, Ordered

\* A step that takes no plan, makes none and leaves lock and directories as they are.
LEMMA PlansKept ==
  ASSUME TypeInv, PlansInv, NEW c \in Callers, NEW r \in Call, Goes(c, r), GoesOn(c, r), UNCHANGED raced,
         lock = c => r.id = call[c].id, Ordered(r.steps), r.pc # "resolve", call[c].pc # "resolve",
         UNCHANGED <<catalog, visiting, done, ordered, dirs, lock, crashes>>, faults' = 0 => faults = 0,
         \A i \in PlanIds : /\ plans'[i] # NoPlan <=> plans[i] # NoPlan
                            /\ plans'[i] # NoPlan => plans'[i].steps = plans[i].steps
  PROVE  PlansInv'
<1>1. CallTypes /\ c # NoCaller
  BY Ways DEF TypeInv
<1>2. Alone' /\ StepsOrdered' /\ Walks'
  BY <1>1, AloneStays, StepsStayOrdered, WalksStay DEF PlansInv
<1>3. \A d \in Callers : lock = d => call'[d].id = call[d].id
  BY <1>1 DEF CallTypes, Goes
<1>4. Owned'
  <2> SUFFICES ASSUME NEW d \in Callers, lock = d PROVE plans'[call'[d].id] = NoPlan
    BY DEF Owned
  <2>1. call[d].id \in PlanIds /\ plans[call[d].id] = NoPlan
    BY <1>1 DEF CallTypes, Fits, PlansInv, Owned
  <2> QED BY <1>3, <2>1
<1>5. DirectoriesAreOwned'
  BY <1>3 DEF PlansInv, DirectoriesAreOwned
<1> QED BY <1>2, <1>4, <1>5 DEF PlansInv

\* What the steps of installations and uninstallations have in common.
Carries(c) ==
  \/ InstallCheck(c) \/ PrepareRuntime(c) \/ MakeRuntime(c) \/ PrepareModel(c) \/ FetchModel(c)
  \/ MoveOld(c) \/ MoveNew(c) \/ MoveBack(c) \/ Reload(c)
  \/ UninstallCheck(c) \/ RemoveBegins(c) \/ Removed(c)

Working == Preparing \union Moving \union Removing \union {"reload"}

LEMMA Carrying ==
  ASSUME TypeInv, TypeInv', NEW c \in Callers, Carries(c)
  PROVE  /\ call[c].pc \in Working
         /\ \E r \in Call : /\ Goes(c, r)
                            /\ \/ r = Idle /\ call[c].op = "uninstall"
                               \/ /\ r.pc \in Working \union {"finish"} /\ r.op = call[c].op /\ r.id = call[c].id
                                  /\ r.steps = call[c].steps /\ r.fresh = call[c].fresh /\ r.pkg = call[c].pkg
         /\ UNCHANGED <<catalog, dirs, visiting, done, ordered, lock, raced, crashes>>
         /\ faults' = faults \/ (faults' = faults + 1 /\ Mishap)
         /\ UNCHANGED plans \/ Outdate
<1>1. call[c] \in Call /\ call \in [Callers -> Call] /\ call' \in [Callers -> Call] /\ Fits(call[c])
  BY DEF TypeInv, CallTypes
<1>2. call[c].pc \in Working
  BY DEF Carries, InstallCheck, PrepareRuntime, MakeRuntime, PrepareModel, FetchModel, MoveOld, MoveNew, MoveBack, Reload,
         UninstallCheck, RemoveBegins, Removed, At, Working, Preparing, Moving, Removing
<1>3. UNCHANGED <<catalog, dirs, visiting, done, ordered, lock, raced, crashes>>
  BY DEF Carries, InstallCheck, PrepareRuntime, MakeRuntime, PrepareModel, FetchModel, MoveOld, MoveNew, MoveBack, Reload,
         UninstallCheck, RemoveBegins, Removed, system, resolving, history
<1>4. faults' = faults \/ (faults' = faults + 1 /\ Mishap)
  BY DEF Carries, InstallCheck, PrepareRuntime, MakeRuntime, PrepareModel, FetchModel, MoveOld, MoveNew, MoveBack, Reload,
         UninstallCheck, RemoveBegins, Removed, Fault, NoFault
<1>5. UNCHANGED plans \/ Outdate
  BY DEF Carries, InstallCheck, PrepareRuntime, MakeRuntime, PrepareModel, FetchModel, MoveOld, MoveNew, MoveBack, Reload,
         UninstallCheck, RemoveBegins, Removed, system
<1>6. \A q \in Working \union {"finish"} : LET r == [call[c] EXCEPT !.pc = q] IN
        /\ r.pc \in Working \union {"finish"} /\ r.op = call[c].op /\ r.id = call[c].id
        /\ r.steps = call[c].steps /\ r.fresh = call[c].fresh /\ r.pkg = call[c].pkg
  BY <1>1 DEF Call
<1>7. \A a : LET r == [call[c] EXCEPT !.pc = "finish", !.result = a] IN
        /\ r.pc \in Working \union {"finish"} /\ r.op = call[c].op /\ r.id = call[c].id
        /\ r.steps = call[c].steps /\ r.fresh = call[c].fresh /\ r.pkg = call[c].pkg
  BY <1>1 DEF Call
<1> DEFINE Same(r) == /\ r.pc \in Working \union {"finish"} /\ r.op = call[c].op /\ r.id = call[c].id
                      /\ r.steps = call[c].steps /\ r.fresh = call[c].fresh /\ r.pkg = call[c].pkg
<1>8. ASSUME NEW r, Goes(c, r) PROVE r \in Call
  BY <1>1, <1>8 DEF Goes
<1>9. ASSUME NEW q \in Working \union {"finish"}, Goto(c, q) PROVE \E r \in Call : Goes(c, r) /\ Same(r)
  <2>1. Goes(c, [call[c] EXCEPT !.pc = q])
    BY <1>9 DEF Goto, Goes
  <2> QED BY <2>1, <1>6, <1>8
<1>10. ASSUME NEW a, Fail(c, a) PROVE \E r \in Call : Goes(c, r) /\ Same(r)
  <2>1. Goes(c, [call[c] EXCEPT !.pc = "finish", !.result = a])
    BY <1>10 DEF Fail, Goes
  <2> QED BY <2>1, <1>7, <1>8
<1>11. ASSUME call[c].op = "uninstall", Done(c) PROVE \E r \in Call : Goes(c, r) /\ r = Idle /\ call[c].op = "uninstall"
  <2>1. Goes(c, Idle)
    BY <1>11 DEF Done, Goes
  <2> QED BY <2>1, <1>8, <1>11
<1>12. {"check", "runtime", "makeRuntime", "model", "fetchModel", "moveOld", "moveNew", "moveBack", "reload",
        "remove", "removing"} \subseteq Working
  BY DEF Working, Preparing, Moving, Removing
<1>13. ASSUME InstallCheck(c) \/ PrepareRuntime(c) \/ MakeRuntime(c) \/ PrepareModel(c) \/ FetchModel(c) \/ MoveNew(c) \/ MoveBack(c)
       PROVE  \E r \in Call : Goes(c, r) /\ Same(r)
  <2>1. (\E q \in Working \union {"finish"} : Goto(c, q)) \/ (\E a : Fail(c, a))
    BY <1>12, <1>13 DEF InstallCheck, PrepareRuntime, MakeRuntime, PrepareModel, FetchModel, MoveNew, MoveBack
  <2> QED BY <2>1, <1>9, <1>10
<1>14. ASSUME MoveOld(c) PROVE \E r \in Call : Goes(c, r) /\ Same(r)
  <2>1. CASE call' = [call EXCEPT ![c].pc = "moveNew", ![c].saved = folder[Id(c)]]
    <3> DEFINE r == [call[c] EXCEPT !.pc = "moveNew", !.saved = folder[Id(c)]]
    <3>1. Goes(c, r)
      BY <2>1 DEF Goes
    <3>2. Same(r)
      BY <1>1, <1>12 DEF Call
    <3> QED BY <3>1, <3>2, <1>8
  <2>2. CASE Goto(c, "moveNew") \/ Fail(c, "failed")
    BY <2>2, <1>9, <1>10, <1>12
  <2> QED BY <1>14, <2>1, <2>2 DEF MoveOld
<1>15. ASSUME Reload(c) PROVE \E r \in Call : Goes(c, r) /\ ((r = Idle /\ call[c].op = "uninstall") \/ Same(r))
  <2>1. CASE call' = [call EXCEPT ![c].pc = "check", ![c].at = @ + 1, ![c].saved = Absent]
    <3> DEFINE r == [call[c] EXCEPT !.pc = "check", !.at = @ + 1, !.saved = Absent]
    <3>1. Goes(c, r)
      BY <2>1, <1>1 DEF Goes
    <3>2. Same(r)
      BY <1>1, <1>12 DEF Call
    <3> QED BY <3>1, <3>2, <1>8
  <2>2. CASE Fail(c, "ok")
    BY <2>2, <1>10
  <2>3. CASE call[c].op = "uninstall" /\ Done(c)
    BY <2>3, <1>11
  <2> QED BY <1>15, <2>1, <2>2, <2>3 DEF Reload
<1>16. ASSUME UninstallCheck(c) \/ RemoveBegins(c) \/ Removed(c)
       PROVE  \E r \in Call : Goes(c, r) /\ ((r = Idle /\ call[c].op = "uninstall") \/ Same(r))
  <2>1. call[c].op = "uninstall"
    BY <1>1, <1>16 DEF UninstallCheck, RemoveBegins, Removed, At, Fits, Removing
  <2>2. Done(c) \/ (\E q \in Working \union {"finish"} : Goto(c, q))
    BY <1>12, <1>16 DEF UninstallCheck, RemoveBegins, Removed
  <2> QED BY <2>1, <2>2, <1>9, <1>11
<1>17. \E r \in Call : Goes(c, r) /\ ((r = Idle /\ call[c].op = "uninstall") \/ Same(r))
  BY <1>13, <1>14, <1>15, <1>16 DEF Carries
<1> HIDE DEF Same
<1>18. PICK r \in Call : Goes(c, r) /\ ((r = Idle /\ call[c].op = "uninstall") \/ Same(r))
  BY <1>17
<1> QED BY <1>2, <1>3, <1>4, <1>5, <1>18 DEF Same

LEMMA CarryPlans ==
  ASSUME TypeInv, TypeInv', PlansInv, NEW c \in Callers, Carries(c)
  PROVE  PlansInv'
<1>1. CallTypes /\ PlanTypes /\ (lock = c <=> Locks(call[c])) /\ Fits(call[c])
  BY Ways DEF TypeInv
<1>2. PICK r \in Call : /\ Goes(c, r)
                        /\ \/ r = Idle /\ call[c].op = "uninstall"
                           \/ /\ r.pc \in Working \union {"finish"} /\ r.op = call[c].op /\ r.id = call[c].id
                              /\ r.steps = call[c].steps /\ r.fresh = call[c].fresh /\ r.pkg = call[c].pkg
  BY Carrying
<1>3. call[c].pc \in Working /\ UNCHANGED <<catalog, dirs, visiting, done, ordered, lock, raced, crashes>>
      /\ (faults' = faults \/ faults' = faults + 1) /\ (UNCHANGED plans \/ Outdate)
  BY Carrying
<1>4. call[c].pc # "idle" /\ call[c].pc # "resolve" /\ r.pc # "resolve" /\ Idle.pc = "idle"
  BY <1>2, <1>3 DEF Working, Preparing, Moving, Removing, Idle
<1>5. GoesOn(c, r)
  BY <1>2, <1>4 DEF GoesOn, Active, At
<1>6. lock = c => r.id = call[c].id
  <2>1. call[c].op = "uninstall" => ~Locks(call[c])
    BY <1>1 DEF Fits, Locks, Confirms, Planning, Installing
  <2> QED BY <2>1, <1>1, <1>2
<1>7. Ordered(r.steps)
  BY <1>2, NothingOrdered DEF PlansInv, StepsOrdered
<1>8. faults' = 0 => faults = 0
  BY <1>3 DEF TypeInv
<1>9. \A i \in PlanIds : /\ plans'[i] # NoPlan <=> plans[i] # NoPlan
                         /\ plans'[i] # NoPlan => plans'[i].steps = plans[i].steps
  BY <1>1, <1>3, OutdatedTypes
<1> QED BY <1>2, <1>3, <1>4, <1>5, <1>6, <1>7, <1>8, <1>9, PlansKept

LEMMA RequestPlans ==
  ASSUME TypeInv, PlansInv, NEW c \in Callers,
         PlanRequest(c) \/ ConfirmRequest(c) \/ CancelRequest(c) \/ UninstallRequest(c)
  PROVE  PlansInv'
<1>1. CallTypes /\ (lock = c <=> Locks(call[c])) /\ c # NoCaller
  BY Ways DEF TypeInv
<1>11. \A q, o : /\ \A k, b : LET r == [Idle EXCEPT !.pc = q, !.op = o, !.pkg = k, !.replace = b] IN r.pc = q /\ r.op = o /\ r.steps = <<>>
                 /\ \A k : LET r == [Idle EXCEPT !.pc = q, !.op = o, !.pkg = k] IN r.pc = q /\ r.op = o /\ r.steps = <<>>
                 /\ \A i : LET r == [Idle EXCEPT !.pc = q, !.op = o, !.id = i] IN r.pc = q /\ r.op = o /\ r.steps = <<>>
  BY DEF Idle
<1> DEFINE New(r) == r.steps = <<>> /\ r.pc \in {"plan", "confirm", "cancel", "uninstall"} /\ r.op = r.pc
<1>12. ASSUME PlanRequest(c) PROVE \E r : Arrive(c, r) /\ New(r)
  <2>1. PICK k \in Uploads, b \in BOOLEAN : Arrive(c, [Idle EXCEPT !.pc = "plan", !.op = "plan", !.pkg = k, !.replace = b])
    BY <1>12 DEF PlanRequest
  <2>2. New([Idle EXCEPT !.pc = "plan", !.op = "plan", !.pkg = k, !.replace = b])
    BY <1>11
  <2> HIDE DEF New
  <2> QED BY <2>1, <2>2
<1>13. ASSUME ConfirmRequest(c) PROVE \E r : Arrive(c, r) /\ New(r)
  <2>1. PICK i \in PlanIds : Arrive(c, [Idle EXCEPT !.pc = "confirm", !.op = "confirm", !.id = i])
    BY <1>13 DEF ConfirmRequest
  <2>2. New([Idle EXCEPT !.pc = "confirm", !.op = "confirm", !.id = i])
    BY <1>11
  <2> HIDE DEF New
  <2> QED BY <2>1, <2>2
<1>14. ASSUME CancelRequest(c) PROVE \E r : Arrive(c, r) /\ New(r)
  <2>1. PICK i \in PlanIds : Arrive(c, [Idle EXCEPT !.pc = "cancel", !.op = "cancel", !.id = i])
    BY <1>14 DEF CancelRequest
  <2>2. New([Idle EXCEPT !.pc = "cancel", !.op = "cancel", !.id = i])
    BY <1>11
  <2> HIDE DEF New
  <2> QED BY <2>1, <2>2
<1>15. ASSUME UninstallRequest(c) PROVE \E r : Arrive(c, r) /\ New(r)
  <2>1. PICK k \in Packages : Arrive(c, [Idle EXCEPT !.pc = "uninstall", !.op = "uninstall", !.pkg = k])
    BY <1>15 DEF UninstallRequest
  <2>2. New([Idle EXCEPT !.pc = "uninstall", !.op = "uninstall", !.pkg = k])
    BY <1>11
  <2> HIDE DEF New
  <2> QED BY <2>1, <2>2
<1>16. \E r : Arrive(c, r) /\ New(r)
  BY <1>12, <1>13, <1>14, <1>15
<1>2. PICK r : /\ Arrive(c, r) /\ Ordered(r.steps)
               /\ r.pc \in {"plan", "confirm", "cancel", "uninstall"} /\ r.op = r.pc
  BY <1>16, NothingOrdered
<1>3. /\ call' = [call EXCEPT ![c] = r] /\ ~Active(c)
      /\ UNCHANGED <<catalog, visiting, done, ordered, plans, dirs, lock, faults, crashes>>
  BY <1>2 DEF Arrive, system, resolving
<1>4. \A d \in Callers : call'[d] = IF d = c THEN r ELSE call[d]
  BY <1>1, <1>3 DEF CallTypes
<1> HIDE DEF New
<1>5. Alone'
  <2> SUFFICES ASSUME ~raced', NEW x \in Callers, NEW y \in Callers, Active(x)', Active(y)', call'[x].op = "uninstall"
               PROVE  x = y
    BY DEF Alone
  <2>1. ~raced /\ \A d \in Callers : Active(d) => call[d].op # "uninstall" /\ r.op # "uninstall"
    BY <1>2 DEF Arrive
  <2>2. \A d \in Callers \ {c} : Active(d)' <=> Active(d)
    BY <1>4 DEF Active, At
  <2> QED BY <2>1, <2>2, <1>4
<1>6. ~Locks(call[c]) /\ lock # c
  BY <1>1, <1>3 DEF Active, At, Locks, Confirms, Planning, Preparing, Moving, Installing
<1>7. \A d \in Callers : lock = d => call'[d].id = call[d].id
  BY <1>4, <1>6
<1>8. Owned' /\ DirectoriesAreOwned'
  BY <1>3, <1>7 DEF PlansInv, Owned, DirectoriesAreOwned
<1>9. StepsOrdered'
  <2>1. \A S : Ordered(S)' <=> Ordered(S)
    BY DEF Ordered
  <2> QED BY <2>1, <1>2, <1>3, <1>4 DEF PlansInv, StepsOrdered
<1>10. Walks'
  <2>1. \A d \in Callers : At(d, "resolve")' <=> At(d, "resolve")
    BY <1>2, <1>3, <1>4 DEF At, Active
  <2>2. ASSUME NEW d \in Callers, At(d, "resolve")' PROVE Walking(d)'
    <3>1. d # c /\ Walking(d) /\ call'[d].pkg = call[d].pkg
      BY <1>2, <1>4, <2>1, <2>2 DEF PlansInv, Walks, At
    <3> QED BY <3>1, <1>3, WalkingStays
  <2> QED BY <2>1, <2>2, <1>3 DEF PlansInv, Walks
<1> QED BY <1>5, <1>8, <1>9, <1>10 DEF PlansInv

\* A plan that comes to nothing.
LEMMA FailedPlans ==
  ASSUME TypeInv, PlansInv, NEW c \in Callers, call[c].pc \in {"accept", "resolve"}, PlanFails(c),
         UNCHANGED <<catalog, plans, raced, crashes>>, faults' = 0 => faults = 0
  PROVE  PlansInv'
<1>1. CallTypes /\ (lock = c <=> Locks(call[c])) /\ c # NoCaller /\ call[c].id \in PlanIds /\ Goes(c, Idle) /\ lock = c
  BY Ways DEF TypeInv, PlanFails, Locks, Fits
<1>2. /\ lock' = NoCaller /\ dirs' = dirs \ {call[c].id} /\ Forget /\ NoCaller \notin Callers /\ Idle.pc = "idle"
  BY CallersAssumption DEF PlanFails, Idle
<1>3. Alone' /\ StepsOrdered' /\ Walks'
  BY <1>1, <1>2, IdleFits, NothingOrdered, AloneStays, StepsStayOrdered, WalksForgotten DEF PlansInv, GoesOn
<1>4. Owned'
  BY <1>2 DEF Owned
<1>5. plans[call[c].id] = NoPlan
  BY <1>1 DEF PlansInv, Owned
<1>6. DirectoriesAreOwned'
  <2> SUFFICES ASSUME faults' = 0, crashes = 0 PROVE dirs' = {i \in PlanIds : plans[i] # NoPlan}
    BY <1>2 DEF DirectoriesAreOwned
  <2>1. dirs = {i \in PlanIds : plans[i] # NoPlan \/ i = call[c].id}
    BY <1>1 DEF PlansInv, DirectoriesAreOwned
  <2> QED BY <2>1, <1>2, <1>5
<1> QED BY <1>3, <1>4, <1>6 DEF PlansInv

LEMMA PlanningPlans ==
  ASSUME TypeInv, TypeInv', PlansInv, NEW c \in Callers,
         PlanBegins(c) \/ Accept(c) \/ Visit(c) \/ Return(c) \/ PlanEnds(c) \/ PlanBreaks(c)
  PROVE  PlansInv'
<1>1. /\ CallTypes /\ PlanTypes /\ WalkTypes /\ CallTypes' /\ PlanTypes' /\ WalkTypes' /\ (lock = c <=> Locks(call[c]))
      /\ c # NoCaller /\ call[c] \in Call /\ Fits(call[c]) /\ NoCaller \notin Callers
  BY Ways, CallersAssumption DEF TypeInv
<1>2. UNCHANGED <<catalog, raced, crashes>> /\ call \in [Callers -> Call]
  BY <1>1 DEF PlanBegins, Accept, Visit, Return, PlanEnds, PlanBreaks, history, CallTypes
<1>3. \A S : Ordered(S)' <=> Ordered(S)
  BY DEF Ordered
<1>20. ASSUME call[c].pc \in {"accept", "resolve"} PROVE lock = c /\ call[c].id \in PlanIds /\ plans[call[c].id] = NoPlan
  BY <1>1, <1>20 DEF Locks, Fits, PlansInv, Owned
<1>4. CASE PlanBegins(c)
  <2>1. PICK i \in PlanIds :
          /\ i \notin dirs /\ plans[i] = NoPlan /\ lock' = c /\ plans' = Current /\ dirs' = (dirs \ Expired) \union {i}
          /\ call' = [call EXCEPT ![c].pc = "accept", ![c].id = i]
    BY <1>4 DEF PlanBegins
  <2>2. At(c, "plan") /\ lock = NoCaller /\ UNCHANGED <<visiting, done, ordered, faults>>
    BY <1>4 DEF PlanBegins, resolving
  <2> DEFINE r == [call[c] EXCEPT !.pc = "accept", !.id = i]
  <2>3. Goes(c, r)
    BY <1>2, <2>1 DEF Goes
  <2>4. r.pc = "accept" /\ r.id = i /\ r.op = call[c].op /\ r.steps = call[c].steps /\ r \in Call
    BY <1>1, <2>1 DEF Call, Planning
  <2>5. call[c].pc = "plan" /\ GoesOn(c, r) /\ Ordered(r.steps)
    BY <2>2, <2>4 DEF At, GoesOn, Active, PlansInv, StepsOrdered
  <2> HIDE DEF r
  <2>6. \A j \in PlanIds : plans'[j] # NoPlan => plans[j] # NoPlan /\ plans'[j].steps = plans[j].steps
    BY <1>1, <2>1, PlansStay
  <2>7. Alone' /\ StepsOrdered' /\ Walks'
    BY <1>1, <1>2, <2>2, <2>3, <2>4, <2>5, <2>6, AloneStays, StepsStayOrdered, WalksStay DEF PlansInv
  <2>8. call'[c].id = i /\ \A d \in Callers : lock' = d <=> d = c
    BY <1>1, <2>1, <2>3, <2>4 DEF Goes, CallTypes
  <2>9. Owned'
    BY <2>1, <2>6, <2>8 DEF Owned
  <2>10. DirectoriesAreOwned'
    <3> SUFFICES ASSUME faults = 0, crashes = 0 PROVE dirs' = {j \in PlanIds : plans'[j] # NoPlan \/ j = i}
      BY <1>2, <2>2, <2>8 DEF DirectoriesAreOwned
    <3>1. dirs = {j \in PlanIds : plans[j] # NoPlan}
      BY <1>1, <2>2 DEF PlansInv, DirectoriesAreOwned
    <3>2. \A j \in PlanIds : plans'[j] # NoPlan <=> plans[j] # NoPlan /\ j \notin Expired
      BY <2>1 DEF Current
    <3> QED BY <3>1, <3>2, <2>1
  <2> QED BY <2>7, <2>9, <2>10 DEF PlansInv
<1>5. CASE Accept(c)
  <2>1. call[c].pc = "accept" /\ UNCHANGED <<plans, faults>>
    BY <1>5 DEF Accept, At, history
  <2>2. CASE PlanFails(c)
    BY <1>2, <2>1, <2>2, FailedPlans
  <2>3. CASE visiting' = <<Frame(call[c].pkg)>> /\ Goto(c, "resolve") /\ UNCHANGED <<dirs, lock, done, ordered>>
    <3> DEFINE r == [call[c] EXCEPT !.pc = "resolve"]
    <3>1. Goes(c, r)
      BY <2>3 DEF Goto, Goes
    <3>2. r.pc = "resolve" /\ r.id = call[c].id /\ r.op = call[c].op /\ r.steps = call[c].steps /\ r.pkg = call[c].pkg /\ r \in Call
      BY <1>1 DEF Call, Planning
    <3>3. GoesOn(c, r) /\ Ordered(r.steps)
      BY <2>1, <3>2 DEF At, GoesOn, Active, PlansInv, StepsOrdered
    <3> HIDE DEF r
    <3>4. Alone' /\ StepsOrdered'
      BY <1>1, <1>2, <2>1, <3>1, <3>2, <3>3, AloneStays, StepsStayOrdered DEF PlansInv
    <3>5. \A d \in Callers : call'[d] = IF d = c THEN r ELSE call[d]
      BY <1>2, <3>1 DEF Goes
    <3>6. \A d \in Callers : call'[d].id = call[d].id
      BY <3>2, <3>5
    <3>7. Owned' /\ DirectoriesAreOwned'
      BY <1>2, <2>1, <2>3, <3>6 DEF PlansInv, Owned, DirectoriesAreOwned
    <3>8. \A d \in Callers : ~At(d, "resolve")
      BY <1>1, <2>1 DEF At, CallTypes, Locks
    <3>9. done = {} /\ ordered = <<>> /\ done' = {} /\ ordered' = <<>>
      BY <2>3, <3>8 DEF PlansInv, Walks
    <3>10. \A d \in Callers : At(d, "resolve")' <=> d = c
      BY <3>2, <3>5, <3>8 DEF At
    <3>11. Walking(c)'
      <4>1. PICK main : main = call[c].pkg /\ main = call'[c].pkg /\ main \in Packages
        BY <1>1, <2>1, <3>2, <3>5 DEF Fits, Planning
      <4>2. Frame(main).pkg = main /\ Frame(main).next = 1
        BY DEF Frame
      <4>3. visiting' = <<Frame(main)>> /\ DOMAIN visiting' = {1} /\ visiting'[1].pkg = main /\ visiting'[1].next = 1
        BY <2>3, <4>1, <4>2
      <4>4. DOMAIN ordered' = {}
        BY <3>9
      <4>5. Taken' = {main} /\ Seen' = {}
        BY <4>3, <4>4 DEF Taken, Seen, TakenBy, SeenBy, NeedsOf, NeedsBefore
      <4>6. main \in Offers(main, main.id)'
        BY DEF Offers
      <4>7. Len(main.needs) \in Nat
        BY <4>1, Manifest
      <4> QED BY <3>9, <4>1, <4>3, <4>4, <4>5, <4>6, <4>7 DEF Walking
    <3>12. Walks'
      BY <3>10, <3>11 DEF Walks
    <3> QED BY <3>4, <3>7, <3>12 DEF PlansInv
  <2> QED BY <1>5, <2>2, <2>3 DEF Accept
<1>6. ASSUME UNCHANGED <<call, plans, dirs, lock, raced, crashes, faults>>, Walking(c)', At(c, "resolve")
      PROVE  PlansInv'
  <2>1. \A d \in Callers : At(d, "resolve") <=> d = c
    BY <1>1, <1>6 DEF At, CallTypes, Locks
  <2>2. Walks'
    BY <1>6, <2>1 DEF Walks, At
  <2>3. Alone' /\ Owned' /\ DirectoriesAreOwned'
    BY <1>6 DEF PlansInv, Alone, Owned, DirectoriesAreOwned, Active, At
  <2>4. StepsOrdered'
    BY <1>3, <1>6 DEF PlansInv, StepsOrdered
  <2> QED BY <2>2, <2>3, <2>4 DEF PlansInv
<1>7. CASE Visit(c)
  <2>1. At(c, "resolve") /\ Walking(c) /\ UNCHANGED <<plans, raced, crashes, faults>>
    BY <1>7 DEF Visit, PlansInv, Walks, history
  <2>2. CASE PlanFails(c)
    BY <1>2, <2>1, <2>2, FailedPlans DEF At
  <2>3. CASE ~PlanFails(c)
    <3>1. UNCHANGED <<call, dirs, lock>>
      BY <1>7, <2>3 DEF Visit
    <3> QED BY <1>6, <1>7, <2>1, <2>3, <3>1, VisitWalks
  <2> QED BY <2>2, <2>3
<1>8. CASE Return(c)
  <2>1. At(c, "resolve") /\ Walking(c) /\ UNCHANGED <<call, dirs, lock, plans, raced, crashes, faults>>
    BY <1>8 DEF Return, PlansInv, Walks, history
  <2> QED BY <1>6, <1>8, <2>1, ReturnWalks
<1>9. CASE PlanEnds(c)
  <2>1. /\ call[c].pc = "resolve" /\ visiting = <<>> /\ lock' = NoCaller /\ Forget /\ UNCHANGED <<dirs, faults>>
        /\ plans' = [plans EXCEPT ![call[c].id] = [steps |-> ordered, expired |-> FALSE, fresh |-> TRUE]]
        /\ Goes(c, Idle)
    BY <1>9 DEF PlanEnds, At, Done, Goes, history
  <2>2. lock = c /\ call[c].id \in PlanIds /\ plans[call[c].id] = NoPlan
    BY <1>20, <2>1
  <2>3. Ordered(ordered)
    BY <1>1, <2>1, WalkedOrders DEF PlansInv, Walks, At
  <2>4. Alone' /\ Walks' /\ Idle.pc = "idle"
    BY <1>1, <1>2, <2>1, <2>2, IdleFits, AloneStays, WalksForgotten DEF PlansInv, GoesOn, Idle
  <2>5. /\ \A i \in PlanIds \ {call[c].id} : plans'[i] = plans[i]
        /\ plans'[call[c].id].steps = ordered /\ plans'[call[c].id] # NoPlan
    <3>1. [steps |-> ordered, expired |-> FALSE, fresh |-> TRUE] \in Plan
      BY <1>1 DEF WalkTypes, Plan
    <3> QED BY <1>1, <2>1, <2>2, <3>1, PlansAssumption DEF PlanTypes
  <2>6. StepsOrdered'
    <3>1. \A d \in Callers : call'[d] = IF d = c THEN Idle ELSE call[d]
      BY <1>2, <2>1 DEF Goes
    <3> QED BY <3>1, <1>3, <2>3, <2>5, NothingOrdered DEF PlansInv, StepsOrdered
  <2>7. Owned'
    BY <1>1, <2>1 DEF Owned
  <2>8. DirectoriesAreOwned'
    <3> SUFFICES ASSUME faults = 0, crashes = 0 PROVE dirs = {i \in PlanIds : plans'[i] # NoPlan}
      BY <1>1, <1>2, <2>1 DEF DirectoriesAreOwned
    <3>1. dirs = {i \in PlanIds : plans[i] # NoPlan \/ i = call[c].id}
      BY <1>1, <2>2 DEF PlansInv, DirectoriesAreOwned
    <3> QED BY <3>1, <2>2, <2>5
  <2> QED BY <2>4, <2>6, <2>7, <2>8 DEF PlansInv
<1>10. CASE PlanBreaks(c)
  <2>1. call[c].pc \in {"accept", "resolve"} /\ PlanFails(c) /\ UNCHANGED plans /\ faults' = faults + 1 /\ faults \in Nat
    BY <1>10 DEF PlanBreaks, At, Fault, TypeInv
  <2>2. faults' # 0
    BY <2>1
  <2> QED BY <1>2, <2>1, <2>2, FailedPlans
<1> QED BY <1>4, <1>5, <1>7, <1>8, <1>9, <1>10

LEMMA ConfirmPlans ==
  ASSUME TypeInv, TypeInv', PlansInv, NEW c \in Callers, Cancel(c) \/ ConfirmBegins(c) \/ Finish(c)
  PROVE  PlansInv'
<1>1. /\ CallTypes /\ PlanTypes /\ CallTypes' /\ PlanTypes' /\ (lock = c <=> Locks(call[c]))
      /\ c # NoCaller /\ call[c] \in Call /\ Fits(call[c]) /\ NoCaller \notin Callers /\ call \in [Callers -> Call]
  BY Ways, CallersAssumption DEF TypeInv, CallTypes
<1>2. UNCHANGED <<catalog, visiting, done, ordered, raced, crashes>>
  BY DEF Cancel, ConfirmBegins, Finish, history, resolving
<1>3. call[c].pc \in {"cancel", "confirm", "finish"} /\ call[c].id \in PlanIds
  BY <1>1 DEF Cancel, ConfirmBegins, Finish, At, Fits, Locks, Confirms, Installing
<1>4. ASSUME NEW r \in Call, Goes(c, r), GoesOn(c, r), r.pc # "resolve", Ordered(r.steps),
             \A i \in PlanIds : plans'[i] # NoPlan => plans[i] # NoPlan /\ plans'[i].steps = plans[i].steps
      PROVE  Alone' /\ StepsOrdered' /\ Walks'
  BY <1>1, <1>2, <1>3, <1>4, AloneStays, StepsStayOrdered, WalksStay DEF PlansInv
<1>5. Ordered(Idle.steps) /\ Idle.pc = "idle" /\ Idle \in Call
  BY NothingOrdered, IdleFits DEF Idle
<1>6. CASE Cancel(c)
  <2>1. /\ lock = NoCaller /\ lock' = NoCaller /\ Goes(c, Idle) /\ UNCHANGED faults
        /\ plans' = [plans EXCEPT ![call[c].id] = NoPlan]
        /\ dirs' = IF plans[call[c].id] = NoPlan THEN dirs ELSE dirs \ {call[c].id}
    BY <1>6 DEF Cancel, Done, Goes
  <2>2. \A i \in PlanIds : plans'[i] = IF i = call[c].id THEN NoPlan ELSE plans[i]
    BY <1>1, <2>1 DEF PlanTypes
  <2>3. Alone' /\ StepsOrdered' /\ Walks'
    BY <1>4, <1>5, <2>1, <2>2 DEF GoesOn
  <2>4. Owned'
    BY <1>1, <2>1 DEF Owned
  <2>5. DirectoriesAreOwned'
    <3> SUFFICES ASSUME faults = 0, crashes = 0 PROVE dirs' = {i \in PlanIds : plans'[i] # NoPlan}
      BY <1>1, <1>2, <2>1 DEF DirectoriesAreOwned
    <3>1. dirs = {i \in PlanIds : plans[i] # NoPlan}
      BY <1>1, <2>1 DEF PlansInv, DirectoriesAreOwned
    <3> QED BY <3>1, <2>1, <2>2
  <2> QED BY <2>3, <2>4, <2>5 DEF PlansInv
<1>7. CASE ConfirmBegins(c)
  <2>1. lock = NoCaller /\ dirs' = dirs \ Expired /\ UNCHANGED faults /\ At(c, "confirm")
    BY <1>7 DEF ConfirmBegins
  <2>2. \A j \in PlanIds : Current[j] = (IF j \in Expired THEN NoPlan ELSE plans[j]) /\ (j \in Expired => plans[j] # NoPlan)
    BY DEF Current, Expired
  <2>3. faults = 0 /\ crashes = 0 => dirs = {j \in PlanIds : plans[j] # NoPlan}
    BY <1>1, <2>1 DEF PlansInv, DirectoriesAreOwned
  <2>4. CASE plans' = Current /\ Done(c) /\ UNCHANGED lock
    <3>1. Goes(c, Idle)
      BY <2>4 DEF Done, Goes
    <3>2. Alone' /\ StepsOrdered' /\ Walks'
      BY <1>1, <1>4, <1>5, <2>4, <3>1, PlansStay DEF GoesOn
    <3>3. Owned'
      BY <1>1, <2>1, <2>4 DEF Owned
    <3>4. DirectoriesAreOwned'
      <4> SUFFICES ASSUME faults = 0, crashes = 0 PROVE dirs' = {i \in PlanIds : plans'[i] # NoPlan}
        BY <1>1, <1>2, <2>1, <2>4 DEF DirectoriesAreOwned
      <4> QED BY <2>1, <2>2, <2>3, <2>4
    <3> QED BY <3>2, <3>3, <3>4 DEF PlansInv
  <2>5. CASE /\ Current[call[c].id] # NoPlan
             /\ plans' = [Current EXCEPT ![call[c].id] = NoPlan]
             /\ lock' = c
             /\ call' = [call EXCEPT ![c].pc = "check", ![c].steps = Current[call[c].id].steps,
                                     ![c].fresh = Current[call[c].id].fresh]
    <3> DEFINE r == [call[c] EXCEPT !.pc = "check", !.steps = Current[call[c].id].steps, !.fresh = Current[call[c].id].fresh]
    <3>1. Goes(c, r)
      BY <2>5, <1>1 DEF Goes
    <3>2. r.pc = "check" /\ r.id = call[c].id /\ r.op = call[c].op /\ r.steps = Current[call[c].id].steps
      BY <1>1 DEF Call
    <3> HIDE DEF r
    <3>3. r \in Call /\ \A d \in Callers : call'[d] = IF d = c THEN r ELSE call[d]
      BY <1>1, <3>1 DEF Goes, CallTypes
    <3>4. Current[call[c].id] = plans[call[c].id] /\ plans[call[c].id] # NoPlan /\ call[c].id \notin Expired
      BY <1>1, <1>3, <2>5, PlansStay
    <3>5. GoesOn(c, r) /\ Ordered(r.steps)
      BY <1>3, <2>1, <3>2, <3>4 DEF GoesOn, Active, At, PlansInv, StepsOrdered
    <3>6. \A i \in PlanIds : plans'[i] = IF i = call[c].id THEN NoPlan ELSE Current[i]
      BY <1>1, <2>5, PlansStay
    <3>7. Alone' /\ StepsOrdered' /\ Walks'
      BY <1>1, <1>4, <3>1, <3>2, <3>3, <3>5, <3>6, PlansStay
    <3>8. \A d \in Callers : lock' = d <=> d = c
      BY <2>5
    <3>9. Owned'
      BY <1>3, <3>2, <3>3, <3>6, <3>8 DEF Owned
    <3>10. DirectoriesAreOwned'
      <4> SUFFICES ASSUME faults = 0, crashes = 0 PROVE dirs' = {i \in PlanIds : plans'[i] # NoPlan \/ i = call[c].id}
        BY <1>1, <1>2, <2>1, <3>2, <3>3, <3>8 DEF DirectoriesAreOwned
      <4> QED BY <2>1, <2>2, <2>3, <3>4, <3>6
    <3> QED BY <3>7, <3>9, <3>10 DEF PlansInv
  <2> QED BY <1>7, <2>4, <2>5 DEF ConfirmBegins
<1>8. CASE Finish(c)
  <2>1. lock' = NoCaller /\ Goes(c, Idle) /\ UNCHANGED plans /\ call[c].pc = "finish"
    BY <1>8 DEF Finish, Done, Goes, At
  <2>2. lock = c /\ plans[call[c].id] = NoPlan
    BY <1>1, <2>1 DEF Locks, Confirms, Installing, PlansInv, Owned
  <2>3. Alone' /\ StepsOrdered' /\ Walks'
    BY <1>4, <1>5, <2>1 DEF GoesOn
  <2>4. Owned'
    BY <1>1, <2>1 DEF Owned
  <2>5. DirectoriesAreOwned'
    <3> SUFFICES ASSUME faults' = 0, crashes = 0 PROVE dirs' = {i \in PlanIds : plans[i] # NoPlan}
      BY <1>1, <1>2, <2>1 DEF DirectoriesAreOwned
    <3>1. dirs' = dirs \ {call[c].id} /\ faults = 0
      BY <1>8 DEF Finish, Fault, NoFault, TypeInv
    <3>2. dirs = {i \in PlanIds : plans[i] # NoPlan \/ i = call[c].id}
      BY <1>1, <2>2, <3>1 DEF PlansInv, DirectoriesAreOwned
    <3> QED BY <3>1, <3>2, <2>2
  <2> QED BY <2>3, <2>4, <2>5 DEF PlansInv
<1> QED BY <1>6, <1>7, <1>8

LEMMA OutsidePlans ==
  ASSUME TypeInv, PlansInv, Expire \/ Crash \/ UNCHANGED vars
  PROVE  PlansInv'
<1>1. \A S : Ordered(S)' <=> Ordered(S)
  BY DEF Ordered
<1>2. CASE Expire
  <2>1. PICK i \in PlanIds : plans[i] # NoPlan /\ plans' = [plans EXCEPT ![i].expired = TRUE]
    BY <1>2 DEF Expire
  <2>2. UNCHANGED <<catalog, visiting, done, ordered, dirs, lock, call, raced, crashes, faults>>
    BY <1>2 DEF Expire, history, resolving
  <2>3. [plans[i] EXCEPT !.expired = TRUE] \in Plan /\ [plans[i] EXCEPT !.expired = TRUE].steps = plans[i].steps
    BY <2>1, PlansStay DEF Plan, TypeInv
  <2>4. \A j \in PlanIds : /\ plans'[j] # NoPlan <=> plans[j] # NoPlan
                           /\ plans'[j] # NoPlan => plans'[j].steps = plans[j].steps
    BY <2>1, <2>3, PlansAssumption DEF TypeInv, PlanTypes
  <2>5. Alone' /\ Walks' /\ DirectoriesAreOwned'
    <3>1. Alone'
      BY <2>2 DEF PlansInv, Alone, Active, At
    <3>2. \A d \in Callers : At(d, "resolve")' <=> At(d, "resolve")
      BY <2>2 DEF At
    <3>3. Walks'
      BY <2>2, <3>2, WalkingStays DEF PlansInv, Walks
    <3>4. DirectoriesAreOwned'
      BY <2>2, <2>4 DEF PlansInv, DirectoriesAreOwned
    <3> QED BY <3>1, <3>3, <3>4
  <2>6. Owned'
    BY <2>2, <2>4 DEF PlansInv, Owned, TypeInv, CallTypes, Fits
  <2>7. StepsOrdered'
    BY <1>1, <2>2, <2>4 DEF PlansInv, StepsOrdered
  <2> QED BY <2>5, <2>6, <2>7 DEF PlansInv
<1>3. CASE Crash
  <2>1. /\ lock' = NoCaller /\ Forget /\ call' = [d \in Callers |-> Idle] /\ plans' = [i \in PlanIds |-> NoPlan]
        /\ crashes' = crashes + 1 /\ crashes \in Nat
    BY <1>3 DEF Crash, TypeInv
  <2>2. \A d \in Callers : call'[d] = Idle /\ ~At(d, "resolve")' /\ ~Active(d)'
    BY <2>1 DEF At, Active, Idle
  <2>3. Alone' /\ Owned'
    BY <2>1, <2>2, CallersAssumption DEF Alone, Owned
  <2>4. Walks'
    BY <2>1, <2>2 DEF Walks, Forget
  <2>5. DirectoriesAreOwned'
    <3>1. crashes' # 0
      BY <2>1
    <3> QED BY <3>1 DEF DirectoriesAreOwned
  <2>6. StepsOrdered'
    BY <1>1, <2>1, <2>2, NothingOrdered DEF StepsOrdered
  <2> QED BY <2>3, <2>4, <2>5, <2>6 DEF PlansInv
<1>4. CASE UNCHANGED vars
  <2>1. UNCHANGED <<catalog, visiting, done, ordered, plans, dirs, lock, call, raced, crashes, faults>>
    BY <1>4 DEF vars, system, resolving
  <2>2. \A d \in Callers : At(d, "resolve")' <=> At(d, "resolve")
    BY <2>1 DEF At
  <2>3. Walks'
    BY <2>1, <2>2, WalkingStays DEF PlansInv, Walks
  <2>4. Alone' /\ Owned' /\ DirectoriesAreOwned'
    BY <2>1 DEF PlansInv, Alone, Owned, DirectoriesAreOwned, Active, At
  <2>5. StepsOrdered'
    BY <1>1, <2>1 DEF PlansInv, StepsOrdered
  <2> QED BY <2>3, <2>4, <2>5 DEF PlansInv
<1> QED BY <1>2, <1>3, <1>4

\* Plans, their directories and the walk that makes them, at every moment (dependency_plan.py, api_server.py).
THEOREM PlansInvariant == Spec => []PlansInv
<1>1. Init => PlansInv
  <2> SUFFICES ASSUME Init PROVE PlansInv
    OBVIOUS
  <2>1. /\ plans = [i \in PlanIds |-> NoPlan] /\ dirs = {} /\ lock = NoCaller /\ call = [c \in Callers |-> Idle]
        /\ visiting = <<>> /\ done = {} /\ ordered = <<>>
    BY DEF Init
  <2>2. \A d \in Callers : call[d] = Idle /\ ~At(d, "resolve") /\ ~Active(d)
    BY <2>1 DEF At, Active, Idle
  <2>3. Alone /\ Owned /\ DirectoriesAreOwned /\ Walks
    BY <2>1, <2>2, CallersAssumption DEF Alone, Owned, DirectoriesAreOwned, Walks
  <2>4. StepsOrdered
    BY <2>1, <2>2, NothingOrdered DEF StepsOrdered
  <2> QED BY <2>3, <2>4 DEF PlansInv
<1>2. TypeInv /\ TypeInv' /\ PlansInv /\ [Next]_vars => PlansInv'
  <2> SUFFICES ASSUME TypeInv, TypeInv', PlansInv, [Next]_vars PROVE PlansInv'
    OBVIOUS
  <2>1. ASSUME NEW c \in Callers,
               \/ PlanRequest(c) \/ ConfirmRequest(c) \/ CancelRequest(c) \/ UninstallRequest(c)
               \/ PlanBegins(c) \/ Accept(c) \/ Visit(c) \/ Return(c) \/ PlanEnds(c) \/ PlanBreaks(c)
               \/ Cancel(c) \/ ConfirmBegins(c) \/ Finish(c) \/ Carries(c)
        PROVE  PlansInv'
    BY <2>1, RequestPlans, PlanningPlans, ConfirmPlans, CarryPlans
  <2>2. CASE Expire \/ Crash \/ UNCHANGED vars
    BY <2>2, OutsidePlans
  <2> QED BY <2>1, <2>2 DEF Next, Carries
<1> QED BY <1>1, <1>2, TypeCorrect, PTL DEF Spec

-----------------------------------------------------------------------------
(* The folders: the steps.                                                 *)
\* While somebody plans, installs or uninstalls, and nothing has overlapped, the others rest.
Rests(r) == r.pc \in {"idle", "plan", "confirm", "cancel"}

LEMMA OthersRest ==
  ASSUME TypeInv, PlansInv, ~raced, NEW c \in Callers, Locks(call[c]) \/ call[c].pc \in Working, NEW d \in Callers \ {c}
  PROVE  Rests(call[d])
<1>1. /\ call[c] \in Call /\ Fits(call[c]) /\ (lock = c <=> Locks(call[c]))
      /\ call[d] \in Call /\ Fits(call[d]) /\ (lock = d <=> Locks(call[d]))
  BY DEF TypeInv, CallTypes
<1>2. CASE Locks(call[c])
  <2>1. ~Locks(call[d])
    BY <1>1, <1>2
  <2>2. Active(c)
    BY <1>2 DEF Active, At, Locks, Confirms, Installing, Preparing, Moving
  <2>3. Active(d) => call[d].op # "uninstall"
    BY <2>2 DEF PlansInv, Alone
  <2>4. call[d].pc # "idle" => Active(d)
    BY DEF Active, At
  <2> QED BY <1>1, <2>1, <2>3, <2>4 DEF Call, Rests, Fits, Locks, Confirms, Planning, Installing, Removing
<1>3. CASE call[c].pc \in Working /\ ~Locks(call[c])
  <2>1. call[c].op = "uninstall"
    BY <1>1, <1>3 DEF Working, Fits, Locks, Confirms, Installing
  <2>2. Active(c)
    BY <1>3 DEF Active, At, Working, Preparing, Moving, Removing
  <2>3. ~Active(d)
    BY <2>1, <2>2 DEF PlansInv, Alone
  <2> QED BY <2>3 DEF Active, At, Rests
<1> QED BY <1>2, <1>3

\* What FoldersInv says of one request.
Approved(c) == At(c, "finish") /\ call[c].result = "ok" =>
  \A s \in 1..Len(call[c].steps) : LET k == call[c].steps[s].pkg IN
    folder[k.id] = Whole(k) /\ (loads[k.id] = "loaded" \/ (k.id \in Fragile /\ loads[k.id] = "failed"))

LEMMA FoldersOf == FoldersInv <=> /\ ~raced => \A c \in Callers : Installed(c) /\ Approved(c)
                                  /\ UpdateKeepsPlugin /\ kept \subseteq Plugins
BY DEF FoldersInv, InstalledAsApproved, Approved

LEMMA FoldersThen == FoldersInv' <=> /\ ~raced' => \A c \in Callers : Installed(c)' /\ Approved(c)'
                                     /\ UpdateKeepsPlugin' /\ kept' \subseteq Plugins
BY DEF FoldersInv, InstalledAsApproved, Approved

LEMMA RestingIsInstalled ==
  ASSUME NEW c \in Callers, Rests(call'[c])
  PROVE  Installed(c)' /\ Approved(c)' /\ call'[c].pc \notin Moving
BY DEF Rests, Installed, Approved, At, Preparing, Moving

\* A request that stays as it is, over the same folders.
LEMMA InstalledStays ==
  ASSUME NEW c \in Callers, Installed(c), Approved(c), call'[c] = call[c], UNCHANGED <<folder, kept, loads>>
  PROVE  Installed(c)' /\ Approved(c)'
BY DEF Installed, Approved, At, Stand, NeedsMet, Met, Step, Id, Target

\* What becomes of the folders when one request goes on, and the others rest or keep.
LEMMA FoldersMove ==
  ASSUME CallTypes, FoldersInv, NEW c \in Callers, NEW r \in Call, Goes(c, r), ~raced' => ~raced, kept' \subseteq Plugins,
         \/ UNCHANGED <<folder, kept, loads>>
         \/ ~raced => \A d \in Callers \ {c} : Rests(call[d]),
         ~raced' => Installed(c)' /\ Approved(c)',
         ~raced' => \A p \in kept' \ lost' : \/ folder'[p].parts = "whole"
                                             \/ \E d \in Callers \ {c} : call[d].pc \in Moving /\ Id(d) = p /\ call[d].saved.parts = "whole"
                                             \/ r.pc \in Moving /\ r.steps[r.at].pkg.id = p /\ r.saved.parts = "whole"
  PROVE  FoldersInv'
<1>1. \A d \in Callers : call'[d] = IF d = c THEN r ELSE call[d]
  BY DEF CallTypes, Goes
<1>2. ASSUME ~raced', NEW d \in Callers PROVE Installed(d)' /\ Approved(d)'
  <2>1. CASE d = c
    BY <1>2, <2>1
  <2>2. CASE d # c /\ UNCHANGED <<folder, kept, loads>>
    BY <1>1, <1>2, <2>2, InstalledStays, FoldersOf
  <2>3. CASE d # c /\ Rests(call[d])
    BY <1>1, <2>3, RestingIsInstalled
  <2> QED BY <1>2, <2>1, <2>2, <2>3
<1>3. UpdateKeepsPlugin'
  <2> SUFFICES ASSUME ~raced', NEW p \in (kept \ lost)', folder'[p].parts # "whole"
               PROVE  \E d \in Callers : call'[d].pc \in {"moveNew", "moveBack"} /\ Id(d)' = p /\ call'[d].saved.parts = "whole"
    BY DEF UpdateKeepsPlugin
  <2>1. CASE \E d \in Callers \ {c} : call[d].pc \in Moving /\ Id(d) = p /\ call[d].saved.parts = "whole"
    BY <1>1, <2>1 DEF Moving, Id, Step
  <2>2. CASE r.pc \in Moving /\ r.steps[r.at].pkg.id = p /\ r.saved.parts = "whole"
    BY <1>1, <2>2 DEF Moving, Id, Step
  <2> QED BY <2>1, <2>2
<1> QED BY <1>2, <1>3, FoldersThen

\* The steps of requests that touch no folder.
Prepares(c) ==
  \/ PlanRequest(c) \/ ConfirmRequest(c) \/ CancelRequest(c) \/ UninstallRequest(c)
  \/ PlanBegins(c) \/ Accept(c) \/ Visit(c) \/ Return(c) \/ PlanEnds(c) \/ PlanBreaks(c)
  \/ Cancel(c) \/ ConfirmBegins(c) \/ Finish(c)

\* A request that has not begun to install or remove anything.
Begins(r) == r.pc \in {"idle", "plan", "accept", "resolve", "confirm", "cancel", "uninstall"} \/ (r.pc = "check" /\ r.at = 1)

LEMMA Beginning ==
  ASSUME TypeInv, TypeInv', NEW c \in Callers, Prepares(c)
  PROVE  /\ UNCHANGED <<folder, loads, kept, lost, older, crashes>>
         /\ raced' = FALSE => raced = FALSE
         /\ faults' = 0 => faults = 0
         /\ call[c].pc \in {"idle", "plan", "accept", "resolve", "confirm", "cancel", "finish"}
         /\ Goes(c, call'[c]) /\ call'[c] \in Call /\ Begins(call'[c])
<1>1. call[c] \in Call /\ call \in [Callers -> Call] /\ call' \in [Callers -> Call] /\ Fits(call[c]) /\ faults \in Nat /\ raced \in BOOLEAN
  BY DEF TypeInv, CallTypes
<1>2. CASE PlanRequest(c) \/ ConfirmRequest(c) \/ CancelRequest(c) \/ UninstallRequest(c)
  <2>1. UNCHANGED kept
    BY <1>2 DEF PlanRequest, ConfirmRequest, CancelRequest, UninstallRequest
  <2>2. \E r : Arrive(c, r)
    BY <1>2 DEF PlanRequest, ConfirmRequest, CancelRequest, UninstallRequest
  <2>3. PICK r : Arrive(c, r)
    BY <2>2
  <2>4. /\ UNCHANGED <<folder, loads, lost, older, crashes, faults>> /\ (raced' = FALSE => raced = FALSE)
        /\ call[c].pc = "idle" /\ call' = [call EXCEPT ![c] = r]
    BY <1>1, <2>3 DEF Arrive, system, Active, At
  <2>5. call'[c].pc \in {"plan", "confirm", "cancel", "uninstall"}
    <3>1. \A x : call' = [call EXCEPT ![c] = x] => call'[c] = x
      BY <1>1
    <3>2. CASE PlanRequest(c)
      <4>1. PICK k \in Uploads, b \in BOOLEAN : Arrive(c, [Idle EXCEPT !.pc = "plan", !.op = "plan", !.pkg = k, !.replace = b])
        BY <3>2 DEF PlanRequest
      <4>2. call'[c] = [Idle EXCEPT !.pc = "plan", !.op = "plan", !.pkg = k, !.replace = b]
        BY <3>1, <4>1 DEF Arrive
      <4> QED BY <4>2 DEF Idle
    <3>3. CASE ConfirmRequest(c)
      <4>1. PICK i \in PlanIds : Arrive(c, [Idle EXCEPT !.pc = "confirm", !.op = "confirm", !.id = i])
        BY <3>3 DEF ConfirmRequest
      <4>2. call'[c] = [Idle EXCEPT !.pc = "confirm", !.op = "confirm", !.id = i]
        BY <3>1, <4>1 DEF Arrive
      <4> QED BY <4>2 DEF Idle
    <3>4. CASE CancelRequest(c)
      <4>1. PICK i \in PlanIds : Arrive(c, [Idle EXCEPT !.pc = "cancel", !.op = "cancel", !.id = i])
        BY <3>4 DEF CancelRequest
      <4>2. call'[c] = [Idle EXCEPT !.pc = "cancel", !.op = "cancel", !.id = i]
        BY <3>1, <4>1 DEF Arrive
      <4> QED BY <4>2 DEF Idle
    <3>5. CASE UninstallRequest(c)
      <4>1. PICK k \in Packages : Arrive(c, [Idle EXCEPT !.pc = "uninstall", !.op = "uninstall", !.pkg = k])
        BY <3>5 DEF UninstallRequest
      <4>2. call'[c] = [Idle EXCEPT !.pc = "uninstall", !.op = "uninstall", !.pkg = k]
        BY <3>1, <4>1 DEF Arrive
      <4> QED BY <4>2 DEF Idle
    <3> QED BY <1>2, <3>2, <3>3, <3>4, <3>5
  <2> QED BY <1>1, <2>1, <2>4, <2>5 DEF Goes, Begins
<1>3. CASE PlanBegins(c) \/ Accept(c) \/ Visit(c) \/ Return(c) \/ PlanEnds(c) \/ PlanBreaks(c)
  <2>1. UNCHANGED <<folder, loads, kept, lost, older, raced, crashes>> /\ (faults' = 0 => faults = 0)
    BY <1>1, <1>3 DEF PlanBegins, Accept, Visit, Return, PlanEnds, PlanBreaks, history, Fault
  <2>2. call[c].pc \in {"plan", "accept", "resolve"}
    BY <1>3 DEF PlanBegins, Accept, Visit, Return, PlanEnds, PlanBreaks, At
  <2>3. ASSUME PlanFails(c) \/ Done(c) PROVE Goes(c, call'[c]) /\ Begins(call'[c])
    BY <1>1, <2>3 DEF PlanFails, Done, Goes, Begins, Idle
  <2>4. ASSUME UNCHANGED call, call[c].pc = "resolve" PROVE Goes(c, call'[c]) /\ Begins(call'[c])
    BY <1>1, <2>4 DEF Goes, Begins
  <2>5. CASE PlanBegins(c)
    <3>1. PICK i \in PlanIds : call' = [call EXCEPT ![c].pc = "accept", ![c].id = i]
      BY <2>5 DEF PlanBegins
    <3>2. call'[c] = [call[c] EXCEPT !.pc = "accept", !.id = i]
      BY <1>1, <3>1
    <3>3. call'[c].pc = "accept"
      BY <1>1, <3>2 DEF Call
    <3> QED BY <1>1, <2>1, <2>2, <3>1, <3>2, <3>3 DEF Goes, Begins
  <2>6. CASE Accept(c)
    <3>1. CASE Goto(c, "resolve")
      <4>1. call'[c].pc = "resolve" /\ Goes(c, call'[c])
        BY <1>1, <3>1 DEF Goto, Goes, Call
      <4> QED BY <1>1, <2>1, <2>2, <4>1 DEF Begins
    <3> QED BY <1>1, <2>1, <2>2, <2>3, <2>6, <3>1 DEF Accept
  <2>7. CASE Visit(c) \/ Return(c) \/ PlanEnds(c) \/ PlanBreaks(c)
    <3>1. PlanFails(c) \/ Done(c) \/ (UNCHANGED call /\ call[c].pc = "resolve")
      BY <2>7 DEF Visit, Return, PlanEnds, PlanBreaks, At
    <3> QED BY <1>1, <2>1, <2>2, <2>3, <2>4, <3>1
  <2> QED BY <1>3, <2>5, <2>6, <2>7
<1>4. CASE Cancel(c) \/ ConfirmBegins(c) \/ Finish(c)
  <2>1. UNCHANGED <<folder, loads, kept, lost, older, raced, crashes>> /\ (faults' = 0 => faults = 0)
    BY <1>1, <1>4 DEF Cancel, ConfirmBegins, Finish, history, Fault, NoFault
  <2>2. call[c].pc \in {"confirm", "cancel", "finish"}
    BY <1>4 DEF Cancel, ConfirmBegins, Finish, At
  <2>3. CASE Done(c)
    BY <1>1, <2>1, <2>2, <2>3 DEF Done, Goes, Begins, Idle
  <2>4. CASE ConfirmBegins(c) /\ ~Done(c)
    <3>1. PICK S, b : call' = [call EXCEPT ![c].pc = "check", ![c].steps = S, ![c].fresh = b]
      BY <2>4 DEF ConfirmBegins
    <3>2. call'[c] = [call[c] EXCEPT !.pc = "check", !.steps = S, !.fresh = b]
      BY <1>1, <3>1
    <3>3. call'[c].pc = "check" /\ call'[c].at = call[c].at
      BY <1>1, <3>2 DEF Call
    <3>4. call[c].at = 1
      BY <1>1, <2>4 DEF ConfirmBegins, At, Fits
    <3> QED BY <1>1, <2>1, <2>2, <3>1, <3>2, <3>3, <3>4 DEF Goes, Begins
  <2> QED BY <1>4, <2>3, <2>4 DEF Cancel, Finish
<1> QED BY <1>2, <1>3, <1>4 DEF Prepares

LEMMA BeginningIsInstalled ==
  ASSUME NEW c \in Callers, Begins(call'[c])
  PROVE  Installed(c)' /\ Approved(c)' /\ call'[c].pc \notin Moving
BY DEF Begins, Installed, Approved, Stand, At, Preparing, Moving

LEMMA PreparesFolders ==
  ASSUME TypeInv, TypeInv', FoldersInv, NEW c \in Callers, Prepares(c)
  PROVE  FoldersInv'
<1>1. /\ UNCHANGED <<folder, loads, kept, lost>> /\ (~raced' => ~raced)
      /\ call[c].pc \notin Moving
      /\ Goes(c, call'[c]) /\ call'[c] \in Call /\ Begins(call'[c])
  BY Beginning DEF Moving, TypeInv
<1>2. PICK r \in Call : r = call'[c]
  BY <1>1
<1>3. Installed(c)' /\ Approved(c)' /\ Goes(c, r)
  BY <1>1, <1>2, BeginningIsInstalled
<1>4. ~raced' => \A p \in kept' \ lost' : \/ folder'[p].parts = "whole"
                                          \/ \E d \in Callers \ {c} : call[d].pc \in Moving /\ Id(d) = p /\ call[d].saved.parts = "whole"
  BY <1>1, FoldersOf DEF UpdateKeepsPlugin, Moving
<1> QED BY <1>1, <1>2, <1>3, <1>4, FoldersMove, FoldersOf DEF TypeInv

LEMMA OutsideFolders ==
  ASSUME TypeInv, FoldersInv, Expire \/ Crash \/ UNCHANGED vars
  PROVE  FoldersInv'
<1>1. ASSUME UNCHANGED <<folder, kept, loads, lost, raced, call>> PROVE FoldersInv'
  <2>1. \A c \in Callers : Installed(c) /\ Approved(c) => Installed(c)' /\ Approved(c)'
    BY <1>1, InstalledStays
  <2>2. UpdateKeepsPlugin'
    BY <1>1 DEF FoldersInv, UpdateKeepsPlugin, Id, Step
  <2> QED BY <1>1, <2>1, <2>2, FoldersOf, FoldersThen
<1>2. CASE Expire
  BY <1>1, <1>2 DEF Expire, history
<1>3. CASE UNCHANGED vars
  BY <1>1, <1>3 DEF vars, system
<1>4. CASE Crash
  <2>1. /\ UNCHANGED <<folder, kept, raced>> /\ call' = [d \in Callers |-> Idle]
        /\ lost' = lost \union {Id(c) : c \in {d \in Callers : call[d].pc \in {"moveNew", "moveBack"} /\ call[d].saved # Absent}}
    BY <1>4 DEF Crash
  <2>2. \A d \in Callers : call'[d].pc = "idle"
    BY <2>1 DEF Idle
  <2>3. \A d \in Callers : Installed(d)' /\ Approved(d)'
    BY <2>2, RestingIsInstalled DEF Rests
  <2>4. UpdateKeepsPlugin'
    <3> SUFFICES ASSUME ~raced, NEW p \in kept \ lost', folder[p].parts # "whole" PROVE FALSE
      BY <2>1 DEF UpdateKeepsPlugin
    <3>1. PICK d \in Callers : call[d].pc \in {"moveNew", "moveBack"} /\ Id(d) = p /\ call[d].saved.parts = "whole"
      BY <2>1 DEF FoldersInv, UpdateKeepsPlugin
    <3>2. call[d].saved # Absent
      BY <3>1 DEF Absent
    <3> QED BY <2>1, <3>1, <3>2
  <2> QED BY <2>1, <2>3, <2>4, FoldersOf, FoldersThen
<1> QED BY <1>2, <1>3, <1>4

\* The steps of a plan before the one under way, and that one, need nothing of its plugin.
LEMMA Apart ==
  ASSUME TypeInv, PlansInv, NEW c \in Callers, Confirms(call[c])
  PROVE  /\ \A s \in 1..(call[c].at - 1) : call[c].steps[s].pkg.id # Id(c)
         /\ \A s \in 1..call[c].at : /\ call[c].steps[s].pkg \in Packages
                                     /\ \A i \in 1..Len(call[c].steps[s].pkg.needs) : call[c].steps[s].pkg.needs[i].id # Id(c)
<1>1. /\ call[c].at \in 1..Len(call[c].steps) /\ call[c].steps \in Seq(InstallStep) /\ Len(call[c].steps) \in Nat
      /\ Id(c) = call[c].steps[call[c].at].pkg.id
  BY Current1 DEF TypeInv
<1>2. Ordered(call[c].steps)
  BY DEF PlansInv, StepsOrdered
<1>3. PICK S, a : S = call[c].steps /\ a = call[c].at
  OBVIOUS
<1>4. S \in Seq(InstallStep) /\ a \in 1..Len(S) /\ Len(S) \in Nat /\ DOMAIN S = 1..Len(S)
  BY <1>1, <1>3
<1>5. \A s \in 1..a : s \in 1..Len(S) /\ ~(a < s)
  BY <1>4
<1>6. \A s \in 1..(a - 1) : s \in 1..Len(S) /\ s # a
  BY <1>4
<1>7. \A s \in 1..Len(S) : /\ S[s].pkg.id = S[a].pkg.id => s = a
                           /\ \A n \in Range(S[s].pkg.needs) : n.id = S[a].pkg.id => a < s
  BY <1>2, <1>3, <1>4 DEF Ordered
<1>11. \A s \in 1..Len(S) : S[s] \in InstallStep
  BY <1>4
<1>8. \A s \in 1..Len(S) : S[s].pkg \in Packages
  BY <1>11 DEF InstallStep
<1>9. ASSUME NEW s \in 1..a, NEW i \in 1..Len(S[s].pkg.needs) PROVE S[s].pkg.needs[i].id # S[a].pkg.id
  <2>1. S[s].pkg \in Packages /\ s \in 1..Len(S) /\ ~(a < s)
    BY <1>5, <1>8
  <2>2. S[s].pkg.needs[i] \in Range(S[s].pkg.needs)
    BY <2>1, <1>9, Manifest
  <2> QED BY <1>7, <2>1, <2>2
<1>10. \A s \in 1..(a - 1) : S[s].pkg.id # S[a].pkg.id
  BY <1>6, <1>7
<1> QED BY <1>1, <1>3, <1>5, <1>8, <1>9, <1>10

\* What a package needs is met as before if the folder that changed is not among it.
LEMMA NeedsElsewhere ==
  ASSUME FolderTypes, NEW p \in Plugins, NEW f, folder' = [folder EXCEPT ![p] = f], NEW k \in Packages,
         \A i \in 1..Len(k.needs) : k.needs[i].id # p, NeedsMet(k)
  PROVE  NeedsMet(k)'
<1>1. \A i \in 1..Len(k.needs) : k.needs[i].id \in Plugins
  BY Manifest
<1>2. \A i \in 1..Len(k.needs) : folder'[k.needs[i].id] = folder[k.needs[i].id]
  BY <1>1 DEF FolderTypes
<1> QED BY <1>2 DEF NeedsMet, Met

\* What has been installed stands when the plugin under way changes.
LEMMA EarlierStand ==
  ASSUME TypeInv, PlansInv, NEW c \in Callers, Confirms(call[c]), Stand(call[c].steps, call[c].at - 1),
         NEW f, folder' = [folder EXCEPT ![Id(c)] = f], NEW S, S = call[c].steps, NEW a, a = call[c].at
  PROVE  /\ Stand(S, a - 1)'
         /\ NeedsMet(S[a].pkg) => NeedsMet(S[a].pkg)'
         /\ NeedsMet(S[a].pkg) /\ f = Whole(S[a].pkg) => Stand(S, a)'
<1>1. /\ FolderTypes /\ Id(c) \in Plugins /\ a \in Nat /\ a >= 1 /\ S[a].pkg.id = Id(c)
  BY Current1 DEF TypeInv
<1>2. /\ \A s \in 1..(a - 1) : S[s].pkg.id # Id(c)
      /\ \A s \in 1..a : /\ S[s].pkg \in Packages
                         /\ \A i \in 1..Len(S[s].pkg.needs) : S[s].pkg.needs[i].id # Id(c)
  BY Apart
<1>3. a \in 1..a /\ \A s \in 1..(a - 1) : s \in 1..a
  BY <1>1
<1>4. ASSUME NEW s \in 1..a, NeedsMet(S[s].pkg) PROVE NeedsMet(S[s].pkg)'
  <2>1. PICK k \in Packages : k = S[s].pkg
    BY <1>2, <1>4
  <2>2. NeedsMet(k)'
    BY <1>1, <1>2, <1>4, <2>1, NeedsElsewhere
  <2> QED BY <2>1, <2>2
<1>5. ASSUME NEW s \in 1..(a - 1) PROVE folder'[S[s].pkg.id] = Whole(S[s].pkg) /\ NeedsMet(S[s].pkg)'
  <2>1. folder[S[s].pkg.id] = Whole(S[s].pkg) /\ NeedsMet(S[s].pkg)
    BY <1>5 DEF Stand
  <2>2. folder'[S[s].pkg.id] = folder[S[s].pkg.id]
    <3>1. S[s].pkg.id \in Plugins
      BY <1>2, <1>3, Manifest
    <3> QED BY <3>1, <1>2 DEF FolderTypes
  <2> QED BY <1>3, <1>4, <2>1, <2>2
<1>6. Stand(S, a - 1)'
  BY <1>5 DEF Stand
<1>7. NeedsMet(S[a].pkg) => NeedsMet(S[a].pkg)'
  BY <1>3, <1>4
<1>8. ASSUME NeedsMet(S[a].pkg), f = Whole(S[a].pkg) PROVE Stand(S, a)'
  <2>1. folder'[S[a].pkg.id] = Whole(S[a].pkg)
    BY <1>1, <1>8 DEF FolderTypes
  <2>2. \A s \in 1..a : s = a \/ s \in 1..(a - 1)
    BY <1>1
  <2> QED BY <1>5, <1>7, <1>8, <2>1, <2>2 DEF Stand
<1> QED BY <1>6, <1>7, <1>8

\* What a request goes on with.
LEMMA GoesWith ==
  ASSUME TypeInv, NEW c \in Callers
  PROVE  /\ \A q : Goto(c, q) => /\ call'[c].pc = q /\ call'[c].steps = call[c].steps /\ call'[c].at = call[c].at
                                 /\ call'[c].op = call[c].op /\ call'[c].pkg = call[c].pkg /\ call'[c].saved = call[c].saved
                                 /\ call'[c].fresh = call[c].fresh /\ call'[c].result = call[c].result
         /\ \A q : Fail(c, q) => /\ call'[c].pc = "finish" /\ call'[c].result = q /\ call'[c].steps = call[c].steps
                                 /\ call'[c].at = call[c].at /\ call'[c].op = call[c].op /\ call'[c].pkg = call[c].pkg
                                 /\ call'[c].saved = call[c].saved /\ call'[c].fresh = call[c].fresh
         /\ Done(c) => call'[c] = Idle /\ call'[c].pc = "idle"
<1>1. call \in [Callers -> Call] /\ call[c] \in Call
  BY DEF TypeInv, CallTypes
<1>2. ASSUME NEW q, Goto(c, q)
      PROVE  /\ call'[c].pc = q /\ call'[c].steps = call[c].steps /\ call'[c].at = call[c].at
             /\ call'[c].op = call[c].op /\ call'[c].pkg = call[c].pkg /\ call'[c].saved = call[c].saved
             /\ call'[c].fresh = call[c].fresh /\ call'[c].result = call[c].result
  BY <1>1, <1>2 DEF Goto, Call
<1>3. ASSUME NEW q, Fail(c, q)
      PROVE  /\ call'[c].pc = "finish" /\ call'[c].result = q /\ call'[c].steps = call[c].steps
             /\ call'[c].at = call[c].at /\ call'[c].op = call[c].op /\ call'[c].pkg = call[c].pkg
             /\ call'[c].saved = call[c].saved /\ call'[c].fresh = call[c].fresh
  <2>1. call'[c] = [call[c] EXCEPT !.pc = "finish", !.result = q]
    BY <1>1, <1>3 DEF Fail
  <2> QED BY <1>1, <2>1 DEF Call
<1>4. Done(c) => call'[c] = Idle /\ call'[c].pc = "idle"
  BY <1>1 DEF Done, Idle
<1> QED BY <1>2, <1>3, <1>4

LEMMA InstalledThen ==
  ASSUME NEW c \in Callers, NEW S, S = call'[c].steps, NEW a, a = call'[c].at, NEW q, q = call'[c].pc,
         q \in Preparing \union {"moveNew"} \/ (q = "finish" /\ call'[c].result = "unmet") => Stand(S, a - 1)',
         q \in (Preparing \ {"check"}) \union {"moveNew"} => NeedsMet(S[a].pkg)',
         q = "reload" /\ call'[c].op = "confirm" => Stand(S, a)',
         q \in Moving => folder'[S[a].pkg.id].parts = "none",
         q = "removing" => call'[c].pkg.id \notin kept'
  PROVE  Installed(c)'
BY DEF Installed, At, Step, Id, Target, Stand, NeedsMet, Met

LEMMA NeedsStay == ASSUME UNCHANGED folder PROVE /\ \A k : NeedsMet(k) => NeedsMet(k)'
                                                 /\ \A S, n : Stand(S, n) => Stand(S, n)'
BY DEF NeedsMet, Met, Stand

\* The state of one request, as an installation or uninstallation takes its next step.
Good(c) ==
  /\ kept \subseteq Plugins
  /\ Installed(c) /\ Approved(c)
  /\ \A p \in kept \ lost : \/ folder[p].parts = "whole"
                            \/ call[c].pc \in Moving /\ Id(c) = p /\ call[c].saved.parts = "whole"

LEMMA PreparingFolders ==
  ASSUME TypeInv, NEW c \in Callers, Good(c),
         InstallCheck(c) \/ PrepareRuntime(c) \/ MakeRuntime(c) \/ PrepareModel(c) \/ FetchModel(c)
  PROVE  Good(c)'
<1>1. UNCHANGED <<folder, kept, lost, loads>>
  BY DEF InstallCheck, PrepareRuntime, MakeRuntime, PrepareModel, FetchModel, system, history
<1>2. PICK S, a : S = call[c].steps /\ a = call[c].at
  OBVIOUS
<1>3. call[c].pc \in Preparing
  BY DEF InstallCheck, PrepareRuntime, MakeRuntime, PrepareModel, FetchModel, At, Preparing
<1>4. Stand(S, a - 1)'
  BY <1>1, <1>2, <1>3, NeedsStay DEF Good, Installed
<1>5. kept' \subseteq Plugins /\ \A p \in kept' \ lost' : folder'[p].parts = "whole"
  BY <1>1, <1>3 DEF Good, Preparing, Moving
<1>6. ASSUME NEW q \in Preparing \ {"check"}, Goto(c, q), NeedsMet(S[a].pkg) PROVE Good(c)'
  <2>1. call'[c].pc = q /\ call'[c].steps = S /\ call'[c].at = a
    BY <1>2, <1>6, GoesWith
  <2>2. NeedsMet(S[a].pkg)'
    BY <1>1, <1>6, NeedsStay
  <2>3. Installed(c)'
    BY <1>4, <2>1, <2>2, InstalledThen DEF Preparing, Moving
  <2> QED BY <1>5, <2>1, <2>3 DEF Good, Approved, At, Preparing
<1>7. ASSUME NEW q \in {"unmet", "provision"}, Fail(c, q) PROVE Good(c)'
  <2>1. call'[c].pc = "finish" /\ call'[c].result = q /\ call'[c].steps = S /\ call'[c].at = a
    BY <1>2, <1>7, GoesWith
  <2>2. Installed(c)'
    BY <1>4, <2>1, InstalledThen DEF Preparing, Moving
  <2> QED BY <1>5, <2>1, <2>2 DEF Good, Approved, At
<1>8. CASE InstallCheck(c)
  <2>1. Step(c).pkg = S[a].pkg
    BY <1>2 DEF Step
  <2> QED BY <1>6, <1>7, <1>8, <2>1 DEF InstallCheck, Preparing
<1>9. CASE PrepareRuntime(c) \/ MakeRuntime(c) \/ PrepareModel(c) \/ FetchModel(c)
  <2>1. NeedsMet(S[a].pkg)
    BY <1>2, <1>9 DEF PrepareRuntime, MakeRuntime, PrepareModel, FetchModel, At, Good, Installed, Preparing, Step
  <2>2. (\E q \in Preparing \ {"check"} : Goto(c, q)) \/ Fail(c, "provision")
    BY <1>9 DEF PrepareRuntime, MakeRuntime, PrepareModel, FetchModel, Preparing
  <2> QED BY <1>6, <1>7, <2>1, <2>2
<1> QED BY <1>8, <1>9

LEMMA MovingFolders ==
  ASSUME TypeInv, PlansInv, NEW c \in Callers, Good(c), MoveOld(c) \/ MoveNew(c) \/ MoveBack(c)
  PROVE  Good(c)'
<1>1. PICK S, a, p, k : S = call[c].steps /\ a = call[c].at /\ p = Id(c) /\ k = Step(c).pkg
  OBVIOUS
<1>2. Confirms(call[c]) /\ call[c].pc \in {"moveOld", "moveNew", "moveBack"}
  BY DEF MoveOld, MoveNew, MoveBack, At, Confirms, Installing, Preparing, Moving
<1>3. /\ S[a].pkg = k /\ k.id = p /\ p \in Plugins /\ k \in Packages /\ FolderTypes
      /\ call[c].saved \in FolderState /\ a \in 1..Len(S)
  BY <1>1, <1>2, Current1 DEF TypeInv
<1>4. \A f : folder' = [folder EXCEPT ![p] = f] => folder'[p] = f /\ \A x \in Plugins \ {p} : folder'[x] = folder[x]
  BY <1>3 DEF FolderTypes
<1>5. kept \subseteq Plugins
      /\ \A x \in kept \ lost : folder[x].parts = "whole" \/ (call[c].pc \in Moving /\ p = x /\ call[c].saved.parts = "whole")
  BY <1>1 DEF Good
<1>6. Installed(c)
  BY DEF Good
<1>7. call[c].pc \in {"moveOld", "moveNew"} => Stand(S, a - 1) /\ NeedsMet(k)
  BY <1>1, <1>6 DEF Installed, Preparing
<1>8. call[c].pc \in Moving => folder[p].parts = "none"
  BY <1>1, <1>6 DEF Installed
<1>9. ASSUME NEW f, folder' = [folder EXCEPT ![p] = f], call[c].pc \in {"moveOld", "moveNew"}
      PROVE  Stand(S, a - 1)' /\ NeedsMet(k)' /\ (f = Whole(k) => Stand(S, a)')
  BY <1>1, <1>2, <1>3, <1>7, <1>9, EarlierStand
<1>10. ASSUME NEW q \in {"failed"}, Fail(c, q), kept' = kept, kept' \ lost' \subseteq kept \ lost,
              \A x \in kept' \ lost' : folder'[x].parts = "whole"
       PROVE  Good(c)'
  <2>1. call'[c].pc = "finish" /\ call'[c].result = q /\ call'[c].steps = S /\ call'[c].at = a
    BY <1>1, <1>10, GoesWith
  <2>2. Installed(c)'
    BY <2>1, InstalledThen DEF Preparing, Moving
  <2> QED BY <1>5, <1>10, <2>1, <2>2 DEF Good, Approved, At
<1>11. ASSUME NEW q \in {"moveNew", "moveBack"}, call'[c].pc = q, call'[c].steps = S, call'[c].at = a, kept' = kept,
              q = "moveNew" => Stand(S, a - 1)' /\ NeedsMet(k)', folder'[p].parts = "none",
              \A x \in kept' \ lost' : folder'[x].parts = "whole" \/ (x = p /\ call'[c].saved.parts = "whole")
       PROVE  Good(c)'
  <2>1. Installed(c)'
    BY <1>3, <1>11, InstalledThen DEF Preparing, Moving
  <2>2. Id(c)' = p
    BY <1>3, <1>11 DEF Id, Step
  <2> QED BY <1>5, <1>11, <2>1, <2>2 DEF Good, Approved, At, Moving
<1>12. CASE MoveOld(c)
  <2>1. call[c].pc = "moveOld" /\ UNCHANGED kept /\ \A x \in kept \ lost : folder[x].parts = "whole"
    BY <1>5, <1>12 DEF MoveOld, At, Moving
  <2>2. CASE folder[p].parts = "none" /\ Goto(c, "moveNew") /\ UNCHANGED <<folder, lost>>
    <3>1. call'[c].pc = "moveNew" /\ call'[c].steps = S /\ call'[c].at = a
      BY <1>1, <2>2, GoesWith
    <3>2. Stand(S, a - 1)' /\ NeedsMet(k)'
      BY <1>7, <2>1, <2>2, NeedsStay
    <3> QED BY <1>11, <2>1, <2>2, <3>1, <3>2
  <2>3. CASE /\ folder' = [folder EXCEPT ![p] = Absent] /\ UNCHANGED lost
             /\ call' = [call EXCEPT ![c].pc = "moveNew", ![c].saved = folder[p]]
    <3>1. call'[c] = [call[c] EXCEPT !.pc = "moveNew", !.saved = folder[p]] /\ call[c] \in Call
      BY <2>3 DEF TypeInv, CallTypes
    <3>2. call'[c].pc = "moveNew" /\ call'[c].steps = S /\ call'[c].at = a /\ call'[c].saved = folder[p]
      BY <1>1, <3>1 DEF Call
    <3>3. folder'[p].parts = "none"
      BY <1>4, <2>3 DEF Absent
    <3>4. \A x \in kept' \ lost' : folder'[x].parts = "whole" \/ (x = p /\ call'[c].saved.parts = "whole")
      BY <1>4, <1>5, <2>1, <2>3, <3>2
    <3> QED BY <1>9, <1>11, <2>1, <2>3, <3>2, <3>3, <3>4
  <2>4. CASE Fail(c, "failed") /\ UNCHANGED <<folder, lost>>
    BY <1>10, <2>1, <2>4
  <2>5. CASE Fail(c, "failed") /\ (\E f : folder' = [folder EXCEPT ![p] = f]) /\ lost' = lost \union {p}
    BY <1>4, <1>5, <1>10, <2>1, <2>5
  <2> QED BY <1>1, <1>12, <2>2, <2>3, <2>4, <2>5 DEF MoveOld
<1>13. CASE MoveNew(c)
  <2>1. call[c].pc = "moveNew"
    BY <1>13 DEF MoveNew, At
  <2>2. CASE folder' = [folder EXCEPT ![p] = Whole(k)] /\ kept' = kept \union {p} /\ Goto(c, "reload") /\ UNCHANGED lost
    <3>1. call'[c].pc = "reload" /\ call'[c].steps = S /\ call'[c].at = a
      BY <1>1, <2>2, GoesWith
    <3>2. Stand(S, a)'
      BY <1>9, <2>1, <2>2
    <3>3. Installed(c)'
      BY <3>1, <3>2, InstalledThen DEF Preparing, Moving
    <3>4. kept' \subseteq Plugins /\ \A x \in kept' \ lost' : folder'[x].parts = "whole"
      <4>1. Whole(k).parts = "whole" /\ folder'[p] = Whole(k)
        BY <1>4, <2>2 DEF Whole
      <4>2. kept' \subseteq Plugins
        BY <1>3, <1>5, <2>2
      <4>3. ASSUME NEW x \in kept' \ lost', x # p PROVE folder'[x].parts = "whole"
        <5>1. folder[x].parts = "whole" /\ x \in Plugins
          BY <1>5, <2>2, <4>3
        <5> QED BY <1>4, <2>2, <4>3, <5>1
      <4> QED BY <4>1, <4>2, <4>3
    <3> QED BY <3>1, <3>3, <3>4 DEF Good, Approved, At
  <2>3. CASE Goto(c, "moveBack") /\ UNCHANGED <<folder, kept, lost>>
    <3>1. call'[c].pc = "moveBack" /\ call'[c].steps = S /\ call'[c].at = a /\ call'[c].saved = call[c].saved
      BY <1>1, <2>3, GoesWith
    <3>2. folder'[p].parts = "none"
      BY <1>8, <2>1, <2>3 DEF Moving
    <3> QED BY <1>5, <1>11, <2>3, <3>1, <3>2
  <2>4. CASE Fail(c, "failed") /\ (\E f : folder' = [folder EXCEPT ![p] = f]) /\ lost' = lost \union {p} /\ kept' = kept
    BY <1>4, <1>5, <1>10, <2>4
  <2> QED BY <1>1, <1>13, <2>2, <2>3, <2>4 DEF MoveNew
<1>14. CASE MoveBack(c)
  <2>1. call[c].pc = "moveBack" /\ UNCHANGED kept /\ Fail(c, "failed") /\ folder[p].parts = "none"
    BY <1>8, <1>14 DEF MoveBack, At, Moving
  <2>2. CASE folder' = [folder EXCEPT ![p] = call[c].saved] /\ UNCHANGED lost
    <3>1. folder'[p] = call[c].saved /\ \A x \in Plugins \ {p} : folder'[x] = folder[x]
      BY <1>4, <2>2
    <3>2. ASSUME NEW x \in kept' \ lost' PROVE folder'[x].parts = "whole"
      <4>1. x \in kept \ lost /\ x \in Plugins
        BY <1>5, <2>1, <2>2
      <4>2. CASE x = p
        BY <1>5, <2>1, <3>1, <4>1, <4>2
      <4>3. CASE x # p
        BY <1>5, <3>1, <4>1, <4>3
      <4> QED BY <4>2, <4>3
    <3> QED BY <1>10, <2>1, <2>2, <3>2
  <2>3. CASE call[c].saved # Absent /\ lost' = lost \union {p} /\ UNCHANGED folder
    BY <1>5, <1>10, <2>1, <2>3
  <2> QED BY <1>1, <1>14, <2>1, <2>2, <2>3 DEF MoveBack
<1> QED BY <1>12, <1>13, <1>14

LEMMA RemovingFolders ==
  ASSUME TypeInv, TypeInv', NEW c \in Callers, Good(c), Reload(c) \/ UninstallCheck(c) \/ RemoveBegins(c) \/ Removed(c)
  PROVE  Good(c)'
<1>1. /\ call[c] \in Call /\ Fits(call[c]) /\ FolderTypes /\ FolderTypes' /\ call \in [Callers -> Call]
      /\ kept \subseteq Plugins /\ Installed(c)
  BY DEF TypeInv, CallTypes, Good
<1>2. call[c].pc \notin Moving
  BY DEF Reload, UninstallCheck, RemoveBegins, Removed, At, Moving
<1>3. \A x \in kept \ lost : folder[x].parts = "whole"
  BY <1>2 DEF Good
<1>4. ASSUME call'[c].pc \in {"idle", "remove"} \/ (call'[c].pc = "reload" /\ call'[c].op = "uninstall"),
             kept' \subseteq Plugins, \A x \in kept' \ lost' : folder'[x].parts = "whole"
      PROVE  Good(c)'
  <2>1. Installed(c)'
    BY <1>4 DEF Installed, At, Preparing, Moving
  <2> QED BY <1>4, <2>1 DEF Good, Approved, At
<1>5. CASE Reload(c)
  <2>1. PICK S, a : S = call[c].steps /\ a = call[c].at
    OBVIOUS
  <2>2. UNCHANGED <<folder, kept, lost>> /\ loads' \in LoadResults /\ At(c, "reload")
    BY <1>5 DEF Reload, history
  <2>3. CASE call[c].op = "uninstall"
    BY <1>1, <1>3, <1>4, <1>5, <2>2, <2>3, GoesWith DEF Reload
  <2>4. CASE call[c].op # "uninstall"
    <3>1. call[c].op = "confirm" /\ Confirms(call[c])
      BY <1>1, <2>2, <2>4 DEF At, Fits, Confirms
    <3>2. Stand(S, a) /\ S \in Seq(InstallStep) /\ a \in 1..Len(S)
      BY <1>1, <2>1, <2>2, <3>1, Current1 DEF Installed, TypeInv
    <3>3. CASE a = Len(S) /\ Fail(c, "ok")
      <4>1. call'[c].pc = "finish" /\ call'[c].result = "ok" /\ call'[c].steps = S /\ call'[c].at = a
        BY <2>1, <3>3, GoesWith
      <4>2. Installed(c)'
        BY <4>1, InstalledThen DEF Preparing, Moving
      <4>3. ASSUME NEW s \in 1..Len(S) 
            PROVE  LET k == S[s].pkg IN
                   folder[k.id] = Whole(k) /\ (loads'[k.id] = "loaded" \/ (k.id \in Fragile /\ loads'[k.id] = "failed"))
        <5>1. folder[S[s].pkg.id] = Whole(S[s].pkg) /\ NeedsMet(S[s].pkg)
          BY <3>2, <3>3, <4>3 DEF Stand
        <5>2. S[s] \in InstallStep
          BY <3>2, <4>3
        <5>3. S[s].pkg.id \in Plugins
          BY <5>2, Manifest DEF InstallStep
        <5>4. Outcome(S[s].pkg.id) = "loaded"
          BY <5>1 DEF Outcome, Whole, Readable
        <5>5. folder[S[s].pkg.id].parts = "whole"
          BY <5>1 DEF Whole
        <5>6. \/ loads'[S[s].pkg.id] = Outcome(S[s].pkg.id)
              \/ loads'[S[s].pkg.id] = "failed" /\ S[s].pkg.id \in Fragile
          BY <2>2, <5>3, <5>5, LoadedOrFailed
        <5> QED BY <5>1, <5>4, <5>6
      <4> QED BY <1>1, <1>3, <2>2, <4>1, <4>2, <4>3 DEF Good, Approved, At
    <3>4. CASE call' = [call EXCEPT ![c].pc = "check", ![c].at = @ + 1, ![c].saved = Absent]
      <4>1. call'[c] = [call[c] EXCEPT !.pc = "check", !.at = @ + 1, !.saved = Absent]
        BY <1>1, <3>4
      <4>2. call'[c].pc = "check" /\ call'[c].steps = S /\ call'[c].at = a + 1
        BY <1>1, <2>1, <4>1 DEF Call
      <4>3. Stand(S, a)' /\ (a + 1) - 1 = a
        BY <2>2, <3>2, NeedsStay
      <4>4. Installed(c)'
        <5> DEFINE b == a + 1
        <5>1. Stand(S, b - 1)' /\ call'[c].at = b
          BY <4>2, <4>3
        <5> HIDE DEF b
        <5> QED BY <4>2, <5>1, InstalledThen DEF Preparing, Moving
      <4> QED BY <1>1, <1>3, <2>2, <4>2, <4>4 DEF Good, Approved, At
    <3> QED BY <1>5, <2>1, <2>4, <3>3, <3>4 DEF Reload
  <2> QED BY <2>3, <2>4
<1>6. CASE UninstallCheck(c)
  BY <1>1, <1>3, <1>4, <1>6, GoesWith DEF UninstallCheck, system, history
<1>7. CASE RemoveBegins(c)
  <2>1. PICK p : p = Target(c)
    OBVIOUS
  <2>2. UNCHANGED lost
    BY <1>7 DEF RemoveBegins
  <2>3. CASE (\E f : folder' = [folder EXCEPT ![p] = f]) /\ kept' = kept \ {p} /\ Goto(c, "removing")
    <3>1. call'[c].pc = "removing" /\ call'[c].pkg.id = p
      BY <2>1, <2>3, GoesWith DEF Target
    <3>2. Installed(c)'
      BY <2>3, <3>1, InstalledThen DEF Preparing, Moving
    <3>3. \A x \in kept' : folder'[x] = folder[x]
      BY <1>1, <2>3 DEF FolderTypes
    <3> QED BY <1>1, <1>3, <2>2, <2>3, <3>1, <3>2, <3>3 DEF Good, Approved, At
  <2>4. CASE Done(c) /\ UNCHANGED <<folder, kept>>
    BY <1>1, <1>3, <1>4, <2>2, <2>4, GoesWith
  <2> QED BY <1>7, <2>1, <2>3, <2>4 DEF RemoveBegins
<1>8. CASE Removed(c)
  <2>1. UNCHANGED <<kept, lost>> /\ call[c].op = "uninstall" /\ Target(c) \notin kept
    BY <1>1, <1>8 DEF Removed, history, At, Fits, Removing, Installed
  <2>2. CASE folder' = [folder EXCEPT ![Target(c)] = Absent] /\ Goto(c, "reload")
    <3>1. \A x \in kept : folder'[x] = folder[x]
      BY <1>1, <2>1, <2>2 DEF FolderTypes
    <3>2. call'[c].pc = "reload" /\ call'[c].op = "uninstall"
      BY <2>1, <2>2, GoesWith
    <3> QED BY <1>1, <1>3, <1>4, <2>1, <3>1, <3>2
  <2>3. CASE Done(c) /\ UNCHANGED folder
    BY <1>1, <1>3, <1>4, <2>1, <2>3, GoesWith
  <2> QED BY <1>8, <2>2, <2>3 DEF Removed
<1> QED BY <1>5, <1>6, <1>7, <1>8

LEMMA CarryFolders ==
  ASSUME TypeInv, TypeInv', PlansInv, FoldersInv, NEW c \in Callers, Carries(c)
  PROVE  FoldersInv'
<1>1. CallTypes /\ call[c].pc \in Working /\ UNCHANGED raced /\ \E r \in Call : Goes(c, r)
  BY Carrying DEF TypeInv
<1>2. PICK r \in Call : Goes(c, r)
  BY <1>1
<1>3. call'[c] = r
  BY <1>1, <1>2 DEF Goes, CallTypes
<1>4. ~raced => \A d \in Callers \ {c} : Rests(call[d])
  BY <1>1, OthersRest
<1>5. ASSUME ~raced PROVE Good(c)'
  <2>1. Good(c)
    <3>1. \A d \in Callers \ {c} : call[d].pc \notin Moving
      BY <1>4, <1>5 DEF Rests, Moving
    <3>2. kept \subseteq Plugins /\ Installed(c) /\ Approved(c) /\ UpdateKeepsPlugin
      BY <1>5, FoldersOf
    <3>3. ASSUME NEW p \in kept \ lost, folder[p].parts # "whole"
          PROVE  call[c].pc \in Moving /\ Id(c) = p /\ call[c].saved.parts = "whole"
      BY <1>5, <3>1, <3>2, <3>3 DEF UpdateKeepsPlugin, Moving
    <3> QED BY <3>2, <3>3 DEF Good
  <2> QED BY <2>1, PreparingFolders, MovingFolders, RemovingFolders DEF Carries
<1>6. kept' \subseteq Plugins
  <2>1. kept \subseteq Plugins
    BY FoldersOf
  <2>2. MoveNew(c) => Id(c) \in Plugins
    BY <1>1, Current1 DEF MoveNew, At, Confirms, Installing, Moving
  <2> QED BY <2>1, <2>2 DEF Carries, InstallCheck, PrepareRuntime, MakeRuntime, PrepareModel, FetchModel, MoveOld, MoveNew, MoveBack,
                            Reload, UninstallCheck, RemoveBegins, Removed, history
<1>7. ~raced' => \A p \in kept' \ lost' : \/ folder'[p].parts = "whole"
                                          \/ r.pc \in Moving /\ r.steps[r.at].pkg.id = p /\ r.saved.parts = "whole"
  BY <1>1, <1>3, <1>5 DEF Good, Id, Step
<1>8. ~raced' => Installed(c)' /\ Approved(c)'
  BY <1>1, <1>5 DEF Good
<1> QED BY <1>1, <1>2, <1>4, <1>6, <1>7, <1>8, FoldersMove

\* What is installed, and what becomes of it, as plans are carried out (installer.py).
THEOREM FoldersInvariant == Spec => []FoldersInv
<1>1. Init => FoldersInv
  <2> SUFFICES ASSUME Init PROVE FoldersInv
    OBVIOUS
  <2>1. PICK w \in Worlds :
          /\ kept = {k.id : k \in w.installed}
          /\ folder = [p \in Plugins |-> IF \E k \in w.installed : k.id = p
                                         THEN Whole(CHOOSE k \in w.installed : k.id = p) ELSE Absent]
    BY DEF Init
  <2>2. \A k \in w.installed : k.id \in Plugins /\ folder[k.id] = Whole(k)
    BY <2>1, InitialFolders
  <2>3. kept \subseteq Plugins /\ \A p \in kept : folder[p].parts = "whole"
    <3>1. \A p \in kept : \E k \in w.installed : p = k.id
      BY <2>1
    <3>2. ASSUME NEW p \in kept PROVE p \in Plugins /\ folder[p].parts = "whole"
      <4>1. PICK k \in w.installed : p = k.id
        BY <3>1, <3>2
      <4>2. Whole(k).parts = "whole"
        BY DEF Whole
      <4>3. p \in Plugins /\ folder[p] = Whole(k)
        BY <2>2, <4>1
      <4> QED BY <4>2, <4>3
    <3> QED BY <3>2
  <2>4. \A c \in Callers : call[c].pc = "idle"
    BY DEF Init, Idle
  <2>5. \A c \in Callers : Installed(c) /\ Approved(c)
    BY <2>4 DEF Installed, Approved, At, Preparing, Moving
  <2> QED BY <2>3, <2>5, FoldersOf DEF UpdateKeepsPlugin
<1>2. TypeInv /\ TypeInv' /\ PlansInv /\ FoldersInv /\ [Next]_vars => FoldersInv'
  <2> SUFFICES ASSUME TypeInv, TypeInv', PlansInv, FoldersInv, [Next]_vars PROVE FoldersInv'
    OBVIOUS
  <2>1. ASSUME NEW c \in Callers, Prepares(c) \/ Carries(c) PROVE FoldersInv'
    BY <2>1, PreparesFolders, CarryFolders
  <2>2. CASE Expire \/ Crash \/ UNCHANGED vars
    BY <2>2, OutsideFolders
  <2> QED BY <2>1, <2>2 DEF Next, Carries, Prepares
<1> QED BY <1>1, <1>2, TypeCorrect, PlansInvariant, PTL DEF Spec

\* An installed plugin stays there in full until somebody uninstalls it (installer.py 878-900).
THEOREM PluginsSurvive == Spec => []UpdateKeepsPlugin
<1>1. FoldersInv => UpdateKeepsPlugin
  BY DEF FoldersInv
<1> QED BY <1>1, FoldersInvariant, PTL

\* "Installed" is said when every step of the plan is in place as approved, and each one is loaded
\* unless its own code or Python kept it from loading (api_server.py 325-349, loader.py 130-163).
THEOREM InstallationsAreComplete == Spec => []InstalledAsApproved
<1>1. FoldersInv => InstalledAsApproved
  BY DEF FoldersInv
<1> QED BY <1>1, FoldersInvariant, PTL

-----------------------------------------------------------------------------
(* What approved plans were made of: the steps.                            *)
LEMMA FreshStays == ASSUME UNCHANGED folder PROVE \A S, n : (Fresh(S, n) => Fresh(S, n)') /\ (Refusal(S, n) => Refusal(S, n)')
<1>1. \A S, n : Fresh(S, n) => Fresh(S, n)'
  BY DEF Fresh, Readable
<1>2. \A S, n : Refusal(S, n) => Refusal(S, n)'
  BY DEF Refusal, NeedsMet, Met, Readable
<1> QED BY <1>1, <1>2

LEMMA WalkStaysFresh ==
  ASSUME UNCHANGED <<folder, visiting, done, ordered>>, WalkIsFresh
  PROVE  WalkIsFresh'
BY DEF WalkIsFresh, Readable, Taken, Seen, TakenBy, SeenBy, NeedsOf, NeedsBefore

\* The change of a plugin leaves the steps after its own as they were approved.
LEMMA FreshApart ==
  ASSUME FolderTypes, NEW S \in Seq(InstallStep), Ordered(S), NEW a \in 1..Len(S), NEW b \in {a, a + 1}, Fresh(S, b),
         NEW f, folder' = [folder EXCEPT ![S[a].pkg.id] = f]
  PROVE  Fresh(S, a + 1)'
<1>1. DOMAIN S = 1..Len(S) /\ Len(S) \in Nat /\ \A s \in 1..Len(S) : S[s] \in InstallStep
  OBVIOUS
<1>2. \A s \in (a + 1)..Len(S) : s \in b..Len(S) /\ s \in 1..Len(S) /\ s # a
  BY <1>1
<1>3. ASSUME NEW q \in Plugins, q # S[a].pkg.id PROVE folder'[q] = folder[q]
  BY <1>3 DEF FolderTypes
<1>4. ASSUME NEW s \in (a + 1)..Len(S)
      PROVE  /\ S[s].replace <=> Readable(folder[S[s].pkg.id])'
             /\ \A n \in Range(S[s].pkg.needs) :
                  \/ \E t \in DOMAIN S : S[t].pkg.id = n.id
                  \/ /\ Readable(folder[n.id])'
                     /\ \E r \in DOMAIN S : \E m \in Range(S[r].pkg.needs) :
                          m.id = n.id /\ Compatible(folder'[n.id].pkg.ver, m.min)
  <2>1. S[s].pkg \in Packages /\ S[s].pkg.id # S[a].pkg.id
    BY <1>1, <1>2, <1>4 DEF Ordered, InstallStep
  <2>2. S[s].replace <=> Readable(folder[S[s].pkg.id])'
    <3>1. folder'[S[s].pkg.id] = folder[S[s].pkg.id]
      BY <1>3, <2>1, Manifest
    <3> QED BY <1>2, <3>1 DEF Fresh, Readable
  <2>3. ASSUME NEW n \in Range(S[s].pkg.needs), ~\E t \in DOMAIN S : S[t].pkg.id = n.id
        PROVE  /\ Readable(folder[n.id])'
               /\ \E r \in DOMAIN S : \E m \in Range(S[r].pkg.needs) :
                    m.id = n.id /\ Compatible(folder'[n.id].pkg.ver, m.min)
    <3>1. n.id \in Plugins /\ n.id # S[a].pkg.id
      BY <1>1, <2>1, <2>3, Manifest
    <3>2. folder'[n.id] = folder[n.id]
      BY <1>3, <3>1
    <3>3. /\ Readable(folder[n.id])
          /\ \E r \in DOMAIN S : \E m \in Range(S[r].pkg.needs) :
               m.id = n.id /\ Compatible(folder[n.id].pkg.ver, m.min)
      BY <1>2, <2>3 DEF Fresh
    <3> QED BY <3>2, <3>3 DEF Readable
  <2> QED BY <2>2, <2>3
<1> QED BY <1>4 DEF Fresh

LEMMA LaterIsFresh ==
  ASSUME NEW S \in Seq(InstallStep), NEW a \in Nat, Fresh(S, a)
  PROVE  Fresh(S, a + 1)
<1>1. \A s \in (a + 1)..Len(S) : s \in a..Len(S)
  OBVIOUS
<1> QED BY <1>1 DEF Fresh

LEMMA RestingIsFresh ==
  ASSUME NEW c \in Callers, Rests(call'[c])
  PROVE  CallFresh(c)'
BY DEF Rests, CallFresh, At, Preparing

LEMMA CallFreshThen ==
  ASSUME NEW c \in Callers, NEW S, S = call'[c].steps, NEW a, a = call'[c].at, NEW q, q = call'[c].pc, q # "resolve",
         call'[c].fresh /\ (q \in Preparing \/ (q = "finish" /\ call'[c].result = "unmet")) => Fresh(S, a)',
         call'[c].fresh /\ (q = "moveNew" \/ (q = "reload" /\ call'[c].op = "confirm")) => Fresh(S, a + 1)',
         q = "finish" /\ call'[c].result = "unmet" => Refusal(S, a)',
         q \in {"moveBack", "removing"} => AllOutdated'
  PROVE  CallFresh(c)'
<1>1. At(c, "finish")' /\ call'[c].result = "unmet" => Refusal(call[c].steps, call[c].at)'
  BY DEF At, Refusal, NeedsMet, Met
<1>2. call'[c].fresh /\ (call'[c].pc \in Preparing \/ (At(c, "finish")' /\ call'[c].result = "unmet"))
        => Fresh(call[c].steps, call[c].at)'
  <2>1. Fresh(S, a)' => Fresh(call[c].steps, call[c].at)'
    OBVIOUS
  <2> QED BY <2>1 DEF At
<1>4. call'[c].fresh /\ (At(c, "moveNew")' \/ (At(c, "reload")' /\ call'[c].op = "confirm"))
        => Fresh(call[c].steps, call[c].at + 1)'
  <2>1. Fresh(S, a + 1)' => Fresh(call[c].steps, call[c].at + 1)'
    OBVIOUS
  <2> QED BY <2>1 DEF At
<1>3. ~At(c, "resolve")' /\ (call'[c].pc \in {"moveBack", "removing"} => AllOutdated')
  BY DEF At
<1> QED BY <1>1, <1>2, <1>3, <1>4 DEF CallFresh

\* A walk that is complete makes a plan that is up to date.
LEMMA WalkedIsFresh ==
  ASSUME WalkTypes, NEW c \in Callers, Walking(c), WalkIsFresh, visiting = <<>>
  PROVE  Fresh(ordered, 1)
<1>1. DOMAIN ordered = 1..Len(ordered) /\ 1..Len(visiting) = {}
  BY DEF WalkTypes
<1> SUFFICES ASSUME NEW s \in 1..Len(ordered)
             PROVE  /\ ordered[s].replace <=> Readable(folder[ordered[s].pkg.id])
                    /\ \A n \in Range(ordered[s].pkg.needs) :
                         \/ \E t \in DOMAIN ordered : ordered[t].pkg.id = n.id
                         \/ /\ Readable(folder[n.id])
                            /\ \E r \in DOMAIN ordered : \E m \in Range(ordered[r].pkg.needs) :
                                 m.id = n.id /\ Compatible(folder[n.id].pkg.ver, m.min)
  BY DEF Fresh
<1>2. ordered[s].replace <=> Readable(folder[ordered[s].pkg.id])
  BY <1>1 DEF WalkIsFresh
<1>3. ASSUME NEW n \in Range(ordered[s].pkg.needs)
      PROVE  \/ \E t \in DOMAIN ordered : ordered[t].pkg.id = n.id
             \/ /\ Readable(folder[n.id])
                /\ \E r \in DOMAIN ordered : \E m \in Range(ordered[r].pkg.needs) :
                     m.id = n.id /\ Compatible(folder[n.id].pkg.ver, m.min)
  <2>1. n.id \in done
    BY <1>1, <1>3 DEF Walking
  <2>2. CASE \E k \in Taken : k.id = n.id
    <3>1. \A k \in Taken : \E t \in DOMAIN ordered : k = ordered[t].pkg
      BY <1>1, SeenNow
    <3> QED BY <2>2, <3>1
  <2>3. CASE Readable(folder[n.id]) /\ \E m \in Seen : m.id = n.id /\ Compatible(folder[n.id].pkg.ver, m.min)
    <3>1. \A m \in Seen : \E r \in DOMAIN ordered : m \in Range(ordered[r].pkg.needs)
      BY <1>1, SeenNow
    <3> QED BY <2>3, <3>1
  <2> QED BY <2>1, <2>2, <2>3 DEF WalkIsFresh
<1> QED BY <1>2, <1>3

\* What resolve() has seen of the folders, as the walk goes on.
LEMMA WalkKeepsFresh ==
  ASSUME TypeInv, TypeInv', PlansInv, NEW c \in Callers,
         \/ Accept(c) /\ ~PlanFails(c)
         \/ ((Visit(c) /\ ~PlanFails(c)) \/ Return(c)) /\ WalkIsFresh
  PROVE  WalkIsFresh'
<1>1. /\ WalkTypes /\ WalkTypes' /\ UNCHANGED folder /\ FolderTypes
      /\ DOMAIN ordered = 1..Len(ordered) /\ DOMAIN visiting = 1..Len(visiting) /\ Len(visiting) \in Nat
      /\ DOMAIN ordered' = 1..Len(ordered') /\ DOMAIN visiting' = 1..Len(visiting')
  BY DEF TypeInv, WalkTypes, Accept, Visit, Return
<1>2. ASSUME Len(ordered) \in Nat,
             \A s \in 1..Len(ordered') : ordered'[s].replace <=> Readable(folder[ordered'[s].pkg.id]),
             \A f \in 1..Len(visiting') : visiting'[f].replace <=> Readable(folder[visiting'[f].pkg.id]),
             \A p \in done' : \/ \E k \in Taken' : k.id = p
                              \/ Readable(folder[p]) /\ \E m \in Seen' : m.id = p /\ Compatible(folder[p].pkg.ver, m.min)
      PROVE  WalkIsFresh'
  BY <1>1, <1>2 DEF WalkIsFresh, Readable
<1>3. Len(ordered) \in Nat
  BY <1>1 DEF WalkTypes
<1>4. CASE Accept(c) /\ ~PlanFails(c)
  <2>1. visiting' = <<Frame(call[c].pkg)>> /\ UNCHANGED <<done, ordered>> /\ At(c, "accept")
    BY <1>4 DEF Accept
  <2>2. \A d \in Callers : ~At(d, "resolve")
    BY <2>1 DEF At, TypeInv, CallTypes, Locks
  <2>3. done' = {} /\ ordered' = <<>>
    BY <2>1, <2>2 DEF PlansInv, Walks
  <2>4. Len(visiting') = 1 /\ visiting'[1] = Frame(call[c].pkg)
    BY <2>1
  <2>5. Frame(call[c].pkg).pkg = call[c].pkg /\ (Frame(call[c].pkg).replace <=> Readable(folder[call[c].pkg.id]))
    BY DEF Frame
  <2>6. \A f \in 1..Len(visiting') : visiting'[f].replace <=> Readable(folder[visiting'[f].pkg.id])
    BY <2>4, <2>5
  <2> QED BY <1>2, <1>3, <2>3, <2>6
<1>5. ASSUME WalkIsFresh
      PROVE  /\ \A s \in 1..Len(ordered) : ordered[s].replace <=> Readable(folder[ordered[s].pkg.id])
             /\ \A f \in 1..Len(visiting) : visiting[f].replace <=> Readable(folder[visiting[f].pkg.id])
             /\ \A p \in done : \/ \E k \in Taken : k.id = p
                                \/ Readable(folder[p]) /\ \E m \in Seen : m.id = p /\ Compatible(folder[p].pkg.ver, m.min)
  BY <1>1, <1>5 DEF WalkIsFresh
<1>6. CASE Visit(c) /\ ~PlanFails(c) /\ WalkIsFresh
  <2>1. visiting # <<>> /\ Top.next <= Len(Top.pkg.needs) /\ UNCHANGED ordered /\ At(c, "resolve")
        /\ call[c].pkg \in Packages /\ catalog \subseteq Packages
    BY <1>1, <1>6 DEF Visit, TypeInv, CallTypes, Fits, At, Planning, FolderTypes
  <2>2. \A f \in 1..Len(visiting) : Advanced[f].pkg = visiting[f].pkg /\ Advanced[f].replace = visiting[f].replace
    <3>1. visiting \in Seq(Walk) /\ Len(visiting) \in 1..Len(visiting)
      BY <1>1, <2>1, Stack DEF WalkTypes
    <3>2. \A f \in 1..Len(visiting) : visiting[f] \in Walk
      BY <3>1
    <3>3. \A f \in 1..Len(visiting) : Advanced[f] = IF f = Len(visiting) THEN [visiting[f] EXCEPT !.next = @ + 1] ELSE visiting[f]
      BY <3>1 DEF Advanced
    <3> QED BY <3>2, <3>3 DEF Walk
  <2>3. CASE Settled(Sought) /\ done' = done \union {Sought.id} /\ visiting' = Advanced
    <3>1. Taken' = Taken /\ Seen' = Seen \union {Sought} /\ Len(visiting') = Len(visiting)
      BY <1>1, <2>1, <2>3, AdvancedSees, Further
    <3>2. \A f \in 1..Len(visiting') : visiting'[f].replace <=> Readable(folder[visiting'[f].pkg.id])
      BY <1>5, <1>6, <2>2, <2>3, <3>1
    <3>3. ASSUME NEW p \in done'
          PROVE  \/ \E k \in Taken' : k.id = p
                 \/ Readable(folder[p]) /\ \E m \in Seen' : m.id = p /\ Compatible(folder[p].pkg.ver, m.min)
      <4>1. CASE p \in done
        BY <1>5, <1>6, <3>1, <4>1
      <4>2. CASE p \notin done
        <5>1. p = Sought.id /\ Readable(folder[p]) /\ Compatible(folder[p].pkg.ver, Sought.min)
          BY <2>3, <3>3, <4>2 DEF Settled
        <5> QED BY <3>1, <5>1
      <4> QED BY <4>1, <4>2
    <3>4. \A s \in 1..Len(ordered') : ordered'[s].replace <=> Readable(folder[ordered'[s].pkg.id])
      BY <1>5, <1>6, <2>1
    <3> QED BY <1>2, <1>3, <3>2, <3>3, <3>4
  <2>4. CASE UNCHANGED done /\ \E k \in Offers(call[c].pkg, Sought.id) :
               Compatible(k.ver, Sought.min) /\ visiting' = Append(Advanced, Frame(k))
    <3>1. PICK k \in Offers(call[c].pkg, Sought.id) : visiting' = Append(Advanced, Frame(k))
      BY <2>4
    <3>2. k \in Packages
      BY <2>1, Offered
    <3>3. /\ Taken' = Taken \union {k} /\ Seen' = Seen \union {Sought}
          /\ Len(visiting') = Len(visiting) + 1
          /\ visiting'[Len(visiting) + 1] = Frame(k) /\ Frame(k).pkg = k
          /\ \A f \in 1..Len(visiting) : visiting'[f] = Advanced[f]
      BY <1>1, <2>1, <3>1, <3>2, PushedSees
    <3>4. Frame(k).replace <=> Readable(folder[k.id])
      BY DEF Frame
    <3>5. \A f \in 1..Len(visiting) : visiting'[f].replace <=> Readable(folder[visiting'[f].pkg.id])
      BY <1>5, <1>6, <2>2, <3>3
    <3>6. \A f \in 1..Len(visiting') : f \in 1..Len(visiting) \/ f = Len(visiting) + 1
      <4>1. Len(visiting) \in Nat
        BY <1>1
      <4> QED BY <3>3, <4>1
    <3>7. \A f \in 1..Len(visiting') : visiting'[f].replace <=> Readable(folder[visiting'[f].pkg.id])
      BY <3>3, <3>4, <3>5, <3>6
    <3>8. \A s \in 1..Len(ordered') : ordered'[s].replace <=> Readable(folder[ordered'[s].pkg.id])
      BY <1>5, <1>6, <2>1
    <3> QED BY <1>2, <1>3, <1>5, <1>6, <2>4, <3>3, <3>7, <3>8
  <2> QED BY <1>6, <2>3, <2>4 DEF Visit
<1>7. CASE Return(c) /\ WalkIsFresh
  <2>1. /\ visiting # <<>> /\ Top.next > Len(Top.pkg.needs) /\ At(c, "resolve")
        /\ visiting' = Front(visiting) /\ done' = done \union {Top.pkg.id}
        /\ ordered' = Append(ordered, [pkg |-> Top.pkg, replace |-> Top.replace])
    BY <1>7 DEF Return
  <2>2. Top.next = Len(Top.pkg.needs) + 1
    <3>1. Top.next \in Nat /\ Len(Top.pkg.needs) \in Nat /\ Len(visiting) \in 1..Len(visiting) /\ Top = visiting[Len(visiting)]
      BY <1>1, <2>1, Stack
    <3>2. Top.next <= Len(Top.pkg.needs) + 1
      BY <1>1, <2>1, <3>1 DEF PlansInv, Walks, Walking
    <3> QED BY <2>1, <3>1, <3>2
  <2>3. /\ Taken' = Taken /\ Seen' = Seen
        /\ Len(visiting') = Len(visiting) - 1 /\ Len(ordered') = Len(ordered) + 1
        /\ \A f \in 1..(Len(visiting) - 1) : visiting'[f] = visiting[f]
        /\ \A s \in 1..Len(ordered) : ordered'[s] = ordered[s]
        /\ ordered'[Len(ordered) + 1].pkg = Top.pkg /\ ordered'[Len(ordered) + 1].replace = Top.replace
    BY <1>1, <2>1, <2>2, ReturnedSees
  <2>4. Len(visiting) \in Nat /\ Len(visiting) \in 1..Len(visiting) /\ Top = visiting[Len(visiting)]
    BY <1>1, <2>1, Stack
  <2>5. Top.pkg \in Taken /\ (Top.replace <=> Readable(folder[Top.pkg.id]))
    BY <1>1, <1>5, <1>7, <2>4, SeenNow
  <2>6. \A f \in 1..(Len(visiting) - 1) : f \in 1..Len(visiting)
    <3>1. Len(visiting) \in Nat
      BY <2>4
    <3> QED BY <3>1
  <2>7. \A f \in 1..Len(visiting') : visiting'[f].replace <=> Readable(folder[visiting'[f].pkg.id])
    BY <1>5, <1>7, <2>3, <2>6
  <2>8. \A s \in 1..Len(ordered') : s \in 1..Len(ordered) \/ s = Len(ordered) + 1
    BY <1>3, <2>3
  <2>9. \A s \in 1..Len(ordered') : ordered'[s].replace <=> Readable(folder[ordered'[s].pkg.id])
    BY <1>5, <1>7, <2>3, <2>5, <2>8
  <2>10. \A p \in done' : \/ \E k \in Taken' : k.id = p
                          \/ Readable(folder[p]) /\ \E m \in Seen' : m.id = p /\ Compatible(folder[p].pkg.ver, m.min)
    BY <1>5, <1>7, <2>1, <2>3, <2>5
  <2> QED BY <1>2, <1>3, <2>7, <2>9, <2>10
<1> QED BY <1>4, <1>6, <1>7

\* Who resolves or installs next, and what becomes of the plans.
LEMMA BeginningAt ==
  ASSUME TypeInv, TypeInv', NEW c \in Callers, Prepares(c)
  PROVE  /\ call'[c].pc = "resolve" => (Accept(c) \/ Visit(c) \/ Return(c)) /\ ~PlanFails(c)
         /\ call'[c].pc = "check" => ConfirmBegins(c)
         /\ PlanEnds(c) \/ \A i \in PlanIds : plans'[i] # NoPlan => plans[i] # NoPlan /\ plans'[i] = plans[i]
         /\ call[c].pc \in {"accept", "resolve"} \/ UNCHANGED <<visiting, done, ordered>>
<1>1. call[c] \in Call /\ call \in [Callers -> Call] /\ PlanTypes /\ (PlanFails(c) => call'[c].pc = "idle")
  BY DEF TypeInv, CallTypes, PlanFails, Done, Idle
<1>2. CASE PlanRequest(c) \/ ConfirmRequest(c) \/ CancelRequest(c) \/ UninstallRequest(c)
  <2>1. \E r : Arrive(c, r)
    BY <1>2 DEF PlanRequest, ConfirmRequest, CancelRequest, UninstallRequest
  <2>2. UNCHANGED <<plans, visiting, done, ordered>> /\ call[c].pc = "idle"
    BY <2>1 DEF Arrive, system, resolving, Active, At
  <2>3. call'[c].pc \notin {"resolve", "check"}
    <3>1. \A x : call' = [call EXCEPT ![c] = x] => call'[c] = x
      BY <1>1
    <3>2. CASE PlanRequest(c)
      <4>1. PICK k \in Uploads, b \in BOOLEAN : Arrive(c, [Idle EXCEPT !.pc = "plan", !.op = "plan", !.pkg = k, !.replace = b])
        BY <3>2 DEF PlanRequest
      <4>2. call'[c] = [Idle EXCEPT !.pc = "plan", !.op = "plan", !.pkg = k, !.replace = b]
        BY <3>1, <4>1 DEF Arrive
      <4> QED BY <4>2 DEF Idle
    <3>3. CASE ConfirmRequest(c)
      <4>1. PICK i \in PlanIds : Arrive(c, [Idle EXCEPT !.pc = "confirm", !.op = "confirm", !.id = i])
        BY <3>3 DEF ConfirmRequest
      <4>2. call'[c] = [Idle EXCEPT !.pc = "confirm", !.op = "confirm", !.id = i]
        BY <3>1, <4>1 DEF Arrive
      <4> QED BY <4>2 DEF Idle
    <3>4. CASE CancelRequest(c)
      <4>1. PICK i \in PlanIds : Arrive(c, [Idle EXCEPT !.pc = "cancel", !.op = "cancel", !.id = i])
        BY <3>4 DEF CancelRequest
      <4>2. call'[c] = [Idle EXCEPT !.pc = "cancel", !.op = "cancel", !.id = i]
        BY <3>1, <4>1 DEF Arrive
      <4> QED BY <4>2 DEF Idle
    <3>5. CASE UninstallRequest(c)
      <4>1. PICK k \in Packages : Arrive(c, [Idle EXCEPT !.pc = "uninstall", !.op = "uninstall", !.pkg = k])
        BY <3>5 DEF UninstallRequest
      <4>2. call'[c] = [Idle EXCEPT !.pc = "uninstall", !.op = "uninstall", !.pkg = k]
        BY <3>1, <4>1 DEF Arrive
      <4> QED BY <4>2 DEF Idle
    <3> QED BY <1>2, <3>2, <3>3, <3>4, <3>5
  <2> QED BY <2>2, <2>3
<1>3. CASE PlanBegins(c)
  <2>1. UNCHANGED <<visiting, done, ordered>> /\ plans' = Current
    BY <1>3 DEF PlanBegins, resolving
  <2>2. PICK i \in PlanIds : call' = [call EXCEPT ![c].pc = "accept", ![c].id = i]
    BY <1>3 DEF PlanBegins
  <2>3. call'[c] = [call[c] EXCEPT !.pc = "accept", !.id = i]
    BY <1>1, <2>2
  <2>4. call'[c].pc = "accept"
    BY <1>1, <2>3 DEF Call
  <2> QED BY <1>1, <2>1, <2>4, PlansStay
<1>4. CASE Accept(c) \/ Visit(c) \/ Return(c)
  <2>1. UNCHANGED plans /\ call[c].pc \in {"accept", "resolve"}
    BY <1>4 DEF Accept, Visit, Return, At
  <2>2. PlanFails(c) \/ Goto(c, "resolve") \/ (UNCHANGED call /\ call[c].pc = "resolve")
    BY <1>4 DEF Accept, Visit, Return, At
  <2>3. call'[c].pc # "check"
    BY <1>1, <2>2, GoesWith
  <2> QED BY <1>1, <1>4, <2>1, <2>3 DEF PlanTypes
<1>5. CASE PlanEnds(c) \/ PlanBreaks(c)
  <2>1. call'[c].pc = "idle"
    BY <1>1, <1>5, GoesWith DEF PlanEnds, PlanBreaks
  <2>2. PlanEnds(c) \/ UNCHANGED plans
    BY <1>5 DEF PlanBreaks
  <2> QED BY <1>5, <2>1, <2>2 DEF PlanEnds, PlanBreaks, At
<1>6. CASE Cancel(c) \/ Finish(c)
  <2>1. call'[c].pc = "idle" /\ UNCHANGED <<visiting, done, ordered>>
    BY <1>6, GoesWith DEF Cancel, Finish, resolving
  <2> QED BY <1>1, <1>6, <2>1 DEF Cancel, Finish, PlanTypes
<1>7. CASE ConfirmBegins(c)
  <2>1. UNCHANGED <<visiting, done, ordered>>
    BY <1>7 DEF ConfirmBegins, resolving
  <2>2. \A i \in PlanIds : plans'[i] = NoPlan \/ plans'[i] = Current[i]
    BY <1>1, <1>7, PlansStay DEF ConfirmBegins
  <2>3. call'[c].pc # "resolve"
    <3>1. CASE Done(c)
      BY <3>1, GoesWith
    <3>2. CASE ~Done(c)
      <4>1. PICK S, b : call' = [call EXCEPT ![c].pc = "check", ![c].steps = S, ![c].fresh = b]
        BY <1>7, <3>2 DEF ConfirmBegins
      <4>2. call'[c] = [call[c] EXCEPT !.pc = "check", !.steps = S, !.fresh = b]
        BY <1>1, <4>1
      <4>3. call'[c].pc = "check"
        BY <1>1, <4>2 DEF Call
      <4> QED BY <4>3
    <3> QED BY <3>1, <3>2
  <2> QED BY <1>1, <1>7, <2>1, <2>2, <2>3, PlansStay
<1> QED BY <1>2, <1>3, <1>4, <1>5, <1>6, <1>7 DEF Prepares

LEMMA PreparesFresh ==
  ASSUME TypeInv, TypeInv', PlansInv, FreshInv, NEW c \in Callers, Prepares(c)
  PROVE  FreshInv'
<1> SUFFICES ASSUME ~raced' PROVE PlansFresh' /\ \A d \in Callers : CallFresh(d)'
  BY DEF FreshInv
<1>1. /\ UNCHANGED folder /\ ~raced /\ Goes(c, call'[c]) /\ Begins(call'[c]) /\ call[c] \in Call /\ Fits(call[c])
      /\ call[c].pc \in {"idle", "plan", "accept", "resolve", "confirm", "cancel", "finish"}
      /\ call \in [Callers -> Call] /\ CallTypes /\ WalkTypes /\ PlanTypes
  BY Beginning DEF TypeInv, CallTypes
<1>2. PlansFresh /\ \A d \in Callers : CallFresh(d)
  BY <1>1 DEF FreshInv
<1>3. PlansFresh'
  <2>1. ASSUME NEW i \in PlanIds, plans'[i] # NoPlan, plans'[i] = plans[i], plans[i].fresh PROVE Fresh(plans[i].steps, 1)'
    <3>1. PICK S : S = plans[i].steps
      OBVIOUS
    <3>2. Fresh(S, 1)'
      BY <1>1, <1>2, <2>1, <3>1, FreshStays DEF PlansFresh
    <3> QED BY <2>1, <3>1, <3>2 DEF Fresh
  <2>2. CASE \A i \in PlanIds : plans'[i] # NoPlan => plans[i] # NoPlan /\ plans'[i] = plans[i]
    BY <2>1, <2>2 DEF PlansFresh
  <2>3. CASE PlanEnds(c)
    <3>1. /\ plans' = [plans EXCEPT ![call[c].id] = [steps |-> ordered, expired |-> FALSE, fresh |-> TRUE]]
          /\ At(c, "resolve") /\ visiting = <<>>
      BY <2>3 DEF PlanEnds
    <3>2. Walking(c) /\ WalkIsFresh
      BY <1>2, <3>1 DEF PlansInv, Walks, CallFresh
    <3>3. PICK S : S = ordered
      OBVIOUS
    <3>4. Fresh(S, 1)'
      BY <1>1, <3>1, <3>2, <3>3, WalkedIsFresh, FreshStays
    <3>5. ASSUME NEW i \in PlanIds, plans'[i] # NoPlan, plans'[i].fresh PROVE Fresh(plans[i].steps, 1)'
      <4>1. CASE i = call[c].id
        <5>1. plans'[i].steps = S
          BY <1>1, <3>1, <3>3, <4>1 DEF PlanTypes
        <5> QED BY <3>4, <5>1 DEF Fresh
      <4>2. CASE i # call[c].id
        <5>1. plans'[i] = plans[i]
          BY <1>1, <3>1, <4>2 DEF PlanTypes
        <5> QED BY <2>1, <3>5, <5>1
      <4> QED BY <4>1, <4>2
    <3> QED BY <3>5 DEF PlansFresh
  <2> QED BY <2>2, <2>3, BeginningAt
<1>4. ASSUME NEW d \in Callers, d # c PROVE CallFresh(d)'
  <2>1. call'[d] = call[d] /\ CallFresh(d)
    BY <1>1, <1>2, <1>4 DEF Goes
  <2>2. PICK S, a, q : S = call[d].steps /\ a = call[d].at /\ q = call[d].pc
    OBVIOUS
  <2>3. CASE q = "resolve"
    <3>1. WalkIsFresh /\ lock = d
      BY <1>1, <2>1, <2>2, <2>3 DEF CallFresh, At, CallTypes, Locks
    <3>2. call[c].pc \notin {"accept", "resolve"}
      BY <1>1, <1>4, <3>1 DEF CallTypes, Locks
    <3>3. WalkIsFresh'
      BY <1>1, <3>1, <3>2, BeginningAt, WalkStaysFresh
    <3> QED BY <2>1, <2>2, <2>3, <3>3 DEF CallFresh, At, Preparing
  <2>4. CASE q # "resolve"
    <3>1. q \in {"moveBack", "removing"} => AllOutdated'
      <4> SUFFICES ASSUME q \in {"moveBack", "removing"} PROVE AllOutdated'
        OBVIOUS
      <4>1. AllOutdated
        BY <2>1, <2>2 DEF CallFresh
      <4>2. Rests(call[c])
        BY <1>1, <1>4, <2>2, OthersRest DEF Working, Moving, Removing
      <4>3. ~PlanEnds(c)
        BY <4>2 DEF Rests, PlanEnds, At
      <4> QED BY <4>1, <4>3, BeginningAt DEF AllOutdated
    <3>2. /\ call[d].fresh /\ (q \in Preparing \/ (q = "finish" /\ call[d].result = "unmet")) => Fresh(S, a)
          /\ call[d].fresh /\ (q = "moveNew" \/ (q = "reload" /\ call[d].op = "confirm")) => Fresh(S, a + 1)
          /\ q = "finish" /\ call[d].result = "unmet" => Refusal(S, a)
      BY <2>1, <2>2 DEF CallFresh, At
    <3> QED BY <1>1, <2>1, <2>2, <2>4, <3>1, <3>2, CallFreshThen, FreshStays
  <2> QED BY <2>3, <2>4
<1>5. CallFresh(c)'
  <2>1. PICK S, a, q : S = call'[c].steps /\ a = call'[c].at /\ q = call'[c].pc
    OBVIOUS
  <2>2. CASE q = "resolve"
    <3>1. WalkIsFresh'
      <4>1. (Accept(c) \/ Visit(c) \/ Return(c)) /\ ~PlanFails(c)
        BY <2>1, <2>2, BeginningAt
      <4>2. Visit(c) \/ Return(c) => WalkIsFresh
        BY <1>2 DEF CallFresh, Visit, Return
      <4> QED BY <4>1, <4>2, WalkKeepsFresh
    <3> QED BY <2>1, <2>2, <3>1 DEF CallFresh, At, Preparing
  <2>3. CASE q = "check"
    <3>1. ConfirmBegins(c) /\ a = 1
      BY <1>1, <2>1, <2>3, BeginningAt DEF Begins
    <3>2. PICK p : p = Current[call[c].id]
      OBVIOUS
    <3>3. call' = [call EXCEPT ![c].pc = "check", ![c].steps = p.steps, ![c].fresh = p.fresh] /\ p # NoPlan
      <4>1. ~Done(c)
        BY <2>1, <2>3, GoesWith
      <4> QED BY <3>1, <3>2, <4>1 DEF ConfirmBegins
    <3>4. call'[c] = [call[c] EXCEPT !.pc = "check", !.steps = p.steps, !.fresh = p.fresh]
      BY <1>1, <3>3
    <3>5. call'[c].fresh = p.fresh /\ S = p.steps
      BY <1>1, <2>1, <3>4 DEF Call
    <3>6. call[c].id \in PlanIds
      BY <1>1, <3>1 DEF ConfirmBegins, At, Fits
    <3>7. p.fresh => Fresh(S, 1)
      BY <1>1, <1>2, <3>2, <3>3, <3>5, <3>6, PlansStay DEF PlansFresh
    <3>8. p.fresh => Fresh(S, a)'
      BY <1>1, <3>1, <3>7, FreshStays
    <3> QED BY <2>1, <2>3, <3>5, <3>8, CallFreshThen
  <2>4. CASE q \notin {"resolve", "check"}
    BY <1>1, <2>1, <2>4 DEF CallFresh, At, Begins, Preparing
  <2> QED BY <2>2, <2>3, <2>4
<1> QED BY <1>3, <1>4, <1>5

LEMMA CarryFresh ==
  ASSUME TypeInv, TypeInv', PlansInv, FreshInv, NEW c \in Callers, Carries(c)
  PROVE  FreshInv'
<1> SUFFICES ASSUME ~raced' PROVE PlansFresh' /\ \A d \in Callers : CallFresh(d)'
  BY DEF FreshInv
<1>1. /\ call[c].pc \in Working /\ UNCHANGED raced /\ (UNCHANGED plans \/ Outdate) /\ CallTypes /\ FolderTypes /\ PlanTypes
      /\ call[c] \in Call /\ Fits(call[c]) /\ call \in [Callers -> Call]
  BY Carrying DEF TypeInv, CallTypes
<1>2. PlansFresh /\ CallFresh(c)
  BY <1>1 DEF FreshInv
<1>3. ASSUME NEW d \in Callers, d # c PROVE CallFresh(d)'
  <2>1. Rests(call[d])
    BY <1>1, <1>3, OthersRest
  <2>2. call'[d] = call[d]
    BY <1>1, <1>3, Carrying DEF Goes
  <2> QED BY <2>1, <2>2, RestingIsFresh
<1>4. PICK S, a, q : S = call[c].steps /\ a = call[c].at /\ q = call[c].pc
  OBVIOUS
<1>5. Outdate => AllOutdated' /\ PlansFresh'
  <2>1. Outdate => AllOutdated'
    BY <1>1, OutdatedTypes DEF AllOutdated
  <2>2. AllOutdated' => PlansFresh'
    BY DEF AllOutdated, PlansFresh
  <2> QED BY <2>1, <2>2
<1>6. ASSUME UNCHANGED <<plans, folder>> PROVE PlansFresh'
  <2> SUFFICES ASSUME NEW i \in PlanIds, plans'[i] # NoPlan, plans'[i].fresh PROVE Fresh(plans[i].steps, 1)'
    BY DEF PlansFresh
  <2>1. PICK R : R = plans[i].steps
    OBVIOUS
  <2>2. Fresh(R, 1) /\ plans'[i].steps = R
    BY <1>2, <1>6, <2>1 DEF PlansFresh
  <2>3. Fresh(R, 1)'
    BY <1>6, <2>2, FreshStays
  <2> QED BY <2>2, <2>3
<1>7. q \in {"moveBack", "removing"} /\ UNCHANGED plans => AllOutdated' /\ PlansFresh'
  <2>1. q \in {"moveBack", "removing"} => AllOutdated
    BY <1>2, <1>4 DEF CallFresh
  <2>2. AllOutdated' => PlansFresh'
    BY DEF AllOutdated, PlansFresh
  <2> QED BY <2>1, <2>2 DEF AllOutdated
<1>8. /\ call[c].fresh /\ q \in Preparing => Fresh(S, a)
      /\ call[c].fresh /\ (q = "moveNew" \/ (q = "reload" /\ call[c].op = "confirm")) => Fresh(S, a + 1)
  BY <1>2, <1>4 DEF CallFresh, At
<1>9. ASSUME Confirms(call[c])
      PROVE  S \in Seq(InstallStep) /\ a \in 1..Len(S) /\ a \in Nat /\ Ordered(S) /\ Id(c) = S[a].pkg.id /\ Step(c) = S[a]
  BY <1>4, <1>9, Current1 DEF TypeInv, PlansInv, StepsOrdered
<1>10. q \in Preparing \union {"moveNew", "moveBack"} => Confirms(call[c])
  BY <1>4 DEF Confirms, Installing, Moving
\* The current request fails, or is done, with nothing to be said of its plan.
<1>11. ASSUME \/ call'[c].pc \in {"idle", "remove"} \/ (call'[c].pc = "reload" /\ call'[c].op = "uninstall")
              \/ (call'[c].pc = "finish" /\ call'[c].result # "unmet")
       PROVE  CallFresh(c)'
  BY <1>11 DEF CallFresh, At, Preparing
<1>12. CASE InstallCheck(c)
  <2>1. UNCHANGED <<plans, folder>> /\ q \in Preparing
    BY <1>4, <1>12 DEF InstallCheck, system, At, Preparing
  <2>2. call[c].fresh => Fresh(S, a)'
    BY <1>8, <2>1, FreshStays
  <2>3. CASE (~NeedsMet(Step(c).pkg) \/ (folder[Id(c)].parts # "none" /\ ~Step(c).replace)) /\ Fail(c, "unmet")
    <3>1. /\ call'[c].pc = "finish" /\ call'[c].steps = S /\ call'[c].at = a /\ call'[c].fresh = call[c].fresh
      BY <1>4, <2>3, GoesWith
    <3>2. Refusal(S, a)'
      <4>1. Refusal(S, a)
        BY <1>9, <1>10, <2>1, <2>3 DEF Refusal
      <4> QED BY <2>1, <4>1, FreshStays
    <3>3. CallFresh(c)'
      BY <2>2, <3>1, <3>2, CallFreshThen
    <3> QED BY <1>3, <1>6, <2>1, <3>3
  <2>4. CASE Goto(c, "runtime")
    <3>1. /\ call'[c].pc = "runtime" /\ call'[c].steps = S /\ call'[c].at = a /\ call'[c].fresh = call[c].fresh
      BY <1>4, <2>4, GoesWith
    <3>2. CallFresh(c)'
      BY <2>2, <3>1, CallFreshThen
    <3> QED BY <1>3, <1>6, <2>1, <3>2
  <2> QED BY <1>12, <2>3, <2>4 DEF InstallCheck
<1>13. CASE PrepareRuntime(c) \/ MakeRuntime(c) \/ PrepareModel(c) \/ FetchModel(c)
  <2>1. UNCHANGED <<plans, folder>> /\ q \in Preparing
    BY <1>4, <1>13 DEF PrepareRuntime, MakeRuntime, PrepareModel, FetchModel, At, Preparing
  <2>2. call[c].fresh => Fresh(S, a)'
    BY <1>8, <2>1, FreshStays
  <2>3. CASE \E t \in Preparing : Goto(c, t)
    <3>1. PICK t \in Preparing : Goto(c, t)
      BY <2>3
    <3>2. /\ call'[c].pc = t /\ call'[c].steps = S /\ call'[c].at = a /\ call'[c].fresh = call[c].fresh
      BY <1>4, <3>1, GoesWith
    <3>3. CallFresh(c)'
      BY <2>2, <3>2, CallFreshThen DEF Preparing
    <3> QED BY <1>3, <1>6, <2>1, <3>3
  <2>4. CASE Fail(c, "provision")
    <3>1. call'[c].pc = "finish" /\ call'[c].result = "provision"
      BY <2>4, GoesWith
    <3> QED BY <1>3, <1>6, <1>11, <2>1, <3>1
  <2> QED BY <1>13, <2>3, <2>4 DEF PrepareRuntime, MakeRuntime, PrepareModel, FetchModel, Preparing
<1>14. CASE MoveOld(c)
  <2>1. Outdate /\ q \in Preparing /\ call[c].pc = "moveOld"
    BY <1>4, <1>14 DEF MoveOld, At, Preparing
  <2>2. CASE folder' = folder /\ Goto(c, "moveNew")
    <3>1. /\ call'[c].pc = "moveNew" /\ call'[c].steps = S /\ call'[c].at = a /\ call'[c].fresh = call[c].fresh
      BY <1>4, <2>2, GoesWith
    <3>2. call[c].fresh => Fresh(S, a + 1)'
      BY <1>8, <1>9, <1>10, <2>1, <2>2, LaterIsFresh, FreshStays
    <3>3. CallFresh(c)'
      BY <3>1, <3>2, CallFreshThen DEF Preparing
    <3> QED BY <1>3, <1>5, <2>1, <3>3
  <2>3. CASE /\ folder' = [folder EXCEPT ![Id(c)] = Absent]
             /\ call' = [call EXCEPT ![c].pc = "moveNew", ![c].saved = folder[Id(c)]]
    <3>1. call'[c] = [call[c] EXCEPT !.pc = "moveNew", !.saved = folder[Id(c)]]
      BY <1>1, <2>3
    <3>2. /\ call'[c].pc = "moveNew" /\ call'[c].steps = S /\ call'[c].at = a /\ call'[c].fresh = call[c].fresh
      BY <1>1, <1>4, <3>1 DEF Call
    <3>3. call[c].fresh => Fresh(S, a + 1)'
      BY <1>1, <1>8, <1>9, <1>10, <2>1, <2>3, FreshApart
    <3>4. CallFresh(c)'
      BY <3>2, <3>3, CallFreshThen DEF Preparing
    <3> QED BY <1>3, <1>5, <2>1, <3>4
  <2>4. CASE Fail(c, "failed")
    <3>1. call'[c].pc = "finish" /\ call'[c].result = "failed"
      BY <2>4, GoesWith
    <3> QED BY <1>3, <1>5, <1>11, <2>1, <3>1
  <2> QED BY <1>14, <2>2, <2>3, <2>4 DEF MoveOld
<1>15. CASE MoveNew(c)
  <2>1. Outdate /\ q = "moveNew"
    BY <1>4, <1>15 DEF MoveNew, At
  <2>2. CASE folder' = [folder EXCEPT ![Id(c)] = Whole(Step(c).pkg)] /\ Goto(c, "reload")
    <3>1. /\ call'[c].pc = "reload" /\ call'[c].steps = S /\ call'[c].at = a /\ call'[c].fresh = call[c].fresh
      BY <1>4, <2>2, GoesWith
    <3>2. call[c].fresh => Fresh(S, a + 1)'
      BY <1>1, <1>8, <1>9, <1>10, <2>1, <2>2, FreshApart
    <3>3. CallFresh(c)'
      BY <3>1, <3>2, CallFreshThen DEF Preparing
    <3> QED BY <1>3, <1>5, <2>1, <3>3
  <2>3. CASE Goto(c, "moveBack")
    <3>1. call'[c].pc = "moveBack" /\ call'[c].steps = S /\ call'[c].at = a
      BY <1>4, <2>3, GoesWith
    <3>2. CallFresh(c)'
      BY <1>5, <2>1, <3>1, CallFreshThen DEF Preparing
    <3> QED BY <1>3, <1>5, <2>1, <3>2
  <2>4. CASE Fail(c, "failed")
    <3>1. call'[c].pc = "finish" /\ call'[c].result = "failed"
      BY <2>4, GoesWith
    <3> QED BY <1>3, <1>5, <1>11, <2>1, <3>1
  <2> QED BY <1>15, <2>2, <2>3, <2>4 DEF MoveNew
<1>16. CASE MoveBack(c)
  <2>1. q = "moveBack" /\ UNCHANGED plans /\ Fail(c, "failed")
    BY <1>4, <1>16 DEF MoveBack, At
  <2>2. call'[c].pc = "finish" /\ call'[c].result = "failed"
    BY <2>1, GoesWith
  <2> QED BY <1>3, <1>7, <1>11, <2>1, <2>2
<1>17. CASE Reload(c)
  <2>1. q = "reload" /\ UNCHANGED <<plans, folder>>
    BY <1>4, <1>17 DEF Reload, At
  <2>2. CASE Done(c) \/ Fail(c, "ok")
    <3>1. call'[c].pc = "idle" \/ (call'[c].pc = "finish" /\ call'[c].result = "ok")
      BY <2>2, GoesWith
    <3> QED BY <1>3, <1>6, <1>11, <2>1, <3>1
  <2>3. CASE call[c].op # "uninstall" /\ call' = [call EXCEPT ![c].pc = "check", ![c].at = @ + 1, ![c].saved = Absent]
    <3>1. call'[c] = [call[c] EXCEPT !.pc = "check", !.at = @ + 1, !.saved = Absent]
      BY <1>1, <2>3
    <3>2. call'[c].pc = "check" /\ call'[c].steps = S /\ call'[c].at = a + 1 /\ call'[c].fresh = call[c].fresh
      BY <1>1, <1>4, <3>1 DEF Call
    <3>3. call[c].op = "confirm"
      BY <1>1, <1>4, <2>1, <2>3 DEF Fits
    <3>4. call[c].fresh => Fresh(S, a + 1)'
      BY <1>8, <2>1, <3>3, FreshStays
    <3>5. CallFresh(c)'
      <4> DEFINE b == a + 1
      <4>1. call'[c].at = b /\ (call[c].fresh => Fresh(S, b)')
        BY <3>2, <3>4
      <4> HIDE DEF b
      <4> QED BY <3>2, <4>1, CallFreshThen
    <3> QED BY <1>3, <1>6, <2>1, <3>5
  <2> QED BY <1>17, <2>2, <2>3 DEF Reload
<1>18. CASE UninstallCheck(c)
  <2>1. UNCHANGED <<plans, folder>> /\ call'[c].pc \in {"idle", "remove"}
    BY <1>18, GoesWith DEF UninstallCheck, system
  <2> QED BY <1>3, <1>6, <1>11, <2>1
<1>19. CASE RemoveBegins(c)
  <2>1. CASE Outdate /\ Goto(c, "removing")
    <3>1. call'[c].pc = "removing" /\ call'[c].steps = S /\ call'[c].at = a
      BY <1>4, <2>1, GoesWith
    <3>2. CallFresh(c)'
      BY <1>5, <2>1, <3>1, CallFreshThen DEF Preparing
    <3> QED BY <1>3, <1>5, <2>1, <3>2
  <2>2. CASE Done(c) /\ UNCHANGED <<folder, plans>>
    <3>1. call'[c].pc = "idle"
      BY <2>2, GoesWith
    <3> QED BY <1>3, <1>6, <1>11, <2>2, <3>1
  <2> QED BY <1>19, <2>1, <2>2 DEF RemoveBegins
<1>20. CASE Removed(c)
  <2>1. q = "removing" /\ UNCHANGED plans /\ call[c].op = "uninstall"
    BY <1>1, <1>4, <1>20 DEF Removed, At, Fits, Removing
  <2>2. call'[c].pc = "idle" \/ (call'[c].pc = "reload" /\ call'[c].op = "uninstall")
    BY <1>20, <2>1, GoesWith DEF Removed
  <2> QED BY <1>3, <1>7, <1>11, <2>1, <2>2
<1> QED BY <1>12, <1>13, <1>14, <1>15, <1>16, <1>17, <1>18, <1>19, <1>20 DEF Carries

LEMMA OutsideFresh ==
  ASSUME TypeInv, FreshInv, Expire \/ Crash \/ UNCHANGED vars
  PROVE  FreshInv'
<1> SUFFICES ASSUME ~raced' PROVE PlansFresh' /\ \A d \in Callers : CallFresh(d)'
  BY DEF FreshInv
<1>1. ASSUME UNCHANGED <<folder, visiting, done, ordered, call, raced>>,
             \A i \in PlanIds : plans'[i] # NoPlan => plans[i] # NoPlan /\ plans'[i].fresh = plans[i].fresh
                                                      /\ plans'[i].steps = plans[i].steps
      PROVE  PlansFresh' /\ \A d \in Callers : CallFresh(d)'
  <2>1. PlansFresh /\ \A d \in Callers : CallFresh(d)
    BY <1>1 DEF FreshInv
  <2>2. PlansFresh'
    <3> SUFFICES ASSUME NEW i \in PlanIds, plans'[i] # NoPlan, plans'[i].fresh PROVE Fresh(plans[i].steps, 1)'
      BY <1>1 DEF PlansFresh
    <3>1. PICK S : S = plans[i].steps
      OBVIOUS
    <3>2. Fresh(S, 1) /\ plans'[i].steps = S
      BY <1>1, <2>1, <3>1 DEF PlansFresh
    <3>3. Fresh(S, 1)'
      BY <1>1, <3>2, FreshStays
    <3> QED BY <3>2, <3>3
  <2>3. AllOutdated => AllOutdated'
    BY <1>1 DEF AllOutdated
  <2>4. ASSUME NEW d \in Callers PROVE CallFresh(d)'
    <3>1. CallFresh(d) /\ call'[d] = call[d]
      BY <1>1, <2>1
    <3>2. PICK S, a, q : S = call[d].steps /\ a = call[d].at /\ q = call[d].pc
      OBVIOUS
    <3>3. CASE q = "resolve"
      <4>1. WalkIsFresh'
        BY <1>1, <3>1, <3>2, <3>3, WalkStaysFresh DEF CallFresh, At
      <4> QED BY <3>1, <3>2, <3>3, <4>1 DEF CallFresh, At, Preparing
    <3>4. CASE q # "resolve"
      <4>1. /\ call[d].fresh /\ (q \in Preparing \/ (q = "finish" /\ call[d].result = "unmet")) => Fresh(S, a)
            /\ call[d].fresh /\ (q = "moveNew" \/ (q = "reload" /\ call[d].op = "confirm")) => Fresh(S, a + 1)
            /\ q = "finish" /\ call[d].result = "unmet" => Refusal(S, a)
            /\ q \in {"moveBack", "removing"} => AllOutdated
        BY <3>1, <3>2 DEF CallFresh, At
      <4> QED BY <1>1, <2>3, <3>1, <3>2, <3>4, <4>1, CallFreshThen, FreshStays
    <3> QED BY <3>3, <3>4
  <2> QED BY <2>2, <2>4
<1>2. CASE Expire
  <2>1. PICK i \in PlanIds : plans[i] # NoPlan /\ plans' = [plans EXCEPT ![i].expired = TRUE]
    BY <1>2 DEF Expire
  <2>2. [plans[i] EXCEPT !.expired = TRUE].fresh = plans[i].fresh /\ [plans[i] EXCEPT !.expired = TRUE].steps = plans[i].steps
    BY <2>1, PlansStay DEF Plan, TypeInv
  <2>3. \A j \in PlanIds : plans'[j] # NoPlan => plans[j] # NoPlan /\ plans'[j].fresh = plans[j].fresh
                                                 /\ plans'[j].steps = plans[j].steps
    BY <2>1, <2>2 DEF TypeInv, PlanTypes
  <2>4. UNCHANGED <<folder, visiting, done, ordered, call, raced>>
    BY <1>2 DEF Expire, resolving, history
  <2> QED BY <1>1, <2>3, <2>4
<1>3. CASE UNCHANGED vars
  <2>1. UNCHANGED <<folder, visiting, done, ordered, call, raced, plans>>
    BY <1>3 DEF vars, system, resolving
  <2> QED BY <1>1, <2>1
<1>4. CASE Crash
  <2>1. plans' = [i \in PlanIds |-> NoPlan] /\ call' = [d \in Callers |-> Idle]
    BY <1>4 DEF Crash
  <2>2. PlansFresh'
    BY <2>1 DEF PlansFresh
  <2>3. \A d \in Callers : call'[d].pc = "idle"
    BY <2>1 DEF Idle
  <2> QED BY <2>2, <2>3, RestingIsFresh DEF Rests
<1> QED BY <1>2, <1>3, <1>4

\* Plans that are up to date, and what they still say (api_server.py 222-302, installer.py 697-820).
THEOREM FreshInvariant == Spec => []FreshInv
<1>1. Init => FreshInv
  <2> SUFFICES ASSUME Init PROVE FreshInv
    OBVIOUS
  <2>1. PlansFresh
    BY DEF Init, PlansFresh
  <2>2. \A c \in Callers : call[c].pc = "idle"
    BY DEF Init, Idle
  <2>3. \A c \in Callers : CallFresh(c)
    BY <2>2 DEF CallFresh, At, Preparing
  <2> QED BY <2>1, <2>3 DEF FreshInv
<1>2. TypeInv /\ TypeInv' /\ PlansInv /\ FreshInv /\ [Next]_vars => FreshInv'
  <2> SUFFICES ASSUME TypeInv, TypeInv', PlansInv, FreshInv, [Next]_vars PROVE FreshInv'
    OBVIOUS
  <2>1. ASSUME NEW c \in Callers, Prepares(c) \/ Carries(c) PROVE FreshInv'
    BY <2>1, PreparesFresh, CarryFresh
  <2>2. CASE Expire \/ Crash \/ UNCHANGED vars
    BY <2>2, OutsideFresh
  <2> QED BY <2>1, <2>2 DEF Next, Carries, Prepares
<1> QED BY <1>1, <1>2, TypeCorrect, PlansInvariant, PTL DEF Spec

\* install() refuses an approved plan, with nothing changed since, only where it compares versions
\* in another way, or looks at a need or a folder the plan passed over (installer.py 697-820).
THEOREM PlansAreInstallable == Spec => []PlanIsInstallable
<1>1. TypeInv /\ PlansInv /\ FoldersInv /\ FreshInv => PlanIsInstallable
  <2> SUFFICES ASSUME TypeInv, PlansInv, FoldersInv, FreshInv, ~raced, NEW c \in Callers,
                      At(c, "finish"), call[c].result = "unmet", call[c].fresh
               PROVE  \/ \E i \in 1..Len(Step(c).pkg.needs) : LET n == Step(c).pkg.needs[i] IN
                           /\ ~Met(n) /\ Readable(folder[n.id])
                           /\ Compatible(folder[n.id].pkg.ver, n.min) \/ Hidden(c, n)
                      \/ folder[Id(c)].parts = "bare"
    BY DEF PlanIsInstallable
  <2> DEFINE S == call[c].steps
             a == call[c].at
  <2>1. Confirms(call[c])
    BY DEF Confirms, Installing, At
  <2>2. S \in Seq(InstallStep) /\ a \in 1..Len(S) /\ Step(c) = S[a] /\ Step(c).pkg \in Packages /\ Id(c) = S[a].pkg.id
    BY <2>1, Current1 DEF TypeInv
  <2>3. DOMAIN S = 1..Len(S) /\ Len(S) \in Nat /\ Id(c) \in Plugins
    BY <2>1, <2>2, Current1 DEF TypeInv
  <2>4. Fresh(S, a) /\ Refusal(S, a)
    BY DEF FreshInv, CallFresh
  <2>5. Stand(S, a - 1)
    BY DEF FoldersInv, Installed
  <2>6. Ordered(S)
    BY DEF PlansInv, StepsOrdered
  <2>7. a \in a..Len(S) /\ a \in DOMAIN S
    BY <2>2, <2>3
  <2> HIDE DEF S, a
  <2>8. CASE ~NeedsMet(S[a].pkg)
    <3>1. PICK i \in 1..Len(S[a].pkg.needs) : ~Met(S[a].pkg.needs[i])
      BY <2>8 DEF NeedsMet
    <3>2. PICK n : n = S[a].pkg.needs[i]
      OBVIOUS
    <3>3. n \in Range(S[a].pkg.needs) /\ ~Met(n)
      BY <2>2, <3>1, <3>2, Manifest
    <3>4. ASSUME NEW t \in DOMAIN S, S[t].pkg.id = n.id
          PROVE  Readable(folder[n.id]) /\ Compatible(folder[n.id].pkg.ver, n.min)
      <4>1. t < a /\ Compatible(S[t].pkg.ver, n.min)
        BY <2>6, <2>7, <3>3, <3>4 DEF Ordered
      <4>2. t \in 1..(a - 1)
        BY <2>2, <2>3, <4>1
      <4>3. folder[n.id] = Whole(S[t].pkg)
        BY <2>5, <3>4, <4>2 DEF Stand
      <4> QED BY <4>1, <4>3 DEF Whole, Readable
    <3>5. ASSUME NEW r \in DOMAIN S, NEW m \in Range(S[r].pkg.needs), m.id = n.id, Compatible(folder[n.id].pkg.ver, m.min)
          PROVE  Hidden(c, n)
      <4>1. S[r].pkg \in Packages
        <5>1. S[r] \in InstallStep
          BY <2>2, <2>3
        <5> QED BY <5>1 DEF InstallStep
      <4>2. PICK j \in 1..Len(S[r].pkg.needs) : m = S[r].pkg.needs[j]
        BY <4>1, Manifest, <3>5 DEF Range
      <4> QED BY <2>3, <3>5, <4>2 DEF Hidden, S
    <3>6. Readable(folder[n.id]) /\ (Compatible(folder[n.id].pkg.ver, n.min) \/ Hidden(c, n))
      BY <2>4, <2>7, <3>3, <3>4, <3>5 DEF Fresh
    <3> QED BY <2>2, <3>1, <3>2, <3>3, <3>6
  <2>9. CASE folder[S[a].pkg.id].parts # "none" /\ ~S[a].replace
    <3>1. ~Readable(folder[Id(c)])
      BY <2>2, <2>4, <2>7, <2>9 DEF Fresh
    <3>2. folder[Id(c)] \in FolderState
      BY <2>3 DEF TypeInv, FolderTypes
    <3> QED BY <2>2, <2>9, <3>1, <3>2 DEF FolderState, Readable
  <2> QED BY <2>4, <2>8, <2>9 DEF Refusal
<1> QED BY <1>1, TypeCorrect, PlansInvariant, FoldersInvariant, FreshInvariant, PTL

-----------------------------------------------------------------------------
(* What plugins need is there: the steps.                                  *)
Quiet == ~raced /\ ~older /\ faults = 0 /\ crashes = 0

\* What plugins need is there, but for the plugin the request c is about to put in its place.
Content(c) == \A q \in Plugins : folder[q].parts = "whole" => \A i \in 1..Len(folder[q].pkg.needs) :
  LET n == folder[q].pkg.needs[i] IN Met(n) \/ (At(c, "moveNew") /\ Id(c) = n.id)

\* What a plugin needs is known.
LEMMA NeedsOfFolders ==
  ASSUME FolderTypes, NEW q \in Plugins, folder[q].parts # "none"
  PROVE  /\ folder[q].pkg \in Packages /\ folder[q].pkg.id = q
         /\ \A i \in 1..Len(folder[q].pkg.needs) : /\ folder[q].pkg.needs[i].id \in Plugins
                                                   /\ folder[q].pkg.needs[i].min \in Versions
<1>1. folder[q].pkg \in Packages /\ folder[q].pkg.id = q
  BY DEF FolderTypes, FolderState, Holds
<1> QED BY <1>1, Manifest, ManifestsAssumption

\* The request c alone has to do with the folders: what is to be shown of its step.
LEMMA DependsThen ==
  ASSUME TypeInv, DependsInv, NEW c \in Callers, NEW r \in Call, Goes(c, r),
         ~raced' => ~raced, faults' = 0 => faults = 0,
         ~raced => \A d \in Callers \ {c} : Rests(call[d]),
         Quiet' => Content(c)',
         faults' = 0 => call'[c].pc # "moveBack",
         ~raced' /\ call'[c].pc \in {"remove", "removing"} => ~Needed(Target(c))',
         Quiet' /\ call'[c].pc = "moveNew" => Serves(call[c].saved, Id(c))'
  PROVE  DependsInv'
<1>1. \A d \in Callers \ {c} : call'[d] = call[d]
  BY DEF TypeInv, CallTypes, Goes
<1>2. DependenciesHold'
  BY DEF DependenciesHold, Content, Quiet
<1>3. faults' = 0 => \A d \in Callers : call'[d].pc # "moveBack"
  BY <1>1 DEF DependsInv, At
<1>4. ~raced' => \A d \in Callers \ {c} : call'[d].pc \notin {"moveNew", "remove", "removing"}
  BY <1>1 DEF Rests
<1> QED BY <1>2, <1>3, <1>4 DEF DependsInv, Quiet, At

\* As things are, with the request c alone at work.
LEMMA DependsNow ==
  ASSUME DependsInv, NEW c \in Callers, ~raced, \A d \in Callers \ {c} : Rests(call[d])
  PROVE  /\ Quiet => Content(c)
         /\ faults = 0 => call[c].pc # "moveBack"
         /\ call[c].pc \in {"remove", "removing"} => ~Needed(Target(c))
         /\ Quiet /\ call[c].pc = "moveNew" => Serves(call[c].saved, Id(c))
<1>1. \A d \in Callers : At(d, "moveNew") => d = c
  BY DEF At, Rests
<1> QED BY <1>1 DEF DependsInv, DependenciesHold, Quiet, Content, At

\* A request that has not begun to install or remove anything.
LEMMA PreparesDepends ==
  ASSUME TypeInv, TypeInv', DependsInv, NEW c \in Callers, Prepares(c)
  PROVE  DependsInv'
<1>1. /\ UNCHANGED <<folder, older, crashes>> /\ (~raced' => ~raced) /\ (faults' = 0 => faults = 0)
      /\ call[c].pc # "moveNew" /\ Goes(c, call'[c]) /\ Begins(call'[c])
  <2>1. raced \in BOOLEAN /\ raced' \in BOOLEAN
    BY DEF TypeInv
  <2> QED BY <2>1, Beginning
<1>2. call'[c].pc \notin {"moveNew", "moveBack", "remove", "removing"}
  BY <1>1 DEF Begins
<1>3. \A d \in Callers \ {c} : call'[d] = call[d]
  BY <1>1 DEF TypeInv, CallTypes, Goes
<1>4. ASSUME NEW d \in Callers, call'[d].pc \in {"moveNew", "moveBack", "remove", "removing"}
      PROVE  d # c /\ call'[d] = call[d] /\ Id(d)' = Id(d) /\ Target(d)' = Target(d)
  BY <1>2, <1>3, <1>4 DEF Id, Step, Target
<1>5. \A d \in Callers : At(d, "moveNew") => At(d, "moveNew")' /\ Id(d)' = Id(d)
  BY <1>1, <1>3 DEF At, Id, Step
<1>6. DependenciesHold'
  BY <1>1, <1>5 DEF DependsInv, DependenciesHold, Met
<1>7. faults' = 0 => \A d \in Callers : ~At(d, "moveBack")'
  BY <1>1, <1>4 DEF DependsInv, At
<1>8. ~raced' => \A d \in Callers : call'[d].pc \in {"remove", "removing"} => ~Needed(Target(d))'
  <2> SUFFICES ASSUME ~raced', NEW d \in Callers, call'[d].pc \in {"remove", "removing"} PROVE ~Needed(Target(d))'
    OBVIOUS
  <2>1. PICK t : t = Target(d)
    OBVIOUS
  <2>2. ~Needed(t) /\ Target(d)' = t
    BY <1>1, <1>4, <2>1 DEF DependsInv
  <2>3. ~Needed(t)'
    BY <1>1, <2>2 DEF Needed, Readable
  <2> QED BY <2>2, <2>3
<1>9. Quiet' => \A d \in Callers : call'[d].pc = "moveNew" => Serves(call[d].saved, Id(d))'
  <2> SUFFICES ASSUME Quiet', NEW d \in Callers, call'[d].pc = "moveNew" PROVE Serves(call[d].saved, Id(d))'
    OBVIOUS
  <2>1. PICK f, p : f = call[d].saved /\ p = Id(d)
    OBVIOUS
  <2>2. Serves(f, p) /\ call'[d].saved = f /\ Id(d)' = p
    BY <1>1, <1>4, <2>1 DEF DependsInv, Quiet, At
  <2>3. Serves(f, p)'
    BY <1>1, <2>2 DEF Serves, Readable
  <2> QED BY <2>2, <2>3
<1> QED BY <1>6, <1>7, <1>8, <1>9 DEF DependsInv, Quiet, At

\* The folder p gives way to f: whoever needs something else is content as before.
LEMMA ContentElsewhere ==
  ASSUME FolderTypes, NEW p \in Plugins, NEW f, folder' = [folder EXCEPT ![p] = f],
         NEW q \in Plugins, q # p, folder[q].parts = "whole",
         NEW i \in 1..Len(folder[q].pkg.needs), folder[q].pkg.needs[i].id # p, Met(folder[q].pkg.needs[i])
  PROVE  Met(folder[q].pkg.needs[i])'
<1>1. PICK n : n = folder[q].pkg.needs[i]
  OBVIOUS
<1>2. n.id \in Plugins /\ n.id # p /\ Met(n)
  BY <1>1, NeedsOfFolders
<1>3. folder'[n.id] = folder[n.id] /\ folder'[q] = folder[q]
  BY <1>2 DEF FolderTypes
<1>4. Met(n)'
  BY <1>2, <1>3 DEF Met
<1> QED BY <1>1, <1>3, <1>4

\* The folder of a plugin nobody needs goes.
LEMMA RemovedIsNotMissed ==
  ASSUME FolderTypes, NEW c \in Callers, NEW p \in Plugins, NEW f, folder' = [folder EXCEPT ![p] = f], f.parts # "whole",
         ~Needed(p), Content(c), ~At(c, "moveNew")
  PROVE  Content(c)' /\ ~Needed(p)'
<1>1. folder'[p] = f /\ \A q \in Plugins \ {p} : folder'[q] = folder[q]
  BY DEF FolderTypes
<1>2. Content(c)'
  <2> SUFFICES ASSUME NEW q \in Plugins, folder'[q].parts = "whole", NEW i \in 1..Len(folder'[q].pkg.needs)
               PROVE  Met(folder[q].pkg.needs[i])'
    BY DEF Content
  <2>1. q # p /\ folder'[q] = folder[q]
    BY <1>1
  <2>2. folder[q].parts = "whole" /\ i \in 1..Len(folder[q].pkg.needs)
    BY <2>1
  <2>3. Met(folder[q].pkg.needs[i])
    BY <2>2 DEF Content
  <2>4. folder[q].pkg.needs[i].id # p
    BY <2>1, <2>2 DEF Needed, Readable
  <2> QED BY <2>1, <2>2, <2>3, <2>4, ContentElsewhere
<1>3. ~Needed(p)'
  BY <1>1 DEF Needed, Readable
<1> QED BY <1>2, <1>3

\* The old version is set aside: it will do for all that need it.
LEMMA MovedOldServes ==
  ASSUME FolderTypes, NEW c \in Callers, NEW p \in Plugins, folder' = [folder EXCEPT ![p] = Absent],
         Content(c), ~At(c, "moveNew"), At(c, "moveNew")', Id(c)' = p, NEW f, f = folder[p]
  PROVE  Content(c)' /\ Serves(f, p)'
<1>1. folder'[p] = Absent /\ \A q \in Plugins \ {p} : folder'[q] = folder[q]
  BY DEF FolderTypes
<1>2. ASSUME NEW q \in Plugins, folder'[q].parts = "whole"
      PROVE  q # p /\ folder'[q] = folder[q] /\ folder[q].parts = "whole"
  BY <1>1, <1>2 DEF Absent
<1>3. ASSUME NEW q \in Plugins, folder'[q].parts = "whole", NEW i \in 1..Len(folder'[q].pkg.needs)
      PROVE  Met(folder[q].pkg.needs[i])' \/ folder'[q].pkg.needs[i].id = p
  <2>1. q # p /\ folder'[q] = folder[q] /\ folder[q].parts = "whole" /\ i \in 1..Len(folder[q].pkg.needs)
    BY <1>2, <1>3
  <2>2. Met(folder[q].pkg.needs[i])
    BY <2>1 DEF Content
  <2> QED BY <2>1, <2>2, ContentElsewhere
<1>4. Content(c)'
  BY <1>3 DEF Content
<1>5. ASSUME NEW q \in Plugins, folder'[q].parts = "whole", NEW i \in 1..Len(folder'[q].pkg.needs), folder'[q].pkg.needs[i].id = p
      PROVE  Readable(f) /\ ~Older(f.pkg.ver, folder'[q].pkg.needs[i].min)
  <2>1. q # p /\ folder'[q] = folder[q] /\ folder[q].parts = "whole" /\ i \in 1..Len(folder[q].pkg.needs)
    BY <1>2, <1>5
  <2>2. Met(folder[q].pkg.needs[i])
    BY <2>1 DEF Content
  <2> QED BY <1>5, <2>1, <2>2 DEF Met
<1>6. Serves(f, p)'
  BY <1>5 DEF Serves
<1> QED BY <1>4, <1>6

\* The new version is there: it has what it needs, and whoever was content with the old one is with it.
LEMMA MovedNewServes ==
  ASSUME FolderTypes, NEW c \in Callers, NEW k \in Packages, NEW p \in Plugins, k.id = p, Id(c) = p,
         folder' = [folder EXCEPT ![p] = Whole(k)], NeedsMet(k)', Content(c),
         NEW f \in FolderState, Holds(f, p), Serves(f, p), f # Absent => ~Older(k.ver, f.pkg.ver)
  PROVE  Content(c)'
<1>1. folder'[p] = Whole(k) /\ \A q \in Plugins \ {p} : folder'[q] = folder[q]
  BY DEF FolderTypes
<1> SUFFICES ASSUME NEW q \in Plugins, folder'[q].parts = "whole", NEW i \in 1..Len(folder'[q].pkg.needs)
             PROVE  Met(folder[q].pkg.needs[i])'
  BY DEF Content
<1>2. CASE q = p
  BY <1>1, <1>2 DEF NeedsMet, Whole
<1>3. CASE q # p
  <2>1. folder'[q] = folder[q] /\ folder[q].parts = "whole" /\ i \in 1..Len(folder[q].pkg.needs)
    BY <1>1, <1>3
  <2>2. PICK n : n = folder[q].pkg.needs[i]
    OBVIOUS
  <2>3. CASE n.id # p
    <3>1. Met(n)
      BY <2>1, <2>2, <2>3 DEF Content
    <3> QED BY <1>3, <2>1, <2>2, <2>3, <3>1, ContentElsewhere
  <2>4. CASE n.id = p
    <3>1. Readable(f) /\ ~Older(f.pkg.ver, n.min)
      BY <2>1, <2>2, <2>4 DEF Serves
    <3>2. f.pkg \in Packages /\ f # Absent
      BY <3>1 DEF Readable, Absent, Holds, FolderState
    <3>3. n.min \in Versions /\ k.ver \in Versions /\ f.pkg.ver \in Versions
      BY <2>1, <2>2, <3>2, NeedsOfFolders, ManifestsAssumption
    <3>4. ~Older(k.ver, n.min)
      BY <3>1, <3>2, <3>3, NewerThanNewer
    <3>5. Met(n)'
      BY <1>1, <2>4, <3>4 DEF Met, Whole, Readable
    <3> QED BY <2>1, <2>2, <3>5
  <2> QED BY <2>3, <2>4
<1> QED BY <1>2, <1>3

LEMMA CarryDepends ==
  ASSUME TypeInv, TypeInv', PlansInv, FoldersInv, DependsInv, NEW c \in Callers, Carries(c)
  PROVE  DependsInv'
<1>1. /\ call[c].pc \in Working /\ UNCHANGED <<raced, crashes>> /\ (faults' = faults \/ faults' = faults + 1) /\ faults \in Nat
      /\ call[c] \in Call /\ Fits(call[c]) /\ FolderTypes /\ call \in [Callers -> Call]
  BY Carrying DEF TypeInv, CallTypes
<1>2. PICK r \in Call : Goes(c, r)
  BY Carrying
<1>3. (faults' = 0 => faults = 0) /\ faults' \in Nat
  BY <1>1
<1>4. ~raced => \A d \in Callers \ {c} : Rests(call[d])
  BY <1>1, OthersRest
<1>5. older' = FALSE => older = FALSE
  BY DEF Carries, InstallCheck, PrepareRuntime, MakeRuntime, PrepareModel, FetchModel, MoveOld, MoveNew, MoveBack, Reload,
         UninstallCheck, RemoveBegins, Removed, history, TypeInv
<1>6. Quiet' => Quiet
  BY <1>1, <1>3, <1>5 DEF Quiet, TypeInv
<1>7. ~raced => /\ Quiet => Content(c)
                /\ faults = 0 => call[c].pc # "moveBack"
                /\ call[c].pc \in {"remove", "removing"} => ~Needed(Target(c))
                /\ Quiet /\ call[c].pc = "moveNew" => Serves(call[c].saved, Id(c))
  BY <1>4, DependsNow
<1>8. Quiet => ~raced
  BY DEF Quiet
\* What is to be shown.
<1> DEFINE Shown == /\ Quiet' => Content(c)'
                    /\ faults' = 0 => call'[c].pc # "moveBack"
                    /\ ~raced' /\ call'[c].pc \in {"remove", "removing"} => ~Needed(Target(c))'
                    /\ Quiet' /\ call'[c].pc = "moveNew" => Serves(call[c].saved, Id(c))'
<1>9. Shown => DependsInv'
  BY <1>1, <1>2, <1>3, <1>4, DependsThen
\* A step that leaves the folders alone.
<1>10. ASSUME UNCHANGED folder, call[c].pc # "moveNew" PROVE Quiet' => Content(c)'
  BY <1>6, <1>7, <1>8, <1>10 DEF Content, Met, At
<1>11. ASSUME UNCHANGED folder, call[c].pc # "moveNew", call'[c].pc \notin {"moveNew", "moveBack", "remove", "removing"}
       PROVE  Shown
  BY <1>10, <1>11
<1>12. ASSUME Fault, call'[c].pc \notin {"moveNew", "remove", "removing"} PROVE Shown
  <2>1. faults' # 0
    BY <1>1, <1>12 DEF Fault
  <2> QED BY <1>12, <2>1 DEF Quiet
<1> DEFINE p == Id(c)
           k == Step(c).pkg
<1>13. ASSUME Confirms(call[c])
       PROVE  k \in Packages /\ k.id = p /\ p \in Plugins /\ call[c].saved \in FolderState /\ Holds(call[c].saved, p)
              /\ (call'[c].steps = call[c].steps /\ call'[c].at = call[c].at => Id(c)' = p)
  <2>1. Holds(call[c].saved, p)
    BY <1>1, <1>13 DEF Fits, Id, Step
  <2>2. call[c].saved \in FolderState
    BY <1>1 DEF Call
  <2> QED BY <1>13, <2>1, <2>2, Current1 DEF TypeInv, Id, Step
<1> HIDE DEF Shown
<1>14. CASE InstallCheck(c) \/ PrepareRuntime(c) \/ MakeRuntime(c) \/ PrepareModel(c) \/ FetchModel(c)
  <2>1. UNCHANGED folder /\ call[c].pc # "moveNew"
    BY <1>14 DEF InstallCheck, PrepareRuntime, MakeRuntime, PrepareModel, FetchModel, At, system
  <2>2. call'[c].pc \in {"runtime", "makeRuntime", "model", "fetchModel", "moveOld", "finish"}
    BY <1>14, GoesWith DEF InstallCheck, PrepareRuntime, MakeRuntime, PrepareModel, FetchModel
  <2> QED BY <1>9, <1>11, <2>1, <2>2
<1>15. CASE MoveOld(c)
  <2>1. call[c].pc = "moveOld" /\ Confirms(call[c])
    BY <1>15 DEF MoveOld, At, Confirms, Installing, Preparing
  <2>2. CASE folder[p].parts = "none" /\ Goto(c, "moveNew") /\ UNCHANGED folder
    <3>1. /\ call'[c].pc = "moveNew" /\ Id(c)' = p /\ call'[c].saved = call[c].saved
      BY <1>13, <2>1, <2>2, GoesWith
    <3>2. ASSUME Quiet' PROVE Serves(call[c].saved, Id(c))'
      <4>1. Content(c)
        BY <1>6, <1>7, <1>8, <3>2
      <4>2. PICK x : x = p
        OBVIOUS
      <4>3. \A f : Serves(f, x)
        BY <2>1, <2>2, <4>1, <4>2 DEF Serves, Content, Met, Readable, At
      <4>4. \A f : Serves(f, x)'
        BY <2>2, <4>3 DEF Serves, Readable
      <4> QED BY <3>1, <4>2, <4>4
    <3>3. Shown
      BY <1>10, <2>1, <2>2, <3>1, <3>2 DEF Shown
    <3> QED BY <1>9, <3>3
  <2>3. CASE /\ folder' = [folder EXCEPT ![p] = Absent]
             /\ call' = [call EXCEPT ![c].pc = "moveNew", ![c].saved = folder[p]]
    <3>1. call'[c] = [call[c] EXCEPT !.pc = "moveNew", !.saved = folder[p]]
      BY <1>1, <2>3
    <3>2. call'[c].pc = "moveNew" /\ call'[c].saved = folder[p] /\ call'[c].steps = call[c].steps /\ call'[c].at = call[c].at
      BY <1>1, <3>1 DEF Call
    <3>3. Id(c)' = p /\ p \in Plugins
      BY <1>13, <2>1, <3>2
    <3>4. ASSUME Quiet' PROVE Content(c)' /\ Serves(call[c].saved, Id(c))'
      <4>1. Content(c)
        BY <1>6, <1>7, <1>8, <3>4
      <4>2. PICK f, x : f = folder[p] /\ x = p
        OBVIOUS
      <4>3. Content(c)' /\ Serves(f, x)'
        <5>1. x \in Plugins /\ folder' = [folder EXCEPT ![x] = Absent] /\ Id(c)' = x /\ f = folder[x]
          BY <2>3, <3>3, <4>2
        <5> QED BY <1>1, <2>1, <3>2, <4>1, <5>1, MovedOldServes DEF At
      <4> QED BY <3>2, <3>3, <4>2, <4>3
    <3>5. Shown
      BY <3>2, <3>4 DEF Shown
    <3> QED BY <1>9, <3>5
  <2>4. CASE Fault /\ Fail(c, "failed")
    BY <1>9, <1>12, <2>4, GoesWith
  <2> QED BY <1>15, <2>2, <2>3, <2>4 DEF MoveOld
<1>16. CASE MoveNew(c)
  <2>1. call[c].pc = "moveNew" /\ Confirms(call[c])
    BY <1>16 DEF MoveNew, At, Confirms, Installing, Moving
  <2>2. CASE /\ folder' = [folder EXCEPT ![p] = Whole(k)] /\ Goto(c, "reload")
             /\ older' = (older \/ (call[c].saved # Absent /\ Older(k.ver, call[c].saved.pkg.ver)))
    <3>1. call'[c].pc = "reload"
      BY <2>2, GoesWith
    <3>2. ASSUME Quiet' PROVE Content(c)'
      <4>1. Content(c) /\ Serves(call[c].saved, p) /\ ~raced
        BY <1>6, <1>7, <1>8, <2>1, <3>2
      <4>2. call[c].saved # Absent => ~Older(k.ver, call[c].saved.pkg.ver)
        BY <2>2, <3>2 DEF Quiet
      <4>3. NeedsMet(k)'
        <5>1. PICK S, a : S = call[c].steps /\ a = call[c].at
          OBVIOUS
        <5>2. Stand(S, a - 1) /\ NeedsMet(k) /\ k = S[a].pkg
          BY <2>1, <4>1, <5>1 DEF FoldersInv, Installed, Step
        <5>3. NeedsMet(S[a].pkg)'
          BY <2>1, <2>2, <5>1, <5>2, EarlierStand
        <5>4. PICK m : m = k
          OBVIOUS
        <5>5. NeedsMet(m)'
          BY <5>2, <5>3, <5>4 DEF NeedsMet, Met
        <5>6. Step(c)' = Step(c)
          BY <2>2, GoesWith DEF Step
        <5> QED BY <5>4, <5>5, <5>6
      <4>4. PICK f, m, x : f = call[c].saved /\ m = k /\ x = p
        OBVIOUS
      <4>5. Step(c)' = Step(c)
        BY <2>2, GoesWith DEF Step
      <4>6. /\ m \in Packages /\ x \in Plugins /\ m.id = x /\ Id(c) = x /\ folder' = [folder EXCEPT ![x] = Whole(m)]
            /\ NeedsMet(m)' /\ Content(c) /\ f \in FolderState /\ Holds(f, x) /\ Serves(f, x) /\ (f # Absent => ~Older(m.ver, f.pkg.ver))
        BY <1>13, <2>1, <2>2, <4>1, <4>2, <4>3, <4>4, <4>5
      <4> QED BY <1>1, <4>6, MovedNewServes
    <3>3. Shown
      BY <3>1, <3>2 DEF Shown
    <3> QED BY <1>9, <3>3
  <2>3. CASE Fault /\ (Goto(c, "moveBack") \/ Fail(c, "failed"))
    <3>1. call'[c].pc \in {"moveBack", "finish"}
      BY <2>3, GoesWith
    <3> QED BY <1>9, <1>12, <2>3, <3>1
  <2> QED BY <1>16, <2>2, <2>3 DEF MoveNew
<1>17. CASE MoveBack(c)
  <2>1. call[c].pc = "moveBack" /\ Fail(c, "failed")
    BY <1>17 DEF MoveBack, At
  <2>2. call'[c].pc = "finish"
    BY <2>1, GoesWith
  <2>3. ~Quiet'
    BY <1>3, <1>6, <1>7, <1>8, <2>1 DEF Quiet
  <2>4. Shown
    BY <2>2, <2>3 DEF Shown
  <2> QED BY <1>9, <2>4
<1>18. CASE Reload(c)
  <2>1. UNCHANGED folder /\ call[c].pc # "moveNew"
    BY <1>18 DEF Reload, At
  <2>2. CASE Done(c) \/ Fail(c, "ok")
    <3>1. call'[c].pc \in {"idle", "finish"}
      BY <2>2, GoesWith
    <3> QED BY <1>9, <1>11, <2>1, <3>1
  <2>3. CASE call' = [call EXCEPT ![c].pc = "check", ![c].at = @ + 1, ![c].saved = Absent]
    <3>1. call'[c].pc = "check"
      BY <1>1, <2>3 DEF Call
    <3> QED BY <1>9, <1>11, <2>1, <3>1
  <2> QED BY <1>18, <2>2, <2>3 DEF Reload
<1>19. CASE UninstallCheck(c)
  <2>1. UNCHANGED folder /\ call[c].pc # "moveNew"
    BY <1>19 DEF UninstallCheck, At, system
  <2>2. CASE Done(c)
    <3>1. call'[c].pc = "idle"
      BY <2>2, GoesWith
    <3> QED BY <1>9, <1>11, <2>1, <3>1
  <2>3. CASE ~Needed(Target(c)) /\ Goto(c, "remove")
    <3>1. call'[c].pc = "remove" /\ Target(c)' = Target(c)
      BY <2>3, GoesWith DEF Target
    <3>2. PICK t : t = Target(c)
      OBVIOUS
    <3>3. ~Needed(t)'
      BY <2>1, <2>3, <3>2 DEF Needed, Readable
    <3>4. Shown
      BY <1>10, <2>1, <3>1, <3>2, <3>3 DEF Shown
    <3> QED BY <1>9, <3>4
  <2> QED BY <1>19, <2>2, <2>3 DEF UninstallCheck
<1>20. ASSUME NEW f, folder' = [folder EXCEPT ![Target(c)] = f], f.parts # "whole", call[c].pc \in {"remove", "removing"},
              Goto(c, "removing") \/ Goto(c, "reload") PROVE Shown
  <2>1. PICK t : t = Target(c)
    OBVIOUS
  <2>2. call[c].op = "uninstall" /\ call[c].pkg \in Packages
    BY <1>1, <1>20 DEF Fits, Removing
  <2>3. t \in Plugins
    BY <2>1, <2>2, Manifest DEF Target
  <2>4. call'[c].pc \in {"removing", "reload"} /\ Target(c)' = t
    BY <1>20, <2>1, GoesWith DEF Target
  <2>5. ASSUME ~raced PROVE ~Needed(t)'
    <3>1. ~Needed(t)
      BY <1>7, <1>20, <2>1, <2>5
    <3>2. folder'[t] = f /\ \A q \in Plugins \ {t} : folder'[q] = folder[q]
      BY <1>1, <1>20, <2>1, <2>3 DEF FolderTypes
    <3> QED BY <3>1, <3>2 DEF Needed, Readable
  <2>6. ASSUME Quiet' PROVE Content(c)'
    <3>1. ~Needed(t) /\ Content(c)
      BY <1>6, <1>7, <1>8, <1>20, <2>1, <2>6
    <3> QED BY <1>1, <1>20, <2>1, <2>3, <3>1, RemovedIsNotMissed DEF At
  <2> QED BY <1>1, <2>4, <2>5, <2>6 DEF Shown
<1>21. CASE RemoveBegins(c)
  <2>1. call[c].pc = "remove"
    BY <1>21 DEF RemoveBegins, At
  <2>2. CASE Goto(c, "removing") /\ \E f \in Torn(folder[Target(c)].pkg) : folder' = [folder EXCEPT ![Target(c)] = f]
    <3>1. PICK f \in Torn(folder[Target(c)].pkg) : folder' = [folder EXCEPT ![Target(c)] = f]
      BY <2>2
    <3>2. f.parts # "whole"
      BY DEF Torn
    <3> QED BY <1>9, <1>20, <2>1, <2>2, <3>1, <3>2
  <2>3. CASE Done(c) /\ UNCHANGED folder
    <3>1. call'[c].pc = "idle"
      BY <2>3, GoesWith
    <3> QED BY <1>9, <1>11, <2>1, <2>3, <3>1
  <2> QED BY <1>21, <2>2, <2>3 DEF RemoveBegins
<1>22. CASE Removed(c)
  <2>1. call[c].pc = "removing"
    BY <1>22 DEF Removed, At
  <2>2. CASE folder' = [folder EXCEPT ![Target(c)] = Absent] /\ Goto(c, "reload")
    <3>1. Absent.parts # "whole"
      BY DEF Absent
    <3> QED BY <1>9, <1>20, <2>1, <2>2, <3>1
  <2>3. CASE Done(c) /\ UNCHANGED folder
    <3>1. call'[c].pc = "idle"
      BY <2>3, GoesWith
    <3> QED BY <1>9, <1>11, <2>1, <2>3, <3>1
  <2> QED BY <1>22, <2>2, <2>3 DEF Removed
<1> QED BY <1>14, <1>15, <1>16, <1>17, <1>18, <1>19, <1>21, <1>22 DEF Carries

LEMMA OutsideDepends ==
  ASSUME TypeInv, DependsInv, Expire \/ Crash \/ UNCHANGED vars
  PROVE  DependsInv'
<1>1. ASSUME UNCHANGED <<folder, call, raced, older, faults, crashes>> PROVE DependsInv'
  <2>1. DependenciesHold'
    BY <1>1 DEF DependsInv, DependenciesHold, Met, At, Id, Step
  <2>2. \A t : ~Needed(t) => ~Needed(t)'
    BY <1>1 DEF Needed, Readable
  <2>3. \A f, x : Serves(f, x) => Serves(f, x)'
    BY <1>1 DEF Serves, Readable
  <2>4. ASSUME NEW c \in Callers
        PROVE  /\ faults' = 0 => ~At(c, "moveBack")'
               /\ ~raced' /\ call'[c].pc \in {"remove", "removing"} => ~Needed(Target(c))'
               /\ Quiet' /\ At(c, "moveNew")' => Serves(call[c].saved, Id(c))'
    <3>1. PICK t, f, x : t = Target(c) /\ f = call[c].saved /\ x = Id(c)
      OBVIOUS
    <3>2. Target(c)' = t /\ call'[c].saved = f /\ Id(c)' = x
      BY <1>1, <3>1 DEF Target, Id, Step
    <3>3. ~raced' /\ call'[c].pc \in {"remove", "removing"} => ~Needed(t)'
      BY <1>1, <2>2, <3>1 DEF DependsInv
    <3>4. Quiet' /\ At(c, "moveNew")' => Serves(f, x)'
      BY <1>1, <2>3, <3>1 DEF DependsInv, Quiet, At
    <3>5. faults' = 0 => ~At(c, "moveBack")'
      BY <1>1 DEF DependsInv, At
    <3> QED BY <3>2, <3>3, <3>4, <3>5
  <2> QED BY <2>1, <2>4 DEF DependsInv, Quiet
<1>2. CASE Expire \/ UNCHANGED vars
  BY <1>1, <1>2 DEF Expire, history, vars, system
<1>3. CASE Crash
  <2>1. crashes' # 0
    BY <1>3 DEF Crash, TypeInv
  <2>2. \A c \in Callers : call'[c].pc = "idle"
    BY <1>3 DEF Crash, Idle
  <2> QED BY <2>1, <2>2 DEF DependsInv, DependenciesHold, At
<1> QED BY <1>2, <1>3

\* What plugins need is there, as long as requests come one after the other, nothing breaks and no
\* plugin gives way to an older one (dependency_plan.py 69-113, installer.py 697-900 and 926-1006).
THEOREM DependsInvariant == Spec => []DependsInv
<1>1. Init => DependsInv
  <2> SUFFICES ASSUME Init PROVE DependsInv
    OBVIOUS
  <2>1. PICK w \in Worlds :
          folder = [p \in Plugins |-> IF \E k \in w.installed : k.id = p
                                      THEN Whole(CHOOSE k \in w.installed : k.id = p) ELSE Absent]
    BY DEF Init
  <2>2. \A c \in Callers : call[c].pc = "idle"
    BY DEF Init, Idle
  <2>3. ASSUME NEW q \in Plugins, folder[q].parts = "whole", NEW i \in 1..Len(folder[q].pkg.needs)
        PROVE  Met(folder[q].pkg.needs[i])
    <3>1. PICK k \in w.installed : k.id = q /\ folder[q] = Whole(k)
      BY <2>1, <2>3, InitialFolders DEF Absent
    <3>2. k = folder[q].pkg
      BY <3>1 DEF Whole
    <3>3. PICK l \in w.installed : l.id = k.needs[i].id /\ ~Older(l.ver, k.needs[i].min)
      BY <2>3, <3>2, WorldsAssumption
    <3>4. folder[l.id] = Whole(l)
      BY <2>1, InitialFolders
    <3> QED BY <3>2, <3>3, <3>4 DEF Met, Whole, Readable
  <2>4. DependenciesHold
    BY <2>3 DEF DependenciesHold
  <2> QED BY <2>2, <2>4 DEF DependsInv, At
<1>2. TypeInv /\ TypeInv' /\ PlansInv /\ FoldersInv /\ DependsInv /\ [Next]_vars => DependsInv'
  <2> SUFFICES ASSUME TypeInv, TypeInv', PlansInv, FoldersInv, DependsInv, [Next]_vars PROVE DependsInv'
    OBVIOUS
  <2>1. ASSUME NEW c \in Callers, Prepares(c) \/ Carries(c) PROVE DependsInv'
    BY <2>1, PreparesDepends, CarryDepends
  <2>2. CASE Expire \/ Crash \/ UNCHANGED vars
    BY <2>2, OutsideDepends
  <2> QED BY <2>1, <2>2 DEF Next, Carries, Prepares
<1> QED BY <1>1, <1>2, TypeCorrect, PlansInvariant, FoldersInvariant, PTL DEF Spec

\* Types and the lock, what each plugin needs, and whose the packages are, at any moment.
THEOREM PluginsAreConsistent == Spec => []Consistent
<1>1. TypeInv => TypeOK
  <2> SUFFICES ASSUME TypeInv PROVE TypeOK
    OBVIOUS
  <2>1. \A c \in Callers : lock = c <=> Locks(call[c])
    BY DEF TypeInv, CallTypes
  <2>2. \A c \in Callers : (lock = c) = (call[c].pc \in {"accept", "resolve", "check", "runtime", "makeRuntime", "model",
          "fetchModel", "moveOld", "moveNew", "moveBack", "finish"} \/ (At(c, "reload") /\ call[c].op = "confirm"))
    BY <2>1 DEF Locks, Confirms, Installing, Preparing, Moving, At
  <2>3. \A p \in Plugins : (folder[p].parts = "none") = (folder[p].pkg = NoPackage)
    BY DEF TypeInv, FolderTypes, Holds
  <2> QED BY <2>2, <2>3 DEF TypeOK, TypeInv, FolderTypes, FolderState, Holds, PlanTypes
<1>2. DependsInv => DependenciesHold
  BY DEF DependsInv
<1>3. PlansInv => DirectoriesAreOwned
  BY DEF PlansInv
<1>4. TypeInv /\ PlansInv /\ DependsInv => Consistent
  BY <1>1, <1>2, <1>3 DEF Consistent
<1> QED BY <1>4, TypeCorrect, PlansInvariant, DependsInvariant, PTL
=============================================================================
