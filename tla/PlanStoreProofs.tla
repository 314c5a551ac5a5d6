----------------------------- MODULE PlanStoreProofs -----------------------------
(* Proofs about PlanStore, for every number of requests, plans and restarts. *)
EXTENDS PlanStore, TLAPS

-----------------------------------------------------------------------------
(* The store, the folders and the requests are always well typed. *)
THEOREM TypeCorrect == Spec => []TypeOK
<1> USE DEF Contents, Metadata, Entries, CreatePCs, UpdatePCs, WritePCs, ConfirmPCs,
     RemovePCs, PCs
<1>1. Init => TypeOK
  BY NoThreadAssumption DEF Init, TypeOK
<1>2. TypeOK /\ [Next]_vars => TypeOK'
  <2> SUFFICES ASSUME TypeOK, [Next]_vars PROVE TypeOK'
    OBVIOUS
  <2> USE DEF TypeOK, Goto, Return, Get, AfterGet, Accept, Forget, diskVars, loopVars,
       pastVars, planVars
  <2>1. ASSUME NEW t \in Threads, Request(t) PROVE TypeOK'
    <3>1. CASE CreateBegin(t)
      BY <3>1 DEF CreateBegin
    <3>2. ASSUME NEW p \in Plans, ConfirmGet(t, p) \/ CancelGet(t, p) \/ ExecuteGet(t, p)
          PROVE  TypeOK'
      BY <3>2 DEF ConfirmGet, CancelGet, ExecuteGet, Arrive, AfterGet
    <3> QED BY <2>1, <3>1, <3>2 DEF Request
  <2>2. ASSUME NEW t \in Threads, Step(t) PROVE TypeOK'
    <3>1. CASE CleanupRaises(t)
      BY <3>1 DEF CleanupRaises
    <3>2. CASE MakeFolderRaises(t)
      BY <3>2 DEF MakeFolderRaises
    <3>3. CASE CopyBegin(t)
      BY <3>3 DEF CopyBegin
    <3>4. CASE CopyEnd(t)
      BY <3>4 DEF CopyEnd
    <3>5. CASE Remember(t)
      BY <3>5 DEF Remember
    <3>6. CASE OpenTmp(t)
      <4>1. tmp' \in [Plans -> Metadata] BY <3>6 DEF OpenTmp
      <4> QED BY <3>6, <4>1 DEF OpenTmp
    <3>7. CASE WriteTmp(t)
      BY <3>7 DEF WriteTmp, Over, Text, StoreText
    <3>8. CASE ReplaceTmp(t)
      BY <3>8 DEF ReplaceTmp, Renamed
    <3>9. CASE ListFolder(t)
      BY <3>9 DEF ListFolder, Present
    <3>10. CASE RemoveFolder(t)
      BY <3>10 DEF RemoveFolder, Present
    <3>11. CASE ConsumeGet(t)
      BY <3>11 DEF ConsumeGet
    <3>12. CASE ConsumePop(t)
      BY <3>12 DEF ConsumePop
    <3>13. CASE ExtractPackage(t)
      BY <3>13 DEF ExtractPackage
    <3>14. CASE ActivatePackage(t)
      BY <3>14 DEF ActivatePackage
    <3>15. CASE RefreshPlugins(t)
      BY <3>15 DEF RefreshPlugins
    <3>16. CASE DeletePlan(t)
      BY <3>16 DEF DeletePlan
    <3>17. CASE ExecutePlan(t)
      BY <3>17 DEF ExecutePlan
    <3>18. CASE UpdateGet(t)
      BY <3>18 DEF UpdateGet
    <3>19. CASE UpdateSet(t)
      BY <3>19 DEF UpdateSet
    <3>20. ASSUME NEW p \in Plans, CleanupDelete(t, p) PROVE TypeOK'
      BY <3>20 DEF CleanupDelete
    <3>21. ASSUME NEW p \in Plans, MakeFolder(t, p) PROVE TypeOK'
      BY <3>21 DEF MakeFolder
    <3>22. ASSUME NEW e \in Entries, UnlinkEntry(t, e) PROVE TypeOK'
      BY <3>22 DEF UnlinkEntry
    <3> QED
      BY <2>2, <3>1, <3>2, <3>3, <3>4, <3>5, <3>6, <3>7, <3>8, <3>9, <3>10, <3>11,
           <3>12, <3>13, <3>14, <3>15, <3>16, <3>17, <3>18, <3>19, <3>20, <3>21,
           <3>22
         DEF Step
  <2>3. ASSUME NEW p \in Plans, Expire(p) PROVE TypeOK'
    BY <2>3 DEF Expire
  <2>4. ASSUME Restart PROVE TypeOK'
    BY <2>4 DEF Restart, Loadable
  <2>5. CASE UNCHANGED vars
    BY <2>5 DEF vars
  <2> QED BY <2>1, <2>2, <2>3, <2>4, <2>5 DEF Next
<1> QED
  BY <1>1, <1>2, PTL DEF Spec

-----------------------------------------------------------------------------
\* A plan that was made: its folder is there or was deleted.
Known(p) == folder[p] \/ p \in removed

\* create() runs in one thread at a time, and cleanup() is at its beginning.
OneCreates ==
    /\ creating \in Threads => pc[creating] \in CreatePCs \cup WritePCs \cup RemovePCs
    /\ \A t \in Threads : pc[t] \in CreatePCs => creating = t
    /\ doomed # {} => creating \in Threads /\ pc[creating] \in {"cleanup"} \cup RemovePCs
    /\ \A p \in doomed : Known(p) /\ p \in expired

\* Nobody works on a plan that was not made, and nothing of it exists.
UnknownIsNothing ==
    \A p \in Plans :
        \/ Known(p)
        \/ /\ mem[p] = "none" /\ archive[p] = "none" /\ meta[p] = "none"
           /\ tmp[p] = "none" /\ used[p] = 0
           /\ \A t \in Threads : ~Working(t, p)

ControlInv == OneCreates /\ UnknownIsNothing

-----------------------------------------------------------------------------
(* Who makes a plan, and that nobody knows one before. *)
THEOREM ControlInvariant == Spec => []ControlInv
<1> USE NoThreadAssumption DEF Contents, Metadata, Entries, CreatePCs, UpdatePCs,
     WritePCs, ConfirmPCs, RemovePCs, PCs
<1>1. Init => ControlInv
  BY DEF Init, ControlInv, OneCreates, UnknownIsNothing, Known, Working
<1>2. TypeOK /\ ControlInv /\ [Next]_vars => ControlInv'
  <2> SUFFICES ASSUME TypeOK, ControlInv, [Next]_vars PROVE ControlInv'
    OBVIOUS
  <2> USE DEF TypeOK, Goto, Return, Get, AfterGet, Accept, Forget, diskVars, loopVars,
       pastVars, planVars, ControlInv, OneCreates, UnknownIsNothing, Known, Working
  <2>1. ASSUME NEW t \in Threads, Request(t) PROVE ControlInv'
    <3>1. CASE CreateBegin(t)
      BY <3>1 DEF CreateBegin
    <3>2. ASSUME NEW p \in Plans, ConfirmGet(t, p) \/ CancelGet(t, p) \/ ExecuteGet(t, p)
          PROVE  ControlInv'
      BY <3>2 DEF ConfirmGet, CancelGet, ExecuteGet, Arrive, AfterGet
    <3> QED BY <2>1, <3>1, <3>2 DEF Request
  <2>2. ASSUME NEW t \in Threads, Step(t) PROVE ControlInv'
    <3>1. CASE CleanupRaises(t)
      BY <3>1 DEF CleanupRaises
    <3>2. CASE MakeFolderRaises(t)
      BY <3>2 DEF MakeFolderRaises
    <3>3. CASE CopyBegin(t)
      BY <3>3 DEF CopyBegin
    <3>4. CASE CopyEnd(t)
      BY <3>4 DEF CopyEnd
    <3>5. CASE Remember(t)
      BY <3>5 DEF Remember
    <3>6. CASE OpenTmp(t)
      BY <3>6 DEF OpenTmp
    <3>7. CASE WriteTmp(t)
      BY <3>7 DEF WriteTmp, Over, Text, StoreText
    <3>8. CASE ReplaceTmp(t)
      BY <3>8 DEF ReplaceTmp, Renamed
    <3>9. CASE ListFolder(t)
      BY <3>9 DEF ListFolder, Present
    <3>10. CASE RemoveFolder(t)
      BY <3>10 DEF RemoveFolder, Present
    <3>11. CASE ConsumeGet(t)
      BY <3>11 DEF ConsumeGet
    <3>12. CASE ConsumePop(t)
      BY <3>12 DEF ConsumePop
    <3>13. CASE ExtractPackage(t)
      BY <3>13 DEF ExtractPackage
    <3>14. CASE ActivatePackage(t)
      BY <3>14 DEF ActivatePackage
    <3>15. CASE RefreshPlugins(t)
      BY <3>15 DEF RefreshPlugins
    <3>16. CASE DeletePlan(t)
      BY <3>16 DEF DeletePlan
    <3>17. CASE ExecutePlan(t)
      BY <3>17 DEF ExecutePlan
    <3>18. CASE UpdateGet(t)
      BY <3>18 DEF UpdateGet
    <3>19. CASE UpdateSet(t)
      BY <3>19 DEF UpdateSet
    <3>20. ASSUME NEW p \in Plans, CleanupDelete(t, p) PROVE ControlInv'
      BY <3>20 DEF CleanupDelete
    <3>21. ASSUME NEW p \in Plans, MakeFolder(t, p) PROVE ControlInv'
      BY <3>21 DEF MakeFolder, Fresh
    <3>22. ASSUME NEW e \in Entries, UnlinkEntry(t, e) PROVE ControlInv'
      BY <3>22 DEF UnlinkEntry, Present
    <3> QED
      BY <2>2, <3>1, <3>2, <3>3, <3>4, <3>5, <3>6, <3>7, <3>8, <3>9, <3>10, <3>11,
           <3>12, <3>13, <3>14, <3>15, <3>16, <3>17, <3>18, <3>19, <3>20, <3>21,
           <3>22
         DEF Step
  <2>3. ASSUME NEW p \in Plans, Expire(p) PROVE ControlInv'
    BY <2>3 DEF Expire
  <2>4. ASSUME Restart PROVE ControlInv'
    BY <2>4 DEF Restart, Loadable
  <2>5. CASE UNCHANGED vars
    BY <2>5 DEF vars
  <2> QED BY <2>1, <2>2, <2>3, <2>4, <2>5 DEF Next
<1> QED
  BY <1>1, <1>2, TypeCorrect, PTL DEF Spec

-----------------------------------------------------------------------------
\* t makes a plan that nobody else knows yet.
Making(t) == creating = t /\ pc[t] \in {"mkdir", "copy", "remember"} \cup WritePCs

\* What is there of a plan that is being made, which one request works on.
MadeAlone ==
    \A t \in Threads : Making(t) =>
        LET p == plan[t] IN
        /\ folder[p] /\ p \notin removed /\ mem[p] = "none" /\ used[p] = 0
        /\ \A s \in Threads : Working(s, p) => s = t
        /\ pc[t] = "mkdir" => archive[p] = "none"
        /\ pc[t] \in {"mkdir", "copy"} => meta[p] = "none"
        /\ pc[t] \in {"remember"} \cup WritePCs => archive[p] = "whole"
        /\ pc[t] = "write" => file[t] = "tmp" /\ tmp[p] = "empty"
        /\ pc[t] = "replace" => tmp[p] \in Contents
        /\ pc[t] = "remember" => meta[p] \in Contents

-----------------------------------------------------------------------------
(* A plan that is being made has one request, and its files say how far that is. *)
THEOREM MakersWorkAlone == Spec => []MadeAlone
<1> USE NoThreadAssumption DEF Contents, Metadata, Entries, CreatePCs, UpdatePCs,
     WritePCs, ConfirmPCs, RemovePCs, PCs
<1>1. Init => MadeAlone
  BY DEF Init, ControlInv, OneCreates, UnknownIsNothing, Known, Working, MadeAlone, Making
<1>2. TypeOK /\ ControlInv /\ MadeAlone /\ [Next]_vars => MadeAlone'
  <2> SUFFICES ASSUME TypeOK, ControlInv, MadeAlone, [Next]_vars PROVE MadeAlone'
    OBVIOUS
  <2> USE DEF TypeOK, Goto, Return, Get, AfterGet, Accept, Forget, diskVars, loopVars,
       pastVars, planVars, ControlInv, OneCreates, UnknownIsNothing, Known, Working,
       MadeAlone, Making
  <2>1. ASSUME NEW t \in Threads, Request(t) PROVE MadeAlone'
    <3>1. CASE CreateBegin(t)
      BY <3>1 DEF CreateBegin
    <3>2. ASSUME NEW p \in Plans, ConfirmGet(t, p) \/ CancelGet(t, p) \/ ExecuteGet(t, p)
          PROVE  MadeAlone'
      BY <3>2 DEF ConfirmGet, CancelGet, ExecuteGet, Arrive, AfterGet
    <3> QED BY <2>1, <3>1, <3>2 DEF Request
  <2>2. ASSUME NEW t \in Threads, Step(t) PROVE MadeAlone'
    <3>1. CASE CleanupRaises(t)
      BY <3>1 DEF CleanupRaises
    <3>2. CASE MakeFolderRaises(t)
      BY <3>2 DEF MakeFolderRaises
    <3>3. CASE CopyBegin(t)
      BY <3>3 DEF CopyBegin
    <3>4. CASE CopyEnd(t)
      BY <3>4 DEF CopyEnd
    <3>5. CASE Remember(t)
      BY <3>5 DEF Remember
    <3>6. CASE OpenTmp(t)
      BY <3>6 DEF OpenTmp
    <3>7. CASE WriteTmp(t)
      BY <3>7 DEF WriteTmp, Over, Text, StoreText
    <3>8. CASE ReplaceTmp(t)
      BY <3>8 DEF ReplaceTmp, Renamed
    <3>9. CASE ListFolder(t)
      BY <3>9 DEF ListFolder, Present
    <3>10. CASE RemoveFolder(t)
      BY <3>10 DEF RemoveFolder, Present
    <3>11. CASE ConsumeGet(t)
      BY <3>11 DEF ConsumeGet
    <3>12. CASE ConsumePop(t)
      BY <3>12 DEF ConsumePop
    <3>13. CASE ExtractPackage(t)
      BY <3>13 DEF ExtractPackage
    <3>14. CASE ActivatePackage(t)
      BY <3>14 DEF ActivatePackage
    <3>15. CASE RefreshPlugins(t)
      BY <3>15 DEF RefreshPlugins
    <3>16. CASE DeletePlan(t)
      BY <3>16 DEF DeletePlan
    <3>17. CASE ExecutePlan(t)
      BY <3>17 DEF ExecutePlan
    <3>18. CASE UpdateGet(t)
      BY <3>18 DEF UpdateGet
    <3>19. CASE UpdateSet(t)
      BY <3>19 DEF UpdateSet
    <3>20. ASSUME NEW p \in Plans, CleanupDelete(t, p) PROVE MadeAlone'
      BY <3>20 DEF CleanupDelete
    <3>21. ASSUME NEW p \in Plans, MakeFolder(t, p) PROVE MadeAlone'
      BY <3>21 DEF MakeFolder, Fresh
    <3>22. ASSUME NEW e \in Entries, UnlinkEntry(t, e) PROVE MadeAlone'
      BY <3>22 DEF UnlinkEntry, Present
    <3> QED
      BY <2>2, <3>1, <3>2, <3>3, <3>4, <3>5, <3>6, <3>7, <3>8, <3>9, <3>10, <3>11,
           <3>12, <3>13, <3>14, <3>15, <3>16, <3>17, <3>18, <3>19, <3>20, <3>21,
           <3>22, SMTT(60)
         DEF Step
  <2>3. ASSUME NEW p \in Plans, Expire(p) PROVE MadeAlone'
    BY <2>3 DEF Expire
  <2>4. ASSUME Restart PROVE MadeAlone'
    BY <2>4 DEF Restart, Loadable
  <2>5. CASE UNCHANGED vars
    BY <2>5 DEF vars
  <2> QED BY <2>1, <2>2, <2>3, <2>4, <2>5 DEF Next
<1> QED
  BY <1>1, <1>2, TypeCorrect, ControlInvariant, PTL DEF Spec

-----------------------------------------------------------------------------
\* A package that is not complete is nobody's but its maker's.
PartialIsHidden ==
    \A p \in Plans : archive[p] = "partial" =>
        /\ mem[p] = "none" /\ meta[p] = "none" /\ p \notin doomed
        /\ \A t \in Threads : Working(t, p) => pc[t] = "copy"

\* A deletion under way has the package on its list.
PackageIsListed ==
    \A t \in Threads :
        pc[t] = "unlink" /\ archive[plan[t]] # "none" => "archive" \in todo[t]

RemovalInv == PartialIsHidden /\ PackageIsListed /\ RemovedIsFinal

-----------------------------------------------------------------------------
(* Packages that are incomplete, and packages that are being deleted. *)
THEOREM RemovalInvariant == Spec => []RemovalInv
<1> USE NoThreadAssumption DEF Contents, Metadata, Entries, CreatePCs, UpdatePCs,
     WritePCs, ConfirmPCs, RemovePCs, PCs
<1>1. Init => RemovalInv
  BY DEF Init, ControlInv, OneCreates, UnknownIsNothing, Known, Working, MadeAlone,
       Making, RemovalInv, PartialIsHidden, PackageIsListed, RemovedIsFinal
<1>2. TypeOK /\ ControlInv /\ MadeAlone /\ RemovalInv /\ [Next]_vars => RemovalInv'
  <2> SUFFICES ASSUME TypeOK, ControlInv, MadeAlone, RemovalInv, [Next]_vars
               PROVE  RemovalInv'
    OBVIOUS
  <2> USE DEF TypeOK, Goto, Return, Get, AfterGet, Accept, Forget, diskVars, loopVars,
       pastVars, planVars, ControlInv, OneCreates, UnknownIsNothing, Known, Working,
       MadeAlone, Making, RemovalInv, PartialIsHidden, PackageIsListed, RemovedIsFinal
  <2>1. ASSUME NEW t \in Threads, Request(t) PROVE RemovalInv'
    <3>1. CASE CreateBegin(t)
      BY <3>1 DEF CreateBegin
    <3>2. ASSUME NEW p \in Plans, ConfirmGet(t, p) \/ CancelGet(t, p) \/ ExecuteGet(t, p)
          PROVE  RemovalInv'
      BY <3>2 DEF ConfirmGet, CancelGet, ExecuteGet, Arrive, AfterGet
    <3> QED BY <2>1, <3>1, <3>2 DEF Request
  <2>2. ASSUME NEW t \in Threads, Step(t) PROVE RemovalInv'
    <3>1. CASE CleanupRaises(t)
      BY <3>1 DEF CleanupRaises
    <3>2. CASE MakeFolderRaises(t)
      BY <3>2 DEF MakeFolderRaises
    <3>3. CASE CopyBegin(t)
      BY <3>3 DEF CopyBegin
    <3>4. CASE CopyEnd(t)
      BY <3>4 DEF CopyEnd
    <3>5. CASE Remember(t)
      BY <3>5 DEF Remember
    <3>6. CASE OpenTmp(t)
      BY <3>6 DEF OpenTmp
    <3>7. CASE WriteTmp(t)
      BY <3>7 DEF WriteTmp, Over, Text, StoreText
    <3>8. CASE ReplaceTmp(t)
      BY <3>8 DEF ReplaceTmp, Renamed
    <3>9. CASE ListFolder(t)
      BY <3>9 DEF ListFolder, Present
    <3>10. CASE RemoveFolder(t)
      BY <3>10 DEF RemoveFolder, Present
    <3>11. CASE ConsumeGet(t)
      BY <3>11 DEF ConsumeGet
    <3>12. CASE ConsumePop(t)
      BY <3>12 DEF ConsumePop
    <3>13. CASE ExtractPackage(t)
      BY <3>13 DEF ExtractPackage
    <3>14. CASE ActivatePackage(t)
      BY <3>14 DEF ActivatePackage
    <3>15. CASE RefreshPlugins(t)
      BY <3>15 DEF RefreshPlugins
    <3>16. CASE DeletePlan(t)
      BY <3>16 DEF DeletePlan
    <3>17. CASE ExecutePlan(t)
      BY <3>17 DEF ExecutePlan
    <3>18. CASE UpdateGet(t)
      BY <3>18 DEF UpdateGet
    <3>19. CASE UpdateSet(t)
      BY <3>19 DEF UpdateSet
    <3>20. ASSUME NEW p \in Plans, CleanupDelete(t, p) PROVE RemovalInv'
      BY <3>20 DEF CleanupDelete
    <3>21. ASSUME NEW p \in Plans, MakeFolder(t, p) PROVE RemovalInv'
      BY <3>21 DEF MakeFolder, Fresh
    <3>22. ASSUME NEW e \in Entries, UnlinkEntry(t, e) PROVE RemovalInv'
      BY <3>22 DEF UnlinkEntry, Present
    <3> QED
      BY <2>2, <3>1, <3>2, <3>3, <3>4, <3>5, <3>6, <3>7, <3>8, <3>9, <3>10, <3>11,
           <3>12, <3>13, <3>14, <3>15, <3>16, <3>17, <3>18, <3>19, <3>20, <3>21,
           <3>22
         DEF Step
  <2>3. ASSUME NEW p \in Plans, Expire(p) PROVE RemovalInv'
    BY <2>3 DEF Expire
  <2>4. ASSUME Restart PROVE RemovalInv'
    BY <2>4 DEF Restart, Loadable
  <2>5. CASE UNCHANGED vars
    BY <2>5 DEF vars
  <2> QED BY <2>1, <2>2, <2>3, <2>4, <2>5 DEF Next
<1> QED
  BY <1>1, <1>2, TypeCorrect, ControlInvariant, MakersWorkAlone, PTL DEF Spec

(* RemovedIsFinal: a package that was deleted never exists again
   (plan_store.py, delete and finalize_consumed). *)
THEOREM RemovalIsFinal == Spec => []RemovedIsFinal
<1>1. RemovalInv => RemovedIsFinal
  BY DEF RemovalInv
<1> QED
  BY <1>1, RemovalInvariant, PTL

-----------------------------------------------------------------------------
(* NoPackageLeaks: every package has an offer, a request or a create() that
   raised (plan_store.py). *)
THEOREM PackagesDoNotLeak == Spec => []NoPackageLeaks
<1> USE NoThreadAssumption DEF Contents, Metadata, Entries, CreatePCs, UpdatePCs,
     WritePCs, ConfirmPCs, RemovePCs, PCs
<1>1. Init => NoPackageLeaks
  BY DEF Init, ControlInv, OneCreates, UnknownIsNothing, Known, Working, MadeAlone,
       Making, RemovalInv, PartialIsHidden, PackageIsListed, RemovedIsFinal,
       NoPackageLeaks, Owns
<1>2. TypeOK /\ ControlInv /\ MadeAlone /\ RemovalInv /\ NoPackageLeaks /\ [Next]_vars
        => NoPackageLeaks'
  <2> SUFFICES ASSUME TypeOK, ControlInv, MadeAlone, RemovalInv, NoPackageLeaks, [Next]_vars
               PROVE  NoPackageLeaks'
    OBVIOUS
  <2> USE DEF TypeOK, Goto, Return, Get, AfterGet, Accept, Forget, diskVars, loopVars,
       pastVars, planVars, ControlInv, OneCreates, UnknownIsNothing, Known, Working,
       MadeAlone, Making, RemovalInv, PartialIsHidden, PackageIsListed, RemovedIsFinal,
       NoPackageLeaks, Owns
  <2>1. ASSUME NEW t \in Threads, Request(t) PROVE NoPackageLeaks'
    <3>1. CASE CreateBegin(t)
      BY <3>1 DEF CreateBegin
    <3>2. ASSUME NEW p \in Plans, ConfirmGet(t, p) \/ CancelGet(t, p) \/ ExecuteGet(t, p)
          PROVE  NoPackageLeaks'
      BY <3>2 DEF ConfirmGet, CancelGet, ExecuteGet, Arrive, AfterGet
    <3> QED BY <2>1, <3>1, <3>2 DEF Request
  <2>2. ASSUME NEW t \in Threads, Step(t) PROVE NoPackageLeaks'
    <3>1. CASE CleanupRaises(t)
      BY <3>1 DEF CleanupRaises
    <3>2. CASE MakeFolderRaises(t)
      BY <3>2 DEF MakeFolderRaises
    <3>3. CASE CopyBegin(t)
      BY <3>3 DEF CopyBegin
    <3>4. CASE CopyEnd(t)
      BY <3>4 DEF CopyEnd
    <3>5. CASE Remember(t)
      BY <3>5 DEF Remember
    <3>6. CASE OpenTmp(t)
      BY <3>6 DEF OpenTmp
    <3>7. CASE WriteTmp(t)
      BY <3>7 DEF WriteTmp, Over, Text, StoreText
    <3>8. CASE ReplaceTmp(t)
      BY <3>8 DEF ReplaceTmp, Renamed
    <3>9. CASE ListFolder(t)
      BY <3>9 DEF ListFolder, Present
    <3>10. CASE RemoveFolder(t)
      BY <3>10 DEF RemoveFolder, Present
    <3>11. CASE ConsumeGet(t)
      BY <3>11 DEF ConsumeGet
    <3>12. CASE ConsumePop(t)
      BY <3>12 DEF ConsumePop
    <3>13. CASE ExtractPackage(t)
      BY <3>13 DEF ExtractPackage
    <3>14. CASE ActivatePackage(t)
      BY <3>14 DEF ActivatePackage
    <3>15. CASE RefreshPlugins(t)
      BY <3>15 DEF RefreshPlugins
    <3>16. CASE DeletePlan(t)
      BY <3>16 DEF DeletePlan
    <3>17. CASE ExecutePlan(t)
      BY <3>17 DEF ExecutePlan
    <3>18. CASE UpdateGet(t)
      BY <3>18 DEF UpdateGet
    <3>19. CASE UpdateSet(t)
      BY <3>19 DEF UpdateSet
    <3>20. ASSUME NEW p \in Plans, CleanupDelete(t, p) PROVE NoPackageLeaks'
      BY <3>20 DEF CleanupDelete
    <3>21. ASSUME NEW p \in Plans, MakeFolder(t, p) PROVE NoPackageLeaks'
      BY <3>21 DEF MakeFolder, Fresh
    <3>22. ASSUME NEW e \in Entries, UnlinkEntry(t, e) PROVE NoPackageLeaks'
      BY <3>22 DEF UnlinkEntry, Present
    <3> QED
      BY <2>2, <3>1, <3>2, <3>3, <3>4, <3>5, <3>6, <3>7, <3>8, <3>9, <3>10, <3>11,
           <3>12, <3>13, <3>14, <3>15, <3>16, <3>17, <3>18, <3>19, <3>20, <3>21,
           <3>22
         DEF Step
  <2>3. ASSUME NEW p \in Plans, Expire(p) PROVE NoPackageLeaks'
    BY <2>3 DEF Expire
  <2>4. ASSUME Restart PROVE NoPackageLeaks'
    BY <2>4 DEF Restart, Loadable
  <2>5. CASE UNCHANGED vars
    BY <2>5 DEF vars
  <2> QED BY <2>1, <2>2, <2>3, <2>4, <2>5 DEF Next
<1> QED
  BY <1>1, <1>2, TypeCorrect, ControlInvariant, MakersWorkAlone, RemovalInvariant, PTL
       DEF Spec

-----------------------------------------------------------------------------
\* A plan that a request will put back into memory has its package too.
UpdatedIsWhole ==
    \A p \in Plans, t \in Threads :
        Working(t, p) /\ pc[t] \in {"updateGet", "updateSet"} =>
            \/ archive[p] = "whole"
            \/ p \in removed
            \/ \E s \in Threads : Removing(s, p)

OfferInv == OfferedIsWhole /\ UpdatedIsWhole

-----------------------------------------------------------------------------
(* What is offered, or will be, is whole. *)
THEOREM OfferInvariant == Spec => []OfferInv
<1> USE NoThreadAssumption DEF Contents, Metadata, Entries, CreatePCs, UpdatePCs,
     WritePCs, ConfirmPCs, RemovePCs, PCs
<1>1. Init => OfferInv
  BY DEF Init, ControlInv, OneCreates, UnknownIsNothing, Known, Working, MadeAlone,
       Making, RemovalInv, PartialIsHidden, PackageIsListed, RemovedIsFinal, OfferInv,
       OfferedIsWhole, UpdatedIsWhole, Removing
<1>2. TypeOK /\ ControlInv /\ MadeAlone /\ RemovalInv /\ OfferInv /\ [Next]_vars
        => OfferInv'
  <2> SUFFICES ASSUME TypeOK, ControlInv, MadeAlone, RemovalInv, OfferInv, [Next]_vars
               PROVE  OfferInv'
    OBVIOUS
  <2> USE DEF TypeOK, Goto, Return, Get, AfterGet, Accept, Forget, diskVars, loopVars,
       pastVars, planVars, ControlInv, OneCreates, UnknownIsNothing, Known, Working,
       MadeAlone, Making, RemovalInv, PartialIsHidden, PackageIsListed, RemovedIsFinal,
       OfferInv, OfferedIsWhole, UpdatedIsWhole, Removing
  <2>1. ASSUME NEW t \in Threads, Request(t) PROVE OfferInv'
    <3>1. CASE CreateBegin(t)
      BY <3>1 DEF CreateBegin
    <3>2. ASSUME NEW p \in Plans, ConfirmGet(t, p) \/ CancelGet(t, p) \/ ExecuteGet(t, p)
          PROVE  OfferInv'
      BY SMTT(30), <3>2 DEF ConfirmGet, CancelGet, ExecuteGet, Arrive, AfterGet
    <3> QED BY <2>1, <3>1, <3>2 DEF Request
  <2>2. ASSUME NEW t \in Threads, Step(t) PROVE OfferInv'
    <3>1. CASE CleanupRaises(t)
      BY <3>1 DEF CleanupRaises
    <3>2. CASE MakeFolderRaises(t)
      BY <3>2 DEF MakeFolderRaises
    <3>3. CASE CopyBegin(t)
      BY <3>3 DEF CopyBegin
    <3>4. CASE CopyEnd(t)
      BY SMTT(30), <3>4 DEF CopyEnd
    <3>5. CASE Remember(t)
      BY <3>5 DEF Remember
    <3>6. CASE OpenTmp(t)
      <4>1. pc[t] = "open" /\ UNCHANGED <<mem, archive, removed, plan>>
        BY <3>6 DEF OpenTmp
      <4>2. \E l \in {"write", "idle"} : pc' = [pc EXCEPT ![t] = l]
        BY <3>6 DEF OpenTmp
      <4>3. pc \in [Threads -> PCs]
        OBVIOUS
      <4> HIDE DEF TypeOK, ControlInv, MadeAlone, RemovalInv
      <4> QED BY <4>1, <4>2, <4>3
    <3>7. CASE WriteTmp(t)
      <4>1. pc[t] = "write" /\ UNCHANGED <<mem, archive, removed, plan>>
        BY <3>7 DEF WriteTmp
      <4>2. \E l \in {"replace", "idle"} : pc' = [pc EXCEPT ![t] = l]
        BY <3>7 DEF WriteTmp
      <4>3. pc \in [Threads -> PCs]
        OBVIOUS
      <4> HIDE DEF TypeOK, ControlInv, MadeAlone, RemovalInv
      <4> QED BY <4>1, <4>2, <4>3
    <3>8. CASE ReplaceTmp(t)
      BY SMTT(30), <3>8 DEF ReplaceTmp, Renamed
    <3>9. CASE ListFolder(t)
      BY <3>9 DEF ListFolder, Present
    <3>10. CASE RemoveFolder(t)
      BY <3>10 DEF RemoveFolder, Present
    <3>11. CASE ConsumeGet(t)
      BY SMTT(30), <3>11 DEF ConsumeGet
    <3>12. CASE ConsumePop(t)
      BY <3>12 DEF ConsumePop
    <3>13. CASE ExtractPackage(t)
      BY SMTT(30), <3>13 DEF ExtractPackage
    <3>14. CASE ActivatePackage(t)
      <4>1. pc[t] = "activate" /\ UNCHANGED <<mem, archive, removed, plan>>
        BY <3>14 DEF ActivatePackage
      <4>2. \E l \in {"refresh", "list"} : pc' = [pc EXCEPT ![t] = l]
        BY <3>14 DEF ActivatePackage
      <4>3. pc \in [Threads -> PCs]
        OBVIOUS
      <4> HIDE DEF TypeOK, ControlInv, MadeAlone, RemovalInv
      <4> QED BY <4>1, <4>2, <4>3
    <3>15. CASE RefreshPlugins(t)
      BY <3>15 DEF RefreshPlugins
    <3>16. CASE DeletePlan(t)
      BY <3>16 DEF DeletePlan
    <3>17. CASE ExecutePlan(t)
      BY SMTT(30), <3>17 DEF ExecutePlan
    <3>18. CASE UpdateGet(t)
      BY <3>18, SMTT(60) DEF UpdateGet
    <3>19. CASE UpdateSet(t)
      BY <3>19 DEF UpdateSet
    <3>20. ASSUME NEW p \in Plans, CleanupDelete(t, p) PROVE OfferInv'
      BY <3>20 DEF CleanupDelete
    <3>21. ASSUME NEW p \in Plans, MakeFolder(t, p) PROVE OfferInv'
      BY <3>21 DEF MakeFolder, Fresh
    <3>22. ASSUME NEW e \in Entries, UnlinkEntry(t, e) PROVE OfferInv'
      BY <3>22 DEF UnlinkEntry, Present
    <3> QED
      BY <2>2, <3>1, <3>2, <3>3, <3>4, <3>5, <3>6, <3>7, <3>8, <3>9, <3>10, <3>11,
           <3>12, <3>13, <3>14, <3>15, <3>16, <3>17, <3>18, <3>19, <3>20, <3>21,
           <3>22
         DEF Step
  <2>3. ASSUME NEW p \in Plans, Expire(p) PROVE OfferInv'
    BY <2>3 DEF Expire
  <2>4. ASSUME Restart PROVE OfferInv'
    BY <2>4 DEF Restart, Loadable
  <2>5. CASE UNCHANGED vars
    BY <2>5 DEF vars
  <2> QED BY <2>1, <2>2, <2>3, <2>4, <2>5 DEF Next
<1> QED
  BY <1>1, <1>2, TypeCorrect, ControlInvariant, MakersWorkAlone, RemovalInvariant, PTL
       DEF Spec

-----------------------------------------------------------------------------
\* Of two requests about a plan that did not overlap one is a create() that
\* deletes it; and once its package was used in this run it is out of memory
\* and nobody will put it back.
UsedIsGone ==
    \A p \in Plans \ overlapped :
        /\ \A s, t \in Threads : Working(s, p) /\ Working(t, p) /\ s # t =>
              \/ creating = s /\ pc[s] \in RemovePCs
              \/ creating = t /\ pc[t] \in RemovePCs
        /\ \A t \in Threads : Working(t, p) /\ pc[t] \in {"extract", "activate"} =>
              mem[p] = "none" /\ used[p] <= restarts
        /\ used[p] > restarts =>
              /\ used[p] = restarts + 1 /\ mem[p] = "none"
              /\ \A t \in Threads : Working(t, p) => pc[t] \in {"refresh"} \cup RemovePCs

UseInv == UsedIsGone /\ UsedOncePerRun

-----------------------------------------------------------------------------
(* A plan whose requests did not overlap is used once in a run. *)
THEOREM UseInvariant == Spec => []UseInv
<1> USE NoThreadAssumption DEF Contents, Metadata, Entries, CreatePCs, UpdatePCs,
     WritePCs, ConfirmPCs, RemovePCs, PCs
<1>1. Init => UseInv
  BY DEF Init, ControlInv, OneCreates, UnknownIsNothing, Known, Working, MadeAlone,
       Making, UseInv, UsedIsGone, UsedOncePerRun
<1>2. TypeOK /\ ControlInv /\ MadeAlone /\ UseInv /\ [Next]_vars => UseInv'
  <2> SUFFICES ASSUME TypeOK, ControlInv, MadeAlone, UseInv, [Next]_vars PROVE UseInv'
    OBVIOUS
  <2> USE DEF TypeOK, Goto, Return, Get, AfterGet, Accept, Forget, diskVars, loopVars,
       pastVars, planVars, ControlInv, OneCreates, UnknownIsNothing, Known, Working,
       MadeAlone, Making, UseInv, UsedIsGone, UsedOncePerRun
  <2>1. ASSUME NEW t \in Threads, Request(t) PROVE UseInv'
    <3>1. CASE CreateBegin(t)
      BY <3>1 DEF CreateBegin
    <3>2. ASSUME NEW p \in Plans, ConfirmGet(t, p) \/ CancelGet(t, p) \/ ExecuteGet(t, p)
          PROVE  UseInv'
      BY SMTT(30), <3>2 DEF ConfirmGet, CancelGet, ExecuteGet, Arrive, AfterGet
    <3> QED BY <2>1, <3>1, <3>2 DEF Request
  <2>2. ASSUME NEW t \in Threads, Step(t) PROVE UseInv'
    <3>1. CASE CleanupRaises(t)
      BY <3>1 DEF CleanupRaises
    <3>2. CASE MakeFolderRaises(t)
      BY <3>2 DEF MakeFolderRaises
    <3>3. CASE CopyBegin(t)
      BY <3>3 DEF CopyBegin
    <3>4. CASE CopyEnd(t)
      <4>1. pc[t] = "copy" /\ UNCHANGED <<mem, overlapped, plan, used, restarts>>
        BY <3>4 DEF CopyEnd
      <4>2. \E l \in {"open", "idle"} : pc' = [pc EXCEPT ![t] = l]
        BY <3>4 DEF CopyEnd
      <4>3. creating' = creating \/ (creating = t /\ creating' = NoThread)
        BY <3>4 DEF CopyEnd
      <4>4. pc \in [Threads -> PCs]
        OBVIOUS
      <4> HIDE DEF TypeOK, ControlInv, MadeAlone
      <4> QED BY <4>1, <4>2, <4>3, <4>4
    <3>5. CASE Remember(t)
      BY <3>5 DEF Remember
    <3>6. CASE OpenTmp(t)
      <4>1. pc[t] = "open" /\ UNCHANGED <<mem, overlapped, plan, used, restarts>>
        BY <3>6 DEF OpenTmp
      <4>2. \E l \in {"write", "idle"} : pc' = [pc EXCEPT ![t] = l]
        BY <3>6 DEF OpenTmp
      <4>3. creating' = creating \/ (creating = t /\ creating' = NoThread)
        BY <3>6 DEF OpenTmp
      <4>4. pc \in [Threads -> PCs]
        OBVIOUS
      <4> HIDE DEF TypeOK, ControlInv, MadeAlone
      <4> QED BY <4>1, <4>2, <4>3, <4>4
    <3>7. CASE WriteTmp(t)
      <4>1. pc[t] = "write" /\ UNCHANGED <<mem, overlapped, plan, used, restarts>>
        BY <3>7 DEF WriteTmp
      <4>2. \E l \in {"replace", "idle"} : pc' = [pc EXCEPT ![t] = l]
        BY <3>7 DEF WriteTmp
      <4>3. creating' = creating \/ (creating = t /\ creating' = NoThread)
        BY <3>7 DEF WriteTmp
      <4>4. pc \in [Threads -> PCs]
        OBVIOUS
      <4> HIDE DEF TypeOK, ControlInv, MadeAlone
      <4> QED BY <4>1, <4>2, <4>3, <4>4
    <3>8. CASE ReplaceTmp(t)
      <4>1. pc[t] = "replace" /\ UNCHANGED <<mem, overlapped, plan, used, restarts>>
        BY <3>8 DEF ReplaceTmp
      <4>2. \E l \in {"remember", "idle"} : pc' = [pc EXCEPT ![t] = l]
        BY <3>8 DEF ReplaceTmp
      <4>3. creating' = creating \/ (creating = t /\ creating' = NoThread)
        BY <3>8 DEF ReplaceTmp
      <4>4. pc \in [Threads -> PCs]
        OBVIOUS
      <4> HIDE DEF TypeOK, ControlInv, MadeAlone
      <4> QED BY <4>1, <4>2, <4>3, <4>4
    <3>9. CASE ListFolder(t)
      BY <3>9 DEF ListFolder, Present
    <3>10. CASE RemoveFolder(t)
      BY <3>10 DEF RemoveFolder, Present
    <3>11. CASE ConsumeGet(t)
      BY <3>11, SMTT(60) DEF ConsumeGet
    <3>12. CASE ConsumePop(t)
      BY <3>12 DEF ConsumePop
    <3>13. CASE ExtractPackage(t)
      BY <3>13, SMTT(60) DEF ExtractPackage
    <3>14. CASE ActivatePackage(t)
      <4>1. pc[t] = "activate" /\ UNCHANGED <<mem, overlapped, plan, creating, restarts>>
        BY <3>14 DEF ActivatePackage
      <4>2. /\ pc \in [Threads -> PCs] /\ used \in [Plans -> Nat] /\ restarts \in Nat
            /\ plan[t] \in Plans
        OBVIOUS
      <4>3. \/ pc' = [pc EXCEPT ![t] = "refresh"] /\ used' = [used EXCEPT ![plan[t]] = @ + 1]
            \/ pc' = [pc EXCEPT ![t] = "list"] /\ used' = used
        BY <3>14 DEF ActivatePackage
      <4> HIDE DEF TypeOK, ControlInv, MadeAlone
      <4>4. CASE pc' = [pc EXCEPT ![t] = "list"] /\ used' = used
        BY <4>1, <4>2, <4>4
      <4>5. CASE pc' = [pc EXCEPT ![t] = "refresh"] /\ used' = [used EXCEPT ![plan[t]] = @ + 1]
        <5>1. \A p \in Plans : p # plan[t] => used'[p] = used[p]
          BY <4>2, <4>5
        <5>2. used'[plan[t]] = used[plan[t]] + 1
          BY <4>2, <4>5
        <5>3. \A s \in Threads : pc'[s] = IF s = t THEN "refresh" ELSE pc[s]
          BY <4>2, <4>5
        <5>4. UsedIsGone'
          BY <4>1, <4>2, <5>1, <5>2, <5>3
        <5>5. UsedOncePerRun'
          BY <4>1, <4>2, <5>1, <5>2
        <5> QED BY <5>4, <5>5
      <4> QED BY <4>3, <4>4, <4>5
    <3>15. CASE RefreshPlugins(t)
      BY <3>15 DEF RefreshPlugins
    <3>16. CASE DeletePlan(t)
      BY <3>16 DEF DeletePlan
    <3>17. CASE ExecutePlan(t)
      BY <3>17 DEF ExecutePlan
    <3>18. CASE UpdateGet(t)
      BY <3>18 DEF UpdateGet
    <3>19. CASE UpdateSet(t)
      BY <3>19, SMTT(60) DEF UpdateSet
    <3>20. ASSUME NEW p \in Plans, CleanupDelete(t, p) PROVE UseInv'
      BY <3>20 DEF CleanupDelete
    <3>21. ASSUME NEW p \in Plans, MakeFolder(t, p) PROVE UseInv'
      BY <3>21 DEF MakeFolder, Fresh
    <3>22. ASSUME NEW e \in Entries, UnlinkEntry(t, e) PROVE UseInv'
      BY <3>22 DEF UnlinkEntry, Present
    <3> QED
      BY <2>2, <3>1, <3>2, <3>3, <3>4, <3>5, <3>6, <3>7, <3>8, <3>9, <3>10, <3>11,
           <3>12, <3>13, <3>14, <3>15, <3>16, <3>17, <3>18, <3>19, <3>20, <3>21,
           <3>22, SMTT(60)
         DEF Step
  <2>3. ASSUME NEW p \in Plans, Expire(p) PROVE UseInv'
    BY <2>3 DEF Expire
  <2>4. ASSUME Restart PROVE UseInv'
    BY <2>4 DEF Restart, Loadable
  <2>5. CASE UNCHANGED vars
    BY <2>5 DEF vars
  <2> QED BY <2>1, <2>2, <2>3, <2>4, <2>5 DEF Next
<1> QED
  BY <1>1, <1>2, TypeCorrect, ControlInvariant, MakersWorkAlone, PTL DEF Spec

-----------------------------------------------------------------------------
\* A plan that did not expire, about which no requests overlapped, has in its
\* folder what load() needs as long as it is in memory.
OfferedIsLoadable ==
    \A p \in Plans \ (overlapped \cup expired) :
        /\ \A s, t \in Threads : Working(s, p) /\ Working(t, p) => s = t
        /\ mem[p] # "none" => folder[p] /\ meta[p] \in Contents /\ archive[p] # "none"
        /\ \A t \in Threads : Working(t, p) =>
              /\ pc[t] \in {"extract", "activate", "refresh"} \cup RemovePCs => mem[p] = "none"
              /\ pc[t] = "updateSet" => mem[p] # "none"
              /\ pc[t] = "write" => file[t] = "tmp" /\ tmp[p] = "empty"
              /\ pc[t] = "replace" => tmp[p] \in Contents

-----------------------------------------------------------------------------
(* What load() needs is there while a plan is offered. *)
THEOREM OffersAreLoadable == Spec => []OfferedIsLoadable
<1> USE NoThreadAssumption DEF Contents, Metadata, Entries, CreatePCs, UpdatePCs,
     WritePCs, ConfirmPCs, RemovePCs, PCs
<1>1. Init => OfferedIsLoadable
  BY DEF Init, ControlInv, OneCreates, UnknownIsNothing, Known, Working, MadeAlone,
       Making, OfferedIsLoadable
<1>2. TypeOK /\ ControlInv /\ MadeAlone /\ OfferedIsLoadable /\ [Next]_vars
        => OfferedIsLoadable'
  <2> SUFFICES ASSUME TypeOK, ControlInv, MadeAlone, OfferedIsLoadable, [Next]_vars
               PROVE  OfferedIsLoadable'
    OBVIOUS
  <2> USE DEF TypeOK, Goto, Return, Get, AfterGet, Accept, Forget, diskVars, loopVars,
       pastVars, planVars, ControlInv, OneCreates, UnknownIsNothing, Known, Working,
       MadeAlone, Making, OfferedIsLoadable
  <2>1. ASSUME NEW t \in Threads, Request(t) PROVE OfferedIsLoadable'
    <3>1. CASE CreateBegin(t)
      BY <3>1 DEF CreateBegin
    <3>2. ASSUME NEW p \in Plans, ConfirmGet(t, p) \/ CancelGet(t, p) \/ ExecuteGet(t, p)
          PROVE  OfferedIsLoadable'
      BY SMTT(30), <3>2 DEF ConfirmGet, CancelGet, ExecuteGet, Arrive, AfterGet
    <3> QED BY <2>1, <3>1, <3>2 DEF Request
  <2>2. ASSUME NEW t \in Threads, Step(t) PROVE OfferedIsLoadable'
    <3>1. CASE CleanupRaises(t)
      BY <3>1 DEF CleanupRaises
    <3>2. CASE MakeFolderRaises(t)
      BY <3>2 DEF MakeFolderRaises
    <3>3. CASE CopyBegin(t)
      BY <3>3 DEF CopyBegin
    <3>4. CASE CopyEnd(t)
      BY SMTT(30), <3>4 DEF CopyEnd
    <3>5. CASE Remember(t)
      BY <3>5 DEF Remember
    <3>6. CASE OpenTmp(t)
      <4>1. pc[t] = "open" /\ UNCHANGED <<mem, folder, meta, archive, overlapped, expired, plan>>
        BY <3>6 DEF OpenTmp
      <4>2. \/ /\ pc' = [pc EXCEPT ![t] = "write"]
               /\ tmp' = [tmp EXCEPT ![plan[t]] = "empty"]
               /\ file' = [file EXCEPT ![t] = "tmp"]
            \/ /\ pc' = [pc EXCEPT ![t] = "idle"]
               /\ UNCHANGED tmp
               /\ file' = [file EXCEPT ![t] = "gone"]
        BY <3>6 DEF OpenTmp
      <4>3. /\ pc \in [Threads -> PCs] /\ plan \in [Threads -> Plans]
            /\ tmp \in [Plans -> Metadata] /\ file \in [Threads -> {"tmp", "meta", "gone"}]
        OBVIOUS
      <4> HIDE DEF TypeOK, ControlInv, MadeAlone, Metadata
      <4> QED BY <4>1, <4>2, <4>3
    <3>7. CASE WriteTmp(t)
      <4> DEFINE q == plan[t]
      <4>1. pc[t] = "write" /\ UNCHANGED <<mem, folder, archive, overlapped, expired, plan>>
        BY <3>7 DEF WriteTmp
      <4>2. /\ pc \in [Threads -> PCs] /\ plan \in [Threads -> Plans] /\ content[t] \in Contents
            /\ tmp \in [Plans -> Metadata] /\ file \in [Threads -> {"tmp", "meta", "gone"}]
            /\ meta \in [Plans -> Metadata] /\ q \in Plans
        OBVIOUS
      <4>3. \A p \in Plans : p # q => tmp'[p] = tmp[p] /\ meta'[p] = meta[p]
        BY <3>7, <4>2 DEF WriteTmp, StoreText
      <4>4. file' = [file EXCEPT ![t] = "gone"]
        BY <3>7 DEF WriteTmp
      <4>5. pc' = [pc EXCEPT ![t] = "replace"] \/ pc' = [pc EXCEPT ![t] = "idle"]
        BY <3>7 DEF WriteTmp
      <4>6. q \notin overlapped \cup expired => file[t] = "tmp" /\ tmp[q] = "empty"
        BY <4>1, <4>2
      <4>7. file[t] = "tmp" => meta' = meta
        BY <3>7 DEF WriteTmp, StoreText
      <4>8. file[t] = "tmp" /\ tmp[q] = "empty" /\ pc' = [pc EXCEPT ![t] = "replace"]
              => tmp'[q] \in Contents
        BY <3>7, <4>2 DEF WriteTmp, StoreText, Over, Text
      <4> HIDE DEF TypeOK, ControlInv, MadeAlone, Metadata
      <4> QED BY <4>1, <4>2, <4>3, <4>4, <4>5, <4>6, <4>7, <4>8
    <3>8. CASE ReplaceTmp(t)
      <4> DEFINE q == plan[t]
      <4>1. pc[t] = "replace" /\ UNCHANGED <<mem, folder, archive, overlapped, expired, plan>>
        BY <3>8 DEF ReplaceTmp
      <4>2. /\ pc \in [Threads -> PCs] /\ plan \in [Threads -> Plans]
            /\ tmp \in [Plans -> Metadata] /\ file \in [Threads -> {"tmp", "meta", "gone"}]
            /\ meta \in [Plans -> Metadata] /\ q \in Plans
        OBVIOUS
      <4>3. \A p \in Plans : p # q => tmp'[p] = tmp[p] /\ meta'[p] = meta[p]
        BY <3>8, <4>2 DEF ReplaceTmp
      <4>4. \A s \in Threads : s # t /\ plan[s] # q => file'[s] = file[s]
        BY <3>8, <4>2 DEF ReplaceTmp, Renamed
      <4>5. pc' = [pc EXCEPT ![t] = "remember"] \/ pc' = [pc EXCEPT ![t] = "idle"]
        BY <3>8 DEF ReplaceTmp
      <4>6. q \notin overlapped \cup expired => tmp[q] \in Contents
        BY <4>1, <4>2
      <4>7. tmp[q] \in Contents => meta'[q] \in Contents
        BY <3>8, <4>2 DEF ReplaceTmp
      <4> HIDE DEF TypeOK, ControlInv, MadeAlone, Metadata
      <4> QED BY <4>1, <4>2, <4>3, <4>4, <4>5, <4>6, <4>7
    <3>9. CASE ListFolder(t)
      BY <3>9 DEF ListFolder, Present
    <3>10. CASE RemoveFolder(t)
      BY <3>10 DEF RemoveFolder, Present
    <3>11. CASE ConsumeGet(t)
      BY <3>11 DEF ConsumeGet
    <3>12. CASE ConsumePop(t)
      BY <3>12 DEF ConsumePop
    <3>13. CASE ExtractPackage(t)
      BY SMTT(30), <3>13 DEF ExtractPackage
    <3>14. CASE ActivatePackage(t)
      BY SMTT(30), <3>14 DEF ActivatePackage
    <3>15. CASE RefreshPlugins(t)
      BY <3>15 DEF RefreshPlugins
    <3>16. CASE DeletePlan(t)
      BY <3>16 DEF DeletePlan
    <3>17. CASE ExecutePlan(t)
      BY <3>17 DEF ExecutePlan
    <3>18. CASE UpdateGet(t)
      BY <3>18 DEF UpdateGet
    <3>19. CASE UpdateSet(t)
      BY <3>19 DEF UpdateSet
    <3>20. ASSUME NEW p \in Plans, CleanupDelete(t, p) PROVE OfferedIsLoadable'
      BY <3>20 DEF CleanupDelete
    <3>21. ASSUME NEW p \in Plans, MakeFolder(t, p) PROVE OfferedIsLoadable'
      BY <3>21 DEF MakeFolder, Fresh
    <3>22. ASSUME NEW e \in Entries, UnlinkEntry(t, e) PROVE OfferedIsLoadable'
      BY <3>22 DEF UnlinkEntry, Present
    <3> QED
      BY <2>2, <3>1, <3>2, <3>3, <3>4, <3>5, <3>6, <3>7, <3>8, <3>9, <3>10, <3>11,
           <3>12, <3>13, <3>14, <3>15, <3>16, <3>17, <3>18, <3>19, <3>20, <3>21,
           <3>22, SMTT(60)
         DEF Step
  <2>3. ASSUME NEW p \in Plans, Expire(p) PROVE OfferedIsLoadable'
    BY <2>3 DEF Expire
  <2>4. ASSUME Restart PROVE OfferedIsLoadable'
    BY <2>4 DEF Restart, Loadable
  <2>5. CASE UNCHANGED vars
    BY <2>5 DEF vars
  <2> QED BY <2>1, <2>2, <2>3, <2>4, <2>5 DEF Next
<1> QED
  BY <1>1, <1>2, TypeCorrect, ControlInvariant, MakersWorkAlone, PTL DEF Spec

-----------------------------------------------------------------------------
(* Consistent: the types, what is offered is whole, and a plan whose requests
   did not overlap is used at most once in a run of the service
   (plan_store.py; plugin_plans.py, confirm). *)
THEOREM StoreIsConsistent == Spec => []Consistent
<1>1. TypeOK /\ OfferInv /\ UseInv => Consistent
  BY DEF OfferInv, UseInv, Consistent
<1> QED
  BY <1>1, TypeCorrect, OfferInvariant, UseInvariant, PTL

(* OfferedSurvivesRestart: load() offers a plan again that nobody was working
   on when the service stopped (plan_store.py, load). *)
THEOREM OffersSurvive == Spec => OfferedSurvivesRestart
<1> DEFINE Survive ==
      \A p \in Plans \ overlapped :
          /\ restarts' # restarts
          /\ mem[p] # "none" /\ p \notin expired
          /\ \A t \in Threads : ~Working(t, p)
          => mem'[p] # "none"
<1>1. TypeOK /\ OfferedIsLoadable /\ [Next]_vars => [Survive]_vars
  <2> SUFFICES ASSUME TypeOK, OfferedIsLoadable, [Next]_vars,
                      NEW p \in Plans \ overlapped,
                      restarts' # restarts, mem[p] # "none", p \notin expired
               PROVE  mem'[p] # "none"
    OBVIOUS
  <2>1. CASE Restart
    <3>1. p \in Loadable /\ meta[p] # "none"
      BY DEF OfferedIsLoadable, Loadable, Contents
    <3> QED
      BY <2>1, <3>1 DEF Restart
  <2>2. ASSUME NEW t \in Threads, Request(t) PROVE FALSE
    BY <2>2 DEF Request, CreateBegin, ConfirmGet, CancelGet, ExecuteGet, pastVars
  <2>3. ASSUME NEW t \in Threads, Step(t) PROVE FALSE
    BY <2>3 DEF Step, CleanupRaises, MakeFolderRaises, CopyBegin, CopyEnd, Remember,
       OpenTmp, WriteTmp, ReplaceTmp, ListFolder, RemoveFolder, ConsumeGet, ConsumePop,
       ExtractPackage, ActivatePackage, RefreshPlugins, DeletePlan, ExecutePlan,
       UpdateGet, UpdateSet, CleanupDelete, MakeFolder, UnlinkEntry, pastVars
  <2>4. ASSUME NEW q \in Plans, Expire(q) PROVE FALSE
    BY <2>4 DEF Expire, pastVars
  <2>5. CASE UNCHANGED vars
    BY <2>5 DEF vars, pastVars
  <2> QED
    BY <2>1, <2>2, <2>3, <2>4, <2>5 DEF Next
<1> QED
  BY <1>1, TypeCorrect, OffersAreLoadable, PTL DEF Spec, OfferedSurvivesRestart
=============================================================================
