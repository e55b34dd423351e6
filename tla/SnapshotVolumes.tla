---------------------------- MODULE SnapshotVolumes ----------------------------
(***************************************************************************)
(* The resources of every PVC, the storage, the status that the request    *)
(* records for the PVC, the status a reconciliation is about to record,    *)
(* and the saved snapshots: how SnapshotController relates them, and what  *)
(* the CSI controller and one turn of each loop make of that.              *)
(***************************************************************************)
EXTENDS SnapshotInvariant

\* Resources of a PVC: its snapshot is being taken and nothing is deleted; it has been taken, and
\* nothing that would take it along is deleted; it has been cleaned up.
Untouched(x) ==
    /\ x.vs # None => ~x.vs.deleting
    /\ x.dynamic # None => ~x.dynamic.deleting /\ x.vs # None /\ x.vs.bound
Safe(x) ==
    /\ x.vs # None => x.vs.bound
    /\ x.dynamic # None =>
         /\ x.dynamic.state = "ready"
         /\ x.dynamic.policy = "Delete" => ~x.dynamic.deleting /\ x.vs # None /\ ~x.vs.deleting
Sealed(x) ==
    /\ x.vs = None
    /\ x.dynamic # None => x.dynamic.policy = "Retain" /\ x.dynamic.state = "ready"

\* Resources of a creating and of a deleting request.
ClaimShape(h, x, live) ==
    /\ x.named = None
    /\ x.vs # None => x.vs.source = "claim"
    /\ x.dynamic # None =>
         /\ x.dynamic.state = "ready" => x.dynamic.handle = h
         /\ x.dynamic.handle # None => x.dynamic.handle = h /\ h \in live
ContentShape(x, ask) ==
    /\ Preprovisioned(x)
    /\ x.named # None => x.named.handle \in ask \cup {None}

\* The handle of a status is that of the PVC, and its snapshot is kept: it is in the storage
\* or some client has asked for its deletion.
HandleKept(h, s, live) == s.handle = h /\ h \in live
\* The resources of a PVC match the status recorded for it.
Progress(h, x, s, live) ==
    /\ s = None \/ s.phase \in {"NotStarted", "InProgress"} => Untouched(x)
    /\ s # None /\ s.phase = "CompletedCleaningUp" => Safe(x) /\ HandleKept(h, s, live)
Preserved(h, x, s, live) == s # None /\ s.phase = "Completed" => Sealed(x) /\ HandleKept(h, s, live)

\* The same for all PVCs of a request; after its first phases only Completed counts.
Progressing(r, d, all, live) ==
    d.phase \in Early => \A p \in PVCs : Progress(<<r, p>>, all[r][p], d.snapshots[p], live)
Kept(r, d, all, live) == \A p \in PVCs : Preserved(<<r, p>>, all[r][p], d.snapshots[p], live)
DataKept(r, d, all, live) == Progressing(r, d, all, live) /\ Kept(r, d, all, live)

\* A creating request that has left its first phases does not go back to them.
Past(r) == cms[r] # None /\ (Exists(r) => Phase(r) \notin Early)

\* The snapshot h is gone from the storage, or goes with the content that stands for it.
WillGo(x, h, stored) ==
    /\ x.named # None => x.named.handle = h /\ x.named.policy = "Delete" /\ x.vs # None
    /\ x.named = None => h \notin stored
PreGo(x, h) == x.named # None => x.named.handle = h /\ x.named.policy = "Delete"

\* What a deleting request records for a PVC is so.
Going(x, s, stored, ask) ==
    /\ s.handle \in ask \cup {None}
    /\ s.phase = "Completed" => PreGo(x, s.handle)
    /\ s.phase = "Deleting" => WillGo(x, s.handle, stored)
    /\ s.phase = "Deleted" => s.handle \notin stored
\* What is to be deleted comes from a creating request that is through with it.
Origin(p, s, all) ==
    s.phase # "Failed" => \E b \in Creates : s.handle = <<b, p>> /\ Sealed(all[b][p]) /\ Past(b)
DataGoing(r, d, ask) ==
    \A p \in d.requests : Going(res[r][p], d.snapshots[p], storage, ask) /\ Origin(p, d.snapshots[p], res)

\* For one creating request, one saved snapshot and one deleting request.
CreateKept(r) ==
    /\ \A p \in PVCs : ClaimShape(<<r, p>>, res[r][p], storage \cup asked)
    /\ Exists(r) => DataKept(r, cms[r].data, res, storage \cup asked)
    /\ run # Idle /\ run.req = r => DataKept(r, run.data, res, storage \cup asked)

SaveKept(b) == Past(b.by) /\ Kept(b.by, b.data, res, storage \cup asked)

DeleteKept(r) ==
    /\ \A p \in PVCs : ContentShape(res[r][p], asked)
    /\ drafts[r] # None => DataGoing(r, drafts[r], asked)
    /\ Exists(r) => DataGoing(r, cms[r].data, asked)
    /\ run # Idle /\ run.req = r => DataGoing(r, run.data, asked)

\* The resources and the storage are as the requests and the saved snapshots say.
Volumes ==
    /\ \A r \in Requests, p \in PVCs : cms[r] = None => res[r][p] = NoResources
    /\ \A r \in Creates : CreateKept(r)
    /\ \A r \in Deletes : DeleteKept(r)
    /\ \A u \in URLs : backups[u] # None => SaveKept(backups[u])
    /\ \A b \in uploads : SaveKept(b)

-----------------------------------------------------------------------------
(* The CSI controller.                                                       *)

\* Only what leaves the storage leaves the handles that count as kept.
Lasts(live, more, before, after) == live \subseteq before \cup more /\ after \subseteq more

\* Resources stay untouched, safe or sealed, and no other snapshot comes or goes.
CSIKept(h, x, y, before, after, more) ==
    /\ ClaimShape(h, y, more)
    /\ Untouched(x) => Untouched(y)
    /\ Safe(x) => Safe(y) /\ before \subseteq after
    /\ Sealed(x) => Sealed(y) /\ after = before
    /\ \A g \in before : g # h => g \in after
    /\ \A g \in after : g # h => g \in before

\* The CSI controller and the resources of a PVC of a creating request: it takes no snapshot from
\* the storage that is Safe or Sealed.
LEMMA CSIKeeps ==
    ASSUME NEW r \in Creates, NEW p \in PVCs, NEW x \in Resources, NEW y \in Resources,
           NEW before \in SUBSET Handles, NEW after, NEW live, NEW more, Lasts(live, more, before, after),
           CSIEffect(r, p, x, y, before, after), ClaimShape(<<r, p>>, x, live)
    PROVE  CSIKept(<<r, p>>, x, y, before, after, more)
  <1> USE DEF CSIKept
  <1>0. /\ x.vs \in VolumeSnapshots \cup {None} /\ x.dynamic \in Contents \cup {None}
        /\ y.vs \in VolumeSnapshots \cup {None} /\ y.dynamic \in Contents \cup {None}
        /\ None \notin VolumeSnapshots /\ None \notin Contents /\ None \notin Handles
    BY NoneIsNoResource, NoneIsNoHandle DEF Resources
  <1>a. x.named = None
    BY DEF ClaimShape
  <1>b. /\ <<r, p>> \in Handles /\ <<r, p>> # None
    BY <1>0, HandlesNameClaims
  <1>1. CASE Bound(x, y) /\ after = before
    <2>1. /\ y.vs # None /\ y.vs.bound /\ ~y.vs.deleting /\ y.vs.source = "claim" /\ y.dynamic # None
      BY Zenon, <1>0, <1>1 DEF Bound, VolumeSnapshots
    <2> QED BY <1>0, <1>1, <2>1 DEF Bound, ClaimShape, Untouched, Safe, Sealed, Lasts
  <1>2. CASE Reported(x, y) /\ after = before
    <2>1. /\ y.vs # None /\ y.vs.bound = x.vs.bound /\ y.vs.deleting = x.vs.deleting /\ y.vs.source = x.vs.source
      BY <1>0, <1>2 DEF Reported, VolumeSnapshots
    <2> QED BY <1>2, <2>1 DEF Reported, ClaimShape, Untouched, Safe, Sealed, Lasts
  <1>3. CASE Erred(x, y) /\ after = before
    <2>1. /\ y.dynamic # None /\ y.dynamic.handle = x.dynamic.handle /\ (y.dynamic.deleting <=> x.dynamic.deleting)
          /\ y.dynamic.state = "error" /\ y.vs = x.vs /\ y.named = x.named /\ x.dynamic.state = "unset" /\ x.dynamic # None
      BY <1>0, <1>3 DEF Erred, Contents, States
    <2> QED BY <1>3, <2>1 DEF ClaimShape, Untouched, Safe, Sealed, Lasts
  <1>4. CASE ContentDeleting(x, y) /\ after = before
    <2>1. /\ x.vs # None /\ x.vs.deleting /\ y.vs = x.vs /\ y.named = x.named
          /\ x.dynamic # None /\ x.dynamic.policy = "Delete"
          /\ y.dynamic # None /\ y.dynamic.handle = x.dynamic.handle /\ y.dynamic.state = x.dynamic.state
      BY Zenon, <1>0, <1>4, <1>a DEF ContentDeleting, Contents
    <2> QED BY <1>4, <2>1 DEF ClaimShape, Untouched, Safe, Sealed, Lasts
  <1>5. CASE SnapshotRemoved(x, y) /\ after = before
    <2>1. /\ x.vs # None /\ x.vs.deleting /\ y.vs = None /\ y.dynamic = x.dynamic /\ y.named = x.named
          /\ x.vs.source = "claim"
          /\ x.vs.bound /\ x.dynamic # None => x.dynamic.policy = "Retain"
      BY <1>5 DEF SnapshotRemoved, ClaimShape
    <2> QED BY <1>5, <2>1 DEF ClaimShape, Untouched, Safe, Sealed, Lasts
  <1>6. CASE Snapshotted(x, y, <<r, p>>) /\ after = before \cup {<<r, p>>}
    <2>1. /\ y.dynamic # None /\ y.dynamic.handle = <<r, p>> /\ (y.dynamic.deleting <=> x.dynamic.deleting)
          /\ y.vs = x.vs /\ y.named = x.named /\ x.dynamic.state # "ready" /\ x.dynamic # None
      BY ZenonT(30), <1>0, <1>b, <1>6 DEF Snapshotted, Contents, States
    <2> QED BY <1>6, <2>1 DEF ClaimShape, Untouched, Safe, Sealed, Lasts
  <1>7. CASE ContentRemoved(x, y, before, after)
    <2>1. /\ x.dynamic # None /\ x.dynamic.deleting /\ y.dynamic = None /\ y.named = x.named /\ y.vs = x.vs
          /\ after = IF x.dynamic.policy = "Delete" THEN before \ {x.dynamic.handle} ELSE before
      BY <1>7, <1>a DEF ContentRemoved
    <2>2. x.dynamic.handle = None \/ x.dynamic.handle = <<r, p>>
      BY <2>1 DEF ClaimShape
    <2> QED BY <1>0, <2>1, <2>2 DEF ClaimShape, Untouched, Safe, Sealed, Lasts
  <1> QED BY <1>1, <1>2, <1>3, <1>4, <1>5, <1>6, <1>7 DEF CSIEffect

\* The CSI controller and the resources of a PVC of a deleting request: it removes from the storage
\* only what some client has asked to delete.
LEMMA CSIDeletes ==
    ASSUME NEW r \in Requests, NEW p \in PVCs, NEW x \in Resources, NEW y \in Resources,
           NEW before, NEW after, NEW ask,
           CSIEffect(r, p, x, y, before, after), ContentShape(x, ask)
    PROVE  /\ ContentShape(y, ask)
           /\ \A h \in before : h \notin ask \cup {None} => h \in after
           /\ after \subseteq before
           /\ \A h : PreGo(x, h) => PreGo(y, h)
           /\ \A h : WillGo(x, h, before) => WillGo(y, h, after)
  <1>0. /\ x.vs \in VolumeSnapshots \cup {None} /\ x.named \in Contents \cup {None}
        /\ y.vs \in VolumeSnapshots \cup {None} /\ y.named \in Contents \cup {None}
        /\ None \notin VolumeSnapshots /\ None \notin Contents
    BY NoneIsNoResource DEF Resources
  <1>a. x.dynamic = None /\ (x.vs # None => x.vs.source = "content")
    BY DEF ContentShape, Preprovisioned
  <1>2. CASE Reported(x, y) /\ after = before
    <2>1. /\ y.vs # None /\ x.vs # None /\ y.vs.source = x.vs.source
          /\ y.dynamic = x.dynamic /\ y.named = x.named
      BY <1>0, <1>2 DEF Reported, VolumeSnapshots
    <2> QED BY <1>2, <2>1 DEF ContentShape, Preprovisioned, PreGo, WillGo
  <1>4. CASE ContentDeleting(x, y) /\ after = before
    <2>1. /\ y.vs = x.vs /\ y.dynamic = x.dynamic /\ x.named # None
          /\ y.named # None /\ y.named.handle = x.named.handle /\ y.named.policy = x.named.policy
      BY Zenon, <1>0, <1>4, <1>a DEF ContentDeleting, Contents
    <2> QED BY <1>4, <2>1 DEF ContentShape, Preprovisioned, PreGo, WillGo
  <1>5. CASE SnapshotRemoved(x, y) /\ after = before
    <2>1. /\ y.vs = None /\ y.dynamic = x.dynamic /\ y.named = x.named
          /\ x.named # None => x.named.policy = "Retain"
      BY <1>5, <1>a DEF SnapshotRemoved
    <2> QED BY <1>5, <2>1 DEF ContentShape, Preprovisioned, PreGo, WillGo
  <1>7. CASE ContentRemoved(x, y, before, after)
    <2>1. /\ x.named # None /\ y.named = None /\ y.dynamic = x.dynamic /\ y.vs = x.vs
          /\ after = IF x.named.policy = "Delete" THEN before \ {x.named.handle} ELSE before
      BY <1>7, <1>a DEF ContentRemoved
    <2> QED BY <2>1 DEF ContentShape, Preprovisioned, PreGo, WillGo
  <1> QED BY <1>a, <1>2, <1>4, <1>5, <1>7 DEF CSIEffect, Bound, Erred, Snapshotted

-----------------------------------------------------------------------------
(* One turn of the loop.                                                     *)

\* updateAndDeleteVolumeSnapshotResource with the policy Retain keeps a snapshot safe.
LEMMA ClaimUpdate ==
    ASSUME NEW h, NEW live, NEW x \in Resources, NEW policy \in Policies, ClaimShape(h, x, live), x.vs # None,
           NEW o \in UpdateAndDelete(x, ContentOf(x), policy)
    PROVE  /\ o.res \in Resources /\ ClaimShape(h, o.res, live)
           /\ policy = "Retain" /\ Safe(x) => Safe(o.res)
  <1> DEFINE y == o.res
  <1>0. /\ x.vs \in VolumeSnapshots /\ x.dynamic \in Contents \cup {None}
        /\ None \notin VolumeSnapshots /\ None \notin Contents
    BY NoneIsNoResource DEF Resources
  <1>1. x.named = None /\ x.vs.source = "claim" /\ ContentOf(x) = IF x.vs.bound THEN "dynamic" ELSE None
    BY ContentOfName DEF ClaimShape
  <1>2. ContentOf(x) \in {None, "dynamic", "named"} /\ ContentOf(x) # "named"
    BY <1>1, NoneIsNoName
  <1>3. /\ y \in Resources
        /\ \/ y.vs = x.vs
           \/ /\ y.vs # None /\ y.vs = [x.vs EXCEPT !.deleting = TRUE]
              /\ Deletable(Content(x, ContentOf(x)), policy)
        /\ y.dynamic = x.dynamic \/ (ContentOf(x) = "dynamic" /\ Handled(x.dynamic, y.dynamic, x.vs, policy))
        /\ y.named = x.named
    BY <1>2, UpdateFields
  <1> HIDE DEF y
  <1>4. y.vs # None /\ y.vs.source = "claim" /\ (y.vs.bound <=> x.vs.bound)
    BY <1>0, <1>1, <1>3 DEF VolumeSnapshots
  <1>5. CASE y.dynamic = x.dynamic
    <2>1. ClaimShape(h, y, live)
      BY <1>1, <1>3, <1>4, <1>5 DEF ClaimShape
    <2>2. ASSUME policy = "Retain", Safe(x) PROVE Safe(y)
      <3>1. x.vs.bound /\ ContentOf(x) = "dynamic" /\ Content(x, ContentOf(x)) = x.dynamic
        BY <1>1, <2>2, NoneIsNoName DEF Safe, Content
      <3>2. x.dynamic # None /\ x.dynamic.policy = "Delete" => y.vs = x.vs
        BY <1>3, <2>2, <3>1 DEF Safe, Deletable
      <3> QED BY <1>4, <1>5, <2>2, <3>1, <3>2 DEF Safe
    <2> QED BY <1>3, <2>1, <2>2 DEF y
  <1>6. CASE ContentOf(x) = "dynamic" /\ Handled(x.dynamic, y.dynamic, x.vs, policy)
    <2>1. /\ x.dynamic \in Contents /\ y.dynamic \in Contents /\ y.dynamic # None
          /\ y.dynamic.state = x.dynamic.state /\ y.dynamic.handle = x.dynamic.handle
          /\ y.dynamic.policy \in {x.dynamic.policy, policy}
          /\ y.dynamic.deleting =>
               x.dynamic.deleting \/ (y.dynamic.policy = x.dynamic.policy /\ (x.dynamic.policy = "Retain" \/ x.vs = None))
      BY Zenon, <1>0, <1>6, HandledType
    <2>2. x.dynamic # None
      BY <1>0, <2>1
    <2>3. ClaimShape(h, y, live)
      BY <1>1, <1>3, <1>4, <2>1, <2>2 DEF ClaimShape
    <2>4. ASSUME policy = "Retain", Safe(x) PROVE Safe(y)
      <3>1. y.dynamic.policy = "Delete" => x.dynamic.policy = "Delete" /\ ~x.dynamic.deleting /\ ~x.vs.deleting
        BY <2>1, <2>2, <2>4 DEF Safe
      <3>2. Content(x, ContentOf(x)) = x.dynamic
        BY <1>6, NoneIsNoName DEF Content
      <3>3. x.dynamic.policy = "Delete" => y.vs = x.vs
        BY <1>3, <2>2, <2>4, <3>2 DEF Safe, Deletable
      <3>4. x.vs.bound
        BY <2>4 DEF Safe
      <3> QED BY <1>4, <2>1, <2>2, <2>4, <3>1, <3>3, <3>4 DEF Safe
    <2> QED BY <1>3, <2>3, <2>4 DEF y
  <1> QED BY <1>3, <1>5, <1>6

\* One PVC of a creation: its resources match its status before and after it is recorded.
LEMMA CreateTurn ==
    ASSUME NEW h \in Handles, NEW live, NEW x \in Resources, NEW s \in SnapshotStatus \cup {None}, NEW e \in CreateStep(x, s),
           ClaimShape(h, x, live), Progress(h, x, s, live), Preserved(h, x, s, live)
    PROVE  /\ ClaimShape(h, e.res, live)
           /\ Progress(h, e.res, s, live) /\ Preserved(h, e.res, s, live)
           /\ Progress(h, e.res, e.status, live) /\ Preserved(h, e.res, e.status, live)
  <1>0. None \notin SnapshotStatus /\ None \notin VolumeSnapshots /\ None \notin Contents
    BY NoneIsNoStatus, NoneIsNoResource
  <1>a. /\ e.res \in Resources /\ e.status \in SnapshotStatus /\ Was(s) \in SnapshotStatus
        /\ \/ Was(s).phase = "InProgress" /\ e \in InProgressPVC(x, Was(s))
           \/ s = Was(s) /\ CleaningUp(s.phase) /\ e \in CleanupPVC(x, s)
           \/ s = Was(s) /\ e.res = x /\ e.status = s
    BY CreateEffect
  <1>1. CASE Was(s).phase = "InProgress" /\ e \in InProgressPVC(x, Was(s))
    <2>1. s = None \/ s.phase \in {"NotStarted", "InProgress"}
      BY <1>1 DEF Was
    <2>2. Untouched(x)
      BY <2>1 DEF Progress
    <2>3. /\ e.res = x \/ (x.vs = None /\ e.res = [x EXCEPT !.vs = ClaimSnapshot])
          /\ \/ e.status = Was(s)
             \/ e.status.phase = "FailedCleaningUp"
             \/ /\ x.dynamic # None /\ x.dynamic.state = "ready" /\ x.vs # None /\ e.res = x
                /\ e.status = [phase |-> "CompletedCleaningUp", handle |-> x.dynamic.handle]
      BY <1>a, <1>1, InProgressEffect
    <2>4. Untouched(e.res) /\ ClaimShape(h, e.res, live)
      <3>1. CASE e.res = x
        BY <2>2, <3>1
      <3>2. CASE x.vs = None /\ e.res = [x EXCEPT !.vs = ClaimSnapshot]
        <4>1. /\ e.res.vs = ClaimSnapshot /\ e.res.dynamic = x.dynamic /\ e.res.named = x.named
              /\ x.dynamic = None
          BY <2>2, <3>2 DEF Resources, Untouched
        <4>2. ~ClaimSnapshot.deleting /\ ClaimSnapshot.source = "claim"
          BY DEF ClaimSnapshot
        <4> QED BY <4>1, <4>2 DEF Untouched, ClaimShape
      <3> QED BY <2>3, <3>1, <3>2
    <2>5. Progress(h, e.res, s, live) /\ Preserved(h, e.res, s, live)
      BY <2>1, <2>4 DEF Progress, Preserved
    <2>6. CASE e.status = Was(s)
      BY <1>1, <2>4, <2>5, <2>6 DEF Progress, Preserved
    <2>7. CASE e.status.phase = "FailedCleaningUp"
      BY <1>0, <1>a, <2>4, <2>5, <2>7 DEF Progress, Preserved
    <2>8. CASE /\ x.dynamic # None /\ x.dynamic.state = "ready" /\ x.vs # None /\ e.res = x
               /\ e.status = [phase |-> "CompletedCleaningUp", handle |-> x.dynamic.handle]
      <3>1. e.status.phase = "CompletedCleaningUp" /\ e.status.handle = x.dynamic.handle
        BY <2>8
      <3>2. Safe(x)
        BY <2>2, <2>8 DEF Untouched, Safe
      <3>3. HandleKept(h, e.status, live)
        BY <2>8, <3>1, NoneIsNoHandle DEF ClaimShape, HandleKept
      <3> QED BY <2>4, <2>5, <2>8, <3>1, <3>2, <3>3 DEF Progress, Preserved
    <2> QED BY <2>3, <2>4, <2>5, <2>6, <2>7, <2>8
  <1>2. CASE s = Was(s) /\ CleaningUp(s.phase) /\ e \in CleanupPVC(x, s)
    <2>1. /\ s \in SnapshotStatus /\ s # None /\ s.phase \in {"CompletedCleaningUp", "FailedCleaningUp"}
      BY <1>0, <1>a, <1>2 DEF CleaningUp
    <2>2. /\ e.status.handle = s.handle
          /\ e.res = x \/ \E o \in UpdateAndDelete(x, ContentOf(x), "Retain") : e.res = o.res /\ x.vs # None
          /\ \/ e.status = s
             \/ e.status.phase \in {"FailedCleaningUp", "Failed"}
             \/ s.phase = "CompletedCleaningUp" /\ e.status.phase = "Completed" /\ x.vs = None /\ e.res = x
      BY <1>2, <2>1, CleanupEffect
    <2>3. ClaimShape(h, e.res, live) /\ (Safe(x) => Safe(e.res))
      BY <2>2, ClaimUpdate DEF Policies
    <2>4. Progress(h, e.res, s, live) /\ Preserved(h, e.res, s, live)
      BY <2>1, <2>3 DEF Progress, Preserved
    <2>5. CASE e.status = s
      BY <2>3, <2>4, <2>5
    <2>6. CASE e.status.phase \in {"FailedCleaningUp", "Failed"}
      BY <1>0, <1>a, <2>3, <2>4, <2>6 DEF Progress, Preserved
    <2>7. CASE s.phase = "CompletedCleaningUp" /\ e.status.phase = "Completed" /\ x.vs = None /\ e.res = x
      <3>1. Safe(x) /\ HandleKept(h, s, live)
        BY <2>1, <2>7 DEF Progress
      <3>2. x.dynamic # None => x.dynamic.policy \in {"Delete", "Retain"}
        BY DEF Resources, Contents, Policies
      <3>3. Sealed(x)
        BY <2>7, <3>1, <3>2 DEF Safe, Sealed
      <3>4. HandleKept(h, e.status, live)
        BY <2>2, <3>1 DEF HandleKept
      <3> QED BY <1>0, <1>a, <2>3, <2>4, <2>7, <3>3, <3>4 DEF Progress, Preserved
    <2> QED BY <2>2, <2>5, <2>6, <2>7
  <1>3. CASE s = Was(s) /\ e.res = x /\ e.status = s
    BY <1>3
  <1> QED BY <1>a, <1>1, <1>2, <1>3

\* What a PVC of a cancellation or a deletion can end in.
Ends(x, s, f, e, outcomes) ==
    /\ s \in SnapshotStatus /\ e.status \in SnapshotStatus /\ e.status.handle = s.handle
    /\ \E o \in outcomes :
         /\ e.res = o.res
         /\ o.result = "error" => e.status = s
         /\ o.result = "complete" => e.status.phase = VolumeNext(f)
         /\ o.result = "inProgress" => e.status.phase = f
         /\ o.result \in {"error", "complete", "inProgress"}

\* One PVC of a cancellation or a deletion: nothing to do, or one of the two ways to delete.
LEMMA DeleteResult ==
    ASSUME NEW x \in Resources, NEW s \in SnapshotStatus \cup {None}, NEW f \in {"Canceling", "Deleting"},
           NEW e \in DeleteStep(x, s, f)
    PROVE  \/ e.res = x /\ e.status = s /\ (s = None \/ ~(IsMaybeCreated(s.phase) \/ IsDeleting(s.phase)))
           \/ f = "Deleting" /\ ~IsDeleting(s.phase) /\ Ends(x, s, f, e, DeleteVolumeSnapshot(x, s.handle, TRUE))
           \/ ~(f = "Deleting" /\ ~IsDeleting(s.phase)) /\ Ends(x, s, f, e, DeleteVolumeSnapshot(x, s.handle, FALSE))
  <1> DEFINE outs == IF f = "Deleting" /\ ~IsDeleting(s.phase) THEN DeleteVolumeSnapshot(x, s.handle, TRUE)
                                                               ELSE DeleteVolumeSnapshot(x, s.handle, FALSE)
  <1>1. CASE s = None \/ ~(IsMaybeCreated(s.phase) \/ IsDeleting(s.phase))
    <2>1. e = Effect(x, s, FALSE)
      BY Zenon, <1>1 DEF DeleteStep
    <2>2. e.res = x /\ e.status = s
      BY <2>1 DEF Effect
    <2> QED BY Zenon, <1>1, <2>2
  <1>2. CASE s # None /\ (IsMaybeCreated(s.phase) \/ IsDeleting(s.phase))
    <2>0. DeleteVolumeSnapshot(x, s.handle, f = "Deleting" /\ ~IsDeleting(s.phase)) = outs
      <3>1. CASE f = "Deleting" /\ ~IsDeleting(s.phase)
        <4>1. (f = "Deleting" /\ ~IsDeleting(s.phase)) = TRUE
          BY <3>1
        <4> QED BY Zenon, <3>1, <4>1
      <3>2. CASE ~(f = "Deleting" /\ ~IsDeleting(s.phase))
        <4>1. (f = "Deleting" /\ ~IsDeleting(s.phase)) = FALSE
          BY <3>2
        <4> QED BY Zenon, <3>2, <4>1
      <3> QED BY Zenon, <3>1, <3>2
    <2>1. PICK o \in outs :
             e = Effect(o.res, CASE o.result = "error" -> s
                                 [] o.result = "complete" -> InPhase(s, VolumeNext(f))
                                 [] o.result = "inProgress" -> InPhase(s, f), o.result = "error")
      <3> HIDE DEF outs
      <3> QED BY Zenon, <1>2, <2>0 DEF DeleteStep
    <2>2. s \in SnapshotStatus /\ s.handle \in Handles \cup {None}
      BY <1>2 DEF SnapshotStatus
    <2>3. o.result \in {"error", "complete", "inProgress"}
      <3>1. CASE o \in DeleteVolumeSnapshot(x, s.handle, TRUE)
        <4>1. \/ o.result \in {"error", "complete"}
              \/ o \in Recreate(x, s.handle)
              \/ o \in UpdateAndDelete(x, "named", "Delete")
          BY Zenon, <3>1, DeleteOutcome
        <4>2. o \in Recreate(x, s.handle) => o.result \in {"inProgress", "error"}
          BY <2>2, RecreateOutcome
        <4> QED BY Zenon, <4>1, <4>2, UpdateOutcome
      <3>2. CASE o \in DeleteVolumeSnapshot(x, s.handle, FALSE)
        <4>1. \/ o.result \in {"error", "complete"}
              \/ o \in UpdateAndDelete(x, ContentOf(x), "Delete")
          BY Zenon, <3>2, DeleteOutcome
        <4> QED BY Zenon, <4>1, UpdateOutcome
      <3> QED BY Zenon, <3>1, <3>2
    <2>4. VolumeNext(f) \in VolumePhases /\ f \in VolumePhases
      BY DEF VolumeNext, VolumePhases
    <2>5. /\ InPhase(s, VolumeNext(f)) \in SnapshotStatus /\ InPhase(s, VolumeNext(f)).phase = VolumeNext(f)
          /\ InPhase(s, VolumeNext(f)).handle = s.handle
          /\ InPhase(s, f) \in SnapshotStatus /\ InPhase(s, f).phase = f /\ InPhase(s, f).handle = s.handle
      BY <2>2, <2>4, InPhaseType
    <2>6. /\ e.res = o.res
          /\ o.result = "error" => e.status = s
          /\ o.result = "complete" => e.status = InPhase(s, VolumeNext(f))
          /\ o.result = "inProgress" => e.status = InPhase(s, f)
      BY <2>1, <2>3 DEF Effect
    <2>7. e.status \in SnapshotStatus /\ e.status.handle = s.handle
      BY <2>2, <2>3, <2>5, <2>6
    <2>8. Ends(x, s, f, e, outs)
      <3> HIDE DEF outs
      <3> QED BY <2>2, <2>3, <2>5, <2>6, <2>7 DEF Ends
    <2> QED BY Zenon, <2>8
  <1> QED BY Zenon, <1>1, <1>2

\* One PVC of a cancellation: a snapshot that is Completed is left alone.
LEMMA CancelTurn ==
    ASSUME NEW h, NEW live, NEW x \in Resources, NEW s \in SnapshotStatus \cup {None},
           NEW e \in DeleteStep(x, s, "Canceling"), ClaimShape(h, x, live), Preserved(h, x, s, live)
    PROVE  /\ ClaimShape(h, e.res, live) /\ (Sealed(x) => e.res = x)
           /\ Preserved(h, e.res, s, live) /\ Preserved(h, e.res, e.status, live)
  <1>0. None \notin SnapshotStatus
    BY NoneIsNoStatus
  <1>1. CASE e.res = x /\ e.status = s
    BY <1>1
  <1>2. CASE ~(e.res = x /\ e.status = s)
    <2>1. Ends(x, s, "Canceling", e, DeleteVolumeSnapshot(x, s.handle, FALSE))
      BY Zenon, <1>2, DeleteResult
    <2>2. PICK o \in DeleteVolumeSnapshot(x, s.handle, FALSE) :
               /\ e.res = o.res
               /\ o.result = "error" => e.status = s
               /\ o.result = "complete" => e.status.phase = VolumeNext("Canceling")
               /\ o.result = "inProgress" => e.status.phase = "Canceling"
               /\ o.result \in {"error", "complete", "inProgress"}
      BY Zenon, <2>1 DEF Ends
    <2>3. \/ o.res = x
          \/ (x.vs # None \/ Content(x, ContentOf(x)) # None) /\ o \in UpdateAndDelete(x, ContentOf(x), "Delete")
      BY DEF DeleteVolumeSnapshot, Faults, Outcome
    <2>4. x.vs = None => Content(x, ContentOf(x)) = None
      BY ContentOfName DEF Content
    <2>5. ClaimShape(h, e.res, live) /\ (Sealed(x) => e.res = x)
      BY <2>2, <2>3, <2>4, ClaimUpdate DEF Policies, Sealed
    <2>6. Preserved(h, e.res, s, live)
      BY <2>5 DEF Preserved
    <2>7. VolumeNext("Canceling") = "Canceled"
      BY DEF VolumeNext
    <2>8. e.status = s \/ e.status.phase \in {"Canceled", "Canceling"}
      BY <2>2, <2>7
    <2> QED BY <2>5, <2>6, <2>8 DEF Preserved
  <1> QED BY <1>1, <1>2

\* updateAndDeleteVolumeSnapshotResource with the policy Delete: the snapshot goes with its content.
LEMMA ContentUpdate ==
    ASSUME NEW ask, NEW stored, NEW h, NEW x \in Resources, ContentShape(x, ask), x.vs # None,
           NEW o \in UpdateAndDelete(x, "named", "Delete"), PreGo(x, h)
    PROVE  /\ o.res \in Resources /\ ContentShape(o.res, ask) /\ PreGo(o.res, h)
           /\ x.named # None => WillGo(o.res, h, stored)
           /\ x.named = None => o.res.named = None
  <1> DEFINE y == o.res
  <1>0. /\ x.vs \in VolumeSnapshots /\ x.named \in Contents \cup {None}
        /\ None \notin VolumeSnapshots /\ None \notin Contents /\ "Delete" \in Policies
    BY NoneIsNoResource DEF Resources, Policies
  <1>3. /\ y \in Resources
        /\ y.vs = x.vs \/ (y.vs # None /\ y.vs = [x.vs EXCEPT !.deleting = TRUE])
        /\ y.dynamic = x.dynamic
        /\ y.named = x.named \/ Handled(x.named, y.named, x.vs, "Delete")
    BY <1>0, UpdateFields
  <1> HIDE DEF y
  <1>4. y.vs # None /\ y.vs.source = x.vs.source
    BY <1>0, <1>3 DEF VolumeSnapshots
  <1>5. x.named # None => y.named # None /\ y.named.handle = x.named.handle /\ y.named.policy \in {x.named.policy, "Delete"}
    BY Zenon, <1>0, <1>3, HandledType
  <1>6. x.named = None => y.named = None
    BY <1>3 DEF Handled
  <1> QED BY <1>3, <1>4, <1>5, <1>6 DEF y, ContentShape, Preprovisioned, PreGo, WillGo

\* One PVC of a deletion: it is recorded as deleted only when its snapshot is gone.
LEMMA DeleteTurn ==
    ASSUME NEW ask \in SUBSET Handles, NEW stored, NEW x \in Resources, NEW s \in SnapshotStatus,
           s.phase \in {"Completed", "Failed", "Deleting", "Deleted"}, NEW e \in DeleteStep(x, s, "Deleting"),
           ContentShape(x, ask), Going(x, s, stored, ask)
    PROVE  /\ ContentShape(e.res, ask) /\ Going(e.res, s, stored, ask) /\ Going(e.res, e.status, stored, ask)
           /\ e.status \in SnapshotStatus /\ e.status.handle = s.handle
           /\ s.phase = "Failed" => e.status = s
  <1> DEFINE h == s.handle
             y == e.res
  <1>0. None \notin SnapshotStatus /\ s # None /\ h \in Handles \cup {None} /\ h \in ask \cup {None}
    BY NoneIsNoStatus DEF SnapshotStatus, Going
  <1>a. VolumeNext("Deleting") = "Deleted"
    BY DEF VolumeNext
  <1>1. CASE s.phase \in {"Failed", "Deleted"}
    <2>1. e.res = x /\ e.status = s
      BY <1>0, <1>1 DEF DeleteStep, IsMaybeCreated, IsDeleting, Effect
    <2> QED BY <2>1
  <1>2. CASE s.phase = "Completed"
    <2>0. PreGo(x, h)
      BY <1>2 DEF Going
    <2>1. Ends(x, s, "Deleting", e, DeleteVolumeSnapshot(x, h, TRUE))
      <3>1. ~IsDeleting(s.phase) /\ IsMaybeCreated(s.phase)
        BY <1>2 DEF IsDeleting, IsMaybeCreated
      <3> QED BY Zenon, <1>0, <3>1, DeleteResult
    <2>2. PICK o \in DeleteVolumeSnapshot(x, h, TRUE) :
               /\ e.res = o.res
               /\ o.result = "error" => e.status = s
               /\ o.result = "inProgress" => e.status.phase = "Deleting"
               /\ o.result \in {"error", "complete", "inProgress"}
      BY Zenon, <2>1 DEF Ends
    <2>3. \/ o.res = x /\ o.result = "error"
          \/ o \in Recreate(x, h)
          \/ x.named # None /\ x.vs # None /\ o \in UpdateAndDelete(x, "named", "Delete")
      BY Zenon, DeleteOutcome
    <2>4. /\ ContentShape(y, ask) /\ PreGo(y, h) /\ o.result \in {"error", "inProgress"}
          /\ o.result = "inProgress" => WillGo(y, h, stored)
      <3>1. CASE o.res = x /\ o.result = "error"
        BY <2>0, <2>2, <3>1
      <3>2. CASE o \in Recreate(x, h)
        <4>1. /\ o.result \in {"error", "inProgress"} /\ y.dynamic = x.dynamic
              /\ y.vs \in {x.vs, ContentSnapshot}
              /\ x.named # None => y.named = x.named
              /\ y.named \in {x.named, NamedContent(h, "Delete")}
              /\ o.result = "inProgress" => y.vs # None /\ y.named # None
          BY <1>0, <2>2, <3>2, RecreateOutcome
        <4>2. ContentSnapshot.source = "content" /\ NamedContent(h, "Delete").handle = h /\ NamedContent(h, "Delete").policy = "Delete"
          BY DEF ContentSnapshot, NamedContent
        <4> HIDE DEF y, h
        <4>3. ContentShape(y, ask)
          BY <1>0, <4>1, <4>2 DEF ContentShape, Preprovisioned
        <4>4. PreGo(y, h)
          BY <2>0, <4>1, <4>2 DEF PreGo
        <4> QED BY <4>1, <4>3, <4>4 DEF PreGo, WillGo
      <3>3. CASE x.named # None /\ x.vs # None /\ o \in UpdateAndDelete(x, "named", "Delete")
        <4>1. o.result \in {"error", "inProgress"}
          BY Zenon, <3>3, UpdateOutcome
        <4> QED BY <2>0, <2>2, <3>3, <4>1, ContentUpdate
      <3> QED BY <2>3, <3>1, <3>2, <3>3
    <2> HIDE DEF h, y
    <2>5. e.status = s \/ (e.status.phase = "Deleting" /\ WillGo(y, h, stored))
      BY <2>2, <2>4
    <2>6. Going(y, s, stored, ask)
      BY <1>0, <1>2, <2>4 DEF Going, h
    <2>7. Going(y, e.status, stored, ask)
      BY <1>0, <2>1, <2>5, <2>6 DEF Going, Ends, h
    <2> QED BY <1>2, <2>1, <2>4, <2>6, <2>7 DEF h, y, Ends
  <1>3. CASE s.phase = "Deleting"
    <2>0. WillGo(x, h, stored) /\ PreGo(x, h)
      BY <1>3 DEF Going, WillGo, PreGo
    <2>1. Ends(x, s, "Deleting", e, DeleteVolumeSnapshot(x, h, FALSE))
      <3>1. IsDeleting(s.phase)
        BY <1>3 DEF IsDeleting
      <3> QED BY Zenon, <1>0, <3>1, DeleteResult
    <2>2. PICK o \in DeleteVolumeSnapshot(x, h, FALSE) :
               /\ e.res = o.res
               /\ o.result = "error" => e.status = s
               /\ o.result = "complete" => e.status.phase = "Deleted"
               /\ o.result = "inProgress" => e.status.phase = "Deleting"
               /\ o.result \in {"error", "complete", "inProgress"}
      BY Zenon, <1>a, <2>1 DEF Ends
    <2>3. \/ o.res = x /\ o.result = "error"
          \/ o.res = x /\ o.result = "complete" /\ x.vs = None
          \/ o \in UpdateAndDelete(x, ContentOf(x), "Delete") /\ (x.vs # None \/ Content(x, ContentOf(x)) # None)
      BY DEF DeleteVolumeSnapshot, Faults, Outcome
    <2>4. /\ x.vs = None => Content(x, ContentOf(x)) = None
          /\ x.vs # None => ContentOf(x) = "named"
      BY ContentOfName DEF Content, ContentShape, Preprovisioned
    <2>5. /\ ContentShape(y, ask) /\ WillGo(y, h, stored)
          /\ o.result = "complete" => h \notin stored
      <3>1. CASE o.res = x
        BY Zenon, <2>0, <2>2, <2>3, <3>1, UpdateOutcome DEF WillGo
      <3>2. CASE o \in UpdateAndDelete(x, "named", "Delete") /\ x.vs # None
        <4>1. o.result \in {"error", "inProgress"}
          BY Zenon, <3>2, UpdateOutcome
        <4>2. ContentShape(y, ask) /\ (x.named # None => WillGo(y, h, stored)) /\ (x.named = None => y.named = None)
          BY Zenon, <2>0, <2>2, <3>2, ContentUpdate
        <4> QED BY <2>0, <4>1, <4>2 DEF WillGo
      <3> QED BY <2>3, <2>4, <3>1, <3>2
    <2> HIDE DEF h, y
    <2>6. Going(y, s, stored, ask)
      BY <1>0, <1>3, <2>5 DEF Going, h
    <2>7. Going(y, e.status, stored, ask)
      BY SMTT(30), <1>0, <2>1, <2>2, <2>5, <2>6 DEF Going, Ends, h
    <2> QED BY <1>3, <2>1, <2>5, <2>6, <2>7 DEF h, y, Ends
  <1> QED BY <1>1, <1>2, <1>3

-----------------------------------------------------------------------------
(* Steps that leave the resources and the storage alone.                     *)

\* What a request has done so far holds for data that follows from its data.
Follows(r, e, d) ==
    /\ e.snapshots = d.snapshots
    /\ e.phase \in Early => d.phase \in Early
    /\ r \in Deletes => e.requests = d.requests

\* A request that has only gone on keeps what holds of its volumes.
LEMMA FollowsKept ==
    ASSUME NEW r, NEW d, NEW e, Follows(r, e, d), NEW all, NEW live
    PROVE  /\ DataKept(r, d, all, live) => DataKept(r, e, all, live)
           /\ \A ask : r \in Deletes /\ DataGoing(r, d, ask) => DataGoing(r, e, ask)
  BY DEF Follows, DataKept, Progressing, Kept, DataGoing

\* Asking for deletions loses nothing that was kept.
LEMMA KeptMore ==
    ASSUME NEW r, NEW d, NEW all, NEW live, NEW more, live \subseteq more
    PROVE  /\ DataKept(r, d, all, live) => DataKept(r, d, all, more)
           /\ Kept(r, d, all, live) => Kept(r, d, all, more)
  BY DEF DataKept, Progressing, Kept, Progress, Preserved, HandleKept

\* The same for the resources of a PVC.
LEMMA ShapeMore ==
    ASSUME NEW h, NEW x, NEW live, NEW more, live \subseteq more, ClaimShape(h, x, live)
    PROVE  ClaimShape(h, x, more)
  BY DEF ClaimShape

\* What a step may write into the ConfigMaps, and what it may go on with.
Rewrites ==
    \A r \in Requests :
       /\ cms[r] # None => cms'[r] # None
       /\ cms'[r] \notin {None, Gone} =>
            \/ /\ cms[r] = None
               /\ r \in Creates => DataKept(r, cms'[r].data, res, storage \cup asked)
               /\ r \in Deletes => DataGoing(r, cms'[r].data, asked)
            \/ Exists(r) /\ Follows(r, cms'[r].data, cms[r].data)
            \/ Exists(r) /\ run # Idle /\ run.req = r /\ cms'[r].data = run.data
GoesOn ==
    run' # Idle => \/ run' = run
                   \/ Exists(run'.req) /\ Follows(run'.req, run'.data, cms[run'.req].data)
Redrafts ==
    \A r \in Deletes : drafts'[r] # None => drafts'[r] = drafts[r] \/ DataGoing(r, drafts'[r], asked')
Saves ==
    /\ \A u \in URLs : backups'[u] # None => SaveKept(backups'[u])
    /\ \A b \in uploads' : SaveKept(b)

\* Steps that write requests, reconciliations, drafts or snapshots, and touch no resources.
LEMMA Reworked ==
    ASSUME Recorded, Recorded', ~env.stale, Current, Volumes,
           UNCHANGED <<res, storage>>, asked \subseteq asked', Rewrites, GoesOn, Redrafts, Saves
    PROVE  Volumes'
  <1> DEFINE live == storage \cup asked
             more == storage' \cup asked'
             past(b) == cms'[b] # None /\ (cms'[b] \notin {None, Gone} => cms'[b].data.phase \notin Early)
             going(r, d) ==
                \A p \in d.requests :
                   /\ Going(res[r][p], d.snapshots[p], storage, asked')
                   /\ d.snapshots[p].phase # "Failed" =>
                        \E b \in Creates : d.snapshots[p].handle = <<b, p>> /\ Sealed(res[b][p]) /\ past(b)
  <1>0. Creates \subseteq Requests /\ Deletes \subseteq Requests
    BY DEF Requests
  <1>1. live \subseteq more
    OBVIOUS
  <1>2. ASSUME NEW r \in Creates, Past(r)
        PROVE  past(r)
    <2>1. CASE cms'[r] \notin {None, Gone}
      <3>1. cms[r] # None
        BY <1>2 DEF Past
      <3>2. CASE Exists(r) /\ Follows(r, cms'[r].data, cms[r].data)
        BY <1>2, <2>1, <3>2 DEF Past, Follows, Phase, Exists
      <3>3. CASE Exists(r) /\ run # Idle /\ run.req = r /\ cms'[r].data = run.data
        <4>1. run.data.phase \in Early => run.before.phase \in Early
          BY <3>3 DEF Recorded, RunOK, Advances
        <4>2. cms[r].data = run.before
          BY <3>3 DEF Current
        <4> QED BY SMTT(30), <1>2, <2>1, <3>3, <4>1, <4>2 DEF Past, Phase, Exists
      <3> QED BY <1>0, <2>1, <3>1, <3>2, <3>3 DEF Rewrites
    <2>2. CASE cms'[r] \in {None, Gone}
      BY <1>0, <1>2, <2>2 DEF Past, Exists, Rewrites
    <2> QED BY <2>1, <2>2
  <1>3. ASSUME NEW r, NEW d, DataGoing(r, d, asked)
        PROVE  going(r, d)
    <2>1. ASSUME NEW p \in d.requests
          PROVE  Going(res[r][p], d.snapshots[p], storage, asked')
      BY <1>3, <2>1 DEF DataGoing, Going
    <2> QED BY <1>2, <1>3, <2>1 DEF DataGoing, Origin
  <1>4. ASSUME NEW r, NEW d, DataGoing(r, d, asked')
        PROVE  going(r, d)
    BY <1>2, <1>4 DEF DataGoing, Origin
  <1>5. ASSUME NEW r \in Creates
        PROVE  CreateKept(r)'
    <2>0. CreateKept(r)
      BY DEF Volumes
    <2>1. \A p \in PVCs : ClaimShape(<<r, p>>, res[r][p], more)
      BY <1>1, <2>0, ShapeMore DEF CreateKept
    <2>2. ASSUME cms'[r] \notin {None, Gone} PROVE DataKept(r, cms'[r].data, res, live)
      <3>1. CASE Exists(r) /\ Follows(r, cms'[r].data, cms[r].data)
        <4>1. DataKept(r, cms[r].data, res, live)
          BY <2>0, <3>1 DEF CreateKept
        <4> QED BY <3>1, <4>1, FollowsKept
      <3>2. CASE run # Idle /\ run.req = r /\ cms'[r].data = run.data
        BY <2>0, <3>2 DEF CreateKept
      <3> QED BY Zenon, <1>0, <2>2, <3>1, <3>2 DEF Rewrites
    <2>3. ASSUME run' # Idle, run'.req = r PROVE DataKept(r, run'.data, res, live)
      <3>1. CASE run' = run
        BY <2>0, <2>3, <3>1 DEF CreateKept
      <3>2. CASE Exists(r) /\ Follows(r, run'.data, cms[r].data)
        <4>1. DataKept(r, cms[r].data, res, live)
          BY <2>0, <3>2 DEF CreateKept
        <4> QED BY <3>2, <4>1, FollowsKept
      <3> QED BY <2>3, <3>1, <3>2 DEF GoesOn
    <2>4. Exists(r)' => DataKept(r, cms'[r].data, res, more)
      BY <1>1, <2>2, KeptMore DEF Exists
    <2>5. run' # Idle /\ run'.req = r => DataKept(r, run'.data, res, more)
      BY SMTT(30), <1>1, <2>3, KeptMore
    <2> QED BY <2>1, <2>4, <2>5 DEF CreateKept, Idle
  <1>6. ASSUME NEW r \in Deletes
        PROVE  DeleteKept(r)'
    <2>0. DeleteKept(r)
      BY DEF Volumes
    <2>1. \A p \in PVCs : ContentShape(res[r][p], asked')
      BY <2>0 DEF DeleteKept, ContentShape
    <2>2. drafts'[r] # None => going(r, drafts'[r])
      <3>1. CASE drafts'[r] = drafts[r] /\ drafts[r] # None
        <4>1. DataGoing(r, drafts[r], asked)
          BY <2>0, <3>1 DEF DeleteKept
        <4> QED BY SMTT(30), <1>3, <3>1, <4>1
      <3>2. CASE DataGoing(r, drafts'[r], asked')
        BY <1>4, <3>2
      <3> QED BY SMTT(30), <3>1, <3>2 DEF Redrafts
    <2>3. cms'[r] \notin {None, Gone} => DataGoing(r, cms'[r].data, asked)
      <3>1. CASE Exists(r) /\ Follows(r, cms'[r].data, cms[r].data)
        <4>1. DataGoing(r, cms[r].data, asked)
          BY <2>0, <3>1 DEF DeleteKept
        <4> QED BY <3>1, <4>1, FollowsKept
      <3>2. CASE run # Idle /\ run.req = r /\ cms'[r].data = run.data
        BY <2>0, <3>2 DEF DeleteKept
      <3> QED BY <1>0, <3>1, <3>2 DEF Rewrites
    <2>4. run' # Idle /\ run'.req = r => DataGoing(r, run'.data, asked)
      <3>1. CASE run' = run
        BY <2>0, <3>1 DEF DeleteKept
      <3>2. CASE Exists(r) /\ Follows(r, run'.data, cms[r].data)
        <4>1. DataGoing(r, cms[r].data, asked)
          BY <2>0, <3>2 DEF DeleteKept
        <4> QED BY <3>2, <4>1, FollowsKept
      <3> QED BY <3>1, <3>2 DEF GoesOn
    <2>5. cms'[r] \notin {None, Gone} => going(r, cms'[r].data)
      BY <1>3, <2>3
    <2>6. run' # Idle /\ run'.req = r => going(r, run'.data)
      BY <1>3, <2>4
    <2> QED BY Zenon, <2>1, <2>2, <2>5, <2>6 DEF DeleteKept, DataGoing, Origin, Past, Phase, Exists, Idle
  <1>7. ASSUME NEW b, SaveKept(b), b.by \in Creates
        PROVE  Kept(b.by, b.data, res, more) /\ past(b.by)
    BY <1>1, <1>2, <1>7, KeptMore DEF SaveKept
  <1>8. \A r \in Requests, p \in PVCs : cms'[r] = None => res'[r][p] = NoResources
    BY DEF Volumes, Rewrites
  <1>9. /\ \A u \in URLs : backups'[u] # None => Kept(backups'[u].by, backups'[u].data, res, more) /\ past(backups'[u].by)
        /\ \A b \in uploads' : Kept(b.by, b.data, res, more) /\ past(b.by)
    <2>1. backups' \in [URLs -> Backups \cup {None}] /\ uploads' \subseteq Backups
      BY DEF Recorded, TypeOK
    <2>2. \A b \in Backups : b.by \in Creates
      BY DEF Backups
    <2> QED BY Zenon, <1>7, <2>1, <2>2 DEF Saves
  <1>10. /\ \A u \in URLs : backups'[u] # None => SaveKept(backups[u])'
         /\ \A b \in uploads' : SaveKept(b)'
    BY Zenon, <1>9 DEF SaveKept, Past, Phase, Exists
  <1> QED BY <1>5, <1>6, <1>8, <1>10 DEF Volumes

-----------------------------------------------------------------------------
(* Steps on the resources of one PVC.                                        *)

\* What holds of the resources y of one PVC of a creating request.
CellKept(h, d, p, y, live) ==
    /\ d.phase \in Early => Progress(h, y, d.snapshots[p], live)
    /\ Preserved(h, y, d.snapshots[p], live)

\* A step on the resources of PVC p of request r, which are y afterwards: what it does to the
\* storage, to the reconciliation that runs, and to the request itself.
StorageTouched(r, p, y) ==
    /\ \A h \in storage : h \in storage' \cup asked \/ (r \in Creates /\ h = <<r, p>> /\ ~(Past(r) /\ Sealed(res[r][p])))
    /\ \A h \in storage' : h \in storage \/ (r \in Creates /\ h = <<r, p>> /\ ~Sealed(res[r][p]))
    /\ r \in Creates /\ Past(r) /\ Sealed(res[r][p]) => Sealed(y)
RunTouched(r, p) ==
    run' # Idle =>
       \/ run' = run
       \/ /\ run # Idle /\ run.req = r /\ run'.req = r /\ run'.data.requests = run.data.requests
          /\ run'.data.phase \in Early => run.data.phase \in Early
          /\ \A o \in PVCs : o # p => run'.data.snapshots[o] = run.data.snapshots[o]
CreateTouched(r, p, y) ==
    r \in Creates =>
       /\ ClaimShape(<<r, p>>, y, storage' \cup asked)
       /\ Exists(r) => CellKept(<<r, p>>, cms[r].data, p, y, storage' \cup asked)
       /\ run' # Idle /\ run'.req = r => CellKept(<<r, p>>, run'.data, p, y, storage' \cup asked)
DeleteTouched(r, p, y) ==
    r \in Deletes =>
       /\ ContentShape(y, asked)
       /\ Exists(r) /\ p \in cms[r].data.requests => Going(y, cms[r].data.snapshots[p], storage', asked)
       /\ run' # Idle /\ run'.req = r /\ p \in run'.data.requests =>
             /\ Going(y, run'.data.snapshots[p], storage', asked)
             /\ Origin(p, run'.data.snapshots[p], res)

\* Steps that touch the resources of one PVC: the others are as they were.
LEMMA Touched ==
    ASSUME Recorded, Recorded', Volumes, NEW r \in Requests, NEW p \in PVCs, NEW y, cms[r] # None,
           res' = [res EXCEPT ![r][p] = y], UNCHANGED <<cms, drafts, backups, uploads, asked>>,
           StorageTouched(r, p, y), RunTouched(r, p), CreateTouched(r, p, y), DeleteTouched(r, p, y)
    PROVE  Volumes'
  <1> DEFINE live == storage \cup asked
             more == storage' \cup asked
             x == res[r][p]
  <1>0. Creates \subseteq Requests /\ Deletes \subseteq Requests /\ Creates \cap Deletes = {}
    BY RequestsAreDistinct DEF Requests
  <1>1. /\ res'[r][p] = y
        /\ \A q \in Requests, o \in PVCs : q # r \/ o # p => res'[q][o] = res[q][o]
    BY DEF Recorded, TypeOK
  <1>2. \A b : Past(b) <=> Past(b)'
    BY DEF Past, Phase, Exists
  <1>3. ASSUME NEW q \in Creates, NEW o \in PVCs, q # r \/ o # p
        PROVE  /\ <<q, o>> \in live => <<q, o>> \in more
               /\ <<q, o>> \in storage' => <<q, o>> \in storage
    BY <1>3 DEF StorageTouched
  <1>4. ASSUME NEW q \in Creates, NEW o \in PVCs, Past(q), Sealed(res[q][o])
        PROVE  /\ Sealed(res'[q][o])
               /\ <<q, o>> \in live => <<q, o>> \in more
               /\ <<q, o>> \in storage' => <<q, o>> \in storage
    <2>1. CASE q = r /\ o = p
      BY <1>1, <1>4, <2>1 DEF StorageTouched
    <2>2. CASE q # r \/ o # p
      BY SMTT(30), <1>0, <1>1, <1>3, <1>4, <2>2
    <2> QED BY <2>1, <2>2
  <1>5. ASSUME NEW q \in Creates, NEW o \in PVCs, NEW s, q # r \/ o # p
        PROVE  /\ Progress(<<q, o>>, res[q][o], s, live) => Progress(<<q, o>>, res'[q][o], s, more)
               /\ Preserved(<<q, o>>, res[q][o], s, live) => Preserved(<<q, o>>, res'[q][o], s, more)
    <2>1. res'[q][o] = res[q][o] /\ (<<q, o>> \in live => <<q, o>> \in more)
      BY <1>0, <1>1, <1>3, <1>5
    <2> QED BY <2>1 DEF Progress, Preserved, HandleKept
  <1>6. ASSUME NEW q \in Creates, NEW d, DataKept(q, d, res, live), q # r
        PROVE  DataKept(q, d, res', more)
    BY Zenon, <1>5, <1>6 DEF DataKept, Progressing, Kept
  <1>7. ASSUME NEW d, NEW e, r \in Creates, DataKept(r, d, res, live), CellKept(<<r, p>>, e, p, y, more),
               e.phase \in Early => d.phase \in Early,
               \A o \in PVCs : o # p => e.snapshots[o] = d.snapshots[o]
        PROVE  DataKept(r, e, res', more)
    <2>1. ASSUME NEW o \in PVCs, o # p
          PROVE  /\ e.phase \in Early => Progress(<<r, o>>, res'[r][o], e.snapshots[o], more)
                 /\ Preserved(<<r, o>>, res'[r][o], e.snapshots[o], more)
      BY Zenon, <1>5, <1>7, <2>1 DEF DataKept, Progressing, Kept
    <2>2. /\ e.phase \in Early => Progress(<<r, p>>, res'[r][p], e.snapshots[p], more)
          /\ Preserved(<<r, p>>, res'[r][p], e.snapshots[p], more)
      BY <1>1, <1>7 DEF CellKept
    <2> QED BY <2>1, <2>2 DEF DataKept, Progressing, Kept
  <1>8. ASSUME NEW q \in Creates
        PROVE  CreateKept(q)'
    <2>0. CreateKept(q)
      BY DEF Volumes
    <2>1. ASSUME NEW o \in PVCs
          PROVE  ClaimShape(<<q, o>>, res'[q][o], more)
      <3>1. CASE q = r /\ o = p
        BY SMTT(30), <1>1, <3>1 DEF CreateTouched
      <3>2. CASE q # r \/ o # p
        <4>1. res'[q][o] = res[q][o] /\ (<<q, o>> \in live => <<q, o>> \in more)
          BY <1>0, <1>1, <1>3, <3>2
        <4>2. ClaimShape(<<q, o>>, res[q][o], live)
          BY <2>0 DEF CreateKept
        <4> QED BY SMTT(30), <4>1, <4>2 DEF ClaimShape
      <3> QED BY <3>1, <3>2
    <2>2. Exists(q) => DataKept(q, cms[q].data, res', more)
      <3>1. Exists(q) => DataKept(q, cms[q].data, res, live)
        BY <2>0 DEF CreateKept
      <3> QED BY Zenon, <1>6, <1>7, <3>1 DEF CreateTouched
    <2>3. run' # Idle /\ run'.req = q => DataKept(q, run'.data, res', more)
      <3>1. run # Idle /\ run.req = q => DataKept(q, run.data, res, live)
        BY <2>0 DEF CreateKept
      <3>2. CASE q # r
        BY Zenon, <1>6, <3>1, <3>2 DEF RunTouched
      <3>3. CASE q = r
        BY ZenonT(30), <1>7, <3>1, <3>3 DEF RunTouched, CreateTouched
      <3> QED BY <3>2, <3>3
    <2> QED BY Zenon, <2>1, <2>2, <2>3 DEF CreateKept, Exists, Idle
  <1>9. ASSUME NEW q \in Requests, NEW o \in PVCs, NEW s, Going(res[q][o], s, storage, asked), Origin(o, s, res),
               q # r \/ o # p
        PROVE  Going(res'[q][o], s, storage', asked)
    <2>1. s.phase # "Failed" => (s.handle \in storage' => s.handle \in storage)
      BY Zenon, <1>4, <1>9 DEF Origin
    <2>2. res'[q][o] = res[q][o]
      BY <1>1, <1>9
    <2> QED BY <1>9, <2>1, <2>2 DEF Going, WillGo
  <1>10. ASSUME NEW o \in PVCs, NEW s, Origin(o, s, res)
         PROVE  Origin(o, s, res)'
    BY Zenon, <1>2, <1>4, <1>10 DEF Origin
  <1>11. ASSUME NEW q \in Deletes
         PROVE  DeleteKept(q)'
    <2>0. DeleteKept(q)
      BY DEF Volumes
    <2>1. ASSUME NEW o \in PVCs
          PROVE  ContentShape(res'[q][o], asked)
      <3>1. CASE q = r /\ o = p
        BY <1>1, <3>1 DEF DeleteTouched
      <3>2. CASE q # r \/ o # p
        BY <1>0, <1>1, <2>0, <3>2 DEF DeleteKept
      <3> QED BY <3>1, <3>2
    <2>2. ASSUME NEW d, d.requests \subseteq PVCs, NEW e, DataGoing(q, e, asked), d.requests = e.requests,
                 \A o \in PVCs : q # r \/ o # p => d.snapshots[o] = e.snapshots[o],
                 q = r /\ p \in d.requests => /\ Going(y, d.snapshots[p], storage', asked)
                                              /\ Origin(p, d.snapshots[p], res)
          PROVE  \A o \in d.requests : Going(res'[q][o], d.snapshots[o], storage', asked) /\ Origin(o, d.snapshots[o], res)
      <3> SUFFICES ASSUME NEW o \in d.requests
                   PROVE  Going(res'[q][o], d.snapshots[o], storage', asked) /\ Origin(o, d.snapshots[o], res)
        OBVIOUS
      <3>1. CASE q = r /\ o = p
        BY <1>1, <2>2, <3>1
      <3>2. CASE q # r \/ o # p
        BY SMTT(30), <1>0, <1>9, <2>2, <3>2 DEF DataGoing
      <3> QED BY <3>1, <3>2
    <2>3. drafts[q] # None =>
            \A o \in drafts[q].requests :
               Going(res'[q][o], drafts[q].snapshots[o], storage', asked) /\ Origin(o, drafts[q].snapshots[o], res)
      <3>1. drafts[q] # None => q # r /\ DataGoing(q, drafts[q], asked) /\ drafts[q].requests \subseteq PVCs
        BY SMTT(30), <1>0, <2>0 DEF DeleteKept, Recorded, DraftOK, DataOf, Data
      <3> QED BY SMTT(30), <2>2, <3>1
    <2>4. Exists(q) =>
            \A o \in cms[q].data.requests :
               Going(res'[q][o], cms[q].data.snapshots[o], storage', asked) /\ Origin(o, cms[q].data.snapshots[o], res)
      <3>1. Exists(q) => DataGoing(q, cms[q].data, asked) /\ cms[q].data.requests \subseteq PVCs
        BY <1>0, <2>0 DEF DeleteKept, Recorded, DataOf, Data
      <3>2. ASSUME Exists(q), q = r, p \in cms[q].data.requests
            PROVE  Going(y, cms[q].data.snapshots[p], storage', asked) /\ Origin(p, cms[q].data.snapshots[p], res)
        BY <3>1, <3>2 DEF DataGoing, DeleteTouched
      <3> QED BY SMTT(30), <2>2, <3>1, <3>2
    <2>5. run' # Idle /\ run'.req = q =>
            \A o \in run'.data.requests :
               Going(res'[q][o], run'.data.snapshots[o], storage', asked) /\ Origin(o, run'.data.snapshots[o], res)
      <3>1. run # Idle /\ run.req = q => DataGoing(q, run.data, asked) /\ run.data.requests \subseteq PVCs
        BY <2>0 DEF DeleteKept, Recorded, RunOK, DataOf, Data
      <3>2. CASE q # r
        BY SMTT(30), <2>2, <3>1, <3>2 DEF RunTouched
      <3>3. CASE q = r
        BY SMTT(30), <2>2, <3>1, <3>3 DEF RunTouched, DeleteTouched
      <3> QED BY SMTT(30), <3>2, <3>3
    <2>6. /\ drafts[q] # None => drafts[q].requests \subseteq PVCs
          /\ Exists(q) => cms[q].data.requests \subseteq PVCs
          /\ run' # Idle => run'.data.requests \subseteq PVCs
      BY <1>0 DEF Recorded, DraftOK, RunOK, DataOf, Data, Idle
    <2>7. /\ drafts[q] # None => DataGoing(q, drafts[q], asked)'
          /\ Exists(q) => DataGoing(q, cms[q].data, asked)'
      BY Zenon, <1>10, <2>3, <2>4, <2>6 DEF DataGoing
    <2>8. run' # Idle /\ run'.req = q => DataGoing(q, run.data, asked)'
      BY Zenon, <1>10, <2>5, <2>6 DEF DataGoing
    <2> QED BY <2>1, <2>7, <2>8 DEF DeleteKept, Exists, Idle
  <1>12. ASSUME NEW b \in Backups, SaveKept(b)
         PROVE  SaveKept(b)'
    <2>1. b.by \in Creates
      BY DEF Backups
    <2>2. ASSUME NEW o \in PVCs
          PROVE  Preserved(<<b.by, o>>, res'[b.by][o], b.data.snapshots[o], more)
      <3>1. Past(b.by) /\ Preserved(<<b.by, o>>, res[b.by][o], b.data.snapshots[o], live)
        BY Zenon, <1>12 DEF SaveKept, Kept
      <3> QED BY <1>4, <2>1, <3>1 DEF Preserved, HandleKept
    <2> QED BY SMTT(30), <1>2, <1>12, <2>2 DEF SaveKept, Kept
  <1>13. /\ \A u \in URLs : backups'[u] # None => SaveKept(backups[u])'
         /\ \A b \in uploads' : SaveKept(b)'
    <2>1. backups \in [URLs -> Backups \cup {None}] /\ uploads \subseteq Backups
      BY DEF Recorded, TypeOK
    <2> QED BY <1>12, <2>1 DEF Volumes
  <1>14. \A q \in Requests, o \in PVCs : cms'[q] = None => res'[q][o] = NoResources
    BY <1>1 DEF Volumes
  <1> QED BY <1>8, <1>11, <1>13, <1>14 DEF Volumes

=============================================================================
