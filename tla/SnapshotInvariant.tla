--------------------------- MODULE SnapshotInvariant ---------------------------
(***************************************************************************)
(* Type correctness of SnapshotController, for every choice of its         *)
(* constants, that requests end for good, and that of the requests for one *)
(* URL one goes on.                                                        *)
(*                                                                         *)
(* Known is the inductive invariant: everything that is recorded, cached,  *)
(* saved or worked on is well formed for its kind of request and its phase *)
(* (Recorded), and without lag a reconciliation works on what is recorded  *)
(* (Current). TurnsInv adds the order in which requests appear, start and  *)
(* are canceled.                                                           *)
(***************************************************************************)
EXTENDS SnapshotSteps

\* One turn of the loop: what it does to the PVC it is at, and how it goes on.
LEMMA TurnOf ==
    ASSUME Recorded, VolumeStep
    PROVE  LET r == run.req
               p == Min(run.todo)
           IN /\ run \in Runs /\ RunOK(run) /\ r \in Requests /\ p \in run.todo /\ p \in run.data.requests /\ p \in PVCs
              /\ run' \in Runs /\ RunOK(run')
              /\ run'.req = r /\ run'.before = run.before /\ run'.todo \subseteq run.todo \ {p}
              /\ UNCHANGED <<env, drafts, cms, cache, secrets, backups, storage, uploads, asked, uploaded>>
              /\ run'.data.requests = run.data.requests
              /\ Advances(run.data.phase, run'.data.phase)
              /\ run'.todo # {} => run'.data.phase = run.data.phase
              /\ \E e \in IF IsDeleting(run.data.vphase) THEN DeleteStep(res[r][p], run.data.snapshots[p], run.data.vphase)
                          ELSE CreateStep(res[r][p], run.data.snapshots[p]) :
                   /\ e.res \in Resources /\ e.status \in SnapshotStatus \cup {None}
                   /\ r \in Deletes => Preprovisioned(e.res)
                   /\ res' = [res EXCEPT ![r][p] = e.res]
                   /\ run'.data.snapshots = [run.data.snapshots EXCEPT ![p] = e.status]
                   /\ e.error => run'.data.phase = "Failed"
  <1> DEFINE r == run.req
             p == Min(run.todo)
             rest == run.todo \ {p}
             d == run.data
             s == d.snapshots[p]
             effects == IF IsDeleting(d.vphase) THEN DeleteStep(res[r][p], s, d.vphase) ELSE CreateStep(res[r][p], s)
  <1>1. run # Idle /\ run.todo # {}
    BY DEF VolumeStep
  <1>2. run \in Runs /\ RunOK(run)
    BY <1>1 DEF Recorded, TypeOK
  <1>3. r \in Requests /\ d \in Data /\ run.todo \subseteq PVCs /\ DataOf(r, d) /\ LoopOK(r, d, run.todo)
    BY <1>1, <1>2 DEF Runs, RunOK
  <1>4. p \in run.todo /\ p \in d.requests /\ p \in PVCs
    BY <1>1, <1>2, <1>3, MinIn, PVCsAreNumbered DEF RunOK
  <1>5. res[r][p] \in Resources
    BY Zenon, <1>3, <1>4 DEF Recorded, TypeOK
  <1>6. PICK e \in effects :
          /\ res' = [res EXCEPT ![r][p] = e.res]
          /\ run' = IF e.error
                    THEN [run EXCEPT !.data = [InFailure([d EXCEPT !.snapshots[p] = e.status]) EXCEPT !.vphase = "Failed"],
                                     !.todo = {}]
                    ELSE [run EXCEPT !.data = IF rest = {} THEN Concluded([d EXCEPT !.snapshots[p] = e.status])
                                              ELSE [d EXCEPT !.snapshots[p] = e.status],
                                     !.todo = rest]
    BY Zenon DEF VolumeStep
  <1>7. UNCHANGED <<env, drafts, cms, cache, secrets, backups, storage, uploads, asked, uploaded>>
    BY DEF VolumeStep, history
  <1> DEFINE d2 == [d EXCEPT !.snapshots[p] = e.status]
  <1>8. /\ e.res \in Resources /\ e.status \in SnapshotStatus \cup {None}
        /\ DataOf(r, d2) /\ (~e.error => LoopOK(r, d2, rest))
        /\ d2.phase = d.phase /\ d2.vphase = d.vphase /\ d2.requests = d.requests
        /\ d2.snapshots = [d.snapshots EXCEPT ![p] = e.status]
    <2>1. run.todo \in SUBSET d.requests
      BY <1>2 DEF RunOK
    <2>2. d2 = Turned(d, p, e.status) /\ e \in Effects(d, p, res[r][p])
      BY <1>6 DEF Turned, Effects
    <2> HIDE DEF r, d, p, d2
    <2>3. TurnOK(r, d, d2, run.todo, p, e)
      BY <1>3, <1>4, <1>5, <2>1, <2>2, LoopStep
    <2> QED BY <2>3 DEF TurnOK
  <1>9. PICK e2, t2 : run' = [run EXCEPT !.data = e2, !.todo = t2]
                      /\ IF e.error THEN e2 = [InFailure(d2) EXCEPT !.vphase = "Failed"] /\ t2 = {}
                         ELSE t2 = rest /\ e2 = IF rest = {} THEN Concluded(d2) ELSE d2
    BY Zenon, <1>6
  <1> HIDE DEF d2
  <1>10. /\ DataOf(r, e2) /\ e2.snapshots = d2.snapshots /\ e2.requests = d2.requests
         /\ t2 # {} => LoopOK(r, e2, t2)
         /\ Advances(d2.phase, e2.phase)
         /\ e2.phase \notin {"Completed", "PartiallyFailed"}
         /\ e.error => e2.phase = "Failed"
    <2>0. d2.phase \in {"CreatingVolumeSnapshots", "Canceling", "DeletingVolumeSnapshots"}
      BY Zenon, <1>3, <1>8 DEF LoopOK
    <2>1. CASE e.error
      <3> DEFINE g == InFailure(d2)
      <3>1. DataOf(r, g) /\ g.phase = "Failed" /\ SameButPhase(d2, g)
        BY <1>3, <1>8, FailedOf
      <3>2. e2 = [g EXCEPT !.vphase = "Failed"] /\ t2 = {}
        BY <1>9, <2>1
      <3> HIDE DEF g
      <3>3. /\ e2 \in Data /\ e2.phase = "Failed" /\ e2.vphase = "Failed" /\ e2.volumes = g.volumes
            /\ e2.requests = g.requests /\ e2.snapshots = g.snapshots
        BY <3>1, <3>2 DEF DataOf, Data, VolumePhases
      <3>4. DataOf(r, e2)
        BY <3>1, <3>3 DEF DataOf, VolumesOnly, CreateData, DeleteData, SnapshotsIn
      <3>5. Advances(d2.phase, e2.phase)
        BY <3>3 DEF Advances, Early, Active, Cancels
      <3> QED BY <3>1, <3>2, <3>3, <3>4, <3>5 DEF SameButPhase
    <2>2. CASE ~e.error /\ rest = {}
      <3>1. e2 = Concluded(d2) /\ t2 = {}
        BY <1>9, <2>2
      <3>2. d2.requests # {} /\ LoopOK(r, d2, {})
        BY <1>4, <1>8, <2>2
      <3> HIDE DEF r
      <3>3. /\ DataOf(r, e2) /\ e2.snapshots = d2.snapshots /\ e2.requests = d2.requests
            /\ e2.phase \in {d2.phase, "CreatingEtcdBackup", "Canceled", "Failed", "DeletingEtcdBackup"}
            /\ Advances(d2.phase, e2.phase)
        BY Zenon, <1>3, <1>8, <3>1, <3>2, ConcludedOf
      <3> QED BY <2>0, <2>2, <3>1, <3>3
    <2>3. CASE ~e.error /\ rest # {}
      <3>1. e2 = d2 /\ t2 = rest
        BY <1>9, <2>3
      <3>2. Advances(d2.phase, d2.phase)
        BY DEF Advances
      <3> QED BY Zenon, <1>8, <2>0, <2>3, <3>1, <3>2
    <2> QED BY Zenon, <2>1, <2>2, <2>3
  <1>11. t2 \subseteq rest
    BY <1>9
  <1>12. /\ run' \in Runs /\ run'.req = r /\ run'.before = run.before /\ run'.data = e2 /\ run'.todo = t2
    BY Zenon, <1>2, <1>3, <1>9, <1>10, <1>11 DEF Runs, DataOf
  <1>13. RunOK(run')
    <2>1. Advances(run.before.phase, e2.phase)
      BY Zenon, <1>2, <1>8, <1>10 DEF RunOK, Advances
    <2>2. t2 \subseteq e2.requests
      BY Zenon, <1>2, <1>8, <1>10, <1>11 DEF RunOK
    <2> QED BY <1>10, <1>12, <2>1, <2>2 DEF RunOK
  <1>14. /\ run'.data.requests = d.requests /\ run'.data.snapshots = [d.snapshots EXCEPT ![p] = e.status]
         /\ Advances(d.phase, run'.data.phase)
         /\ run'.todo # {} => run'.data.phase = d.phase
         /\ e.error => run'.data.phase = "Failed"
    BY <1>8, <1>9, <1>10, <1>12
  <1>15. ASSUME r \in Deletes
         PROVE  Preprovisioned(e.res)
    <2>1. d.vphase = "Deleting" /\ Preprovisioned(res[r][p])
      BY Zenon, <1>3, <1>4, <1>15, RequestsAreDistinct DEF LoopOK, Recorded
    <2>2. s \in SnapshotStatus \cup {None}
      BY <1>3, <1>4 DEF Data
    <2>3. e \in DeleteStep(res[r][p], s, "Deleting")
      BY <2>1 DEF IsDeleting
    <2> HIDE DEF r, p, s
    <2> QED BY <1>5, <2>1, <2>2, <2>3, PreprovisionedStays
  <1> QED BY Zenon, <1>2, <1>3, <1>4, <1>6, <1>7, <1>8, <1>11, <1>12, <1>13, <1>14, <1>15

\* The loop over the PVCs keeps what is recorded well formed.
LEMMA TurnRecorded ==
    ASSUME Recorded, VolumeStep
    PROVE  Recorded'
  <1> DEFINE r == run.req
             p == Min(run.todo)
  <1>1. /\ r \in Requests /\ p \in PVCs /\ run' \in Runs /\ RunOK(run')
        /\ UNCHANGED <<env, drafts, cms, cache, secrets, backups, storage, uploads, asked, uploaded>>
    BY TurnOf
  <1>2. PICK x \in Resources : res' = [res EXCEPT ![r][p] = x] /\ (r \in Deletes => Preprovisioned(x))
    BY Zenon, TurnOf
  <1> HIDE DEF r, p
  <1>3. res' \in [Requests -> [PVCs -> Resources]]
    BY <1>1, <1>2 DEF Recorded, TypeOK
  <1>5. \A o \in Deletes, y \in PVCs : Preprovisioned(res'[o][y])
    BY <1>1, <1>2 DEF Recorded, TypeOK, Requests
  <1>4. run' # Idle => /\ DataOf(run'.req, run'.data) /\ run'.todo \subseteq run'.data.requests
                       /\ run'.todo # {} => LoopOK(run'.req, run'.data, run'.todo)
                       /\ run'.req \in Creates /\ run'.data.phase \in {"Completed", "PartiallyFailed"}
                          => run'.req \in uploaded
                       /\ Advances(run'.before.phase, run'.data.phase)
    BY Zenon, <1>1 DEF RunOK
  <1> QED BY Zenon, <1>1, <1>3, <1>4, <1>5, Carried DEF Recorded, TypeOK

\* What a reconciliation writes in the end.
LEMMA SaveWrites ==
    ASSUME Recorded, Save
    PROVE  LET r == run.req
           IN /\ run \in Runs /\ RunOK(run) /\ r \in Requests /\ run' = Idle /\ Caches
              /\ run # Idle /\ run.todo = {}
              /\ UNCHANGED <<env, drafts, secrets, backups, res, storage, uploads, asked, uploaded>>
              /\ cms' \in [Requests -> ConfigMaps \cup {None, Gone}]
              /\ \A o \in Requests : o # r => cms'[o] = cms[o]
              /\ ~Exists(r) => cms'[r] = cms[r]
              /\ Exists(r) => /\ cms'[r] \in ConfigMaps /\ cms'[r].finalizer = cms[r].finalizer
                              /\ cms'[r].data \in {cms[r].data, run.data}
                              /\ run.data # run.before => cms'[r].data = run.data
                              /\ run.data = run.before => cms' = cms
  <1> DEFINE r == run.req
  <1>1. /\ run # Idle /\ run.todo = {} /\ run' = Idle /\ Caches
        /\ cms' = IF run.data # run.before /\ Exists(r) THEN [cms EXCEPT ![r].data = run.data] ELSE cms
        /\ UNCHANGED <<env, drafts, secrets, backups, res, storage, uploads, asked, uploaded>>
    BY DEF Save, csi, history
  <1>2. /\ run \in Runs /\ RunOK(run) /\ cms \in [Requests -> ConfigMaps \cup {None, Gone}]
    BY <1>1 DEF Recorded, TypeOK
  <1>3. r \in Requests /\ run.data \in Data
    BY <1>2 DEF Runs
  <1> HIDE DEF r
  <1>4. CASE run.data # run.before /\ Exists(r)
    <2>1. cms' = [cms EXCEPT ![r].data = run.data] /\ cms[r] \in ConfigMaps
      BY <1>1, <1>2, <1>3, <1>4 DEF Exists
    <2>2. /\ cms'[r] \in ConfigMaps /\ cms'[r].finalizer = cms[r].finalizer /\ cms'[r].data = run.data
      BY <1>2, <1>3, <2>1 DEF ConfigMaps
    <2>3. /\ \A o \in Requests : o # r => cms'[o] = cms[o]
          /\ cms' \in [Requests -> ConfigMaps \cup {None, Gone}]
      BY <1>2, <1>3, <2>1, <2>2
    <2> QED BY <1>1, <1>2, <1>3, <1>4, <2>2, <2>3 DEF r
  <1>5. CASE ~(run.data # run.before /\ Exists(r))
    <2>1. cms' = cms
      BY <1>1, <1>5
    <2> QED BY <1>1, <1>2, <1>3, <1>5, <2>1 DEF r, Exists
  <1> QED BY <1>4, <1>5

\* updateRequest writes a well-formed request.
LEMMA SaveRecorded ==
    ASSUME Recorded, Save
    PROVE  Recorded'
  <1> DEFINE r == run.req
  <1>1. /\ RunOK(run) /\ r \in Requests /\ run' = Idle /\ Caches
        /\ UNCHANGED <<env, drafts, secrets, backups, res, storage, uploads, asked, uploaded>>
        /\ cms' \in [Requests -> ConfigMaps \cup {None, Gone}]
        /\ \A o \in Requests : o # r => cms'[o] = cms[o]
        /\ ~Exists(r) => cms'[r] = cms[r]
        /\ Exists(r) => cms'[r] \in ConfigMaps /\ cms'[r].data \in {cms[r].data, run.data}
    BY Zenon, SaveWrites
  <1> HIDE DEF r
  <1>2. \A o \in Requests : cms'[o] \notin {None, Gone} => DataOf(o, cms'[o].data)
    <2>1. DataOf(r, run.data)
      BY Zenon, <1>1 DEF RunOK, r
    <2> QED BY Zenon, <1>1, <2>1 DEF Recorded, Exists
  <1>3. \A o \in Requests : cms[o] = None => cms'[o] = None
    BY Zenon, <1>1 DEF Exists
  <1>4. TypeOK'
    BY Zenon, <1>1 DEF Recorded, TypeOK, Caches
  <1>5. \A o \in Requests : DraftOK(o)'
    BY Zenon, <1>1, <1>3 DEF Recorded, DraftOK, DataOf, VolumesOnly
  <1>6. \A o \in Requests : (Exists(o) => DataOf(o, cms[o].data))'
    BY <1>1, <1>2 DEF Exists, DataOf, VolumesOnly
  <1>7. \A o \in Requests : (Cached(o) => DataOf(o, cache[o].data))'
    BY Zenon, <1>1, <1>2 DEF Recorded, Caches, Cached, DataOf, VolumesOnly
  <1>8. /\ \A u \in URLs : (backups[u] # None => BackupOK(backups[u]))'
        /\ \A b \in uploads' : BackupOK(b)'
    BY Zenon, <1>1 DEF Recorded, BackupOK, VolumesOnly
  <1> QED BY Zenon, <1>1, <1>4, <1>5, <1>6, <1>7, <1>8 DEF Recorded, Idle

\* Uploads that end late and crashes keep what is recorded well formed.
LEMMA FinishRecorded ==
    ASSUME Recorded, FinishUpload \/ Crash
    PROVE  Recorded'
  <1>0. /\ backups \in [URLs -> Backups \cup {None}] /\ uploads \subseteq Backups
        /\ \A u \in URLs : backups[u] # None => BackupOK(backups[u])
        /\ \A b \in uploads : BackupOK(b)
        /\ run \in Runs \cup {Idle}
    BY DEF Recorded, TypeOK
  <1>1. CASE FinishUpload
    <2>1. PICK b \in uploads :
            /\ backups' = [backups EXCEPT ![URL[b.by]] = b] /\ uploads' = uploads \ {b}
            /\ UNCHANGED <<env, drafts, cms, cache, secrets, run, res, storage, asked, uploaded>>
      BY Zenon, <1>1 DEF FinishUpload, csi, history
    <2>2. b \in Backups /\ BackupOK(b) /\ URL[b.by] \in URLs
      BY <1>0, RequestsHaveURLs DEF Backups, Requests
    <2>3. \A u \in URLs : backups'[u] = IF u = URL[b.by] THEN b ELSE backups[u]
      BY <1>0, <2>1
    <2>4. /\ backups' \in [URLs -> Backups \cup {None}]
          /\ \A u \in URLs : backups'[u] # None => BackupOK(backups'[u])
      BY <1>0, <2>1, <2>2, <2>3
    <2>5. uploads' \subseteq Backups /\ \A c \in uploads' : BackupOK(c)
      BY <1>0, <2>1
    <2> QED BY Zenon, <1>0, <2>1, <2>4, <2>5, Carried DEF Recorded, TypeOK, RunOK
  <1>2. CASE Crash
    <2>1. /\ run' = Idle /\ uploads' \subseteq uploads
          /\ UNCHANGED <<env, drafts, cms, cache, secrets, backups, res, storage, asked, uploaded>>
      BY <1>2 DEF Crash, csi, history
    <2> QED BY Zenon, <1>0, <2>1, Carried DEF Recorded, TypeOK
  <1> QED BY <1>1, <1>2

-----------------------------------------------------------------------------
(* What the CSI controller does to the resources of a PVC.                   *)

\* Binding a content, reporting its state, taking the snapshot or failing to, deleting the content
\* of a deleted VolumeSnapshot, and removing the two.
Bound(x, y) ==
    /\ x.vs # None /\ x.vs.source = "claim" /\ ~x.vs.bound /\ ~x.vs.deleting
    /\ y.vs = [x.vs EXCEPT !.bound = TRUE] /\ y.named = x.named
    /\ y.dynamic \in Contents /\ y.dynamic.state = "unset" /\ ~y.dynamic.deleting /\ y.dynamic.handle = None
Reported(x, y) ==
    /\ x.vs # None /\ \E f \in States : y.vs = [x.vs EXCEPT !.state = f]
    /\ y.dynamic = x.dynamic /\ y.named = x.named
Snapshotted(x, y, h) ==
    /\ x.dynamic # None /\ x.dynamic.state # "ready" /\ ~x.dynamic.deleting
    /\ y.vs = x.vs /\ y.named = x.named
    /\ y.dynamic = [x.dynamic EXCEPT !.state = "ready", !.handle = h]
Erred(x, y) ==
    /\ x.dynamic # None /\ x.dynamic.state = "unset"
    /\ y.vs = x.vs /\ y.named = x.named
    /\ y.dynamic = [x.dynamic EXCEPT !.state = "error"]
ContentDeleting(x, y) ==
    /\ x.vs # None /\ x.vs.deleting /\ y.vs = x.vs
    /\ \/ /\ x.vs.source = "claim" /\ x.vs.bound /\ x.dynamic # None /\ x.dynamic.policy = "Delete"
          /\ y.dynamic = [x.dynamic EXCEPT !.deleting = TRUE] /\ y.named = x.named
       \/ /\ x.vs.source = "content" /\ x.named # None /\ x.named.policy = "Delete"
          /\ y.named = [x.named EXCEPT !.deleting = TRUE] /\ y.dynamic = x.dynamic
ContentRemoved(x, y, before, after) ==
    /\ y.vs = x.vs
    /\ \/ /\ x.dynamic # None /\ x.dynamic.deleting /\ y.dynamic = None /\ y.named = x.named
          /\ after = IF x.dynamic.policy = "Delete" THEN before \ {x.dynamic.handle} ELSE before
       \/ /\ x.named # None /\ x.named.deleting /\ y.named = None /\ y.dynamic = x.dynamic
          /\ after = IF x.named.policy = "Delete" THEN before \ {x.named.handle} ELSE before
SnapshotRemoved(x, y) ==
    /\ x.vs # None /\ x.vs.deleting /\ y.vs = None
    /\ x.vs.source = "claim" /\ x.vs.bound /\ x.dynamic # None => x.dynamic.policy = "Retain"
    /\ x.vs.source = "content" /\ x.named # None => x.named.policy = "Retain"
    /\ y.dynamic = x.dynamic /\ y.named = x.named

CSIEffect(r, p, x, y, before, after) ==
    \/ (Bound(x, y) \/ Reported(x, y) \/ Erred(x, y) \/ ContentDeleting(x, y) \/ SnapshotRemoved(x, y)) /\ after = before
    \/ Snapshotted(x, y, <<r, p>>) /\ after = before \cup {<<r, p>>}
    \/ ContentRemoved(x, y, before, after)

\* The steps of the CSI controller in these terms.
LEMMA CSIWrites ==
    ASSUME TypeOK, NEW r \in Requests, NEW p \in PVCs, CSI(r, p)
    PROVE  /\ \E y : res' = [res EXCEPT ![r][p] = y] /\ CSIEffect(r, p, res[r][p], y, storage, storage')
                     /\ DOMAIN y = {"vs", "dynamic", "named"} /\ y = [f \in DOMAIN y |-> y[f]]
           /\ UNCHANGED <<env, drafts, cms, cache, secrets, backups, run, uploads, asked, uploaded>>
  <1> DEFINE x == res[r][p]
  <1>0. x \in Resources /\ env \in Environments /\ res \in [Requests -> [PVCs -> Resources]]
    BY DEF TypeOK
  <1>a. UNCHANGED <<env, drafts, cms, cache, secrets, backups, run, uploads, asked, uploaded>>
    BY Zenon DEF CSI, BindContent, TakeSnapshot, ReportState, DeleteContent, RemoveContent, RemoveSnapshot, history
  <1>b. /\ Owned(r, p) = Content(x, ContentOf(x))
        /\ ContentOf(x) \in {None, "dynamic", "named"}
        /\ x.vs # None /\ x.vs.source = "content" => ContentOf(x) = "named"
        /\ x.vs # None /\ x.vs.source = "claim" => ContentOf(x) = IF x.vs.bound THEN "dynamic" ELSE None
        /\ x.vs # None => x.vs.source \in {"claim", "content"}
    BY Zenon, <1>0, ContentOfName DEF Owned, Resources, VolumeSnapshots
  <1>1. CASE BindContent(r, p)
    <2>1. PICK policy \in env.policies :
             res' = [res EXCEPT ![r][p].vs.bound = TRUE, ![r][p].dynamic = NamedContent(None, policy)]
      BY Zenon, <1>1 DEF BindContent
    <2>2. /\ x.vs # None /\ x.vs.source = "claim" /\ ~x.vs.bound /\ ~x.vs.deleting /\ storage' = storage
      BY <1>1 DEF BindContent
    <2> DEFINE y == [x EXCEPT !.vs.bound = TRUE, !.dynamic = NamedContent(None, policy)]
    <2>3. res' = [res EXCEPT ![r][p] = y]
      BY Zenon, <1>0, <2>1
    <2>4. /\ y.vs = [x.vs EXCEPT !.bound = TRUE] /\ y.named = x.named /\ y.dynamic = NamedContent(None, policy)
          /\ DOMAIN y = {"vs", "dynamic", "named"} /\ y = [f \in DOMAIN y |-> y[f]]
      BY Zenon, <1>0 DEF Resources
    <2> HIDE DEF y
    <2>5. Bound(x, y)
      BY <1>0, <2>2, <2>4, EnvironmentsAreSwitches DEF Bound, NamedContent, Contents, Policies, States
    <2> QED BY Zenon, <1>a, <2>2, <2>3, <2>4, <2>5 DEF CSIEffect
  <1>2. CASE TakeSnapshot(r, p)
    <2>1. x.dynamic # None /\ x.dynamic.state # "ready" /\ ~x.dynamic.deleting
      BY <1>2 DEF TakeSnapshot
    <2>2. CASE /\ res' = [res EXCEPT ![r][p].dynamic.state = "ready", ![r][p].dynamic.handle = <<r, p>>]
               /\ storage' = storage \cup {<<r, p>>}
      <3> DEFINE y == [x EXCEPT !.dynamic.state = "ready", !.dynamic.handle = <<r, p>>]
      <3>1. res' = [res EXCEPT ![r][p] = y]
        BY Zenon, <1>0, <2>2
      <3>2. /\ y.vs = x.vs /\ y.named = x.named
            /\ y.dynamic = [x.dynamic EXCEPT !.state = "ready", !.handle = <<r, p>>]
            /\ DOMAIN y = {"vs", "dynamic", "named"} /\ y = [f \in DOMAIN y |-> y[f]]
        BY Zenon, <1>0 DEF Resources
      <3> HIDE DEF y
      <3> QED BY Zenon, <1>a, <2>1, <2>2, <3>1, <3>2 DEF CSIEffect, Snapshotted
    <2>3. CASE /\ x.dynamic.state = "unset" /\ res' = [res EXCEPT ![r][p].dynamic.state = "error"]
               /\ storage' = storage
      <3> DEFINE y == [x EXCEPT !.dynamic.state = "error"]
      <3>1. res' = [res EXCEPT ![r][p] = y]
        BY <1>0, <2>3
      <3>2. /\ y.vs = x.vs /\ y.named = x.named /\ y.dynamic = [x.dynamic EXCEPT !.state = "error"]
            /\ DOMAIN y = {"vs", "dynamic", "named"} /\ y = [f \in DOMAIN y |-> y[f]]
        BY <1>0 DEF Resources
      <3> HIDE DEF y
      <3> QED BY Zenon, <1>a, <2>1, <2>3, <3>1, <3>2 DEF CSIEffect, Erred
    <2> QED BY <1>2, <2>2, <2>3 DEF TakeSnapshot
  <1>3. CASE ReportState(r, p)
    <2> DEFINE g == Owned(r, p).state
               y == [x EXCEPT !.vs.state = g]
    <2>1. /\ x.vs # None /\ Owned(r, p) # None /\ storage' = storage
          /\ res' = [res EXCEPT ![r][p].vs.state = g]
      BY <1>3 DEF ReportState
    <2>2. g \in States
      BY <1>0, <1>b, <2>1 DEF Content, Resources, Contents
    <2> HIDE DEF g
    <2>3. res' = [res EXCEPT ![r][p] = y]
      BY <1>0, <2>1
    <2>4. /\ y.vs = [x.vs EXCEPT !.state = g] /\ y.named = x.named /\ y.dynamic = x.dynamic
          /\ DOMAIN y = {"vs", "dynamic", "named"} /\ y = [f \in DOMAIN y |-> y[f]]
      BY Zenon, <1>0 DEF Resources
    <2> HIDE DEF y
    <2> QED BY Zenon, <1>a, <2>1, <2>2, <2>3, <2>4 DEF CSIEffect, Reported
  <1>4. CASE DeleteContent(r, p)
    <2>1. /\ x.vs # None /\ x.vs.deleting /\ Owned(r, p) # None /\ Owned(r, p).policy = "Delete"
          /\ storage' = storage /\ res' = [res EXCEPT ![r][p][ContentOf(x)].deleting = TRUE]
      BY <1>4 DEF DeleteContent
    <2>2. ContentOf(x) # None
      BY <1>b, <2>1 DEF Content
    <2>3. CASE ContentOf(x) = "dynamic"
      <3> DEFINE y == [x EXCEPT !.dynamic.deleting = TRUE]
      <3>1. res' = [res EXCEPT ![r][p].dynamic.deleting = TRUE]
        BY Zenon, <2>1, <2>3
      <3>2. res' = [res EXCEPT ![r][p] = y]
        BY <1>0, <3>1
      <3>3. /\ y.vs = x.vs /\ y.named = x.named /\ y.dynamic = [x.dynamic EXCEPT !.deleting = TRUE]
            /\ DOMAIN y = {"vs", "dynamic", "named"} /\ y = [f \in DOMAIN y |-> y[f]]
        BY Zenon, <1>0 DEF Resources
      <3>4. x.vs.source = "claim" /\ x.vs.bound /\ x.dynamic # None /\ x.dynamic.policy = "Delete"
        BY <1>b, <2>1, <2>2, <2>3 DEF Content
      <3> HIDE DEF y
      <3> QED BY Zenon, <1>a, <2>1, <3>2, <3>3, <3>4 DEF CSIEffect, ContentDeleting
    <2>4. CASE ContentOf(x) = "named"
      <3> DEFINE y == [x EXCEPT !.named.deleting = TRUE]
      <3>1. res' = [res EXCEPT ![r][p].named.deleting = TRUE]
        BY Zenon, <2>1, <2>4
      <3>2. res' = [res EXCEPT ![r][p] = y]
        BY <1>0, <3>1
      <3>3. /\ y.vs = x.vs /\ y.dynamic = x.dynamic /\ y.named = [x.named EXCEPT !.deleting = TRUE]
            /\ DOMAIN y = {"vs", "dynamic", "named"} /\ y = [f \in DOMAIN y |-> y[f]]
        BY Zenon, <1>0 DEF Resources
      <3>4. x.vs.source = "content" /\ x.named # None /\ x.named.policy = "Delete"
        BY <1>b, <2>1, <2>2, <2>4 DEF Content
      <3> HIDE DEF y
      <3> QED BY Zenon, <1>a, <2>1, <3>2, <3>3, <3>4 DEF CSIEffect, ContentDeleting
    <2> QED BY <1>b, <2>2, <2>3, <2>4
  <1>5. CASE RemoveContent(r, p)
    <2>1. PICK name \in {"dynamic", "named"} :
            /\ x[name] # None /\ x[name].deleting /\ res' = [res EXCEPT ![r][p][name] = None]
            /\ storage' = IF x[name].policy = "Delete" THEN storage \ {x[name].handle} ELSE storage
      BY Zenon, <1>5 DEF RemoveContent
    <2>2. CASE name = "dynamic"
      <3> DEFINE y == [x EXCEPT !.dynamic = None]
      <3>2. res' = [res EXCEPT ![r][p] = y]
        BY Zenon, <1>0, <2>1, <2>2
      <3>3. /\ y.vs = x.vs /\ y.named = x.named /\ y.dynamic = None
            /\ DOMAIN y = {"vs", "dynamic", "named"} /\ y = [f \in DOMAIN y |-> y[f]]
        BY Zenon, <1>0 DEF Resources
      <3> HIDE DEF y
      <3> QED BY Zenon, <1>a, <2>1, <2>2, <3>2, <3>3 DEF CSIEffect, ContentRemoved
    <2>3. CASE name = "named"
      <3> DEFINE y == [x EXCEPT !.named = None]
      <3>2. res' = [res EXCEPT ![r][p] = y]
        BY Zenon, <1>0, <2>1, <2>3
      <3>3. /\ y.vs = x.vs /\ y.dynamic = x.dynamic /\ y.named = None
            /\ DOMAIN y = {"vs", "dynamic", "named"} /\ y = [f \in DOMAIN y |-> y[f]]
        BY Zenon, <1>0 DEF Resources
      <3> HIDE DEF y
      <3> QED BY Zenon, <1>a, <2>1, <2>3, <3>2, <3>3 DEF CSIEffect, ContentRemoved
    <2> QED BY Zenon, <2>1, <2>2, <2>3
  <1>6. CASE RemoveSnapshot(r, p)
    <2> DEFINE y == [x EXCEPT !.vs = None]
    <2>1. /\ x.vs # None /\ x.vs.deleting /\ (Owned(r, p) # None => Owned(r, p).policy = "Retain")
          /\ storage' = storage /\ res' = [res EXCEPT ![r][p].vs = None]
      BY <1>6 DEF RemoveSnapshot
    <2>2. res' = [res EXCEPT ![r][p] = y]
      BY <1>0, <2>1
    <2>3. /\ y.vs = None /\ y.dynamic = x.dynamic /\ y.named = x.named
          /\ DOMAIN y = {"vs", "dynamic", "named"} /\ y = [f \in DOMAIN y |-> y[f]]
      BY Zenon, <1>0 DEF Resources
    <2> HIDE DEF y
    <2>4. SnapshotRemoved(x, y)
      BY <1>b, <2>1, <2>3, NoneIsNoName DEF SnapshotRemoved, Content
    <2> QED BY Zenon, <1>a, <2>1, <2>2, <2>3, <2>4 DEF CSIEffect
  <1> QED BY <1>1, <1>2, <1>3, <1>4, <1>5, <1>6 DEF CSI

\* The CSI controller keeps the types of the resources, and takes no snapshots for deletions.
LEMMA CSIType ==
    ASSUME NEW r \in Requests, NEW p \in PVCs, NEW x \in Resources, NEW y, NEW before \in SUBSET Handles, NEW after,
           r \in Deletes => Preprovisioned(x), CSIEffect(r, p, x, y, before, after),
           DOMAIN y = {"vs", "dynamic", "named"}, y = [f \in DOMAIN y |-> y[f]]
    PROVE  y \in Resources /\ after \subseteq Handles /\ (r \in Deletes => Preprovisioned(y))
  <1>0. /\ x.vs \in VolumeSnapshots \cup {None} /\ x.dynamic \in Contents \cup {None}
        /\ x.named \in Contents \cup {None}
    BY DEF Resources
  <1> DEFINE Fields == /\ y.vs \in VolumeSnapshots \cup {None} /\ y.dynamic \in Contents \cup {None}
                       /\ y.named \in Contents \cup {None}
                       /\ after \subseteq Handles /\ (r \in Deletes => Preprovisioned(y))
  <1>1. ASSUME Bound(x, y) /\ after = before PROVE Fields
    BY Zenon, <1>0, <1>1 DEF Bound, VolumeSnapshots, Preprovisioned
  <1>2. ASSUME Reported(x, y) /\ after = before PROVE Fields
    BY <1>0, <1>2 DEF Reported, VolumeSnapshots, Preprovisioned
  <1>3. ASSUME Erred(x, y) /\ after = before PROVE Fields
    BY <1>0, <1>3 DEF Erred, Contents, States, Preprovisioned
  <1>4. ASSUME ContentDeleting(x, y) /\ after = before PROVE Fields
    BY Zenon, <1>0, <1>4 DEF ContentDeleting, Contents, Preprovisioned
  <1>5. ASSUME SnapshotRemoved(x, y) /\ after = before PROVE Fields
    BY <1>0, <1>5 DEF SnapshotRemoved, Preprovisioned
  <1>6. ASSUME Snapshotted(x, y, <<r, p>>) /\ after = before \cup {<<r, p>>} PROVE Fields
    <2>1. r \in Creates
      BY <1>6 DEF Snapshotted, Preprovisioned, Requests
    <2>2. <<r, p>> \in Handles
      BY <2>1, HandlesNameClaims
    <2> QED BY Zenon, <1>0, <1>6, <2>1, <2>2, RequestsAreDistinct DEF Snapshotted, Contents, States
  <1>7. ASSUME ContentRemoved(x, y, before, after) PROVE Fields
    BY <1>0, <1>7 DEF ContentRemoved, Preprovisioned
  <1>8. Fields
    BY <1>1, <1>2, <1>3, <1>4, <1>5, <1>6, <1>7 DEF CSIEffect
  <1>9. y \in Resources
    BY <1>8 DEF Resources
  <1> QED BY <1>8, <1>9

\* The CSI controller writes no requests.
LEMMA CSIRecorded ==
    ASSUME Recorded, NEW r \in Requests, NEW p \in PVCs, CSI(r, p)
    PROVE  Recorded'
  <1>0. TypeOK /\ res[r][p] \in Resources /\ storage \in SUBSET Handles
    BY DEF Recorded, TypeOK
  <1>1. PICK y : /\ res' = [res EXCEPT ![r][p] = y] /\ CSIEffect(r, p, res[r][p], y, storage, storage')
                 /\ DOMAIN y = {"vs", "dynamic", "named"} /\ y = [f \in DOMAIN y |-> y[f]]
    BY <1>0, CSIWrites
  <1>2. UNCHANGED <<env, drafts, cms, cache, secrets, backups, run, uploads, asked, uploaded>>
    BY <1>0, CSIWrites
  <1>3. y \in Resources /\ storage' \subseteq Handles /\ (r \in Deletes => Preprovisioned(y))
    <2>1. r \in Deletes => Preprovisioned(res[r][p])
      BY DEF Recorded
    <2> QED BY <1>0, <1>1, <2>1, CSIType
  <1>4. res' \in [Requests -> [PVCs -> Resources]]
    BY <1>1, <1>3 DEF Recorded, TypeOK
  <1>5. \A o \in Deletes, q \in PVCs : Preprovisioned(res'[o][q])
    BY <1>1, <1>3 DEF Recorded, TypeOK, Requests
  <1> QED BY Zenon, <1>2, <1>3, <1>4, <1>5, Carried DEF Recorded, TypeOK, RunOK

\* Every step keeps what is recorded well formed.
LEMMA StepRecorded ==
    ASSUME Recorded, [Next]_vars
    PROVE  Recorded'
  <1>1. CASE UNCHANGED vars
    <2>1. UNCHANGED <<env, drafts, cms, cache, secrets, backups, run, res, storage, uploads, asked, uploaded>>
      BY <1>1 DEF vars
    <2> QED BY Zenon, <2>1, Carried DEF Recorded, TypeOK, RunOK
  <1> QED BY <1>1, ClientRecorded, SyncRecorded, ReconcileRecorded, TurnRecorded, SaveRecorded, FinishRecorded, CSIRecorded
          DEF Next

-----------------------------------------------------------------------------
(* When the controller reads its own writes.                                 *)

\* At first nothing runs, and the cache is empty as is the API server.
LEMMA InitCurrent == Init => Current
  BY DEF Init, Current, Idle

\* A reconciliation that begins finds the request as it is, not done and locked.
LEMMA BegunCurrent ==
    ASSUME Recorded, ~env.stale, Current, NEW r \in Requests, Reconcilable(r), ~RequestDone(cache[r].data.phase),
           run' \in Runs, run'.req = r, run'.before = cache[r].data,
           run'.data.snapshots = cache[r].data.snapshots,
           run'.todo # {} => run'.data.phase = cache[r].data.phase, UNCHANGED <<cms, cache>>
    PROVE  Current'
  <1>1. cache = cms /\ Cached(r) /\ cache[r].finalizer
    BY DEF Current, Reconcilable
  <1>2. Exists(r)' /\ cms'[r].finalizer /\ cms'[r].data = run'.before
    BY <1>1 DEF Exists, Cached
  <1>3. \A p \in run'.todo : run'.data.snapshots[p] = run'.before.snapshots[p]
    OBVIOUS
  <1> QED BY Zenon, <1>1, <1>2, <1>3 DEF Current, Exists, RequestDone

\* Without lag a reconciliation works on what is recorded until it has written: the finalizer
\* keeps the ConfigMap while it runs, and no other reconciliation does.
LEMMA StepCurrent ==
    ASSUME Recorded, ~env.stale, Current, [Next]_vars
    PROVE  Current' /\ env' = env
  <1>0. /\ cms \in [Requests -> ConfigMaps \cup {None, Gone}] /\ cache = cms
        /\ run \in Runs \cup {Idle} /\ (run # Idle => run.req \in Requests)
    BY DEF Recorded, TypeOK, Current, Runs
  <1>a. ASSUME UNCHANGED <<env, cms, cache, run>> PROVE Current' /\ env' = env
    BY Zenon, <1>a DEF Current, Exists, RequestDone, Idle
  <1>b. ASSUME Caches, UNCHANGED env, run' = Idle PROVE Current' /\ env' = env
    BY <1>b DEF Current, Caches, Idle
  <1>1. CASE UNCHANGED vars
    BY <1>1, <1>a DEF vars
  <1>2. ASSUME NEW r \in Requests, Client(r) PROVE Current' /\ env' = env
    <2>1. CASE CreateSecret(r) \/ DeleteSecret(r)
      BY <1>a, <2>1 DEF CreateSecret, DeleteSecret
    <2>2. CASE CreateConfigMap(r)
      <3>1. /\ cms[r] = None /\ cms' = [cms EXCEPT ![r] = [data |-> drafts[r], finalizer |-> FALSE, deleting |-> FALSE]]
            /\ cache' = cms' /\ run' = run /\ env' = env
        BY <2>2 DEF CreateConfigMap, Caches, Recorded, DraftOK
      <3>2. run # Idle => run.req # r /\ cms'[run.req] = cms[run.req]
        BY Zenon, <1>0, <3>1 DEF Current, Exists
      <3> QED BY <3>1, <3>2 DEF Current, Exists, RequestDone, Idle
    <2>3. CASE DeleteConfigMap(r)
      <3>1. /\ Exists(r) /\ cms' = [cms EXCEPT ![r] = Removed(cms[r])]
            /\ cache' = cms' /\ run' = run /\ env' = env
        BY <2>3 DEF DeleteConfigMap, Caches
      <3>2. run # Idle /\ run.req = r =>
              cms'[r] \in ConfigMaps /\ cms'[r].finalizer /\ cms'[r].data = cms[r].data
        BY Zenon, <1>0, <3>1 DEF Current, Exists, Removed, ConfigMaps
      <3>3. run # Idle /\ run.req # r => cms'[run.req] = cms[run.req]
        BY <1>0, <3>1
      <3> QED BY <1>0, <3>1, <3>2, <3>3, NoneIsNoConfigMap DEF Current, Exists, RequestDone, Idle
    <2> QED BY <1>2, <2>1, <2>2, <2>3 DEF Client
  <1>3. ASSUME NEW r \in Requests, Sync(r) PROVE Current' /\ env' = env
    BY <1>0, <1>3 DEF Sync
  <1>4. ASSUME NEW r \in Requests, Reconcile(r) PROVE Current' /\ env' = env
    <2>1. CASE ReconcileDeleted(r) \/ ReconcileDone(r)
      <3>1. Caches /\ UNCHANGED env /\ run' = Idle
        BY <2>1, EndedWrites
      <3> QED BY <1>b, <3>1
    <2>2. CASE AddFinalizer(r) \/ CancelPrevious(r)
      BY <1>b, <2>2 DEF AddFinalizer, CancelPrevious, Reconcilable
    <2>3. CASE StartRequest(r)
      <3>1. /\ Reconcilable(r) /\ ~RequestDone(cache[r].data.phase) /\ UNCHANGED <<env, cms, cache>>
        BY <2>3 DEF StartRequest, RequestDone
      <3> QED BY <2>3, <3>1, StartedRun, BegunCurrent
    <2>4. CASE ReconcileVolumes(r)
      <3>1. /\ Reconcilable(r) /\ ~RequestDone(cache[r].data.phase) /\ UNCHANGED <<env, cms, cache>>
        BY <2>4 DEF ReconcileVolumes, RequestDone
      <3> QED BY <2>4, <3>1, VolumesRun, BegunCurrent
    <2>5. CASE CreateEtcdBackup(r)
      <3>1. /\ Reconcilable(r) /\ ~RequestDone(cache[r].data.phase) /\ UNCHANGED <<env, cms, cache>>
        BY Zenon, <2>5 DEF CreateEtcdBackup, RequestDone
      <3> QED BY Zenon, <2>5, <3>1, BackupRun, BegunCurrent DEF SameButPhase
    <2>6. CASE DeleteEtcdBackup(r)
      <3>1. /\ Reconcilable(r) /\ ~RequestDone(cache[r].data.phase) /\ UNCHANGED <<env, cms, cache>>
        BY <2>6 DEF DeleteEtcdBackup, RequestDone
      <3> QED BY <2>6, <3>1, DeleteBackupRun, BegunCurrent DEF SameButPhase
    <2> QED BY <1>4, <2>1, <2>2, <2>3, <2>4, <2>5, <2>6 DEF Reconcile
  <1>5. CASE VolumeStep
    <2>1. /\ run # Idle /\ run \in Runs /\ run.data \in Data
      BY <1>0, <1>5 DEF VolumeStep, Runs
    <2>2. /\ run' \in Runs /\ run'.req = run.req /\ run'.before = run.before
          /\ run'.todo \subseteq run.todo \ {Min(run.todo)} /\ UNCHANGED <<env, cms, cache>>
          /\ run'.todo # {} => run'.data.phase = run.data.phase
          /\ \E s : run'.data.snapshots = [run.data.snapshots EXCEPT ![Min(run.todo)] = s]
      BY Zenon, <1>5, TurnOf
    <2>3. \A p \in run'.todo : run'.data.snapshots[p] = run.data.snapshots[p]
      BY <2>1, <2>2 DEF Runs, Data
    <2> QED BY <2>1, <2>2, <2>3 DEF Current, Exists, RequestDone
  <1>6. CASE Save \/ Crash
    <2>1. Caches /\ UNCHANGED env /\ run' = Idle
      BY <1>0, <1>6 DEF Save, Crash, Caches
    <2> QED BY <1>b, <2>1
  <1>7. CASE FinishUpload
    BY <1>7, <1>a DEF FinishUpload
  <1>8. ASSUME NEW r \in Requests, NEW p \in PVCs, CSI(r, p) PROVE Current' /\ env' = env
    <2>1. UNCHANGED <<env, cms, cache, run>>
      BY <1>8, CSIWrites DEF Recorded
    <2> QED BY <1>a, <2>1
  <1> QED BY <1>1, <1>2, <1>3, <1>4, <1>5, <1>6, <1>7, <1>8 DEF Next

\* A step gives a request a phase in which it has ended only for what it has done.
LEMMA StepEnds ==
    ASSUME Recorded, ~env.stale => Current, [Next]_vars
    PROVE  [CompletedIsSaved /\ DoneIsFinal]_vars
  <1> DEFINE Kind(o) ==
        /\ o \in Creates /\ Phase(o) # cms'[o].data.phase
           /\ cms'[o].data.phase \in {"Completed", "PartiallyFailed"} => o \in uploaded
        /\ ~env.stale /\ RequestDone(Phase(o)) => cms'[o].data.phase \in {Phase(o), "Failed"}
  <1>0. cms \in [Requests -> ConfigMaps \cup {None, Gone}] /\ (run # Idle => run.req \in Requests)
    BY DEF Recorded, TypeOK, Runs
  <1>s. SUFFICES ASSUME Next, NEW o \in Requests, Exists(o), cms'[o] # Gone
                 PROVE  Kind(o)
    BY DEF CompletedIsSaved, DoneIsFinal, Requests
  <1>a. ASSUME cms'[o].data.phase = cms[o].data.phase \/ cms'[o].data.phase = "Failed" PROVE Kind(o)
    BY <1>a DEF Phase
  <1>1. ASSUME NEW r \in Requests, Client(r) PROVE Kind(o)
    <2>1. CASE CreateSecret(r) \/ DeleteSecret(r)
      BY <1>a, <2>1 DEF CreateSecret, DeleteSecret
    <2>2. CASE CreateConfigMap(r)
      <3>1. /\ cms[r] = None /\ \E cm : cms' = [cms EXCEPT ![r] = cm]
        BY Zenon, <2>2 DEF CreateConfigMap, Recorded, DraftOK
      <3> QED BY <1>0, <1>s, <1>a, <3>1 DEF Exists
    <2>3. CASE DeleteConfigMap(r)
      <3>1. Exists(r) /\ cms' = [cms EXCEPT ![r] = Removed(cms[r])] /\ cms[r] \in ConfigMaps
        BY <1>0, <2>3 DEF DeleteConfigMap, Exists
      <3>2. cms'[o] = cms[o] \/ (o = r /\ cms'[o] = Removed(cms[r]))
        BY <1>0, <3>1
      <3>3. cms'[o].data = cms[o].data
        BY <1>s, <3>1, <3>2, UnlockedRemoved
      <3> QED BY Zenon, <1>a, <3>3
    <2> QED BY Zenon, <1>1, <2>1, <2>2, <2>3 DEF Client
  <1>2. ASSUME NEW r \in Requests, Sync(r) PROVE Kind(o)
    BY <1>2, <1>a DEF Sync
  <1>3. ASSUME NEW r \in Requests, Reconcile(r) PROVE Kind(o)
    <2>1. CASE ReconcileDeleted(r) \/ ReconcileDone(r)
      <3>1. PICK cm : /\ cms' = [cms EXCEPT ![r] = cm] /\ (cm = None <=> cms[r] = None)
                      /\ cm \notin {None, Gone} =>
                           cm.data = cms[r].data \/ (ReconcileDone(r) /\ cm.data = InFailure(cache[r].data))
        BY <2>1, EndedWrites
      <3>2. ReconcileDone(r) => InFailure(cache[r].data).phase = "Failed"
        <4>1. ReconcileDone(r) => DataOf(r, cache[r].data)
          BY DEF ReconcileDone, Reconcilable, Recorded
        <4> QED BY <4>1, FailedOf
      <3>3. cms'[o] = cms[o] \/ (o = r /\ cms'[o] = cm)
        BY <1>0, <3>1
      <3> QED BY <1>s, <1>a, <3>1, <3>2, <3>3 DEF Exists
    <2>2. CASE AddFinalizer(r)
      <3>1. cms' = [cms EXCEPT ![r].finalizer = TRUE] /\ cms[r] \in ConfigMaps
        BY <1>0, <2>2 DEF AddFinalizer, Exists
      <3>2. cms'[o].data = cms[o].data
        BY <1>0, <3>1 DEF ConfigMaps
      <3> QED BY <1>a, <3>2
    <2>3. CASE CancelPrevious(r)
      <3> DEFINE e(x) == [cache[x].data EXCEPT !.phase = "Canceling"]
      <3>1. PICK done \in SUBSET Previous(r) :
              /\ cms' = [x \in Requests |-> IF x \in done /\ Exists(x) THEN [cms[x] EXCEPT !.data = e(x)] ELSE cms[x]]
              /\ \A x \in done : e(x).phase = "Canceling"
                   /\ cache[x].data.phase \in {"NotStarted", "CreatingVolumeSnapshots", "CreatingEtcdBackup"}
        BY Zenon, <2>3, CancelWrites
      <3> HIDE DEF e
      <3>2. CASE o \in done
        <4>1. cms'[o].data = e(o)
          BY <1>0, <1>s, <3>1, <3>2 DEF Exists, ConfigMaps
        <4>2. ~env.stale => ~RequestDone(Phase(o))
          BY <3>1, <3>2 DEF Current, RequestDone, Phase
        <4> QED BY <3>1, <3>2, <4>1, <4>2
      <3>3. CASE o \notin done
        BY <1>a, <3>1, <3>3
      <3> QED BY <3>2, <3>3
    <2>4. CASE StartRequest(r) \/ ReconcileVolumes(r) \/ CreateEtcdBackup(r) \/ DeleteEtcdBackup(r)
      <3>1. cms' = cms
        BY <2>4 DEF StartRequest, ReconcileVolumes, CreateEtcdBackup, DeleteEtcdBackup
      <3> QED BY <1>a, <3>1
    <2> QED BY Zenon, <1>3, <2>1, <2>2, <2>3, <2>4 DEF Reconcile
  <1>4. CASE Save
    <2>1. /\ run # Idle /\ RunOK(run) /\ run.req \in Requests /\ \A x \in Requests : x # run.req => cms'[x] = cms[x]
          /\ Exists(run.req) => cms'[run.req].data \in {cms[run.req].data, run.data}
      BY <1>4, SaveWrites
    <2>2. CASE o = run.req /\ cms'[o].data = run.data
      <3>1. o \in Creates /\ run.data.phase \in {"Completed", "PartiallyFailed"} => o \in uploaded
        BY <2>1, <2>2 DEF RunOK
      <3>2. ~env.stale => ~RequestDone(Phase(o))
        BY <2>1, <2>2 DEF Current, RequestDone, Phase
      <3> QED BY <2>2, <3>1, <3>2
    <2> QED BY <1>s, <1>a, <2>1, <2>2
  <1>5. CASE VolumeStep \/ FinishUpload \/ Crash
    BY Zenon, <1>5, <1>a DEF VolumeStep, FinishUpload, Crash
  <1>6. ASSUME NEW r \in Requests, NEW p \in PVCs, CSI(r, p) PROVE Kind(o)
    <2>1. cms' = cms
      BY <1>6, CSIWrites DEF Recorded
    <2> QED BY <1>a, <2>1
  <1> QED BY Zenon, <1>s, <1>1, <1>2, <1>3, <1>4, <1>5, <1>6 DEF Next

\* The environment is chosen once.
LEMMA EnvironmentStays ==
    ASSUME Recorded, [Next]_vars
    PROVE  env' = env
  BY Zenon, CSIWrites, EndedWrites, BackupRun
     DEF Recorded, Next, vars, Client, Sync, Reconcile, CreateSecret, CreateConfigMap, DeleteConfigMap, DeleteSecret,
         AddFinalizer, CancelPrevious, StartRequest, ReconcileVolumes, DeleteEtcdBackup,
         VolumeStep, Save, FinishUpload, Crash

\* The inductive invariant for what requests record.
Known == Recorded /\ (~env.stale => Current)

\* It holds at first.
LEMMA InitKnown == Init => Known
  BY InitRecorded, InitCurrent DEF Known

\* Every step keeps it.
LEMMA StepKnown == Known /\ [Next]_vars => Known'
  BY StepRecorded, StepCurrent, EnvironmentStays DEF Known

\* Types of the snapshot controller: what is recorded, cached, saved and worked on has its type,
\* for every number of requests and PVCs and in every environment.
THEOREM SnapshotTypes == Spec => []TypeOK
  <1>1. Known => TypeOK
    BY DEF Known, Recorded
  <1> QED BY <1>1, InitKnown, StepKnown, PTL DEF Spec

\* A request becomes Completed or PartiallyFailed only after it has uploaded a whole snapshot,
\* whatever was tried before, and one that is done gets no other phase but Failed as long as the
\* controller reads its own writes (reconcileCreatingEtcdBackup, Reconcile, ShouldCancel).
THEOREM RequestsEndForGood == Spec => EndedForGood
  <1>1. Known /\ [Next]_vars => [CompletedIsSaved /\ DoneIsFinal]_vars
    BY StepEnds DEF Known
  <1>2. Spec => []Known
    BY InitKnown, StepKnown, PTL DEF Spec
  <1> QED BY <1>1, <1>2, PTL DEF Spec, EndedForGood

-----------------------------------------------------------------------------
(* Of the requests for one URL, one goes on.                                 *)

\* Requests appear once, and in the order of their timestamps where the environment says so.
Appeared ==
    /\ \A r \in Requests : drafts[r] # None \/ cms[r] # None => r \in env.requests
    /\ env.inOrder => \A r, o \in Requests :
         cms[r] # None /\ o \in env.requests /\ Created[o] < Created[r] => cms[o] # None

\* A request that has started, or is about to be recorded as started.
Goes(r) == InPhases(r, Started) \/ (run # Idle /\ run.req = r /\ run.data.phase \in Started)

Leads ==
    env.inOrder => \A r, o \in Creates :
        URL[r] = URL[o] /\ Created[o] < Created[r] /\ Goes(r) => ~InPhases(o, Active)

Turns == Appeared /\ Leads /\ CanceledIsReplaced

\* What a step other than a new ConfigMap, a cancellation and a start leaves of a request:
\* its ConfigMap stays or goes, and its phase goes on.
Stays(o) ==
    /\ cms[o] = None <=> cms'[o] = None
    /\ Exists(o)' => /\ Exists(o) /\ Advances(Phase(o), Phase(o)')
                     /\ Phase(o)' \in Started => Goes(o)
Steady ==
    /\ env' = env
    /\ \A o \in Requests : Stays(o) /\ (drafts'[o] # None => drafts[o] # None \/ o \in env.requests)
    /\ run' # Idle /\ run'.data.phase \in Started => Goes(run'.req)

\* Steps that keep every request where it is, or take it on, keep the order of the requests.
LEMMA SteadyTurns ==
    ASSUME Turns, Steady
    PROVE  Turns'
  <1>0. Creates \subseteq Requests
    BY SMTT(30) DEF Requests
  <1>1. Appeared'
    BY DEF Turns, Appeared, Steady, Stays
  <1>2. \A o \in Creates : /\ InPhases(o, Active)' => InPhases(o, Active)
                           /\ InPhases(o, Cancels)' => InPhases(o, Cancels)
                           /\ Goes(o)' => Goes(o)
    <2> TAKE o \in Creates
    <2>1. Stays(o)
      BY SMTT(30), <1>0 DEF Steady
    <2>2. /\ InPhases(o, Active)' => InPhases(o, Active)
          /\ InPhases(o, Cancels)' => InPhases(o, Cancels)
      BY SMTT(30), <2>1 DEF Stays, InPhases, Advances, Active, Cancels
    <2>3. InPhases(o, Started)' => Goes(o)
      BY <2>1 DEF Stays, InPhases, Started
    <2>4. (run # Idle /\ run.req = o /\ run.data.phase \in Started)' => Goes(o)
      BY DEF Steady, Started, Idle
    <2> QED BY <2>2, <2>3, <2>4 DEF Goes
  <1>3. Leads'
    <2>1. ASSUME env'.inOrder, NEW r \in Creates, NEW o \in Creates, URL[r] = URL[o], Created[o] < Created[r], Goes(r)'
          PROVE  ~InPhases(o, Active)'
      <3>1. env.inOrder /\ Goes(r)
        BY SMTT(30), <1>2, <2>1 DEF Steady
      <3> QED BY SMTT(30), <1>2, <2>1, <3>1 DEF Turns, Leads
    <2> QED BY <2>1 DEF Leads
  <1>4. CanceledIsReplaced'
    <2> SUFFICES ASSUME NEW r \in Creates, InPhases(r, Cancels)'
                 PROVE  \E o \in Creates : /\ URL[o] = URL[r] /\ Created[o] >= Created[r] /\ cms'[o] # None
                                           /\ ~InPhases(o, Cancels)'
      BY DEF CanceledIsReplaced, Cancels
    <2>1. InPhases(r, Cancels)
      BY <1>2
    <2>2. PICK o \in Creates : /\ URL[o] = URL[r] /\ Created[o] >= Created[r] /\ cms[o] # None
                               /\ ~InPhases(o, Cancels)
      BY SMTT(30), <2>1 DEF Turns, CanceledIsReplaced, Cancels
    <2>3. cms'[o] # None
      BY <1>0, <2>2 DEF Steady, Stays
    <2> QED BY <1>2, <2>2, <2>3
  <1> QED BY <1>1, <1>3, <1>4 DEF Turns

\* CreateSnapshotRequestResources: the ConfigMap of a request appears, after those of earlier
\* requests where the order is kept; it starts nothing and cancels nothing.
LEMMA CreateConfigMapTurns ==
    ASSUME Recorded, Current, Turns, NEW q \in Requests, CreateConfigMap(q)
    PROVE  Turns'
  <1>0. /\ cms \in [Requests -> ConfigMaps \cup {None, Gone}] /\ drafts \in [Requests -> Data \cup {None}]
        /\ Creates \subseteq Requests
    BY DEF Recorded, TypeOK, Requests
  <1> DEFINE cm == [data |-> drafts[q], finalizer |-> FALSE, deleting |-> FALSE]
  <1>1. /\ drafts[q] # None /\ cms[q] = None /\ DataOf(q, drafts[q]) /\ q \in env.requests
        /\ q \in Creates => drafts[q].phase = "NotStarted"
        /\ env.inOrder => \A o \in env.requests : Created[o] < Created[q] => cms[o] # None
        /\ cms' = [cms EXCEPT ![q] = cm] /\ drafts' = [drafts EXCEPT ![q] = None] /\ env' = env /\ run' = run
    BY Zenon DEF CreateConfigMap, Recorded, DraftOK, Turns, Appeared
  <1>2. cm \in ConfigMaps /\ cm.data = drafts[q]
    BY ZenonT(30), <1>1 DEF ConfigMaps, DataOf
  <1> HIDE DEF cm
  <1>3. /\ cms'[q] = cm /\ \A o \in Requests : o # q => cms'[o] = cms[o]
        /\ \A o \in Requests : cms[o] # None => cms'[o] = cms[o]
        /\ cm \notin {None, Gone}
        /\ \A o \in Requests : drafts'[o] # None => drafts[o] # None
    BY SMTT(30), <1>0, <1>1, <1>2, NoneIsNoConfigMap
  <1>4. Appeared'
    <2>1. \A r \in Requests : (drafts[r] # None \/ cms[r] # None)' => r \in env'.requests
      BY SMTT(30), <1>1, <1>3 DEF Turns, Appeared
    <2>2. ASSUME env.inOrder, NEW r \in Requests, NEW o \in Requests, cms'[r] # None, o \in env.requests,
                 Created[o] < Created[r]
          PROVE  cms'[o] # None
      BY SMTT(30), <1>1, <1>3, <2>2 DEF Turns, Appeared
    <2> QED BY SMTT(30), <1>1, <2>1, <2>2 DEF Appeared
  <1>5. \A o \in Creates : o # q => \A s : InPhases(o, s)' <=> InPhases(o, s)
    BY SMTT(30), <1>0, <1>3 DEF InPhases, Exists, Phase
  <1>6. q \in Creates => /\ ~InPhases(q, Cancels)' /\ ~InPhases(q, Started)' /\ ~InPhases(q, Cancels)
                         /\ ~InPhases(q, Active)
    BY SMTT(30), <1>1, <1>2, <1>3 DEF InPhases, Exists, Phase, Cancels, Started, Active
  <1>7. \A r \in Creates : Goes(r)' => Goes(r)
    BY <1>1, <1>5, <1>6 DEF Goes, Idle, Started
  <1>8. Leads'
    <2>1. ASSUME env'.inOrder, NEW r \in Creates, NEW o \in Creates, URL[r] = URL[o], Created[o] < Created[r], Goes(r)'
          PROVE  ~InPhases(o, Active)'
      <3>1. env.inOrder /\ Goes(r) /\ ~InPhases(o, Active)
        BY Zenon, <1>1, <1>7, <2>1 DEF Turns, Leads
      <3>2. CASE o # q
        BY SMTT(30), <1>5, <3>1, <3>2
      <3>3. CASE o = q
        <4>1. PICK x \in Requests : cms[x] # None /\ Created[o] < Created[x]
          <5>1. CASE InPhases(r, Started)
            BY SMTT(30), <1>0, <2>1, <5>1 DEF InPhases, Exists
          <5>2. CASE run # Idle /\ run.req = r
            BY SMTT(30), <1>0, <2>1, <5>2 DEF Current, Exists
          <5> QED BY SMTT(30), <3>1, <5>1, <5>2 DEF Goes
        <4> QED BY SMTT(30), <1>0, <1>1, <3>1, <3>3, <4>1 DEF Turns, Appeared
      <3> QED BY <3>2, <3>3
    <2> QED BY Zenon, <2>1 DEF Leads
  <1>9. CanceledIsReplaced'
    <2> SUFFICES ASSUME NEW r \in Creates, InPhases(r, Cancels)'
                 PROVE  \E o \in Creates : /\ URL[o] = URL[r] /\ Created[o] >= Created[r] /\ cms'[o] # None
                                           /\ ~InPhases(o, Cancels)'
      BY DEF CanceledIsReplaced, Cancels
    <2>1. InPhases(r, Cancels)
      BY <1>5, <1>6
    <2>2. PICK o \in Creates : /\ URL[o] = URL[r] /\ Created[o] >= Created[r] /\ cms[o] # None
                               /\ ~InPhases(o, Cancels)
      BY SMTT(30), <2>1 DEF Turns, CanceledIsReplaced, Cancels
    <2>3. cms'[o] # None /\ ~InPhases(o, Cancels)'
      BY <1>0, <1>3, <1>5, <1>6, <2>2
    <2> QED BY <2>2, <2>3
  <1> QED BY SMTT(30), <1>4, <1>8, <1>9 DEF Turns

\* cancelPreviousRequests: those it cancels, and those that they replaced, are replaced by
\* the request it is called for, which is not among them.
LEMMA CancelTurns ==
    ASSUME Recorded, Current, Turns, NEW q \in Requests, CancelPrevious(q)
    PROVE  Turns'
  <1>0. /\ cms \in [Requests -> ConfigMaps \cup {None, Gone}] /\ cache = cms /\ Creates \subseteq Requests
        /\ Created \in [Requests -> Int]
    BY Zenon, RequestsAreDated DEF Recorded, TypeOK, Requests, Current
  <1>1. run = Idle /\ UNCHANGED <<env, drafts, run>>
    BY CancelWrites
  <1> DEFINE e(o) == [cache[o].data EXCEPT !.phase = "Canceling"]
  <1>2. PICK done \in SUBSET Previous(q) :
           /\ cms' = [o \in Requests |-> IF o \in done /\ Exists(o) THEN [cms[o] EXCEPT !.data = e(o)] ELSE cms[o]]
           /\ \A o \in done : o \in Creates /\ Cached(o) /\ e(o) \in Data /\ e(o).phase = "Canceling"
    BY Zenon, CancelWrites
  <1> HIDE DEF e
  <1>3. Exists(q) /\ Phase(q) = "NotStarted" /\ q \in Creates
    <2>1. Exists(q) /\ Phase(q) = "NotStarted"
      BY SMTT(30), <1>0 DEF CancelPrevious, Reconcilable, Exists, Cached, Phase
    <2>2. DataOf(q, cms[q].data)
      BY <2>1 DEF Recorded
    <2> QED BY Zenon, <2>1, <2>2 DEF DataOf, DeleteData, DeletePhases, Requests, Phase
  <1>4. \A o \in done : URL[o] = URL[q] /\ Created[o] <= Created[q] /\ o # q /\ o \in Requests
    BY SMTT(30), <1>2 DEF Previous, ShouldCancel
  <1>5. \A o \in Requests : /\ o \notin done => cms'[o] = cms[o]
                            /\ o \in done => Exists(o)' /\ Phase(o)' = "Canceling"
    <2> TAKE o \in Requests
    <2>1. CASE o \notin done
      BY <1>2, <2>1
    <2>2. CASE o \in done
      <3>1. cms[o] \in ConfigMaps /\ Exists(o)
        BY <1>0, <1>2, <2>2 DEF Exists, Cached
      <3>2. cms'[o] = [cms[o] EXCEPT !.data = e(o)]
        BY <1>2, <2>2, <3>1
      <3>3. cms'[o] \in ConfigMaps /\ cms'[o].data = e(o)
        BY SMTT(30), <1>2, <2>2, <3>1, <3>2 DEF ConfigMaps
      <3> QED BY <1>2, <2>2, <3>3, NoneIsNoConfigMap DEF Exists, Phase
    <2> QED BY SMTT(30), <2>1, <2>2
  <1>6. \A o \in Requests : cms[o] = None <=> cms'[o] = None
    <2>1. \A o \in done : cms[o] # None
      BY SMTT(30), <1>0, <1>2 DEF Cached
    <2> QED BY <1>5, <2>1 DEF Exists
  <1>7. Appeared'
    BY SMTT(30), <1>1, <1>6 DEF Turns, Appeared
  <1>8. \A o \in Requests : /\ InPhases(o, Active)' => InPhases(o, Active)
                            /\ InPhases(o, Started)' => InPhases(o, Started)
                            /\ InPhases(o, Cancels)' => o \in done \/ InPhases(o, Cancels)
    BY <1>5 DEF InPhases, Active, Started, Exists, Phase
  <1>9. Leads'
    <2>1. \A r \in Creates : Goes(r)' => Goes(r)
      BY SMTT(30), <1>0, <1>1, <1>8 DEF Goes, Idle, Started
    <2> QED BY SMTT(30), <1>0, <1>1, <1>8, <2>1 DEF Turns, Leads, Active
  <1>10. CanceledIsReplaced'
    <2> DEFINE For(r, o) == /\ URL[o] = URL[r] /\ Created[o] >= Created[r] /\ cms'[o] # None
                            /\ ~InPhases(o, Cancels)'
    <2> SUFFICES ASSUME NEW r \in Creates, InPhases(r, Cancels)'
                 PROVE  \E o \in Creates : For(r, o)
      BY DEF CanceledIsReplaced, Cancels
    <2>1. cms'[q] # None /\ ~InPhases(q, Cancels)'
      BY SMTT(30), <1>3, <1>4, <1>5 DEF InPhases, Exists, Phase, Cancels
    <2>2. CASE r \in done
      BY <1>0, <1>3, <1>4, <2>1, <2>2
    <2>3. CASE r \notin done
      <3>1. PICK o \in Creates : /\ URL[o] = URL[r] /\ Created[o] >= Created[r] /\ cms[o] # None
                                 /\ ~InPhases(o, Cancels)
        BY SMTT(30), <1>0, <1>8, <2>3 DEF Turns, CanceledIsReplaced, Cancels
      <3>2. CASE o \in done
        <4>1. Created[q] \in Int /\ Created[o] \in Int /\ Created[r] \in Int
          BY SMTT(30), <1>0
        <4>2. Created[q] >= Created[r] /\ URL[q] = URL[r]
          BY SMTT(30), <1>4, <3>1, <3>2, <4>1
        <4> QED BY <1>3, <2>1, <4>2
      <3>3. CASE o \notin done
        BY SMTT(30), <1>0, <1>6, <1>8, <3>1, <3>3
      <3> QED BY Zenon, <3>2, <3>3
    <2> QED BY SMTT(30), <2>2, <2>3
  <1> QED BY <1>7, <1>9, <1>10 DEF Turns

\* reconcileNewRequest: a request starts when it finds no earlier one that it should cancel.
LEMMA StartTurns ==
    ASSUME Recorded, Current, Turns, NEW q \in Requests, StartRequest(q)
    PROVE  Turns'
  <1>0. cache = cms /\ Creates \subseteq Requests /\ Created \in [Requests -> Int]
    BY RequestsAreDated DEF Requests, Current
  <1>1. UNCHANGED <<env, drafts, cms>>
    BY SMTT(30) DEF StartRequest
  <1>2. Appeared' /\ CanceledIsReplaced'
    BY <1>1 DEF Turns, Appeared, CanceledIsReplaced, InPhases, Exists, Phase
  <1>3. \A o \in Creates : \A s : InPhases(o, s)' <=> InPhases(o, s)
    BY SMTT(30), <1>1 DEF InPhases, Exists, Phase
  <1>4. run' \in Runs /\ run'.req = q /\ run'.before = cache[q].data /\ RunOK(run')
    BY SMTT(30), StartedRun
  <1>5. q \in Creates => \A o \in Creates : URL[o] = URL[q] /\ Created[o] < Created[q] => ~InPhases(o, Active)
    <2> SUFFICES ASSUME q \in Creates, NEW o \in Creates, URL[o] = URL[q], Created[o] < Created[q],
                        InPhases(o, Active)
                 PROVE  FALSE
      OBVIOUS
    <2>1. DataOf(q, cache[q].data) /\ cache[q].data.phase \in {"NotStarted", "Deleting"}
      BY SMTT(30) DEF StartRequest, Reconcilable, Recorded
    <2>2. cache[q].data.phase = "NotStarted"
      BY <2>1 DEF DataOf, CreateData, CreatePhases
    <2>3. Previous(q) = {}
      BY <2>2 DEF StartRequest
    <2>4. Cached(o) /\ o # q /\ Created[o] <= Created[q] /\ cache[o].data.phase \in Active
      BY <1>0 DEF InPhases, Exists, Cached, Phase
    <2>5. o \in Previous(q)
      BY SMTT(30), <1>0, <2>4 DEF Previous, ShouldCancel, Active
    <2> QED BY SMTT(30), <2>3, <2>5
  <1>6. Leads'
    <2> SUFFICES ASSUME env'.inOrder, NEW r \in Creates, NEW o \in Creates, URL[r] = URL[o], Created[o] < Created[r],
                        Goes(r)'
                 PROVE  ~InPhases(o, Active)'
      BY SMTT(30) DEF Leads
    <2>1. r = q \/ Goes(r)
      BY <1>3, <1>4 DEF Goes, Started
    <2> QED BY SMTT(30), <1>1, <1>3, <1>5, <2>1 DEF Turns, Leads
  <1> QED BY SMTT(30), <1>2, <1>6 DEF Turns

\* Every other step keeps each request where it is, or takes it on.
LEMMA StepSteady ==
    ASSUME Recorded, Current, Turns, [Next]_vars,
           \A q \in Requests : ~CreateConfigMap(q) /\ ~CancelPrevious(q) /\ ~StartRequest(q)
    PROVE  Steady
  <1>0. /\ cms \in [Requests -> ConfigMaps \cup {None, Gone}] /\ cache = cms
        /\ run \in Runs \cup {Idle} /\ (run # Idle => run.req \in Requests)
    BY SMTT(30) DEF Recorded, TypeOK, Current, Runs
  <1> DEFINE Drafted(o) == drafts'[o] # None => drafts[o] # None \/ o \in env.requests
             Onward == run' # Idle /\ run'.data.phase \in Started => Goes(run'.req)
  <1>s. /\ env' = env
        /\ (\A o \in Requests : Stays(o) /\ Drafted(o)) /\ Onward => Steady
    BY SMTT(30), EnvironmentStays DEF Steady
  <1>a. ASSUME NEW o \in Requests, cms'[o] = cms[o] PROVE Stays(o)
    BY <1>a DEF Stays, Exists, Phase, Advances, Goes, InPhases
  <1>b. ASSUME cms' = cms PROVE \A o \in Requests : Stays(o)
    BY <1>a, <1>b
  <1>c. ASSUME drafts' = drafts PROVE \A o \in Requests : Drafted(o)
    BY <1>c
  <1>d. ASSUME run' = run \/ run' = Idle PROVE Onward
    BY <1>d DEF Goes, Idle
  <1>e. ASSUME NEW o \in Requests, Exists(o), cms'[o] # None,
               cms'[o] # Gone => cms'[o].data.phase = cms[o].data.phase \/ cms'[o].data.phase = "Failed"
        PROVE  Stays(o)
    <2>1. CASE cms'[o] = Gone
      BY SMTT(30), <1>e, <2>1 DEF Stays, Exists
    <2>2. CASE cms'[o] # Gone
      <3>1. Phase(o)' = Phase(o) \/ Phase(o)' = "Failed"
        BY <1>e, <2>2 DEF Phase
      <3>2. Advances(Phase(o), Phase(o)')
        BY SMTT(30), <3>1 DEF Advances, Early, Active, Cancels
      <3>3. Phase(o)' \in Started => Goes(o)
        BY <1>e, <3>1 DEF Goes, InPhases, Started
      <3> QED BY SMTT(30), <1>e, <2>2, <3>2, <3>3 DEF Stays, Exists
    <2> QED BY SMTT(30), <2>1, <2>2
  <1> HIDE DEF Drafted, Onward
  <1>1. CASE UNCHANGED vars
    BY SMTT(30), <1>s, <1>1, <1>b, <1>c, <1>d DEF vars
  <1>2. ASSUME NEW r \in Requests, Client(r) PROVE Steady
    <2>1. CASE CreateSecret(r)
      <3>1. cms' = cms /\ run' = run /\ r \in env.requests /\ drafts' = [drafts EXCEPT ![r] = Draft(r)]
        BY <2>1 DEF CreateSecret
      <3>2. \A o \in Requests : Drafted(o)
        BY Zenon, <3>1 DEF Drafted, Recorded, TypeOK
      <3> QED BY SMTT(30), <1>s, <1>b, <1>d, <3>1, <3>2
    <2>2. CASE DeleteSecret(r)
      BY SMTT(30), <1>s, <1>b, <1>c, <1>d, <2>2 DEF DeleteSecret
    <2>3. CASE DeleteConfigMap(r)
      <3>1. /\ Exists(r) /\ cms' = [cms EXCEPT ![r] = Removed(cms[r])] /\ cms[r] \in ConfigMaps
            /\ UNCHANGED <<drafts, run>>
        BY <1>0, <2>3 DEF DeleteConfigMap, Exists
      <3>2. /\ cms'[r] = Removed(cms[r]) /\ Removed(cms[r]) \in ConfigMaps \cup {Gone}
            /\ Removed(cms[r]) # Gone => Removed(cms[r]).data = cms[r].data
        BY <1>0, <3>1, UnlockedRemoved
      <3>3. Stays(r)
        BY ZenonT(30), <1>e, <3>1, <3>2, NoneIsNoConfigMap, GoneIsNotNone
      <3>4. \A o \in Requests : Stays(o)
        BY <1>0, <1>a, <3>1, <3>3
      <3> QED BY SMTT(30), <1>s, <1>c, <1>d, <3>1, <3>4
    <2> QED BY SMTT(30), <1>2, <2>1, <2>2, <2>3 DEF Client
  <1>3. ASSUME NEW r \in Requests, Sync(r) PROVE Steady
    BY <1>0, <1>3 DEF Sync
  <1>4. ASSUME NEW r \in Requests, Reconcile(r) PROVE Steady
    <2>1. CASE ReconcileDeleted(r) \/ ReconcileDone(r)
      <3>1. PICK cm : /\ cms' = [cms EXCEPT ![r] = cm] /\ (cm = None <=> cms[r] = None)
                      /\ cm \notin {None, Gone} =>
                           cm.data = cms[r].data \/ (ReconcileDone(r) /\ cm.data = InFailure(cache[r].data))
        BY <2>1, EndedWrites
      <3>2. Exists(r) /\ run = Idle /\ UNCHANGED <<drafts, run>>
        BY SMTT(30), <1>0, <2>1, EndedWrites DEF Exists, Cached
      <3>3. ReconcileDone(r) => InFailure(cache[r].data).phase = "Failed"
        <4>1. ReconcileDone(r) => DataOf(r, cache[r].data)
          BY DEF ReconcileDone, Reconcilable, Recorded
        <4> QED BY <4>1, FailedOf
      <3>4. cms'[r] = cm /\ \A o \in Requests : o # r => cms'[o] = cms[o]
        BY SMTT(30), <1>0, <3>1
      <3>5. Stays(r)
        <4>1. cm # None /\ (cm # Gone => cm.data.phase = cms[r].data.phase \/ cm.data.phase = "Failed")
          BY SMTT(30), <3>1, <3>2, <3>3 DEF Exists
        <4> QED BY SMTT(30), <1>e, <3>2, <3>4, <4>1
      <3>6. \A o \in Requests : Stays(o)
        BY <1>a, <3>4, <3>5
      <3> QED BY SMTT(30), <1>s, <1>c, <1>d, <3>2, <3>6
    <2>2. CASE AddFinalizer(r)
      <3>1. cms' = [cms EXCEPT ![r].finalizer = TRUE] /\ cms[r] \in ConfigMaps /\ Exists(r) /\ UNCHANGED <<drafts, run>>
        BY <1>0, <2>2 DEF AddFinalizer, Exists
      <3>2. cms'[r] \in ConfigMaps /\ cms'[r].data = cms[r].data /\ \A o \in Requests : o # r => cms'[o] = cms[o]
        BY Zenon, <1>0, <3>1 DEF ConfigMaps
      <3>3. Stays(r)
        BY ZenonT(30), <1>e, <3>1, <3>2, NoneIsNoConfigMap
      <3>4. \A o \in Requests : Stays(o)
        BY SMTT(30), <1>a, <3>2, <3>3
      <3> QED BY SMTT(30), <1>s, <1>c, <1>d, <3>1, <3>4
    <2>3. CASE ReconcileVolumes(r)
      <3>1. /\ cms' = cms /\ drafts' = drafts /\ Cached(r)
            /\ cache[r].data.phase \in {"CreatingVolumeSnapshots", "Canceling", "DeletingVolumeSnapshots"}
        BY SMTT(30), <2>3 DEF ReconcileVolumes, Reconcilable
      <3>2. run'.req = r /\ Advances(cache[r].data.phase, run'.data.phase)
        BY SMTT(30), <2>3, VolumesRun DEF RunOK
      <3>3. run'.data.phase \in Started => cache[r].data.phase \in Started
        BY SMTT(30), <3>1, <3>2 DEF Advances, Active, Started
      <3>4. Onward
        BY SMTT(30), <1>0, <3>1, <3>2, <3>3 DEF Onward, Goes, InPhases, Exists, Cached, Phase
      <3> QED BY SMTT(30), <1>s, <1>b, <1>c, <3>1, <3>4
    <2>4. CASE CreateEtcdBackup(r)
      <3>1. cms' = cms /\ drafts' = drafts /\ run'.data.phase \in {"Completed", "PartiallyFailed", "Failed"}
        BY <2>4, BackupRun
      <3>2. Onward
        BY <3>1 DEF Onward, Started
      <3> QED BY SMTT(30), <1>s, <1>b, <1>c, <3>1, <3>2
    <2>5. CASE DeleteEtcdBackup(r)
      <3>1. cms' = cms /\ drafts' = drafts /\ r \in Deletes /\ DataOf(r, run'.data)
        BY Zenon, <2>5, DeleteBackupRun DEF RunOK
      <3>2. Onward
        BY Zenon, <3>1 DEF Onward, Started, DataOf, DeleteData, DeletePhases
      <3> QED BY <1>s, <1>b, <1>c, <3>1, <3>2
    <2> QED BY SMTT(30), <1>4, <2>1, <2>2, <2>3, <2>4, <2>5 DEF Reconcile
  <1>5. CASE VolumeStep
    <2>1. /\ cms' = cms /\ drafts' = drafts /\ run'.req = run.req /\ Advances(run.data.phase, run'.data.phase)
          /\ run # Idle /\ RunOK(run) /\ run.todo # {}
      BY ZenonT(30), <1>5, TurnOf DEF VolumeStep
    <2>2. run.data.phase # "NotStarted"
      BY <2>1 DEF RunOK, LoopOK
    <2>3. run'.data.phase \in Started => run.data.phase \in Started
      BY SMTT(30), <2>1, <2>2 DEF Advances, Active, Started
    <2>4. Onward
      BY SMTT(30), <2>1, <2>3 DEF Onward, Goes
    <2> QED BY ZenonT(30), <1>s, <1>b, <1>c, <2>1, <2>4
  <1>6. CASE Save
    <2>1. /\ run # Idle /\ RunOK(run) /\ run.req \in Requests /\ run' = Idle /\ drafts' = drafts
          /\ \A o \in Requests : o # run.req => cms'[o] = cms[o]
          /\ Exists(run.req) => cms'[run.req] \in ConfigMaps /\ cms'[run.req].data \in {cms[run.req].data, run.data}
      BY Zenon, <1>6, SaveWrites
    <2>2. PICK r \in Requests : r = run.req
      BY ZenonT(30), <2>1
    <2>3. Exists(r) /\ cms[r].data = run.before /\ cms'[r] \in ConfigMaps /\ cms'[r].data \in {cms[r].data, run.data}
      BY ZenonT(30), <2>1, <2>2 DEF Current
    <2>4. Stays(r)
      <3>1. CASE cms'[r].data = cms[r].data
        BY ZenonT(30), <1>e, <2>3, <3>1, NoneIsNoConfigMap
      <3>2. CASE cms'[r].data = run.data
        <4>1. Advances(cms[r].data.phase, cms'[r].data.phase)
          BY Zenon, <2>1, <2>3, <3>2 DEF RunOK
        <4>2. cms'[r].data.phase \in Started => Goes(r)
          BY Zenon, <2>1, <2>2, <3>2 DEF Goes
        <4> QED BY SMTT(30), <2>3, <4>1, <4>2, NoneIsNoConfigMap DEF Stays, Exists, Phase
      <3> QED BY <2>3, <3>1, <3>2
    <2>5. \A o \in Requests : Stays(o)
      BY ZenonT(30), <1>a, <2>1, <2>2, <2>4
    <2> QED BY SMTT(30), <1>s, <1>c, <1>d, <2>1, <2>5
  <1>7. CASE FinishUpload \/ Crash
    BY ZenonT(30), <1>s, <1>7, <1>b, <1>c, <1>d DEF FinishUpload, Crash
  <1>8. ASSUME NEW r \in Requests, NEW p \in PVCs, CSI(r, p) PROVE Steady
    <2>1. UNCHANGED <<drafts, cms, run>>
      BY <1>8, CSIWrites DEF Recorded
    <2> QED BY SMTT(30), <1>s, <1>b, <1>c, <1>d, <2>1
  <1> QED BY SMTT(30), <1>1, <1>2, <1>3, <1>4, <1>5, <1>6, <1>7, <1>8 DEF Next

\* The inductive invariant for the order of the requests.
TurnsInv == Recorded /\ (~env.stale => Current /\ Turns)

\* Of the requests for one URL, one goes on, as long as the controller reads its own writes: a
\* request starts only after those before it for its URL have been canceled or have ended, and a
\* canceled one has a later one, not canceled, in its place (cancelPreviousRequests, ShouldCancel).
THEOREM OneRequestAlwaysGoesOn == Spec => [](~env.stale => OneRequestGoesOn)
  <1>1. Init => TurnsInv
    <2>1. Init => Turns
      BY Zenon DEF Init, Turns, Appeared, Leads, Goes, CanceledIsReplaced, InPhases, Exists, Requests
    <2> QED BY <2>1, InitRecorded, InitCurrent DEF TurnsInv
  <1>2. TurnsInv /\ [Next]_vars => TurnsInv'
    <2> SUFFICES ASSUME TurnsInv, [Next]_vars PROVE TurnsInv'
      OBVIOUS
    <2>1. Recorded' /\ env' = env
      BY StepRecorded, EnvironmentStays DEF TurnsInv
    <2>2. ~env.stale => Current' /\ Turns'
      BY SMTT(30), StepCurrent, StepSteady, SteadyTurns, CreateConfigMapTurns, CancelTurns, StartTurns DEF TurnsInv
    <2> QED BY <2>1, <2>2 DEF TurnsInv
  <1>3. TurnsInv => (~env.stale => OneRequestGoesOn)
    BY DEF TurnsInv, Turns, Leads, Goes, OneRequestGoesOn, PreviousCanceled, Active, Started
  <1> QED BY <1>1, <1>2, <1>3, PTL DEF Spec

=============================================================================
