---------------------------- MODULE SnapshotProofs -----------------------------
(***************************************************************************)
(* What SnapshotController does to volumes, for every choice of its        *)
(* constants: each step keeps the relation of SnapshotVolumes              *)
(* (SnapshotInv).                                                          *)
(***************************************************************************)
EXTENDS SnapshotVolumes

(* The steps, one by one.                                                    *)

\* A request that has left its first phases stays out of them.
LEMMA SameDataFollows ==
    ASSUME NEW r, NEW d
    PROVE  /\ Follows(r, d, d)
           /\ \A e : SameButPhase(d, e) /\ e.phase \notin Early => Follows(r, e, d)
  BY DEF Follows, SameButPhase

\* DeleteSnapshotRequestResources asks for the deletion of the snapshots that the saved one refers to.
LEMMA CreateSecretVolumes ==
    ASSUME Recorded, Recorded', ~env.stale, Current, Volumes, NEW r \in Requests, CreateSecret(r)
    PROVE  Volumes'
  <1>0. Creates \cap Deletes = {} /\ Requests = Creates \cup Deletes
    BY RequestsAreDistinct DEF Requests
  <1>1. /\ cms[r] = None /\ asked \subseteq asked' /\ drafts' = [drafts EXCEPT ![r] = Draft(r)]
        /\ r \in Deletes => backups[URL[r]] # None
        /\ asked' = asked \cup ({Draft(r).snapshots[p].handle : p \in Draft(r).requests} \ {None})
        /\ UNCHANGED <<cms, backups, run, res, storage, uploads>>
    BY DEF CreateSecret, csi
  <1>2. drafts \in [Requests -> Data \cup {None}]
    BY SMTT(30) DEF Recorded, TypeOK
  <1>3. ASSUME r \in Deletes PROVE DataGoing(r, Draft(r), asked')
    <2> DEFINE b == backups[URL[r]]
    <2>0. URL[r] \in URLs
      BY RequestsHaveURLs
    <2>1. b \in Backups /\ SaveKept(b)
      BY ZenonT(30), <1>1, <1>3, <2>0 DEF Recorded, TypeOK, Volumes
    <2>2. b.by \in Creates /\ Past(b.by) /\ Kept(b.by, b.data, res, storage \cup asked)
      BY SMTT(30), <2>1 DEF Backups, SaveKept
    <2>3. Draft(r).snapshots = b.data.snapshots /\ Snapped(Draft(r)) /\ DataOf(r, Draft(r))
      BY SMTT(30), <1>1, <1>3, DraftOf DEF SameButPhase
    <2> HIDE DEF b
    <2> SUFFICES ASSUME NEW p \in Draft(r).requests
                 PROVE  /\ Going(res[r][p], Draft(r).snapshots[p], storage, asked')
                        /\ Origin(p, Draft(r).snapshots[p], res)
      BY DEF DataGoing
    <2>4. p \in PVCs /\ Draft(r).snapshots[p] \in SnapshotStatus /\ Draft(r).snapshots[p].phase \in {"Completed", "Failed"}
      BY SMTT(30), <2>3 DEF Snapped, SnapshotsIn, DataOf, Data
    <2>5. res[r][p].named = None
      BY <1>1, <2>4 DEF Volumes, NoResources
    <2>6. Draft(r).snapshots[p].handle \in asked' \cup {None}
      BY <1>1
    <2>7. Going(res[r][p], Draft(r).snapshots[p], storage, asked')
      BY <2>4, <2>5, <2>6 DEF Going, PreGo
    <2>8. Draft(r).snapshots[p].phase = "Completed" =>
             Draft(r).snapshots[p].handle = <<b.by, p>> /\ Sealed(res[b.by][p])
      BY ZenonT(30), <2>2, <2>3, <2>4, NoneIsNoStatus DEF Kept, Preserved, HandleKept
    <2> QED BY <2>2, <2>4, <2>7, <2>8 DEF Origin
  <1>4. \A q \in Deletes : drafts'[q] # None => drafts'[q] = drafts[q] \/ DataGoing(q, drafts'[q], asked')
    BY SMTT(30), <1>0, <1>1, <1>2, <1>3
  <1>5. \A q \in Requests : cms'[q] \notin {None, Gone} => Exists(q) /\ Follows(q, cms'[q].data, cms[q].data)
    BY <1>1, SameDataFollows DEF Exists
  <1>6. /\ \A u \in URLs : backups'[u] # None => SaveKept(backups'[u])
        /\ \A b \in uploads' : SaveKept(b)
    BY SMTT(30), <1>1 DEF Volumes
  <1>7. Rewrites
    BY SMTT(30), <1>1, <1>5 DEF Rewrites
  <1>8. GoesOn /\ Redrafts /\ Saves
    BY <1>1, <1>4, <1>6 DEF GoesOn, Redrafts, Saves
  <1> QED BY <1>1, <1>7, <1>8, Reworked

\* Steps that change neither drafts nor what is saved, nor the history.
LEMMA Continued ==
    ASSUME Recorded, Recorded', ~env.stale, Current, Volumes,
           UNCHANGED <<drafts, backups, uploads, res, storage, asked>>, Rewrites, GoesOn
    PROVE  Volumes'
  <1>1. Saves
    BY DEF Volumes, Saves
  <1>2. asked \subseteq asked' /\ Redrafts
    BY DEF Redrafts
  <1> QED BY <1>1, <1>2, Reworked

\* CreateSnapshotRequestResources: a new request has no resources yet.
LEMMA CreateConfigMapVolumes ==
    ASSUME Recorded, Recorded', ~env.stale, Current, Volumes, NEW r \in Requests, CreateConfigMap(r)
    PROVE  Volumes'
  <1>1. /\ drafts[r] # None /\ drafts' = [drafts EXCEPT ![r] = None]
        /\ cms' = [cms EXCEPT ![r] = [data |-> drafts[r], finalizer |-> FALSE, deleting |-> FALSE]]
        /\ UNCHANGED <<backups, run, res, storage, uploads, asked>>
    BY DEF CreateConfigMap, csi, history
  <1>2. drafts \in [Requests -> Data \cup {None}] /\ cms \in [Requests -> ConfigMaps \cup {None, Gone}]
    BY SMTT(30) DEF Recorded, TypeOK
  <1>3. /\ cms[r] = None /\ DataOf(r, drafts[r])
        /\ r \in Creates => drafts[r].phase = "NotStarted"
    BY SMTT(30), <1>1 DEF Recorded, DraftOK
  <1>4. ASSUME r \in Creates PROVE DataKept(r, drafts[r], res, storage \cup asked)
    <2>1. drafts[r].snapshots = NoSnapshots
      BY SMTT(30), <1>3, <1>4 DEF DataOf, CreateData
    <2>2. \A p \in PVCs : drafts[r].snapshots[p] = None /\ res[r][p] = NoResources
      BY <1>3, <2>1 DEF NoSnapshots, Volumes
    <2>3. Untouched(NoResources)
      BY DEF Untouched, NoResources
    <2> QED BY <2>2, <2>3 DEF DataKept, Progressing, Kept, Progress, Preserved
  <1>5. r \in Deletes => DataGoing(r, drafts[r], asked)
    BY SMTT(30), <1>1 DEF Volumes, DeleteKept
  <1>6. /\ cms'[r] # None /\ cms'[r].data = drafts[r]
        /\ \A q \in Requests : q # r => cms'[q] = cms[q]
    <2>1. cms'[r] = [data |-> drafts[r], finalizer |-> FALSE, deleting |-> FALSE]
      BY <1>1, <1>2
    <2>2. cms'[r] # None
      <3>1. cms'[r] \in ConfigMaps \cup {None, Gone} /\ drafts[r] \in Data
        BY ZenonT(30), <1>1, <1>2 DEF Recorded, TypeOK
      <3>2. [data |-> drafts[r], finalizer |-> FALSE, deleting |-> FALSE] \in ConfigMaps
        BY <3>1 DEF ConfigMaps
      <3> QED BY Zenon, <2>1, <3>2, NoneIsNoConfigMap
    <2> QED BY SMTT(30), <1>1, <1>2, <2>1, <2>2
  <1>7. Rewrites
    BY ZenonT(30), <1>3, <1>4, <1>5, <1>6, SameDataFollows DEF Rewrites, Exists
  <1>8. Saves
    BY <1>1 DEF Volumes, Saves
  <1>9. \A q \in Requests : drafts'[q] # None => drafts'[q] = drafts[q]
    BY <1>1, <1>2
  <1>10. GoesOn /\ Redrafts
    BY <1>1, <1>9 DEF GoesOn, Redrafts, Requests
  <1> QED BY SMTT(30), <1>1, <1>7, <1>8, <1>10, Reworked

\* Clients, and the informer, keep what is recorded about volumes true.
LEMMA ClientVolumes ==
    ASSUME Recorded, Recorded', ~env.stale, Current, Volumes, NEW r \in Requests, Client(r) \/ Sync(r)
    PROVE  Volumes'
  <1>0. cms \in [Requests -> ConfigMaps \cup {None, Gone}]
    BY DEF Recorded, TypeOK
  <1>1. CASE CreateSecret(r)
    BY <1>1, CreateSecretVolumes
  <1>2. CASE CreateConfigMap(r)
    BY <1>2, CreateConfigMapVolumes
  <1>3. CASE DeleteConfigMap(r)
    <2>1. /\ Exists(r) /\ cms' = [cms EXCEPT ![r] = Removed(cms[r])]
          /\ UNCHANGED <<drafts, backups, run, res, storage, uploads, asked>>
      BY <1>3 DEF DeleteConfigMap, csi, history
    <2>2. cms[r] \in ConfigMaps /\ Removed(cms[r]) # None
          /\ (Removed(cms[r]) # Gone => Removed(cms[r]).data = cms[r].data)
      BY SMTT(30), <1>0, <2>1, UnlockedRemoved, NoneIsNoConfigMap, GoneIsNotNone DEF Exists
    <2>3. /\ \A q \in Requests : cms[q] # None => cms'[q] # None
          /\ \A q \in Requests : cms'[q] \notin {None, Gone} => Exists(q) /\ cms'[q].data = cms[q].data
      BY SMTT(30), <1>0, <2>1, <2>2 DEF Exists
    <2>4. Rewrites /\ GoesOn
      BY <2>1, <2>3, SameDataFollows DEF Rewrites, GoesOn
    <2> QED BY <2>1, <2>4, Continued
  <1>4. CASE DeleteSecret(r)
    <2>1. UNCHANGED <<drafts, cms, backups, run, res, storage, uploads, asked>>
      BY <1>4 DEF DeleteSecret, csi, history
    <2>2. \A q \in Requests : cms'[q] \notin {None, Gone} => Exists(q) /\ cms'[q].data = cms[q].data
      BY SMTT(30), <2>1 DEF Exists
    <2>3. Rewrites /\ GoesOn
      BY <2>1, <2>2, SameDataFollows DEF Rewrites, GoesOn
    <2> QED BY <2>1, <2>3, Continued
  <1>5. CASE Sync(r)
    BY <1>5 DEF Sync, Current
  <1> QED BY SMTT(30), <1>1, <1>2, <1>3, <1>4, <1>5 DEF Client

\* reconcileDeletedRequest and reconcileDoneRequest leave the volumes alone.
LEMMA EndedVolumes ==
    ASSUME Recorded, Recorded', ~env.stale, Current, Volumes, NEW r \in Requests, ReconcileDeleted(r) \/ ReconcileDone(r)
    PROVE  Volumes'
  <1>0. cms \in [Requests -> ConfigMaps \cup {None, Gone}] /\ cache = cms
    BY Zenon DEF Recorded, TypeOK, Current
  <1>1. /\ UNCHANGED <<drafts, backups, run, res, storage, uploads, asked>>
        /\ \E cm \in ConfigMaps \cup {None, Gone} :
             /\ cms' = [cms EXCEPT ![r] = cm]
             /\ cm = None <=> cms[r] = None
             /\ cm \notin {None, Gone} => /\ Exists(r)
                                          /\ cm.data = cms[r].data \/ cm.data = InFailure(cache[r].data)
    BY EndedWrites
  <1>2. PICK cm \in ConfigMaps \cup {None, Gone} :
             /\ cms' = [cms EXCEPT ![r] = cm]
             /\ cm = None <=> cms[r] = None
             /\ cm \notin {None, Gone} => /\ Exists(r)
                                          /\ cm.data = cms[r].data \/ cm.data = InFailure(cache[r].data)
    BY Zenon, <1>1
  <1>3. /\ cms'[r] = cm
        /\ \A q \in Requests : q # r => cms'[q] = cms[q]
    BY <1>0, <1>2
  <1>4. ASSUME Exists(r) PROVE Follows(r, InFailure(cms[r].data), cms[r].data)
    <2>1. DataOf(r, cms[r].data)
      BY <1>4 DEF Recorded
    <2>2. InFailure(cms[r].data).phase = "Failed" /\ SameButPhase(cms[r].data, InFailure(cms[r].data))
      BY <2>1, FailedOf
    <2> QED BY ZenonT(30), <2>2, SameDataFollows DEF Early
  <1>5. \A q \in Requests : cms'[q] \notin {None, Gone} => Exists(q) /\ Follows(q, cms'[q].data, cms[q].data)
    <2> SUFFICES ASSUME NEW q \in Requests, cms'[q] \notin {None, Gone}
                 PROVE  Exists(q) /\ Follows(q, cms'[q].data, cms[q].data)
      OBVIOUS
    <2>1. CASE q = r
      <3>1. Exists(r) /\ (cm.data = cms[r].data \/ cm.data = InFailure(cms[r].data))
        <4>1. cm \notin {None, Gone}
          BY <1>3, <2>1
        <4>2. Exists(r) /\ (cm.data = cms[r].data \/ cm.data = InFailure(cache[r].data))
          BY <1>2, <4>1
        <4> QED BY <1>0, <4>2
      <3> QED BY SMTT(30), <1>3, <1>4, <2>1, <3>1, SameDataFollows
    <2>2. CASE q # r
      BY <1>3, <2>2, SameDataFollows DEF Exists
    <2> QED BY <2>1, <2>2
  <1>6. \A q \in Requests : cms[q] # None => cms'[q] # None
    BY <1>2, <1>3
  <1>7. Rewrites /\ GoesOn
    BY Zenon, <1>1, <1>5, <1>6 DEF Rewrites, GoesOn
  <1> QED BY <1>1, <1>7, Continued

\* addFinalizer leaves the volumes alone.
LEMMA FinalizerVolumes ==
    ASSUME Recorded, Recorded', ~env.stale, Current, Volumes, NEW r \in Requests, AddFinalizer(r)
    PROVE  Volumes'
  <1>0. cms \in [Requests -> ConfigMaps \cup {None, Gone}]
    BY DEF Recorded, TypeOK
  <1>1. /\ Exists(r) /\ cms' = [cms EXCEPT ![r].finalizer = TRUE]
        /\ UNCHANGED <<drafts, backups, run, res, storage, uploads, asked>>
    BY DEF AddFinalizer, csi, history
  <1>2. /\ cms[r] \in ConfigMaps /\ cms'[r] = [cms[r] EXCEPT !.finalizer = TRUE]
        /\ \A q \in Requests : q # r => cms'[q] = cms[q]
    BY <1>0, <1>1 DEF Exists
  <1>3. cms'[r].data = cms[r].data /\ cms'[r] \in ConfigMaps
    BY Zenon, <1>2 DEF ConfigMaps
  <1>4. \A q \in Requests : cms'[q] \notin {None, Gone} => Exists(q) /\ Follows(q, cms'[q].data, cms[q].data)
    BY <1>1, <1>2, <1>3, SameDataFollows DEF Exists
  <1>5. \A q \in Requests : cms[q] # None => cms'[q] # None
    BY <1>2, <1>3, NoneIsNoConfigMap
  <1>6. Rewrites /\ GoesOn
    BY <1>1, <1>4, <1>5 DEF Rewrites, GoesOn
  <1> QED BY <1>1, <1>6, Continued

\* cancelPreviousRequests leaves the statuses as they are.
LEMMA CancelVolumes ==
    ASSUME Recorded, Recorded', ~env.stale, Current, Volumes, NEW r \in Requests, CancelPrevious(r)
    PROVE  Volumes'
  <1>0. cms \in [Requests -> ConfigMaps \cup {None, Gone}] /\ cache = cms
    BY Zenon DEF Recorded, TypeOK, Current
  <1>1. /\ UNCHANGED <<drafts, backups, run, res, storage, uploads, asked>>
        /\ \E done \in SUBSET Previous(r) :
                /\ cms' = [o \in Requests |->
                             IF o \in done /\ Exists(o)
                             THEN [cms[o] EXCEPT !.data = [cache[o].data EXCEPT !.phase = "Canceling"]]
                             ELSE cms[o]]
                /\ \A o \in done :
                     LET e == [cache[o].data EXCEPT !.phase = "Canceling"]
                     IN e \in Data /\ e.phase = "Canceling" /\ SameButPhase(cache[o].data, e)
    BY Zenon, CancelWrites
  <1>2. PICK done \in SUBSET Previous(r) :
                /\ cms' = [o \in Requests |->
                             IF o \in done /\ Exists(o)
                             THEN [cms[o] EXCEPT !.data = [cache[o].data EXCEPT !.phase = "Canceling"]]
                             ELSE cms[o]]
                /\ \A o \in done :
                     LET e == [cache[o].data EXCEPT !.phase = "Canceling"]
                     IN e \in Data /\ e.phase = "Canceling" /\ SameButPhase(cache[o].data, e)
    BY Zenon, <1>1
  <1>3. ASSUME NEW q \in Requests
        PROVE  /\ cms[q] # None => cms'[q] # None
               /\ cms'[q] \notin {None, Gone} => Exists(q) /\ Follows(q, cms'[q].data, cms[q].data)
    <2>1. CASE q \in done /\ Exists(q)
      <3> DEFINE e == [cache[q].data EXCEPT !.phase = "Canceling"]
      <3>1. /\ cms'[q] = [cms[q] EXCEPT !.data = e] /\ cms[q] \in ConfigMaps
            /\ e \in Data /\ e.phase = "Canceling" /\ SameButPhase(cms[q].data, e)
        BY <1>0, <1>2, <2>1 DEF Exists
      <3> HIDE DEF e
      <3>2. cms'[q] \in ConfigMaps /\ cms'[q].data = e
        BY <3>1 DEF ConfigMaps
      <3> QED BY Zenon, <2>1, <3>1, <3>2, SameDataFollows, NoneIsNoConfigMap DEF Early
    <2>2. CASE ~(q \in done /\ Exists(q))
      BY <1>2, <2>2, SameDataFollows DEF Exists
    <2> QED BY <2>1, <2>2
  <1>4. Rewrites /\ GoesOn
    BY <1>1, <1>3 DEF Rewrites, GoesOn
  <1> QED BY <1>1, <1>4, Continued

\* Reconcile, up to its loop over the PVCs, keeps what is recorded about volumes true; what it
\* saves has been snapshotted.
LEMMA ReconcileVolumesKeeps ==
    ASSUME Recorded, Recorded', ~env.stale, Current, Volumes, NEW r \in Requests, Reconcile(r)
    PROVE  Volumes'
  <1>0. cache = cms
    BY DEF Current
  <1>1. CASE ReconcileDeleted(r) \/ ReconcileDone(r)
    BY <1>1, EndedVolumes
  <1>2. CASE AddFinalizer(r)
    BY <1>2, FinalizerVolumes
  <1>3. CASE CancelPrevious(r)
    BY <1>3, CancelVolumes
  <1>4. CASE StartRequest(r) \/ ReconcileVolumes(r)
    <2>1. /\ run' \in Runs /\ RunOK(run') /\ run'.req = r /\ run'.before = cache[r].data
          /\ run'.data.snapshots = cache[r].data.snapshots
          /\ r \in Deletes => run'.data.requests = cache[r].data.requests
      BY <1>4, StartedRun, VolumesRun
    <2>2. UNCHANGED <<drafts, cms, backups, res, storage, uploads, asked>> /\ Cached(r)
      BY SMTT(30), <1>4 DEF StartRequest, ReconcileVolumes, Reconcilable, csi, history
    <2>3. Exists(r) /\ Follows(r, run'.data, cms[r].data)
      BY <1>0, <2>1, <2>2 DEF Follows, RunOK, Advances, Exists, Cached
    <2>4. \A q \in Requests : cms'[q] \notin {None, Gone} => Exists(q) /\ Follows(q, cms'[q].data, cms[q].data)
      BY <2>2, SameDataFollows DEF Exists
    <2>5. Rewrites /\ GoesOn
      BY Zenon, <2>1, <2>2, <2>3, <2>4 DEF Rewrites, GoesOn
    <2> QED BY SMTT(30), <2>2, <2>5, Continued
  <1>5. CASE CreateEtcdBackup(r)
    <2>1. /\ r \in Creates /\ Cached(r) /\ cache[r].data.phase = "CreatingEtcdBackup"
          /\ run'.req = r /\ SameButPhase(cache[r].data, run'.data)
          /\ run'.data.phase \in {"Completed", "PartiallyFailed", "Failed"}
          /\ \E b \in Backups :
                /\ b.by = r /\ b.data = cache[r].data
                /\ backups' \in {backups, [backups EXCEPT ![URL[r]] = b]}
                /\ uploads' \in {uploads, uploads \cup {b}}
          /\ UNCHANGED <<drafts, cms, res, storage, asked>>
      BY SMTT(30), <1>5, BackupRun
    <2>2. PICK b \in Backups :
                /\ b.by = r /\ b.data = cache[r].data
                /\ backups' \in {backups, [backups EXCEPT ![URL[r]] = b]}
                /\ uploads' \in {uploads, uploads \cup {b}}
      BY <2>1
    <2>3. Exists(r) /\ Follows(r, run'.data, cms[r].data)
      BY ZenonT(30), <1>0, <2>1, SameDataFollows DEF Exists, Cached, Early
    <2>4. SaveKept(b)
      <3>1. Past(r)
        BY <1>0, <2>1, <2>3 DEF Past, Phase, Exists, Early
      <3>2. Kept(r, cms[r].data, res, storage \cup asked)
        BY Zenon, <2>1, <2>3 DEF Volumes, CreateKept, DataKept
      <3> QED BY SMTT(30), <1>0, <2>2, <3>1, <3>2 DEF SaveKept
    <2>5. /\ \A u \in URLs : backups'[u] # None => SaveKept(backups'[u])
          /\ \A c \in uploads' : SaveKept(c)
      <3>1. \A u \in URLs : backups'[u] = backups[u] \/ backups'[u] = b
        BY SMTT(30), <2>2, RequestsHaveURLs DEF Recorded, TypeOK
      <3> QED BY ZenonT(30), <2>2, <2>4, <3>1 DEF Volumes
    <2>6. \A q \in Requests : cms'[q] \notin {None, Gone} => Exists(q) /\ Follows(q, cms'[q].data, cms[q].data)
      BY Zenon, <2>1, SameDataFollows DEF Exists
    <2>7. Rewrites /\ GoesOn /\ Redrafts /\ Saves
      BY Zenon, <2>1, <2>3, <2>5, <2>6 DEF Rewrites, GoesOn, Redrafts, Saves
    <2> QED BY ZenonT(30), <2>1, <2>7, Reworked
  <1>6. CASE DeleteEtcdBackup(r)
    <2>1. /\ r \in Deletes /\ Cached(r) /\ RunOK(run')
          /\ run'.req = r /\ run'.before = cache[r].data
          /\ SameButPhase(cache[r].data, run'.data)
          /\ backups' \in {backups, [backups EXCEPT ![URL[r]] = None]}
          /\ UNCHANGED <<drafts, cms, res, storage, uploads, asked>>
      BY ZenonT(30), <1>6, DeleteBackupRun
    <2>2. Exists(r) /\ Follows(r, run'.data, cms[r].data)
      BY <1>0, <2>1 DEF Exists, Cached, Follows, RunOK, Advances, SameButPhase
    <2>3. /\ \A u \in URLs : backups'[u] # None => SaveKept(backups'[u])
          /\ \A c \in uploads' : SaveKept(c)
      <3>1. \A u \in URLs : backups'[u] = backups[u] \/ backups'[u] = None
        BY Zenon, <2>1, RequestsHaveURLs DEF Recorded, TypeOK
      <3> QED BY Zenon, <2>1, <3>1 DEF Volumes
    <2>4. \A q \in Requests : cms'[q] \notin {None, Gone} => Exists(q) /\ Follows(q, cms'[q].data, cms[q].data)
      BY Zenon, <2>1, SameDataFollows DEF Exists
    <2>5. Rewrites /\ GoesOn /\ Redrafts /\ Saves
      BY Zenon, <2>1, <2>2, <2>3, <2>4 DEF Rewrites, GoesOn, Redrafts, Saves
    <2> QED BY ZenonT(30), <2>1, <2>5, Reworked
  <1> QED BY SMTT(30), <1>1, <1>2, <1>3, <1>4, <1>5, <1>6 DEF Reconcile

\* updateRequest records what has been done.
LEMMA SaveVolumes ==
    ASSUME Recorded, Recorded', ~env.stale, Current, Volumes, Save
    PROVE  Volumes'
  <1> DEFINE r == run.req
  <1>1. /\ r \in Requests /\ run' = Idle /\ run # Idle
        /\ UNCHANGED <<drafts, backups, res, storage, uploads, asked>>
        /\ \A o \in Requests : o # r => cms'[o] = cms[o]
        /\ ~Exists(r) => cms'[r] = cms[r]
        /\ Exists(r) => cms'[r] \in ConfigMaps /\ cms'[r].data \in {cms[r].data, run.data}
    BY SaveWrites
  <1> HIDE DEF r
  <1>2. \A q \in Requests : cms'[q] \notin {None, Gone} =>
              \/ Exists(q) /\ Follows(q, cms'[q].data, cms[q].data)
              \/ Exists(q) /\ run # Idle /\ run.req = q /\ cms'[q].data = run.data
    BY Zenon, <1>1, SameDataFollows DEF Exists, r
  <1>3. \A q \in Requests : cms[q] # None => cms'[q] # None
    BY SMTT(30), <1>1, NoneIsNoConfigMap DEF Exists
  <1>4. Rewrites /\ GoesOn
    BY <1>1, <1>2, <1>3 DEF Rewrites, GoesOn
  <1> QED BY ZenonT(30), <1>1, <1>4, Continued

\* Late uploads save what was kept when they began; a crash loses no snapshot.
LEMMA FinishVolumes ==
    ASSUME Recorded, Recorded', ~env.stale, Current, Volumes, FinishUpload \/ Crash
    PROVE  Volumes'
  <1>0. /\ UNCHANGED <<drafts, cms, res, storage, asked>>
        /\ run' \in {run, Idle}
    BY Zenon DEF FinishUpload, Crash, csi, history
  <1>1. /\ \A u \in URLs : backups'[u] # None => SaveKept(backups'[u])
        /\ \A c \in uploads' : SaveKept(c)
    <2>1. CASE FinishUpload
      <3>1. PICK b \in uploads : backups' = [backups EXCEPT ![URL[b.by]] = b] /\ uploads' = uploads \ {b}
        BY Zenon, <2>1 DEF FinishUpload
      <3>2. \A u \in URLs : backups'[u] = backups[u] \/ backups'[u] = b
        BY ZenonT(30), <3>1 DEF Recorded, TypeOK
      <3> QED BY <3>1, <3>2 DEF Volumes
    <2>2. CASE Crash
      BY Zenon, <2>2 DEF Crash, Volumes
    <2> QED BY SMTT(30), <2>1, <2>2
  <1>2. \A q \in Requests : cms'[q] \notin {None, Gone} => Exists(q) /\ Follows(q, cms'[q].data, cms[q].data)
    BY SMTT(30), <1>0, SameDataFollows DEF Exists
  <1>3. Rewrites /\ GoesOn /\ Redrafts /\ Saves
    BY SMTT(30), <1>0, <1>1, <1>2 DEF Rewrites, GoesOn, Redrafts, Saves
  <1> QED BY <1>0, <1>3, Reworked

\* The loop over the PVCs (reconcileInProgress, reconcileDeleting).
LEMMA TurnVolumes ==
    ASSUME Recorded, Recorded', ~env.stale, Current, Volumes, VolumeStep
    PROVE  Volumes'
  <1> DEFINE r == run.req
             p == Min(run.todo)
             x == res[r][p]
             d == run.data
             s == d.snapshots[p]
             h == <<r, p>>
             live == storage \cup asked
  <1>1. /\ RunOK(run) /\ r \in Requests /\ p \in run.todo /\ p \in d.requests /\ p \in PVCs /\ run.todo # {} /\ run # Idle
        /\ run'.req = r
        /\ UNCHANGED <<drafts, cms, backups, storage, uploads, asked>>
        /\ run'.data.requests = d.requests
        /\ run'.data.phase \in Early => d.phase \in Early
        /\ \E e \in IF IsDeleting(d.vphase) THEN DeleteStep(x, s, d.vphase) ELSE CreateStep(x, s) :
             /\ res' = [res EXCEPT ![r][p] = e.res]
             /\ run'.data.snapshots = [d.snapshots EXCEPT ![p] = e.status]
    BY Zenon, TurnOf DEF VolumeStep, Advances
  <1>2. PICK e \in IF IsDeleting(d.vphase) THEN DeleteStep(x, s, d.vphase) ELSE CreateStep(x, s) :
             /\ res' = [res EXCEPT ![r][p] = e.res]
             /\ run'.data.snapshots = [d.snapshots EXCEPT ![p] = e.status]
    BY ZenonT(30), <1>1
  <1>3. /\ Exists(r) /\ cms[r].data = run.before /\ cms[r] # None
        /\ s = cms[r].data.snapshots[p] /\ d.phase = cms[r].data.phase
    BY SMTT(30), <1>1 DEF Current, Exists
  <1>4. /\ DataOf(r, d) /\ LoopOK(r, d, run.todo) /\ d.snapshots \in [PVCs -> SnapshotStatus \cup {None}]
        /\ x \in Resources /\ s \in SnapshotStatus \cup {None}
    <2>1. DataOf(r, d) /\ LoopOK(r, d, run.todo) /\ d \in Data
      BY SMTT(30), <1>1 DEF RunOK, DataOf
    <2>2. d.snapshots \in [PVCs -> SnapshotStatus \cup {None}]
      BY SMTT(30), <2>1 DEF Data
    <2>3. res \in [Requests -> [PVCs -> Resources]]
      BY SMTT(30) DEF Recorded, TypeOK
    <2>4. x \in Resources
      BY ZenonT(30), <1>1, <2>3
    <2>5. s \in SnapshotStatus \cup {None}
      BY SMTT(30), <1>1, <2>2
    <2> QED BY SMTT(30), <2>1, <2>2, <2>4, <2>5
  <1>5. /\ run'.data.snapshots[p] = e.status
        /\ \A o \in PVCs : o # p => run'.data.snapshots[o] = d.snapshots[o]
    BY SMTT(30), <1>1, <1>2, <1>4
  <1>6. /\ \A g \in storage : g \in storage' \cup asked
        /\ \A g \in storage' : g \in storage
        /\ storage' \cup asked = live
        /\ Creates \cap Deletes = {}
    BY <1>1, RequestsAreDistinct
  <1>7. r \in Creates => /\ ClaimShape(h, x, live) /\ Preserved(h, x, s, live)
                         /\ d.phase \in Early => Progress(h, x, s, live)
                         /\ h \in Handles
    <2>1. r \in Creates => CreateKept(r)
      BY Zenon DEF Volumes
    <2> QED BY Zenon, <1>1, <2>1, HandlesNameClaims DEF CreateKept, DataKept, Progressing, Kept
  <1>8. CASE r \in Creates /\ d.phase = "CreatingVolumeSnapshots" /\ d.vphase = "InProgress"
    <2>1. e \in CreateStep(x, s) /\ d.phase \in Early
      BY <1>2, <1>8 DEF IsDeleting, Early
    <2> HIDE DEF r, p, x, d, s, h, live
    <2>2. /\ ClaimShape(h, e.res, live)
          /\ Progress(h, e.res, s, live) /\ Preserved(h, e.res, s, live)
          /\ Progress(h, e.res, e.status, live) /\ Preserved(h, e.res, e.status, live)
      BY ZenonT(30), <1>4, <1>7, <1>8, <2>1, CreateTurn
    <2>3. ~Past(r)
      BY <1>3, <2>1 DEF Past, Phase
    <2>4. CellKept(h, cms[r].data, p, e.res, live) /\ CellKept(h, run'.data, p, e.res, live)
      BY Zenon, <1>3, <1>5, <2>2 DEF CellKept
    <2>5. r \notin Deletes
      BY <1>6, <1>8
    <2>10. StorageTouched(r, p, e.res)
      BY Zenon, <1>6, <2>3 DEF StorageTouched, x, h
    <2>11. RunTouched(r, p)
      BY <1>1, <1>5 DEF RunTouched, r, d
    <2>12. CreateTouched(r, p, e.res) /\ DeleteTouched(r, p, e.res)
      BY ZenonT(30), <1>6, <2>2, <2>4, <2>5 DEF CreateTouched, DeleteTouched, h, live
    <2> QED BY ZenonT(30), <1>1, <1>2, <1>3, <2>10, <2>11, <2>12, Touched
  <1>9. CASE r \in Creates /\ d.phase = "Canceling" /\ d.vphase = "Canceling"
    <2>1. e \in DeleteStep(x, s, "Canceling") /\ d.phase \notin Early
      BY <1>2, <1>9 DEF IsDeleting, Early
    <2> HIDE DEF r, p, x, d, s, h, live
    <2>2. /\ ClaimShape(h, e.res, live) /\ (Sealed(x) => e.res = x)
          /\ Preserved(h, e.res, s, live) /\ Preserved(h, e.res, e.status, live)
      BY ZenonT(30), <1>4, <1>7, <1>9, <2>1, CancelTurn
    <2>3. Sealed(x) => Sealed(e.res)
      BY <2>2
    <2>4. CellKept(h, cms[r].data, p, e.res, live) /\ CellKept(h, run'.data, p, e.res, live)
      BY SMTT(30), <1>1, <1>3, <1>5, <2>1, <2>2 DEF CellKept
    <2>5. r \notin Deletes
      BY SMTT(30), <1>6, <1>9
    <2>10. StorageTouched(r, p, e.res)
      BY <1>6, <2>3 DEF StorageTouched, x, h
    <2>11. RunTouched(r, p)
      BY <1>1, <1>5 DEF RunTouched, r, d
    <2>12. CreateTouched(r, p, e.res) /\ DeleteTouched(r, p, e.res)
      BY ZenonT(30), <1>6, <2>2, <2>4, <2>5 DEF CreateTouched, DeleteTouched, h, live
    <2> QED BY ZenonT(30), <1>1, <1>2, <1>3, <2>10, <2>11, <2>12, Touched
  <1>10. CASE r \in Deletes /\ d.phase = "DeletingVolumeSnapshots" /\ d.vphase = "Deleting"
    <2>1. e \in DeleteStep(x, s, "Deleting")
      BY SMTT(30), <1>2, <1>10 DEF IsDeleting
    <2>2. s \in SnapshotStatus /\ s.phase \in {"Completed", "Failed", "Deleting", "Deleted"}
      BY SMTT(30), <1>1, <1>4, <1>10 DEF DataOf, DeleteData, SnapshotsIn
    <2>3. ContentShape(x, asked) /\ Going(x, s, storage, asked) /\ Origin(p, s, res)
      <3>1. DeleteKept(r)
        BY SMTT(30), <1>10 DEF Volumes
      <3> QED BY SMTT(30), <1>1, <3>1 DEF DeleteKept, DataGoing
    <2>4. asked \in SUBSET Handles
      BY SMTT(30) DEF Recorded, TypeOK
    <2> HIDE DEF r, p, x, d, s, h, live
    <2>5. /\ ContentShape(e.res, asked) /\ Going(e.res, s, storage, asked) /\ Going(e.res, e.status, storage, asked)
          /\ e.status.handle = s.handle
          /\ s.phase = "Failed" => e.status = s
      <3>1. x \in Resources
        BY <1>4
      <3> QED BY SMTT(30), <2>1, <2>2, <2>3, <2>4, <3>1, DeleteTurn
    <2>6. Origin(p, e.status, res)
      BY Zenon, <2>3, <2>5 DEF Origin
    <2>7. r \notin Creates
      BY SMTT(30), <1>6, <1>10
    <2>10. StorageTouched(r, p, e.res)
      BY SMTT(30), <1>6, <2>7 DEF StorageTouched, x, h
    <2>11. RunTouched(r, p)
      BY <1>1, <1>5 DEF RunTouched, r, d
    <2>12. CreateTouched(r, p, e.res) /\ DeleteTouched(r, p, e.res)
      BY SMTT(30), <1>1, <1>3, <1>5, <2>5, <2>6, <2>7 DEF CreateTouched, DeleteTouched, h, live
    <2> QED BY ZenonT(30), <1>1, <1>2, <1>3, <2>10, <2>11, <2>12, Touched
  <1> QED BY <1>4, <1>8, <1>9, <1>10 DEF LoopOK

\* The CSI controller, at any time, loses nothing that a request relies on.
LEMMA CSIVolumes ==
    ASSUME Recorded, Recorded', Volumes, NEW r \in Requests, NEW p \in PVCs, CSI(r, p)
    PROVE  Volumes'
  <1> DEFINE x == res[r][p]
             h == <<r, p>>
             live == storage \cup asked
             more == storage' \cup asked
  <1>0. /\ TypeOK /\ x \in Resources /\ storage \in SUBSET Handles /\ res \in [Requests -> [PVCs -> Resources]]
        /\ res' \in [Requests -> [PVCs -> Resources]] /\ None \notin storage
        /\ Creates \cap Deletes = {} /\ Requests = Creates \cup Deletes
    BY NoneIsNoHandle, RequestsAreDistinct DEF Recorded, TypeOK, Requests
  <1>1. PICK y : res' = [res EXCEPT ![r][p] = y] /\ CSIEffect(r, p, x, y, storage, storage')
    BY <1>0, CSIWrites
  <1>2. UNCHANGED <<drafts, cms, backups, run, uploads, asked>>
    BY <1>0, CSIWrites
  <1>3. y \in Resources
    <2>1. y = res'[r][p]
      BY <1>0, <1>1
    <2> QED BY <1>0, <2>1
  <1>4. cms[r] # None
    <2>1. x.vs # None \/ x.dynamic # None \/ x.named # None
      <3> HIDE DEF x
      <3> QED BY <1>1 DEF CSIEffect, Bound, Reported, Erred, ContentDeleting, SnapshotRemoved, Snapshotted, ContentRemoved
    <2>2. x # NoResources
      BY <2>1 DEF NoResources
    <2> QED BY <2>2 DEF Volumes
  <1>5. CASE r \in Creates
    <2>0. CreateKept(r) /\ r \notin Deletes
      BY SMTT(30), <1>0, <1>5 DEF Volumes
    <2>1. ClaimShape(h, x, live)
      BY <2>0 DEF CreateKept
    <2>2. /\ ClaimShape(h, y, more)
          /\ Untouched(x) => Untouched(y)
          /\ Safe(x) => Safe(y) /\ storage \subseteq storage'
          /\ Sealed(x) => Sealed(y) /\ storage' = storage
          /\ \A g \in storage : g # h => g \in storage'
          /\ \A g \in storage' : g # h => g \in storage
      <3>1. CSIEffect(r, p, x, y, storage, storage') /\ x \in Resources /\ y \in Resources /\ storage \in SUBSET Handles
        BY <1>0, <1>1, <1>3
      <3>2. Lasts(live, more, storage, storage') /\ h = <<r, p>>
        BY DEF Lasts
      <3> HIDE DEF x, live, more, h
      <3>3. CSIKept(h, x, y, storage, storage', more)
        BY SMTT(30), <1>5, <2>1, <3>1, <3>2, CSIKeeps
      <3> QED BY <3>3 DEF CSIKept
    <2> HIDE DEF h, x, live, more
    <2>3. ASSUME NEW s
          PROVE  /\ Progress(h, x, s, live) => Progress(h, y, s, more)
                 /\ Preserved(h, x, s, live) => Preserved(h, y, s, more)
      BY SMTT(30), <2>2 DEF Progress, Preserved, HandleKept, live, more
    <2>4. Exists(r) => CellKept(h, cms[r].data, p, y, more)
      <3>1. Exists(r) => DataKept(r, cms[r].data, res, live)
        BY SMTT(30), <2>0 DEF CreateKept, live
      <3> QED BY SMTT(30), <2>3, <3>1 DEF CellKept, DataKept, Progressing, Kept, h, x
    <2>5. run # Idle /\ run.req = r => CellKept(h, run.data, p, y, more)
      <3>1. run # Idle /\ run.req = r => DataKept(r, run.data, res, live)
        BY <2>0 DEF CreateKept, live
      <3> QED BY SMTT(30), <2>3, <3>1 DEF CellKept, DataKept, Progressing, Kept, h, x
    <2>6. \A g \in storage : g \in storage' \cup asked \/ (r \in Creates /\ g = h /\ ~(Past(r) /\ Sealed(x)))
      BY <1>5, <2>2
    <2>7. \A g \in storage' : g \in storage \/ (r \in Creates /\ g = h /\ ~Sealed(x))
      BY <1>5, <2>2
    <2>8. r \in Creates /\ Past(r) /\ Sealed(x) => Sealed(y)
      BY <2>2
    <2>9. StorageTouched(r, p, y)
      BY <2>6, <2>7, <2>8 DEF StorageTouched, h, x
    <2>10. RunTouched(r, p)
      BY <1>2 DEF RunTouched
    <2>11. CreateTouched(r, p, y) /\ DeleteTouched(r, p, y)
      BY ZenonT(30), <1>2, <2>0, <2>2, <2>4, <2>5 DEF CreateTouched, DeleteTouched, h, more
    <2> QED BY ZenonT(30), <1>1, <1>2, <1>4, <2>9, <2>10, <2>11, Touched
  <1>6. CASE r \in Deletes
    <2>0. DeleteKept(r) /\ r \notin Creates
      BY Zenon, <1>0, <1>6 DEF Volumes
    <2>1. ContentShape(x, asked)
      BY Zenon, <2>0 DEF DeleteKept
    <2>2. /\ ContentShape(y, asked)
          /\ \A g \in storage : g \notin asked \cup {None} => g \in storage'
          /\ storage' \subseteq storage
          /\ \A g : PreGo(x, g) => PreGo(y, g)
          /\ \A g : WillGo(x, g, storage) => WillGo(y, g, storage')
      BY SMTT(30), <1>0, <1>1, <1>3, <2>1, CSIDeletes
    <2> HIDE DEF h, x, live, more
    <2>3. ASSUME NEW s, Going(x, s, storage, asked)
          PROVE  Going(y, s, storage', asked)
      BY <2>2, <2>3 DEF Going
    <2>4. Exists(r) /\ p \in cms[r].data.requests => Going(y, cms[r].data.snapshots[p], storage', asked)
      BY Zenon, <2>0, <2>3 DEF DeleteKept, DataGoing, x
    <2>5. run # Idle /\ run.req = r /\ p \in run.data.requests =>
             /\ Going(y, run.data.snapshots[p], storage', asked)
             /\ Origin(p, run.data.snapshots[p], res)
      BY Zenon, <2>0, <2>3 DEF DeleteKept, DataGoing, x
    <2>6. \A g \in storage : g \in storage' \cup asked
      BY <1>0, <2>2
    <2>7. \A g \in storage' : g \in storage
      BY <2>2
    <2>8. StorageTouched(r, p, y)
      BY <2>0, <2>6, <2>7 DEF StorageTouched
    <2>9. RunTouched(r, p)
      BY <1>2 DEF RunTouched
    <2>10. CreateTouched(r, p, y) /\ DeleteTouched(r, p, y)
      BY ZenonT(30), <1>2, <2>0, <2>2, <2>4, <2>5 DEF CreateTouched, DeleteTouched
    <2> QED BY ZenonT(30), <1>1, <1>2, <1>4, <2>8, <2>9, <2>10, Touched
  <1> QED BY SMTT(30), <1>0, <1>5, <1>6

\* Every step keeps the volumes as recorded, for a controller that reads its own writes.
LEMMA StepVolumes ==
    ASSUME Recorded, ~env.stale, Current, Volumes, [Next]_vars
    PROVE  Volumes'
  <1>0. Recorded'
    BY StepRecorded
  <1>1. CASE UNCHANGED vars
    <2>1. UNCHANGED <<drafts, cms, backups, run, res, storage, uploads, asked>>
      BY <1>1 DEF vars
    <2>2. \A q \in Requests : cms'[q] \notin {None, Gone} => Exists(q) /\ Follows(q, cms'[q].data, cms[q].data)
      BY SMTT(30), <2>1, SameDataFollows DEF Exists
    <2>3. Rewrites /\ GoesOn
      BY <2>1, <2>2 DEF Rewrites, GoesOn
    <2> QED BY <1>0, <2>1, <2>3, Continued
  <1>2. ASSUME NEW r \in Requests, Client(r) \/ Sync(r) PROVE Volumes'
    BY <1>0, <1>2, ClientVolumes
  <1>3. ASSUME NEW r \in Requests, Reconcile(r) PROVE Volumes'
    BY <1>0, <1>3, ReconcileVolumesKeeps
  <1>4. CASE VolumeStep
    BY <1>0, <1>4, TurnVolumes
  <1>5. CASE Save
    BY <1>0, <1>5, SaveVolumes
  <1>6. CASE FinishUpload \/ Crash
    BY <1>0, <1>6, FinishVolumes
  <1>7. ASSUME NEW r \in Requests, NEW p \in PVCs, CSI(r, p) PROVE Volumes'
    BY <1>0, <1>7, CSIVolumes
  <1> QED BY SMTT(30), <1>1, <1>2, <1>3, <1>4, <1>5, <1>6, <1>7 DEF Next

-----------------------------------------------------------------------------
\* At first there are no resources.
LEMMA InitVolumes == Init => Volumes
  <1> SUFFICES ASSUME Init PROVE Volumes
    OBVIOUS
  <1>0. Creates \subseteq Requests /\ Deletes \subseteq Requests
    BY DEF Requests
  <1>1. /\ \A r \in Requests : cms[r] = None /\ drafts[r] = None
        /\ \A r \in Requests, p \in PVCs : res[r][p] = NoResources
        /\ \A u \in URLs : backups[u] = None
        /\ run = Idle /\ uploads = {}
    BY DEF Init
  <1>2. NoResources.vs = None /\ NoResources.dynamic = None /\ NoResources.named = None
    BY SMTT(30) DEF NoResources
  <1>3. \A r \in Creates : CreateKept(r)
    BY SMTT(30), <1>0, <1>1, <1>2 DEF CreateKept, ClaimShape, Exists
  <1>4. \A r \in Deletes : DeleteKept(r)
    BY <1>0, <1>1, <1>2 DEF DeleteKept, ContentShape, Preprovisioned, Exists
  <1> QED BY <1>1, <1>3, <1>4 DEF Volumes

\* The inductive invariant for the volumes.
SnapshotInv == Recorded /\ (~env.stale => Current /\ Volumes)

\* It holds at first, and every step keeps it.
LEMMA SnapshotsInvariant == Spec => []SnapshotInv
  <1>1. Init => SnapshotInv
    BY InitRecorded, InitCurrent, InitVolumes DEF SnapshotInv
  <1>2. SnapshotInv /\ [Next]_vars => SnapshotInv'
    BY StepRecorded, StepCurrent, StepVolumes, EnvironmentStays DEF SnapshotInv
  <1> QED BY <1>1, <1>2, PTL DEF Spec

\* Requests that meet a lagging cache have no volumes.
LEMMA NoVolumesLagged ==
    ASSUME Recorded, env.stale, NEW d, VolumesOnly(d)
    PROVE  d.requests = {} /\ d.snapshots = NoSnapshots
  BY Zenon, VolumesUnlagged DEF Recorded, TypeOK, VolumesOnly

\* The storage snapshots that a saved snapshot refers to are there until some client asks for their
\* deletion, whatever fails or crashes and in whatever order the CSI controller acts
\* (cleanupVolumeSnapshotResource, updateAndDeleteVolumeSnapshotResource).
THEOREM VolumesAlwaysKept == Spec => []SavedVolumesKept
  <1>1. SnapshotInv => SavedVolumesKept
    <2> SUFFICES ASSUME SnapshotInv, NEW u \in URLs, backups[u] # None, NEW p \in backups[u].data.requests,
                        backups[u].data.snapshots[p].phase = "Completed"
                 PROVE  backups[u].data.snapshots[p].handle \in storage \cup asked
      BY DEF SavedVolumesKept
    <2>1. Recorded /\ BackupOK(backups[u])
      BY DEF SnapshotInv, Recorded
    <2>2. ~env.stale
      BY SMTT(30), <2>1, NoVolumesLagged DEF BackupOK
    <2>3. p \in PVCs /\ backups[u].data.snapshots[p] # None
      BY SMTT(30), <2>1, NoneIsNoStatus DEF BackupOK, Snapped, SnapshotsIn, Backups, Data
    <2>4. Kept(backups[u].by, backups[u].data, res, storage \cup asked)
      BY <2>2 DEF SnapshotInv, Volumes, SaveKept
    <2> QED BY ZenonT(30), <2>3, <2>4 DEF Kept, Preserved, HandleKept
  <1> QED BY <1>1, SnapshotsInvariant, PTL

\* What requests record about volumes is so: a PVC that is Completed has no VolumeSnapshot left that
\* could take its snapshot along, and a deletion that has come to its last phases has removed every
\* snapshot from the storage (reconcileInProgress, reconcileDeleting).
THEOREM RecordedAlwaysDone == Spec => []RecordedIsDone
  <1>1. SnapshotInv => RecordedIsDone
    <2> SUFFICES ASSUME SnapshotInv PROVE RecordedIsDone
      OBVIOUS
    <2>0. Recorded /\ (~env.stale => Volumes) /\ Creates \subseteq Requests /\ Deletes \subseteq Requests
      BY DEF SnapshotInv, Requests
    <2>1. CompletedCleansUp
      <3> SUFFICES ASSUME NEW r \in Creates, Exists(r), NEW p \in PVCs, cms[r].data.snapshots[p] # None,
                          cms[r].data.snapshots[p].phase = "Completed"
                   PROVE  res[r][p].vs = None
        BY DEF CompletedCleansUp
      <3>1. DataOf(r, cms[r].data)
        BY SMTT(30), <2>0 DEF Recorded
      <3>2. ~env.stale
        BY <2>0, <3>1, NoVolumesLagged DEF DataOf, NoSnapshots
      <3>3. Preserved(<<r, p>>, res[r][p], cms[r].data.snapshots[p], storage \cup asked)
        BY ZenonT(30), <2>0, <3>2 DEF Volumes, CreateKept, DataKept, Kept
      <3> QED BY <3>3 DEF Preserved, Sealed
    <2>2. DeletedIsGone
      <3> SUFFICES ASSUME NEW r \in Deletes, Exists(r), Phase(r) \in {"DeletingEtcdBackup", "Deleted"},
                          NEW p \in cms[r].data.requests, cms[r].data.snapshots[p].phase # "Failed"
                   PROVE  cms[r].data.snapshots[p].handle \notin storage
        BY DEF DeletedIsGone, InPhases
      <3>1. DataOf(r, cms[r].data)
        BY SMTT(30), <2>0 DEF Recorded
      <3>2. ~env.stale
        BY SMTT(30), <2>0, <3>1, NoVolumesLagged DEF DataOf
      <3>3. cms[r].data.snapshots[p].phase = "Deleted"
        BY SMTT(30), <3>1 DEF DataOf, DeleteData, SnapshotsIn, Phase
      <3>4. Going(res[r][p], cms[r].data.snapshots[p], storage, asked)
        BY <2>0, <3>2 DEF Volumes, DeleteKept, DataGoing
      <3> QED BY <3>3, <3>4 DEF Going
    <2> QED BY <2>1, <2>2 DEF RecordedIsDone
  <1> QED BY <1>1, SnapshotsInvariant, PTL

=============================================================================
