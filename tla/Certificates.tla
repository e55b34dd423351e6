----------------------------- MODULE Certificates -----------------------------
(***************************************************************************)
(* The certificates of the virtual control plane: EnsureCerts, which every *)
(* replica runs when it starts (pkg/certs/ensure.go), Rotate in the syncer *)
(* (pkg/certs/rotate.go) and the command that runs it                      *)
(* (pkg/cli/certs/rotate_helm.go). They are shared through a Secret that   *)
(* replicas create, download and patch; a standalone vCluster has its      *)
(* directory only.                                                         *)
(*                                                                         *)
(* A directory or Secret is its service account key, its CA, the copies    *)
(* server-ca and client-ca, and the leafs with the kubeconfigs, known by   *)
(* the CA that signed them and when. 0 stands for files that are missing.  *)
(***************************************************************************)
EXTENDS ControlPlaneParts, Naturals, FiniteSets

CONSTANTS
    Replicas,   \* replicas of the control plane
    CertSetups, \* the settings to explore
    MaxKeys,    \* bound on the keys that are made
    MaxRotations, \* bound on rotations
    Nothing     \* no Secret, no command

\* A setting: the replicas; standalone; whether directories are on volumes;
\* whether calls fail; whether replicas and commands are killed.
ASSUME CertSetupsAreRecords ==
    /\ \A u \in CertSetups : /\ u.replicas \subseteq Replicas
                             /\ {u.standalone, u.volumes, u.faults, u.kills} \subseteq BOOLEAN
    /\ {MaxKeys, MaxRotations} \subseteq Nat

VARIABLES
    site,       \* the setting, which never changes
    secret,     \* the Secret with the certificates
    dirs,       \* the directory of each replica
    procs,      \* EnsureCerts in each replica, and what a running one has loaded
    rotation,   \* the rotation command
    paused,     \* the vCluster is scaled to zero
    year,       \* leafs of the year before are about to expire
    keys,       \* number of the last key made
    rotations,  \* number of rotations so far
    torn        \* history: a patch met a Secret with another CA than when it was read, or
                \* a standalone rotation was killed among its files

pkiVars == <<site, secret, dirs, procs, rotation, paused, year, keys, rotations, torn>>

Leafs == [by: Nat, year: Nat]
PKIs == [sa: Nat, ca: Nat, split: Nat, leafs: Leafs]
NoLeafs == [by |-> 0, year |-> 0]
EmptyDir == [sa |-> 0, ca |-> 0, split |-> 0, leafs |-> NoLeafs]
Fields == {"sa", "ca", "split", "leafs"}

Down == [step |-> "down", read |-> Nothing, loaded |-> EmptyDir, since |-> 0]

PKIInit ==
    /\ site \in Settings("certificates", CertSetups)
    /\ secret = Nothing
    /\ dirs = [r \in Replicas |-> EmptyDir]
    /\ procs = [r \in Replicas |-> Down]
    /\ rotation = Nothing
    /\ paused = FALSE
    /\ year = 0
    /\ keys = 0
    /\ rotations = 0
    /\ torn = FALSE

-----------------------------------------------------------------------------
(* Files                                                                     *)

Expiring(d) == d.leafs.by = 0 \/ d.leafs.year < year

\* CreatePKIAssets makes what is missing and refuses leafs of another CA.
Signed(d) == d.ca # 0 /\ d.leafs.by # 0 => d.leafs.by = d.ca
Generable(d) == Signed(d) /\ ~(d.ca = 0 /\ d.leafs.by # 0)

\* splitCACert copies the CA only where there is no copy yet.
Split(d) == [d EXCEPT !.split = IF @ = 0 THEN d.ca ELSE @]

NewKey(d) == IF d.ca = 0 \/ d.sa = 0 THEN keys + 1 ELSE keys
GenerateCertificates(d) ==
    LET ca == IF d.ca = 0 THEN keys + 1 ELSE d.ca
    IN Split([sa |-> IF d.sa = 0 THEN keys + 1 ELSE d.sa,
              ca |-> ca,
              split |-> d.split,
              leafs |-> IF d.leafs.by = 0 THEN [by |-> ca, year |-> year] ELSE d.leafs])

\* removeFiles with excludeSAFiles and, unless the CA is rotated, excludeCAFiles.
RemoveFiles(d, withCA) ==
    IF withCA THEN [EmptyDir EXCEPT !.sa = d.sa] ELSE [d EXCEPT !.leafs = NoLeafs]

\* downloadCertsFromSecret
Download(s) == Split(s)

-----------------------------------------------------------------------------
(* EnsureCerts                                                               *)

Is(r, step) == procs[r].step = step
Becomes(r, step) == procs' = [procs EXCEPT ![r].step = step]
Write(r, d) == dirs' = [dirs EXCEPT ![r] = d]
Loads(r, d) == procs' = [procs EXCEPT ![r] = [step |-> "up", read |-> Nothing, loaded |-> d, since |-> year]]

\* The error that ends EnsureCerts ends the process too; it is started again.
Fails(r) == procs' = [procs EXCEPT ![r] = Down]

\* A Secret that was found is downloaded; leafs about to expire are made again
\* first. Any error counts as not found.
GetSecret(r) ==
    /\ Is(r, "down") /\ r \in site.replicas /\ ~site.standalone
    /\ ~paused
    /\ \/ /\ secret # Nothing
          /\ LET renewal == Expiring(secret)
                 d == IF renewal THEN GenerateCertificates(RemoveFiles(Download(secret), FALSE)) ELSE Download(secret)
             IN /\ Write(r, d)
                /\ IF renewal THEN procs' = [procs EXCEPT ![r].step = "sync", ![r].read = secret] ELSE Loads(r, d)
       \/ /\ secret = Nothing \/ site.faults
          /\ Becomes(r, "generate")
          /\ UNCHANGED dirs
    /\ UNCHANGED <<site, secret, rotation, paused, year, keys, rotations, torn>>

GenerateFiles(r) ==
    /\ Is(r, "generate")
    /\ keys < MaxKeys
    /\ IF Generable(dirs[r])
       THEN /\ Write(r, GenerateCertificates(dirs[r]))
            /\ keys' = NewKey(dirs[r])
            /\ Becomes(r, "create")
       ELSE Fails(r) /\ UNCHANGED <<dirs, keys>>
    /\ UNCHANGED <<site, secret, rotation, paused, year, rotations, torn>>

\* The first replica creates it, the others take it.
CreateSecret(r) ==
    /\ Is(r, "create")
    /\ secret' = IF secret = Nothing THEN dirs[r] ELSE secret
    /\ Write(r, Download(secret'))
    /\ Loads(r, Download(secret'))
    /\ UNCHANGED <<site, rotation, paused, year, keys, rotations, torn>>

\* All but the copies of the CA (a faulty Patched).
PatchedButCopies(s, read, d) == [f \in Fields |-> IF f # "split" /\ d[f] # read[f] THEN d[f] ELSE s[f]]

\* The fields in which the directory differs from the Secret as it was read.
Patched(s, read, d) == [f \in Fields |-> IF d[f] # read[f] THEN d[f] ELSE s[f]]

\* SyncSecret of a renewal, whose Get and Patch are two calls.
SyncGet(r) ==
    /\ Is(r, "sync")
    /\ procs' = [procs EXCEPT ![r].step = "patch", ![r].read = secret]
    /\ torn' = (torn \/ secret.ca # procs[r].read.ca)
    /\ UNCHANGED <<site, secret, dirs, rotation, paused, year, keys, rotations>>

SyncPatch(r) ==
    /\ Is(r, "patch")
    /\ secret' = Patched(secret, procs[r].read, dirs[r])
    /\ torn' = (torn \/ secret.ca # procs[r].read.ca)
    /\ Loads(r, dirs[r])
    /\ UNCHANGED <<site, dirs, rotation, paused, year, keys, rotations>>

\* Without a Secret: files that are not there are made, leafs about to expire made
\* again.
EnsureStandalone(r) ==
    /\ Is(r, "down") /\ r \in site.replicas /\ site.standalone
    /\ LET d == IF dirs[r].ca # 0 /\ Expiring(dirs[r]) THEN RemoveFiles(dirs[r], FALSE) ELSE dirs[r]
           made == GenerateCertificates(d)
       IN IF dirs[r].ca # 0 /\ ~Expiring(dirs[r])
          THEN Loads(r, dirs[r]) /\ UNCHANGED <<dirs, keys>>
          ELSE /\ Generable(d)
               /\ keys < MaxKeys
               /\ Write(r, made)
               /\ Loads(r, made)
               /\ keys' = NewKey(d)
    /\ UNCHANGED <<site, secret, rotation, paused, year, rotations, torn>>

\* A replica ends. Its directory stays if it is on a volume or only its container
\* is started again. (A rotation that runs in it ends first.)
KillReplica(r) ==
    /\ site.kills
    /\ ~Is(r, "down")
    /\ rotation # Nothing => rotation.in # r
    /\ Fails(r)
    /\ \E d \in {dirs[r]} \cup (IF site.volumes THEN {} ELSE {EmptyDir}) : Write(r, d)
    /\ UNCHANGED <<site, secret, rotation, paused, year, keys, rotations, torn>>

-----------------------------------------------------------------------------
(* vcluster certs rotate and rotate-ca                                       *)

AllUp == \A r \in site.replicas : Is(r, "up")
Rotating(step) == rotation # Nothing /\ rotation.step = step
RotationTo(step) == rotation' = [rotation EXCEPT !.step = step]

\* With volumes the vCluster is paused and a pod has the directory of the first
\* replica; otherwise the command runs in a replica.
RotateBegins ==
    /\ rotation = Nothing
    /\ rotations < MaxRotations
    /\ AllUp
    /\ rotations' = rotations + 1
    /\ \E withCA \in BOOLEAN, r \in site.replicas :
          /\ site.volumes => \A q \in site.replicas : r <= q
          /\ rotation' = [step |-> IF site.volumes /\ ~site.standalone THEN "pause" ELSE "remove",
                          ca |-> withCA, in |-> r, read |-> Nothing]
    /\ UNCHANGED <<site, secret, dirs, procs, paused, year, keys, torn>>

\* PauseVCluster waits until the pods are gone.
RotatePause ==
    /\ Rotating("pause")
    /\ paused' = TRUE
    /\ procs' = [r \in Replicas |-> Down]
    /\ RotationTo("remove")
    /\ UNCHANGED <<site, secret, dirs, year, keys, rotations, torn>>

RotateFiles ==
    /\ Rotating("remove")
    /\ keys < MaxKeys
    /\ LET d == RemoveFiles(dirs[rotation.in], rotation.ca)
       IN /\ Generable(d)
          /\ Write(rotation.in, GenerateCertificates(d))
          /\ keys' = NewKey(d)
    /\ RotationTo(IF site.standalone THEN "restart" ELSE "sync")
    /\ UNCHANGED <<site, secret, procs, paused, year, rotations, torn>>

RotateSyncGet ==
    /\ Rotating("sync")
    /\ rotation' = [rotation EXCEPT !.step = "patch", !.read = secret]
    /\ UNCHANGED <<site, secret, dirs, procs, paused, year, keys, rotations, torn>>

RotateSyncPatch ==
    /\ Rotating("patch")
    /\ secret' = Patched(secret, rotation.read, dirs[rotation.in])
    /\ torn' = (torn \/ secret.ca # rotation.read.ca)
    /\ RotationTo("restart")
    /\ UNCHANGED <<site, dirs, procs, paused, year, keys, rotations>>

\* The vCluster is resumed, or its pods are deleted; whoever rotates the files of
\* a standalone one restarts it.
RotateRestart ==
    /\ Rotating("restart")
    /\ procs' = [r \in Replicas |-> Down]
    /\ dirs' = IF site.volumes \/ site.standalone THEN dirs ELSE [r \in Replicas |-> EmptyDir]
    /\ paused' = FALSE
    /\ rotation' = Nothing
    /\ UNCHANGED <<site, secret, year, keys, rotations, torn>>

\* The command or its pod ends early; of a standalone directory any part may be
\* gone. Someone resumes a paused vCluster.
KillRotation ==
    /\ site.kills
    /\ rotation # Nothing
    /\ rotation' = Nothing
    /\ paused' = FALSE
    /\ IF site.standalone /\ Rotating("remove") /\ rotation.ca
       THEN /\ Write(rotation.in, [dirs[rotation.in] EXCEPT !.ca = 0, !.leafs = NoLeafs])
            /\ torn' = TRUE
       ELSE UNCHANGED <<dirs, torn>>
    /\ UNCHANGED <<site, secret, procs, year, keys, rotations>>

\* Starts and rotations do not take that long.
NextYear ==
    /\ year = 0
    /\ rotation = Nothing
    /\ AllUp
    /\ year' = 1
    /\ UNCHANGED <<site, secret, dirs, procs, rotation, paused, keys, rotations, torn>>

StartReplica(r) ==
    \/ GetSecret(r) \/ GenerateFiles(r) \/ CreateSecret(r) \/ SyncGet(r) \/ SyncPatch(r)
    \/ EnsureStandalone(r)
RotateStep == RotatePause \/ RotateFiles \/ RotateSyncGet \/ RotateSyncPatch \/ RotateRestart

PKINext ==
    \/ \E r \in Replicas : StartReplica(r) \/ KillReplica(r)
    \/ RotateBegins \/ RotateStep \/ KillRotation
    \/ NextYear

PKIFairness ==
    /\ \A r \in Replicas : WF_pkiVars(part = "certificates" /\ StartReplica(r))
    /\ WF_pkiVars(part = "certificates" /\ RotateStep)

-----------------------------------------------------------------------------
PKITypeOK ==
    /\ site \in CertSetups
    /\ secret \in PKIs \cup {Nothing}
    /\ dirs \in [Replicas -> PKIs]
    /\ \A r \in Replicas : /\ procs[r].step \in {"down", "generate", "create", "sync", "patch", "up"}
                           /\ procs[r].read \in PKIs \cup {Nothing}
                           /\ procs[r].loaded \in PKIs
    /\ {paused, torn} \subseteq BOOLEAN
    /\ keys \in 0..MaxKeys

Chain(d) == d.ca # 0 /\ d.split = d.ca /\ d.leafs.by = d.ca

\* A replica starts with leafs that its own CA has signed, the copies of the CA being
\* those of the same CA, and that are not about to expire. (A replica that could not
\* read the Secret at first takes it as it is.)
StartsValid ==
    \A r \in Replicas :
        (Is(r, "up") /\ ~torn) =>
            /\ Chain(procs[r].loaded)
            /\ ~site.faults => procs[r].loaded.leafs.year >= procs[r].since

\* What the Secret holds fits together, unless a renewal overlapped a rotation.
SecretConsistent == (secret # Nothing /\ ~torn) => Chain(secret)

\* Rotate leaves the service account keys untouched, and no start makes new ones.
ServiceAccountKept == secret # Nothing => secret'.sa = secret.sa

\* All replicas come to use the CA of the Secret.
ReplicasAgree ==
    <>[](torn \/ site.kills \/ site.faults \/ secret = Nothing
         \/ \A r \in site.replicas : Is(r, "up") => procs[r].loaded.ca = secret.ca)

\* The control plane never starts with a certificate that has expired, and the
\* Secret holds certificates of the CA it holds (EnsureCerts, RotateCmd).
CertificatesValid == StartsValid /\ SecretConsistent

=============================================================================
