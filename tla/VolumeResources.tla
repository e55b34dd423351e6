---------------------------- MODULE VolumeResources ---------------------------
(***************************************************************************)
(* The VolumeSnapshot and VolumeSnapshotContents of one PVC under the name *)
(* "<pvc>-<request>" and what the snapshot handler does to them            *)
(* (pkg/snapshot/volumes/csi/snapshothandler.go).                          *)
(*                                                                         *)
(* A handler call is a set of outcomes [res, result]: the resources it     *)
(* leaves and what it returns. Where failures occur, an API call may fail, *)
(* before or after it took effect; the calls after it are then not made.   *)
(***************************************************************************)
EXTENDS SnapshotPhases

CONSTANTS
    Handles,    \* snapshots in the storage backend
    None

ASSUME NoneIsNoHandle == None \notin Handles
ASSUME NoneIsNoName == None \notin {"dynamic", "named"}

VARIABLE
    env         \* what happens around the controller; it does not change

Policies == {"Delete", "Retain"}
States == {"unset", "ready", "error"}

VolumeSnapshots == [source: {"claim", "content"}, bound: BOOLEAN, state: States, deleting: BOOLEAN]
Contents == [policy: Policies, state: States, deleting: BOOLEAN, handle: Handles \cup {None}]

\* dynamic is the content the CSI controller provisions for a claim, named the
\* pre-provisioned one, which has the name of its VolumeSnapshot.
Resources == [vs: VolumeSnapshots \cup {None}, dynamic: Contents \cup {None},
              named: Contents \cup {None}]
ASSUME NoneIsNoResource == None \notin VolumeSnapshots \cup Contents
NoResources == [vs |-> None, dynamic |-> None, named |-> None]

ClaimSnapshot == [source |-> "claim", bound |-> FALSE, state |-> "unset", deleting |-> FALSE]
ContentSnapshot == [source |-> "content", bound |-> FALSE, state |-> "unset", deleting |-> FALSE]
NamedContent(handle, policy) ==
    [policy |-> policy, state |-> "unset", deleting |-> FALSE, handle |-> handle]

Outcome(res, result) == [res |-> res, result |-> result]
Faults(outcomes) == IF env.failures THEN outcomes ELSE {}

\* Which content getVolumeSnapshotResources looks up when it is given no name.
ContentOf(res) ==
    CASE res.vs = None -> None
      [] res.vs # None /\ res.vs.source = "claim" /\ res.vs.bound -> "dynamic"
      [] res.vs # None /\ res.vs.source = "content" -> "named"
      [] OTHER -> None

Content(res, name) == IF name = None THEN None ELSE res[name]

-----------------------------------------------------------------------------
DeletedSnapshot(res) ==
    IF res.vs # None THEN [res EXCEPT !.vs.deleting = TRUE] ELSE res

DeletedContent(res, name, had) ==
    IF Content(res, name) # None /\ (res[name].policy = "Retain" \/ had = None)
    THEN [res EXCEPT ![name].deleting = TRUE]
    ELSE res

\* What a handler that skips the policy would do (a faulty UpdateAndDelete).
UpdateAndDeleteAtOnce(res, name, policy) ==
    LET half == DeletedSnapshot(res)
    IN {Outcome(DeletedContent(half, name, res.vs), "inProgress")}

\* updateAndDeleteVolumeSnapshotResource: first the deletion policy, in a later
\* call the VolumeSnapshot and then the content. A conflict is no error.
UpdateAndDelete(res, name, policy) ==
    LET content == Content(res, name)
        repoliced == [res EXCEPT ![name].policy = policy]
        half == DeletedSnapshot(res)
        whole == DeletedContent(half, name, res.vs)
    IN IF content # None /\ ~content.deleting /\ content.policy # policy
       THEN {Outcome(repoliced, "inProgress")}
            \cup Faults({Outcome(res, "error"), Outcome(repoliced, "error"),
                         Outcome(res, "inProgress")})
       ELSE {Outcome(whole, "inProgress")}
            \cup Faults({Outcome(r, "error") : r \in {res, half, whole}}
                        \cup {Outcome(r, "inProgress") : r \in {res, half}})

CleanupVolumeSnapshot(res) ==
    (IF res.vs = None
     THEN {Outcome(res, "complete")}
     ELSE UpdateAndDelete(res, ContentOf(res), "Retain"))
    \cup Faults({Outcome(res, "error")})

Recreate(res, handle) ==
    LET withContent == IF res.named = None
                       THEN [res EXCEPT !.named = NamedContent(handle, "Delete")] ELSE res
        withSnapshot == IF res.vs = None
                        THEN [withContent EXCEPT !.vs = ContentSnapshot] ELSE withContent
    IN {Outcome(withSnapshot, "inProgress")}
       \cup Faults({Outcome(r, "error") : r \in {res, withContent, withSnapshot}})

DeleteVolumeSnapshot(res, handle, recreate) ==
    LET name == IF recreate THEN "named" ELSE ContentOf(res)
    IN (IF recreate /\ (res.named = None \/ res.vs = None)
        THEN Recreate(res, handle)
        ELSE IF res.vs = None /\ Content(res, name) = None
        THEN {Outcome(res, "complete")}
        ELSE UpdateAndDelete(res, name, "Delete"))
       \cup Faults({Outcome(res, "error")})

=============================================================================
