---------------------------- MODULE Bidirectional ----------------------------
(***************************************************************************)
(* Three-way synchronisation of one field between a virtual and a host     *)
(* object (pkg/patcher/sync.go, pkg/util/translate/labels.go). A field has *)
(* its last synchronised values vOld and pOld and its current values v and *)
(* p; the result is the pair of values to write. A map is a function from  *)
(* its possible keys to values, Gone for a key it does not hold; the nil   *)
(* map holds no key.                                                       *)
(***************************************************************************)
Gone == 0

IsNil(map) == \A k \in DOMAIN map : map[k] = Gone

Pair(virtual, host) == [virtual |-> virtual, host |-> host]

CopyBidirectional(vOld, v, pOld, p) ==
    Pair(IF vOld = v /\ pOld # p THEN p ELSE v, IF vOld # v THEN v ELSE p)

(* The JSON merge patch from old to new, applied to out. *)
MergeChangesInto(old, new, out) ==
    IF IsNil(out) THEN new
    ELSE [k \in DOMAIN out |-> IF old[k] = new[k] THEN out[k] ELSE new[k]]

MergeBidirectional(vOld, v, pOld, p) ==
    Pair(IF vOld = v /\ pOld # p THEN MergeChangesInto(pOld, p, v) ELSE v,
         IF vOld # v THEN MergeChangesInto(vOld, v, p) ELSE p)

(* Labels and annotations: the changes are applied key by key even to a nil map. *)
MergeMaps(before, after, target) ==
    [k \in DOMAIN target |-> IF before[k] = after[k] THEN target[k] ELSE after[k]]

MapsBidirectional(vOld, v, pOld, p) ==
    Pair(IF vOld = v /\ pOld # p THEN MergeMaps(pOld, p, v) ELSE v,
         IF vOld # v THEN MergeMaps(vOld, v, p) ELSE p)

=============================================================================
