------------------------- MODULE MCSnapshotController -------------------------
(***************************************************************************)
(* Instances of SnapshotController for TLC: creating requests a (the       *)
(* older), b and c, a deleting request d, one or two claims.               *)
(***************************************************************************)
EXTENDS SnapshotController, TLC

CONSTANTS a, b, c, d, u

MCHandles == Creates \X PVCs
MCURL == [r \in Requests |-> u]
MCCreated == [r \in Requests |-> CASE r = a -> 1 [] r \in {b, c} -> 2 [] OTHER -> 3]

Usual == [requests |-> {a, b}, withVolumes |-> {a}, claims |-> {1}, policies |-> {"Delete"},
          failures |-> TRUE, stale |-> FALSE, inOrder |-> TRUE, userDeletes |-> FALSE]
NoVolumes == [Usual EXCEPT !.withVolumes = {}, !.claims = {}]

\* A later request cancels an earlier one.
Cancel == [Usual EXCEPT !.userDeletes = TRUE, !.policies = Policies]
\* A snapshot is deleted again.
Delete == [Cancel EXCEPT !.requests = {a, d}]
\* One of two claims fails, then the snapshot is deleted.
Partly == [Delete EXCEPT !.claims = {1, 2}, !.failures = FALSE, !.userDeletes = FALSE]
\* Two of three requests have the same timestamp; they appear in any order.
Tie == [NoVolumes EXCEPT !.requests = {a, b, c}, !.inOrder = FALSE]
\* The cache lags behind.
Stale == [NoVolumes EXCEPT !.inOrder = FALSE, !.stale = TRUE]

MCEnvironments == {Cancel, Delete, Partly, Tie, Stale}
MCFair == {[Usual EXCEPT !.requests = {a, b, d}, !.failures = FALSE, !.userDeletes = TRUE]}
MCDeleted == {[NoVolumes EXCEPT !.requests = {a, d}, !.failures = FALSE]}
MCSingle == {[NoVolumes EXCEPT !.requests = {a}]}

=============================================================================
