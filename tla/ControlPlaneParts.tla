--------------------------- MODULE ControlPlaneParts ---------------------------
(***************************************************************************)
(* The control plane runs several controllers and loops beside the         *)
(* resource syncers. They have no state in common, so that a behaviour of  *)
(* the model is a behaviour of one of them, while the others rest in their *)
(* initial states.                                                         *)
(***************************************************************************)
CONSTANT Parts      \* the parts to explore

ASSUME PartsAreKnown == Parts \subseteq {"serving", "certificates", "deployer", "services", "names", "boot", "selection", "pods",
                                    "spec", "plugins"}

VARIABLE part       \* the one that runs

\* The setting of a part that rests does not matter.
Settings(p, S) == IF part = p THEN S ELSE {CHOOSE u \in S : TRUE}

=============================================================================
