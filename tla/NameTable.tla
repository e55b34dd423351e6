------------------------------ MODULE NameTable ------------------------------
(***************************************************************************)
(* What the mappings store promises to its callers: a table that gives     *)
(* every virtual object at most one host name and every host object at     *)
(* most one virtual name, one the inverse of the other, and that never     *)
(* changes an answer in place. A name has to be given up before either of  *)
(* its sides is given to another.                                          *)
(***************************************************************************)
CONSTANTS
    Kinds, VNames, HNames, None,
    Pairs       \* the name mappings that can come up

VARIABLES
    hostOf,     \* the host name of a virtual object, or None
    virtualOf,  \* the virtual name of a host object, or None
    pending     \* names that are given up, but not for good: a restart may
                \* bring them back

vars == <<hostOf, virtualOf, pending>>

Known == {n \in Pairs : hostOf[<<n.kind, n.v>>] = n.p}

OneToOne(T) ==
    \A m, n \in T : m.kind = n.kind /\ (m.v = n.v \/ m.p = n.p) => m = n

\* The answers of a table with the names T.
HostAnswers(T) ==
    [o \in Kinds \X VNames |->
        IF \E n \in T : <<n.kind, n.v>> = o THEN (CHOOSE n \in T : <<n.kind, n.v>> = o).p ELSE None]
VirtualAnswers(T) ==
    [o \in Kinds \X HNames |->
        IF \E n \in T : <<n.kind, n.p>> = o THEN (CHOOSE n \in T : <<n.kind, n.p>> = o).v ELSE None]

Init ==
    /\ \E T \in SUBSET Pairs :
        OneToOne(T) /\ hostOf = HostAnswers(T) /\ virtualOf = VirtualAnswers(T)
    /\ pending = {}

Becomes(T) ==
    /\ OneToOne(T)
    /\ hostOf' = HostAnswers(T)
    /\ virtualOf' = VirtualAnswers(T)

Record(n) == Becomes(Known \cup {n}) /\ UNCHANGED pending

\* Names are given up; those that are pending, or will be, are among them.
Forget(T, P) == Becomes(T) /\ pending' = P

Restart(T) == Becomes(T) /\ pending' = {}

Next ==
    \/ \E n \in Pairs : Record(n)
    \/ \E T \in SUBSET Known, P \in SUBSET (Known \cup pending) : Forget(T, P)
    \/ \E T \in SUBSET (Known \cup pending) : Restart(T)

Spec == Init /\ [][Next]_vars
=============================================================================
