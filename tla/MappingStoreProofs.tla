-------------------------- MODULE MappingStoreProofs --------------------------
(***************************************************************************)
(* The theorems about MappingStore, for every choice of its constants:     *)
(* type correctness, the inductive invariant with the step of each action, *)
(* the safety properties that follow, and that the store implements        *)
(* NameTable.                                                              *)
(***************************************************************************)
EXTENDS MappingStore, MappingTable, MappingBackendProofs

\* The owner of a call is complete only when it is one of the pairs.
LEMMA CallOwner ==
    ASSUME NEW c \in Call
    PROVE  /\ c.name \in Pairs
           /\ c.owner.v # None /\ c.owner.p # None => c.owner \in Pairs
BY OwnersAreMappings DEF Call

\* Type correctness, with the lookup maps' answers.
TypeInv == TypeOK /\ StoreOK(store)

\* A process that starts over is well typed again.
LEMMA StartOverType ==
    ASSUME NEW be, BackendOK(be), backend' = be, StartOver(be), TypeInv
    PROVE  TypeInv'
<1>1. StoreOK(store')
  BY LoadType DEF StartOver
<1>2. Kubernetes \in Pairs
  BY KubernetesIsVerified, VerifiedArePairs
<1> QED BY <1>1, <1>2 DEF StartOver, TypeInv, TypeOK, Stages, BackendOK, StoreOK, Collector, NoCollection

\* A failed write leaves a well-typed backend.
LEMMA FailedWriteType ==
    ASSUME NEW be, BackendOK(be), BackendOK(backend), FailedWrite(be)
    PROVE  BackendOK(backend')
BY DEF FailedWrite

\* The names that callers resolve are complete mappings.
LEMMA ResolvedType ==
    ASSUME StoreOK(store)
    PROVE  /\ \A o \in VirtualObjects : VirtualToHostName(store, o) # None =>
                [kind |-> o[1], v |-> o[2], p |-> VirtualToHostName(store, o)] \in Pairs
           /\ \A o \in HostObjects : HostToVirtualName(store, o) # None =>
                [kind |-> o[1], v |-> HostToVirtualName(store, o), p |-> o[2]] \in Pairs
           /\ WrongKubernetes => Existing \in Pairs
<1>1. /\ \A o \in VirtualObjects : VirtualToHostName(store, o) # None =>
                [kind |-> o[1], v |-> o[2], p |-> VirtualToHostName(store, o)] \in Pairs
      /\ \A o \in HostObjects : HostToVirtualName(store, o) # None =>
                [kind |-> o[1], v |-> HostToVirtualName(store, o), p |-> o[2]] \in Pairs
  BY DEF StoreOK, HostMapOK, VirtualMapOK, VirtualToHostName, HostToVirtualName
<1>2. ASSUME WrongKubernetes PROVE Existing \in Pairs
  <2>1. Kubernetes \in Pairs
    BY KubernetesIsVerified, VerifiedArePairs
  <2>2. /\ Virtual(Kubernetes) \in VirtualObjects
        /\ VirtualToHostName(store, Virtual(Kubernetes)) # None
    BY <1>2, <2>1, PairObjects DEF WrongKubernetes
  <2>3. Existing = [kind |-> Kubernetes.kind, v |-> Kubernetes.v,
                    p |-> VirtualToHostName(store, Virtual(Kubernetes))]
    BY <2>1, PairsAreComplete DEF Existing
  <2>4. Virtual(Kubernetes)[1] = Kubernetes.kind /\ Virtual(Kubernetes)[2] = Kubernetes.v
    BY SMTT(30) DEF Virtual
  <2> QED BY <1>1, <2>2, <2>3, <2>4
<1> QED BY <1>1, <1>2

\* Every step keeps the types.
LEMMA TypeStep == TypeInv /\ [Next]_vars => TypeInv'
<1> SUFFICES ASSUME TypeInv, [Next]_vars PROVE TypeInv'
  OBVIOUS
<1> USE DEF TypeInv, TypeOK, Stages
<1>a. BackendOK(backend)
  BY DEF BackendOK
<1>b. Kubernetes \in Pairs
  BY KubernetesIsVerified, VerifiedArePairs, SMTT(30)
<1>1. ASSUME NEW b \in Owners, NEW o \in VirtualObjects, ResolveVirtual(o, b) PROVE TypeInv'
  <2> DEFINE known == VirtualToHostName(store, o)
             p == IF known # None THEN known ELSE HostNameOf[o]
             c == [name |-> [kind |-> o[1], v |-> o[2], p |-> p], owner |-> b, step |-> "add"]
  <2>1. c.name \in Pairs
    BY <1>1, ResolvedType, TranslatedNames DEF ResolveVirtual
  <2>2. c \in Call
    BY <2>1 DEF Call
  <2> QED BY <1>1, <2>2 DEF ResolveVirtual, Start
<1>2. ASSUME NEW b \in Owners, NEW o \in HostObjects, ResolveHost(o, b) PROVE TypeInv'
  <2> DEFINE known == HostToVirtualName(store, o)
             v == IF known # None THEN known ELSE VirtualNameOf[o]
             c == [name |-> [kind |-> o[1], v |-> v, p |-> o[2]], owner |-> b, step |-> "add"]
  <2>1. c.name \in Pairs
    BY <1>2, ResolvedType, TranslatedNames DEF ResolveHost
  <2>2. c \in Call
    BY <2>1 DEF Call
  <2> QED BY <1>2, <2>2 DEF ResolveHost, Start
<1>3. ASSUME NEW b \in Owners, Close(b) PROVE TypeInv'
  BY <1>3, <1>b DEF Close, Start, Call
<1>4. ASSUME NEW o \in VirtualObjects, MigrateVirtual(o) PROVE TypeInv'
  BY <1>4, TranslatedNames DEF MigrateVirtual, Call
<1>5. ASSUME NEW o \in HostObjects, MigrateHost(o) PROVE TypeInv'
  BY <1>5, TranslatedNames DEF MigrateHost, Call
<1>6. ASSUME NEW c \in calls, AddReference(c) PROVE TypeInv'
  <2>1. StoreOK(store')
    BY <1>6, CallOwner, AddReferenceType DEF AddReference
  <2>2. [c EXCEPT !.step = "save"] \in Call
    BY DEF Call
  <2> QED BY <1>6, <2>1, <2>2 DEF AddReference, StoreOK
<1>7. ASSUME NEW c \in calls, RejectReference(c) PROVE TypeInv'
  <2>1. CASE StartOver(backend) /\ UNCHANGED backend
    BY <2>1, <1>a, StartOverType
  <2> QED BY <1>7, <2>1 DEF RejectReference
<1>8. ASSUME NEW c \in calls, SaveMapping(c) PROVE TypeInv'
  <2>1. CASE ToSave(c.owner)
    <3> DEFINE m == Completed(store, c.owner)
    <3>1. m \in Pairs
      BY <2>1, FoundIsPair DEF ToSave
    <3>2. BackendOK(backend')
      BY <1>8, <2>1, <3>1, <1>a, BackendWrites DEF SaveMapping
    <3>3. StoreOK(store')
      BY <1>8, <2>1, <3>1, ClearedType DEF SaveMapping
    <3> QED BY <1>8, <3>2, <3>3 DEF SaveMapping, BackendOK, StoreOK
  <2>2. CASE ~ToSave(c.owner)
    BY <1>8, <2>2 DEF SaveMapping
  <2> QED BY <2>1, <2>2
<1>9. ASSUME NEW c \in calls, SaveMappingFails(c) PROVE TypeInv'
  <2>1. BackendOK(backend')
    BY <1>9, <1>a, FoundIsPair, BackendWrites, FailedWriteType DEF SaveMappingFails, ToSave
  <2>2. CASE StartOver(backend')
    BY <2>1, <2>2, StartOverType
  <2> QED BY <1>9, <2>1, <2>2 DEF SaveMappingFails, BackendOK
<1>10. ASSUME RepairDelete PROVE TypeInv'
  <2>1. Existing \in Pairs
    BY <1>10, ResolvedType DEF RepairDelete
  <2>2. BackendOK(backend') /\ StoreOK(store')
    BY <1>10, <2>1, <1>a, BackendWrites, RemoveMappingType DEF RepairDelete
  <2>3. ReferencesTo(store', Virtual(Kubernetes)) \subseteq Pairs
    BY <2>2, <1>b, PairObjects DEF ReferencesTo, StoreOK, Store, HostLookup
  <2> QED BY <1>10, <2>1, <2>2, <2>3 DEF RepairDelete, BackendOK, StoreOK
<1>11. ASSUME RepairDeleteFails PROVE TypeInv'
  <2>1. Existing \in Pairs
    BY <1>11, ResolvedType DEF RepairDeleteFails
  <2>2. BackendOK(backend')
    BY <1>11, <1>a, <2>1, BackendWrites, FailedWriteType DEF RepairDeleteFails
  <2> QED BY <1>11, <2>2, StartOverType DEF RepairDeleteFails
<1>12. ASSUME NEW m \in dropping, RepairDrop(m) PROVE TypeInv'
  <2>1. StoreOK(store')
    BY <1>12, DeleteReferenceType DEF RepairDrop
  <2> QED BY <1>12, <2>1 DEF RepairDrop, StoreOK, Call
<1>13. ASSUME RepairAdd PROVE TypeInv'
  BY <1>13, <1>b DEF RepairAdd, Call
<1>14. ASSUME RepairDone PROVE TypeInv'
  BY <1>14, <1>b DEF RepairDone
<1>15. ASSUME StartControllers PROVE TypeInv'
  BY <1>15 DEF StartControllers
<1>16. ASSUME CopyMappings PROVE TypeInv'
  BY <1>16 DEF CopyMappings, NoCollection, Collector, Store
<1>17. ASSUME NEW m \in gc.todo, CheckVirtual(m) PROVE TypeInv'
  BY <1>17 DEF CheckVirtual, Collector
<1>18. ASSUME CheckHost PROVE TypeInv'
  BY <1>18, Zenon DEF CheckHost, Collector
<1>19. ASSUME Collect PROVE TypeInv'
  <2>1. gc.at \in Pairs /\ gc' \in Collector /\ gc'.step = "next"
    BY <1>19, Zenon DEF Collect, Collector
  <2>2. BackendOK(backend') /\ StoreOK(store')
    BY <1>19, <2>1, <1>a, BackendWrites, RemoveMappingType, FailedWriteType, SMTT(30) DEF Collect
  <2> QED BY <1>19, <2>1, <2>2 DEF Collect, BackendOK, StoreOK
<1>20. ASSUME NEW o \in Volatile, Appear(o) \/ Disappear(o) PROVE TypeInv'
  BY <1>20 DEF Appear, Disappear
<1>21. ASSUME Restart PROVE TypeInv'
  BY <1>21, <1>a, StartOverType DEF Restart
<1>22. CASE UNCHANGED vars
  BY <1>22 DEF vars
<1> QED
  BY <1>1, <1>2, <1>3, <1>4, <1>5, <1>6, <1>7, <1>8, <1>9, <1>10, <1>11, <1>12, <1>13, <1>14,
     <1>15, <1>16, <1>17, <1>18, <1>19, <1>20, <1>21, <1>22 DEF Next

\* The store, the backend and the calls in flight are always well typed.
THEOREM TypeCorrect == Spec => []TypeOK
<1>1. Init => TypeInv
  <2> SUFFICES ASSUME Init PROVE TypeInv
    OBVIOUS
  <2>1. BackendOK(backend)
    BY BackendsAreSaved DEF Init, BackendOK
  <2>2. StoreOK(store)
    BY <2>1, LoadType DEF Init
  <2>3. Kubernetes \in Pairs
    BY KubernetesIsVerified, VerifiedArePairs
  <2> QED BY <2>1, <2>2, <2>3
      DEF Init, TypeInv, TypeOK, Stages, BackendOK, StoreOK, Collector, NoCollection
<1>2. TypeInv => TypeOK
  BY DEF TypeInv
<1> QED BY <1>1, <1>2, TypeStep, PTL DEF Spec

-----------------------------------------------------------------------------
(* The inductive invariant behind the safety theorems. *)

\* The repair has deleted a reference of m in memory and not yet in etcd.
Unsaved(m) == IF stage = "drop" /\ (\E c \in calls : c.owner = m) THEN {fixing} ELSE {}

BackendKnown == \A m \in Loaded(backend) : KnownIn(backend, store, m, Unsaved(m))

NoWrongHost == \A m \in store.mappings : \A n \in Names(store, m) : ~WrongHost(n)

\* While references are being dropped, every mapping that still names the wrong
\* host is waiting for its turn, and the wrong name conflicts with nothing else.
DropProgress ==
    stage = "drop" =>
        /\ WrongHost(fixing)
        /\ \A m \in store.mappings : \A n \in Names(store, m) :
              /\ WrongHost(n) => n = fixing /\ n # m /\ m \in dropping
              /\ ~Conflicting(fixing, n)
        /\ \A m \in dropping : m \in store.mappings /\ fixing \in store.references[m]
        /\ \A c \in calls :
              /\ c.step = "save"
              /\ c.owner \in store.mappings
              /\ store.changed[c.owner]
              /\ \A d \in calls : d = c

RepairProgress ==
    /\ DropProgress
    /\ stage \in {"add", "migrated", "running"} => NoWrongHost

\* Calls never bring back a wrong name, and owners that differ from the
\* recorded name come from sync contexts, that is from running controllers.
CallsAgree ==
    \A c \in calls : c.step = "add" =>
        /\ ~WrongHost(c.name)
        /\ c.owner = c.name \/ (c.owner \in Owners /\ stage = "running")

Inv ==
    /\ TypeInv
    /\ Exact(store)
    /\ BackendKnown
    /\ RepairProgress
    /\ CallsAgree

-----------------------------------------------------------------------------
(* Each action keeps the invariant. *)

\* What the invariant says about etcd: it is known to the memory up to the
\* reference being dropped, and a process that starts over finds it sound.
Extra == IF stage = "drop" THEN {fixing} ELSE {}

\* The invariant makes every backend that the memory knows sound.
LEMMA InvSound ==
    ASSUME Inv
    PROVE  /\ KnownUpTo(backend, store, Extra)
           /\ \A be : KnownUpTo(be, store, Extra) => Sound(be)
           /\ BackendOK(backend) /\ StoreOK(store) /\ Exact(store)
<1>1. StoreOK(store) /\ Exact(store) /\ BackendOK(backend)
  BY DEF Inv, TypeInv, TypeOK, BackendOK
<1>2. KnownUpTo(backend, store, Extra)
  BY DEF Inv, BackendKnown, KnownUpTo, KnownIn, Unsaved, Extra
<1>3. Agreeing(store, Extra)
  <2>1. CASE stage = "drop"
    <3>1. Extra = {fixing}
      BY <2>1 DEF Extra
    <3>2. /\ WrongHost(fixing)
          /\ \A m \in store.mappings : \A n \in Names(store, m) :
                (WrongHost(n) => n # m) /\ ~Conflicting(fixing, n)
      BY <2>1 DEF Inv, RepairProgress, DropProgress
    <3>3. fixing \notin store.mappings
      BY <3>2 DEF Names
    <3> QED BY <3>1, <3>2, <3>3 DEF Agreeing
  <2>2. CASE stage # "drop"
    BY <2>2 DEF Extra, Agreeing
  <2> QED BY <2>1, <2>2
<1>4. \A be : KnownUpTo(be, store, Extra) => Sound(be)
  BY <1>1, <1>3, KnownIsSound
<1> QED BY <1>1, <1>2, <1>4

\* A process that starts over on a sound backend establishes the invariant.
LEMMA StartOverInv ==
    ASSUME NEW be, BackendOK(be), Sound(be), backend' = be, StartOver(be), TypeInv
    PROVE  Inv'
<1>1. TypeInv'
  BY StartOverType
<1>2. store' = Load(be) /\ stage' = "migrate" /\ calls' = {}
  BY DEF StartOver
<1>3. Exact(store)'
  BY <1>2, LoadExact
<1>4. BackendKnown'
  BY <1>2, LoadFields DEF BackendKnown, KnownIn
<1>5. RepairProgress' /\ CallsAgree'
  BY <1>2 DEF RepairProgress, DropProgress, CallsAgree
<1> QED BY <1>1, <1>3, <1>4, <1>5 DEF Inv

\* A step that leaves the store, etcd and the repair alone and starts calls
\* that agree keeps the invariant.
LEMMA QuietStep ==
    ASSUME Inv, TypeInv', UNCHANGED <<store, backend, stage, fixing, dropping>>,
           stage # "drop" \/ calls' = calls, CallsAgree'
    PROVE  Inv'
<1>1. BackendKnown'
  BY DEF Inv, BackendKnown, KnownIn, Unsaved
<1>2. Exact(store)' /\ RepairProgress'
  <2>1. NoWrongHost' = NoWrongHost
    BY DEF NoWrongHost
  <2>2. DropProgress'
    BY DEF Inv, RepairProgress, DropProgress
  <2> QED BY <2>1, <2>2 DEF Inv, RepairProgress
<1> QED BY <1>1, <1>2 DEF Inv

\* A name the store answers with while the controllers run, and a name the
\* mappers translate, is not a wrong name of default/kubernetes.
LEMMA ResolvedIsRight ==
    ASSUME Inv, KubernetesTranslated
    PROVE  /\ \A o \in VirtualObjects : HostNameOf[o] # None =>
                ~WrongHost([kind |-> o[1], v |-> o[2], p |-> HostNameOf[o]])
           /\ \A o \in HostObjects : VirtualNameOf[o] # None =>
                ~WrongHost([kind |-> o[1], v |-> VirtualNameOf[o], p |-> o[2]])
           /\ stage = "running" => \A o \in VirtualObjects : VirtualToHostName(store, o) # None =>
                ~WrongHost([kind |-> o[1], v |-> o[2], p |-> VirtualToHostName(store, o)])
           /\ stage = "running" => \A o \in HostObjects : HostToVirtualName(store, o) # None =>
                ~WrongHost([kind |-> o[1], v |-> HostToVirtualName(store, o), p |-> o[2]])
<1>1. Kubernetes \in Pairs /\ Kubernetes = [kind |-> Kubernetes.kind, v |-> Kubernetes.v, p |-> Kubernetes.p]
  BY KubernetesIsVerified, VerifiedArePairs, PairObjects
<1>2. ASSUME NEW o \in VirtualObjects, HostNameOf[o] # None
      PROVE  ~WrongHost([kind |-> o[1], v |-> o[2], p |-> HostNameOf[o]])
  <2>1. o = <<o[1], o[2]>>
    BY DEF VirtualObjects
  <2> QED BY <1>1, <1>2, <2>1 DEF WrongHost, Virtual, KubernetesTranslated
<1>3. ASSUME NEW o \in HostObjects, VirtualNameOf[o] # None
      PROVE  ~WrongHost([kind |-> o[1], v |-> VirtualNameOf[o], p |-> o[2]])
  <2> SUFFICES ASSUME o[1] = Kubernetes.kind, VirtualNameOf[o] = Kubernetes.v
               PROVE  [kind |-> o[1], v |-> VirtualNameOf[o], p |-> o[2]] = Kubernetes
    BY DEF WrongHost, Virtual
  <2>1. o = Host(Kubernetes)
    BY DEF KubernetesTranslated
  <2>2. o[2] = Kubernetes.p
    BY <2>1 DEF Host
  <2> QED BY <1>1, <2>2
<1>4. stage = "running" => NoWrongHost
  BY DEF Inv, RepairProgress
<1>5. StoreOK(store) /\ Exact(store)
  BY InvSound
<1> QED BY <1>2, <1>3, <1>4, <1>5, AnswerIsName DEF NoWrongHost

\* AddReference keeps the invariant.
LEMMA AddReferenceInv ==
    ASSUME Inv, TypeInv', OwnersAgree, NEW c \in calls, AddReference(c)
    PROVE  Inv'
<1> DEFINE n == c.name
           b == c.owner
<1>1. StoreOK(store) /\ Exact(store) /\ c \in Call /\ n \in Pairs /\ (b.v # None /\ b.p # None => b \in Pairs)
  <2>1. c \in Call
    BY DEF Inv, TypeInv, TypeOK
  <2> QED BY <2>1, CallOwner, InvSound
<1>2. /\ ~NameConflict(store, n) /\ store' = AddReferenceTo(store, n, b)
      /\ calls' = (calls \ {c}) \cup {[c EXCEPT !.step = "save"]}
      /\ UNCHANGED <<backend, stage, fixing, dropping>>
  BY DEF AddReference
<1>3. ~WrongHost(n) /\ (b = n \/ (b \in Owners /\ stage = "running")) /\ stage # "drop"
  BY DEF Inv, CallsAgree, RepairProgress, DropProgress, AddReference
<1>4. ASSUME b \in Pairs, b # n PROVE ~NameConflict(store, b) /\ ~WrongHost(b)
  <2>1. NoWrongHost
    BY <1>3, <1>4 DEF Inv, RepairProgress
  <2>2. b \in Owners \cap Pairs
    BY <1>3, <1>4
  <2>3. ~WrongHost(b) /\ \A k \in Pairs : Conflicting(b, k) => WrongHost(k)
    BY <2>2 DEF OwnersAgree
  <2>4. \A m \in store.mappings : \A k \in Names(store, m) : k \in Pairs
    BY <1>1 DEF StoreOK, Store, Names
  <2>5. \A m \in store.mappings : \A k \in Names(store, m) : ~Conflicting(b, k)
    BY <2>1, <2>3, <2>4 DEF NoWrongHost
  <2> QED BY <1>1, <1>4, <2>3, <2>5, AgreeingIsNoConflict
<1>5. Exact(store')
  BY <1>1, <1>2, <1>4, AddReferenceExact
<1>6. AddsOnly(store, store', n, b)
  BY <1>1, <1>2, AddReferenceAdds
<1>7. BackendKnown'
  BY <1>2, <1>3, <1>6 DEF Inv, BackendKnown, KnownIn, Unsaved, AddsOnly
<1>8. NoWrongHost => NoWrongHost'
  <2> SUFFICES ASSUME NoWrongHost, NEW m \in store'.mappings, NEW k \in Names(store', m) PROVE ~WrongHost(k)
    BY DEF NoWrongHost
  <2>1. CASE m \in store.mappings
    BY <2>1, <1>3, <1>6 DEF AddsOnly, Names, NoWrongHost
  <2>2. CASE m \notin store.mappings
    <3>1. (m = n \/ m = b) /\ store'.references[m] = {} /\ m \in Pairs
      BY <2>2, <1>6 DEF AddsOnly, TypeInv, TypeOK, Store
    <3> QED BY <3>1, <1>3, <1>4 DEF Names
  <2> QED BY <2>1, <2>2
<1>9. RepairProgress'
  BY <1>2, <1>3, <1>8 DEF Inv, RepairProgress, DropProgress
<1>10. CallsAgree'
  <2> DEFINE e == [c EXCEPT !.step = "save"]
  <2>1. e.step = "save" /\ calls' = (calls \ {c}) \cup {e}
    BY <1>1, <1>2 DEF Call
  <2> HIDE DEF e
  <2> SUFFICES ASSUME NEW d \in calls', d.step = "add"
               PROVE  ~WrongHost(d.name) /\ (d.owner = d.name \/ (d.owner \in Owners /\ stage' = "running"))
    BY DEF CallsAgree
  <2>2. d \in calls
    BY <2>1
  <2> QED BY <1>2, <2>2 DEF Inv, CallsAgree
<1> QED BY <1>5, <1>7, <1>9, <1>10 DEF Inv

\* SaveMapping keeps the invariant.
LEMMA SaveMappingInv ==
    ASSUME Inv, TypeInv', NEW c \in calls, SaveMapping(c)
    PROVE  Inv'
<1> DEFINE m == Completed(store, c.owner)
<1>0. StoreOK(store) /\ Exact(store) /\ BackendOK(backend) /\ KnownUpTo(backend, store, Extra)
  BY InvSound
<1>1. calls' = calls \ {c} /\ UNCHANGED <<stage, fixing, dropping>>
  BY DEF SaveMapping
<1>2. CallsAgree'
  BY <1>1 DEF Inv, CallsAgree
<1>3. CASE ~ToSave(c.owner)
  <2>1. UNCHANGED <<store, backend>>
    BY <1>3 DEF SaveMapping
  <2>2. stage # "drop"
    <3> SUFFICES ASSUME stage = "drop" PROVE FALSE
      OBVIOUS
    <3>1. c.owner \in store.mappings /\ store.changed[c.owner]
      BY DEF Inv, RepairProgress, DropProgress
    <3>2. c.owner \in Pairs
      BY <1>0, <3>1 DEF StoreOK, Store
    <3>3. Completed(store, c.owner) = c.owner /\ ~Empty(c.owner)
      BY <3>2, PairObjects DEF Completed, Empty
    <3> QED BY <3>1, <3>3, <1>3 DEF ToSave, Found
  <2> QED BY <1>1, <1>2, <2>1, <2>2, QuietStep
<1>4. CASE ToSave(c.owner)
  <2>1. backend' = Put(backend, store, m) /\ store' = [store EXCEPT !.changed[m] = FALSE]
    BY <1>4 DEF SaveMapping
  <2>2. m \in store.mappings /\ m \in Pairs
    BY <1>0, <1>4, FoundIsPair DEF ToSave
  <2> HIDE DEF m
  <2>3. /\ store'.mappings = store.mappings
        /\ store'.references = store.references
        /\ store'.hostToVirtual = store.hostToVirtual
        /\ store'.virtualToHost = store.virtualToHost
    BY <2>1, <1>0 DEF StoreOK, Store
  <2>4. \A k : Names(store', k) = Names(store, k)
    BY <2>3 DEF Names
  <2>5. Exact(store')
    BY <1>0, <2>3, <2>4 DEF Exact, OwnersExact, AnswersExact, HostToVirtualName, VirtualToHostName
  <2>6. BackendKnown'
    <3>1. CASE stage = "drop"
      <4>1. c.owner \in store.mappings /\ \A d \in calls : d = c
        BY <3>1 DEF Inv, RepairProgress, DropProgress
      <4>2. m = c.owner
        <5>1. c.owner \in Pairs
          BY <1>0, <4>1 DEF StoreOK, Store
        <5> QED BY <5>1, PairObjects DEF Completed, m
      <4>3. PutOK(backend', backend, store, m)
        BY <1>0, <2>1, <2>2, PutKeys
      <4>4. ASSUME NEW k \in Loaded(backend') PROVE KnownIn(backend', store', k, {})
        <5>1. k \in Pairs
          BY VerifiedArePairs DEF Loaded
        <5>2. CASE k = m
          BY <5>2, <2>2, <2>3, <4>3, SMTT(30) DEF PutOK, KnownIn, SavedReferences
        <5>3. CASE k # m
          <6>1. k \in Loaded(backend) /\ backend'[Virtual(k)] = backend[Virtual(k)]
            BY <5>1, <5>3, <4>3 DEF PutOK, Loaded
          <6>2. Unsaved(k) = {}
            BY <4>1, <4>2, <5>3 DEF Unsaved
          <6>3. KnownIn(backend, store, k, {})
            BY <6>1, <6>2 DEF Inv, BackendKnown
          <6> QED BY <6>1, <6>3, <2>3 DEF KnownIn, SavedReferences
        <5> QED BY <5>2, <5>3
      <4> QED BY <4>4 DEF BackendKnown, KnownIn
    <3>2. CASE stage # "drop"
      <4>1. KnownUpTo(backend', store, {})
        BY <3>2, <1>0, <2>1, <2>2, KnownPut DEF Extra
      <4> QED BY <4>1, <2>3 DEF KnownUpTo, KnownIn, BackendKnown
    <3> QED BY <3>1, <3>2
  <2>7. RepairProgress'
    <3>1. NoWrongHost => NoWrongHost'
      BY <2>3, <2>4 DEF NoWrongHost
    <3>2. DropProgress'
      <4> SUFFICES ASSUME stage = "drop" PROVE DropProgress'
        BY <1>1 DEF DropProgress
      <4>1. calls' = {}
        BY <1>1 DEF Inv, RepairProgress, DropProgress
      <4> QED BY <4>1, <1>1, <2>3, <2>4 DEF Inv, RepairProgress, DropProgress
    <3> QED BY <3>1, <3>2, <1>1 DEF Inv, RepairProgress
  <2> QED BY <2>5, <2>6, <2>7, <1>2 DEF Inv
<1> QED BY <1>3, <1>4

\* A failed write keeps the invariant or starts the process over.
LEMMA SaveMappingFailsInv ==
    ASSUME Inv, TypeInv', NEW c \in calls, SaveMappingFails(c)
    PROVE  Inv'
<1> DEFINE m == Completed(store, c.owner)
<1>0. /\ StoreOK(store) /\ Exact(store) /\ BackendOK(backend) /\ KnownUpTo(backend, store, Extra)
      /\ \A be : KnownUpTo(be, store, Extra) => Sound(be)
  BY SMTT(30), InvSound
<1>1. m \in store.mappings /\ m \in Pairs
  BY <1>0, FoundIsPair DEF SaveMappingFails, ToSave
<1>2. BackendOK(backend') /\ KnownUpTo(backend', store, Extra)
  <2>1. backend' = backend \/ backend' = Put(backend, store, m)
    BY DEF SaveMappingFails, FailedWrite
  <2> QED BY <1>0, <1>1, <2>1, BackendWrites, KnownPut
<1>3. CASE StartOver(backend')
  BY <1>0, <1>2, <1>3, StartOverInv DEF Inv
<1>4. CASE /\ stage \notin Repairing /\ calls' = calls \ {c}
           /\ UNCHANGED <<store, stage, fixing, dropping, gc, present>>
  <2>1. stage # "drop"
    BY <1>4 DEF Repairing
  <2>2. BackendKnown'
    BY <2>1, <1>2, <1>4 DEF Extra, KnownUpTo, BackendKnown, KnownIn
  <2>3. CallsAgree'
    BY <1>4 DEF Inv, CallsAgree
  <2>4. RepairProgress'
    BY <1>4, <2>1 DEF Inv, RepairProgress, DropProgress, NoWrongHost
  <2> QED BY <1>4, <2>2, <2>3, <2>4 DEF Inv
<1> QED BY <1>3, <1>4 DEF SaveMappingFails

\* RepairDelete keeps the invariant: the wrong name is removed as a mapping,
\* and every mapping that still has it as a reference is to be repaired.
LEMMA RepairDeleteInv ==
    ASSUME Inv, TypeInv', RepairDelete
    PROVE  Inv'
<1> DEFINE e == Existing
           o == Virtual(Kubernetes)
<1>0. StoreOK(store) /\ Exact(store) /\ BackendOK(backend) /\ KnownUpTo(backend, store, Extra)
  BY InvSound
<1>1. stage = "migrate" /\ calls = {} /\ WrongKubernetes /\ stage' = "drop" /\ calls' = {} /\ fixing' = e
  BY DEF RepairDelete
<1>2. Kubernetes \in Pairs /\ o \in VirtualObjects /\ o[1] = Kubernetes.kind /\ o[2] = Kubernetes.v
  BY KubernetesIsVerified, VerifiedArePairs, PairObjects DEF Virtual
<1>3. /\ e \in Pairs
      /\ e = [kind |-> o[1], v |-> o[2], p |-> VirtualToHostName(store, o)]
      /\ VirtualToHostName(store, o) # None
      /\ e.p # Kubernetes.p /\ e.kind = Kubernetes.kind /\ e.v = Kubernetes.v
  <2>1. e \in Pairs
    BY <1>0, <1>1, ResolvedType
  <2>2. Kubernetes = [kind |-> Kubernetes.kind, v |-> Kubernetes.v, p |-> Kubernetes.p]
    BY <1>2, PairObjects
  <2>3. e = [kind |-> Kubernetes.kind, v |-> Kubernetes.v, p |-> VirtualToHostName(store, o)]
    BY <2>2 DEF Existing
  <2> QED BY <2>1, <2>3, <1>1, <1>2 DEF WrongKubernetes
<1>4. WrongHost(e) /\ Virtual(e) = o
  BY SMTT(30), <1>3 DEF WrongHost, Virtual
<1>5. PICK m0 \in store.mappings : e \in Names(store, m0)
  BY <1>0, <1>2, <1>3, AnswerIsName
<1>6. \A m \in store.mappings : \A n \in Names(store, m) : ~Conflicting(e, n) /\ (WrongHost(n) => n = e)
  <2> SUFFICES ASSUME NEW m \in store.mappings, NEW n \in Names(store, m)
               PROVE  ~Conflicting(e, n) /\ (WrongHost(n) => n = e)
    OBVIOUS
  <2>1. ~Conflicting(e, n)
    BY <1>0, <1>5, ExactOneToOne
  <2> QED BY <2>1, <1>4 DEF Conflicting, WrongHost
<1> DEFINE removed == Found(store, e)
<1>7. removed <=> e \in store.mappings
  <2>1. Completed(store, e) = e /\ ~Empty(e)
    BY SMTT(30), <1>3, PairObjects DEF Completed, Empty
  <2> QED BY <2>1 DEF Found
<1>8. /\ e \in store.mappings => backend' = Remove(backend, e) /\ store' = RemoveMapping(store, e)
      /\ e \notin store.mappings => backend' = backend /\ store' = store
  BY <1>7 DEF RepairDelete
<1> HIDE DEF removed, e
<1>9. /\ store'.mappings = store.mappings \ {e}
      /\ \A m \in store'.mappings : store'.references[m] = store.references[m]
  <2>1. store.references \in [Pairs -> SUBSET Pairs] /\ store.mappings \subseteq Pairs
    BY SMTT(30), <1>0 DEF StoreOK, Store
  <2> QED BY <1>8, <2>1, SMTT(30) DEF RemoveMapping
<1>10. Exact(store') /\ StoreOK(store')
  BY SMTT(30), <1>0, <1>3, <1>8, RemoveMappingExact, RemoveMappingType
<1>11. KnownUpTo(backend', store', {})
  BY <1>0, <1>1, <1>3, <1>8, KnownRemove DEF Extra
<1>12. BackendKnown'
  BY <1>11 DEF KnownUpTo, BackendKnown, KnownIn
<1>13. \A m \in store'.mappings : Names(store', m) = Names(store, m)
  BY <1>9 DEF Names
<1>14. ASSUME NEW m \in store'.mappings, e \in store'.references[m] PROVE m \in dropping'
  <2>1. e \in Names(store', m)
    BY SMTT(30), <1>14 DEF Names
  <2>2. m \in store'.virtualToHost[o].owners
    BY SMTT(30), <1>2, <1>4, <1>10, <1>14, <2>1 DEF Exact, OwnersExact
  <2>3. VirtualToHostName(store', Virtual(e)) = e.p
    BY SMTT(30), <1>10, <1>14, <2>1 DEF Exact, AnswersExact
  <2>4. [kind |-> o[1], v |-> o[2], p |-> store'.virtualToHost[o].object] = e
    BY SMTT(30), <2>3, <1>3, <1>4, PairObjects DEF VirtualToHostName
  <2>5. dropping' = ReferencesTo(store', o)
    BY DEF RepairDelete
  <2> QED BY <1>9, <2>2, <2>4, <2>5 DEF ReferencesTo
<1>15. ASSUME NEW m \in dropping' PROVE m \in store'.mappings /\ e \in store'.references[m]
  <2>1. m \in store'.virtualToHost[o].owners
    BY SMTT(30), <1>15 DEF RepairDelete, ReferencesTo
  <2>2. m \in store'.mappings /\ \E n \in Names(store', m) : Virtual(n) = o
    BY <1>2, <1>10, <2>1 DEF Exact, OwnersExact
  <2>3. PICK n \in Names(store', m) : Virtual(n) = o
    BY <2>2
  <2>4. ~Conflicting(e, n)
    BY <1>6, <1>9, <1>13, <2>2, <2>3
  <2>5. n = e
    BY <2>3, <2>4, <1>4 DEF Conflicting
  <2>6. m # e
    BY <2>2, <1>9
  <2> QED BY SMTT(30), <2>2, <2>3, <2>5, <2>6 DEF Names
<1>16. \A m \in store'.mappings : \A n \in Names(store', m) :
          /\ WrongHost(n) => n = e /\ n # m /\ m \in dropping'
          /\ ~Conflicting(e, n)
  <2> SUFFICES ASSUME NEW m \in store'.mappings, NEW n \in Names(store', m)
               PROVE  (WrongHost(n) => n = e /\ n # m /\ m \in dropping') /\ ~Conflicting(e, n)
    OBVIOUS
  <2>1. ~Conflicting(e, n) /\ (WrongHost(n) => n = e) /\ m # e
    BY <1>6, <1>9, <1>13
  <2>2. n = e => e \in store'.references[m]
    BY SMTT(30), <2>1 DEF Names
  <2> QED BY <2>1, <2>2, <1>14
<1>17. RepairProgress'
  BY <1>1, <1>4, <1>15, <1>16 DEF RepairProgress, DropProgress, e
<1>18. CallsAgree'
  BY <1>1 DEF CallsAgree
<1> QED BY <1>10, <1>12, <1>17, <1>18 DEF Inv

\* What DeleteReference does to a mapping that has the reference.
ReferenceDropped(st, st2, n, m) ==
    /\ st2.mappings = st.mappings
    /\ st2.references = [st.references EXCEPT ![m] = @ \ {n}]
    /\ st2.changed = [st.changed EXCEPT ![m] = TRUE]

\* DeleteReferenceFrom does that.
LEMMA DeleteReferenceFields ==
    ASSUME NEW st, StoreOK(st), NEW m \in st.mappings, NEW n \in st.references[m]
    PROVE  ReferenceDropped(st, DeleteReferenceFrom(st, n, m), n, m)
<1>1. m \in Pairs /\ st \in Store
  BY DEF StoreOK, Store
<1>2. Completed(st, m) = m /\ Found(st, m)
  BY <1>1, PairObjects DEF Completed, Empty, Found
<1>3. DeleteReferenceFrom(st, n, m) =
        [st EXCEPT !.references[m] = @ \ {n},
                   !.changed[m] = TRUE,
                   !.hostToVirtual = RemoveHostNames(@, m, {n}),
                   !.virtualToHost = RemoveVirtualNames(@, m, {n})]
  BY <1>2 DEF DeleteReferenceFrom
<1> QED BY <1>1, <1>3 DEF Store, ReferenceDropped

\* RepairDrop keeps the invariant.
LEMMA RepairDropInv ==
    ASSUME Inv, TypeInv', NEW m \in dropping, RepairDrop(m)
    PROVE  Inv'
<1> DEFINE c == [name |-> fixing, owner |-> m, step |-> "save"]
<1>0. StoreOK(store) /\ Exact(store) /\ fixing \in Pairs
  BY InvSound DEF Inv, TypeInv, TypeOK
<1>1. /\ stage = "drop" /\ stage' = "drop" /\ calls = {} /\ calls' = {c}
      /\ store' = DeleteReferenceFrom(store, fixing, m)
      /\ dropping' = dropping \ {m} /\ backend' = backend /\ fixing' = fixing
  BY DEF RepairDrop
<1>2. m \in store.mappings /\ fixing \in store.references[m] /\ m \in Pairs
  <2>1. m \in store.mappings /\ fixing \in store.references[m]
    BY Zenon, <1>1 DEF Inv, RepairProgress, DropProgress
  <2> QED BY <2>1, <1>0, SMTT(30) DEF StoreOK, Store
<1>3. /\ store'.mappings = store.mappings
      /\ store'.references = [store.references EXCEPT ![m] = @ \ {fixing}]
      /\ store'.changed = [store.changed EXCEPT ![m] = TRUE]
  <2>1. ReferenceDropped(store, store', fixing, m)
    BY <1>0, <1>1, <1>2, DeleteReferenceFields, Zenon
  <2> QED BY <2>1 DEF ReferenceDropped
<1>4. Exact(store')
  BY <1>0, <1>1, DeleteReferenceExact
<1>5. store.references \in [Pairs -> SUBSET Pairs] /\ store.changed \in [Pairs -> BOOLEAN] /\ store.mappings \subseteq Pairs
  BY <1>0 DEF StoreOK, Store
<1>6. c.owner = m /\ c.step = "save"
  OBVIOUS
<1> HIDE DEF c
<1>7. BackendKnown'
  <2> SUFFICES ASSUME NEW k \in Loaded(backend) PROVE KnownIn(backend, store', k, Unsaved(k)')
    BY <1>1 DEF BackendKnown
  <2>1. KnownIn(backend, store, k, {})
    BY <1>1 DEF Inv, BackendKnown, Unsaved
  <2>2. k = m => Unsaved(k)' = {fixing}
    BY SMTT(30), <1>1, <1>6 DEF Unsaved
  <2> QED BY <1>2, <1>3, <1>5, <2>1, <2>2 DEF KnownIn
<1>8. DropProgress'
  <2>1. /\ WrongHost(fixing)
        /\ \A k \in store.mappings : \A n \in Names(store, k) :
              /\ WrongHost(n) => n = fixing /\ n # k /\ k \in dropping
              /\ ~Conflicting(fixing, n)
        /\ \A k \in dropping : k \in store.mappings /\ fixing \in store.references[k]
    BY <1>1 DEF Inv, RepairProgress, DropProgress
  <2>2. \A k \in store.mappings : Names(store', k) \subseteq Names(store, k)
    BY <1>2, <1>3, <1>5 DEF Names
  <2>3. ASSUME NEW k \in store'.mappings, NEW n \in Names(store', k)
        PROVE  /\ WrongHost(n) => n = fixing /\ n # k /\ k \in dropping'
               /\ ~Conflicting(fixing, n)
    <3>1. n \in Names(store, k) /\ k \in store.mappings
      BY <1>3, <2>2, <2>3
    <3>2. k = m /\ n # m => n # fixing
      BY <1>2, <1>3, <1>5, <2>3, SMTT(30) DEF Names
    <3> QED BY <1>1, <2>1, <3>1, <3>2
  <2>4. ASSUME NEW k \in dropping' PROVE k \in store'.mappings /\ fixing \in store'.references[k]
    BY <1>1, <1>2, <1>3, <1>5, <2>1, <2>4
  <2>5. store'.changed[m] /\ m \in store'.mappings
    BY <1>2, <1>3, <1>5
  <2> QED BY SMTT(30), <1>1, <1>6, <2>1, <2>3, <2>4, <2>5 DEF DropProgress
<1>9. CallsAgree' /\ RepairProgress'
  BY <1>1, <1>6, <1>8 DEF CallsAgree, RepairProgress
<1> QED BY <1>4, <1>7, <1>9 DEF Inv

\* RepairAdd keeps the invariant.
LEMMA RepairAddInv ==
    ASSUME Inv, TypeInv', RepairAdd
    PROVE  Inv'
<1>1. /\ stage = "drop" /\ calls = {} /\ dropping = {} /\ stage' = "add"
      /\ calls' = {[name |-> Kubernetes, owner |-> Kubernetes, step |-> "add"]}
      /\ UNCHANGED <<store, backend>>
  BY SMTT(30) DEF RepairAdd
<1>2. NoWrongHost
  BY SMTT(30), <1>1 DEF Inv, RepairProgress, DropProgress, NoWrongHost
<1>3. RepairProgress'
  BY SMTT(30), <1>1, <1>2 DEF RepairProgress, DropProgress, NoWrongHost
<1>4. BackendKnown'
  BY <1>1 DEF Inv, BackendKnown, KnownIn, Unsaved
<1>5. CallsAgree'
  BY <1>1 DEF CallsAgree, WrongHost
<1> QED BY <1>1, <1>3, <1>4, <1>5 DEF Inv

\* When the repair ends, no mapping has a wrong name.
LEMMA RepairDoneInv ==
    ASSUME Inv, TypeInv', RepairDone
    PROVE  Inv'
<1>0. StoreOK(store) /\ Exact(store)
  BY InvSound
<1>1. /\ calls = {} /\ stage' = "migrated" /\ UNCHANGED <<store, backend, calls>>
      /\ stage = "add" \/ (stage = "migrate" /\ ~WrongKubernetes)
  BY DEF RepairDone
<1>2. NoWrongHost
  <2>1. CASE stage = "add"
    BY <2>1 DEF Inv, RepairProgress
  <2>2. CASE ~WrongKubernetes
    <3> SUFFICES ASSUME NEW m \in store.mappings, NEW n \in Names(store, m),
                        Virtual(n) = Virtual(Kubernetes)
                 PROVE  n = Kubernetes
      BY DEF NoWrongHost, WrongHost
    <3>1. n \in Pairs /\ Kubernetes \in Pairs
      BY SMTT(30), <1>0, KubernetesIsVerified, VerifiedArePairs DEF StoreOK, Store, Names
    <3>2. VirtualToHostName(store, Virtual(n)) = n.p
      BY <1>0 DEF Exact, AnswersExact
    <3>3. n.p = Kubernetes.p
      BY SMTT(30), <3>1, <3>2, <2>2, PairObjects DEF WrongKubernetes
    <3> QED BY <3>1, <3>3, PairEquality
  <2> QED BY <1>1, <2>1, <2>2
<1>3. RepairProgress'
  BY <1>1, <1>2 DEF RepairProgress, DropProgress, NoWrongHost
<1>4. BackendKnown'
  BY <1>1 DEF Inv, BackendKnown, KnownIn, Unsaved
<1>5. CallsAgree'
  BY <1>1 DEF CallsAgree
<1> QED BY <1>1, <1>3, <1>4, <1>5 DEF Inv

\* Collect keeps the invariant.
LEMMA CollectInv ==
    ASSUME Inv, TypeInv', Collect, stage = "running"
    PROVE  Inv'
<1>0. StoreOK(store) /\ Exact(store) /\ BackendOK(backend) /\ KnownUpTo(backend, store, {})
  BY InvSound DEF Extra
<1>1. gc.at \in Pairs /\ UNCHANGED <<stage, calls, fixing, dropping>>
  BY DEF Collect, Inv, TypeInv, TypeOK
<1>2. CallsAgree'
  BY <1>1 DEF Inv, CallsAgree
<1>3. Exact(store') /\ KnownUpTo(backend', store', {})
  <2>1. CASE backend' = Remove(backend, gc.at) /\ store' = RemoveMapping(store, gc.at) /\ gc.at \in store.mappings
    BY <2>1, <1>0, <1>1, RemoveMappingExact, KnownRemove
  <2>2. CASE FailedWrite(Remove(backend, gc.at)) /\ store' = store
    <3>1. backend' = backend \/ backend' = Remove(backend, gc.at)
      BY <2>2 DEF FailedWrite
    <3> QED BY <2>2, <3>1, <1>0, <1>1, KnownRemove
  <2>3. CASE UNCHANGED <<backend, store>>
    BY <2>3, <1>0
  <2> QED BY SMTT(30), <2>1, <2>2, <2>3 DEF Collect
<1>4. BackendKnown'
  BY <1>3 DEF KnownUpTo, BackendKnown, KnownIn
<1>5. NoWrongHost'
  <2>1. NoWrongHost
    BY DEF Inv, RepairProgress
  <2>2. store.references \in [Pairs -> SUBSET Pairs] /\ store.mappings \subseteq Pairs
    BY <1>0 DEF StoreOK, Store
  <2>3. store' = store \/ store' = RemoveMapping(store, gc.at)
    BY DEF Collect
  <2>4. \A m \in store'.mappings : m \in store.mappings /\ Names(store', m) \subseteq Names(store, m)
    BY <2>2, <2>3, SMTT(30) DEF Names, RemoveMapping
  <2> QED BY <2>1, <2>4 DEF NoWrongHost
<1>6. RepairProgress'
  BY <1>1, <1>5 DEF RepairProgress, DropProgress
<1> QED BY <1>2, <1>3, <1>4, <1>6 DEF Inv

-----------------------------------------------------------------------------
\* The garbage collector works only while the controllers run.
CollectorRuns == gc # NoCollection => stage = "running"

\* CollectorRuns is inductive.
LEMMA CollectorStep == CollectorRuns /\ TypeInv /\ [Next]_vars => CollectorRuns'
<1> SUFFICES ASSUME CollectorRuns, TypeInv, [Next]_vars PROVE CollectorRuns'
  OBVIOUS
<1> USE DEF CollectorRuns
<1>1. ASSUME NEW be, StartOver(be) PROVE CollectorRuns'
  BY <1>1 DEF StartOver
<1>2. CASE UNCHANGED <<stage, gc>>
  BY <1>2
<1>3. ASSUME NEW b \in Owners PROVE
        /\ \A o \in VirtualObjects : ResolveVirtual(o, b) => CollectorRuns'
        /\ \A o \in HostObjects : ResolveHost(o, b) => CollectorRuns'
        /\ Close(b) => CollectorRuns'
  BY <1>2 DEF ResolveVirtual, ResolveHost, Close
<1>4. /\ \A o \in VirtualObjects : MigrateVirtual(o) => CollectorRuns'
      /\ \A o \in HostObjects : MigrateHost(o) => CollectorRuns'
      /\ \A m \in dropping : RepairDrop(m) => CollectorRuns'
      /\ \A o \in Volatile : Appear(o) \/ Disappear(o) => CollectorRuns'
  BY <1>2 DEF MigrateVirtual, MigrateHost, RepairDrop, Appear, Disappear
<1>5. ASSUME NEW c \in calls, AddReference(c) \/ RejectReference(c) \/ SaveMapping(c) \/ SaveMappingFails(c)
      PROVE  CollectorRuns'
  BY <1>1, <1>2, <1>5 DEF AddReference, RejectReference, SaveMapping, SaveMappingFails
<1>6. CASE RepairDelete \/ RepairAdd \/ RepairDone \/ StartControllers
  BY <1>6 DEF RepairDelete, RepairAdd, RepairDone, StartControllers
<1>7. CASE RepairDeleteFails \/ Restart
  BY <1>1, <1>7 DEF RepairDeleteFails, Restart
<1>8. CASE CopyMappings \/ (\E m \in gc.todo : CheckVirtual(m)) \/ CheckHost \/ Collect
  <2>1. stage' = stage
    BY <1>8 DEF CopyMappings, CheckVirtual, CheckHost, Collect
  <2>2. stage = "running"
    BY <1>8 DEF CopyMappings, CheckVirtual, CheckHost, Collect, NoCollection
  <2> QED BY <2>1, <2>2
<1>9. CASE UNCHANGED vars
  BY <1>9 DEF vars
<1> QED BY <1>3, <1>4, <1>5, <1>6, <1>7, <1>8, <1>9 DEF Next

\* Every step keeps the invariant.
LEMMA InvStep ==
    ASSUME OwnersAgree, KubernetesTranslated
    PROVE  Inv /\ CollectorRuns /\ [Next]_vars => Inv'
<1> SUFFICES ASSUME Inv, CollectorRuns, [Next]_vars PROVE Inv'
  OBVIOUS
<1>0. /\ TypeInv /\ TypeInv' /\ StoreOK(store) /\ BackendOK(backend)
      /\ KnownUpTo(backend, store, Extra)
      /\ \A be : KnownUpTo(be, store, Extra) => Sound(be)
  BY TypeStep, InvSound DEF Inv
<1>a. ASSUME NEW c, calls' \subseteq calls \cup {c}, stage' = stage,
             c.step = "add" => /\ ~WrongHost(c.name)
                               /\ c.owner = c.name \/ (c.owner \in Owners /\ stage = "running")
      PROVE  CallsAgree'
  BY <1>a DEF Inv, CallsAgree
<1>1. ASSUME NEW b \in Owners, NEW o \in VirtualObjects, ResolveVirtual(o, b) PROVE Inv'
  <2> DEFINE known == VirtualToHostName(store, o)
             p == IF known # None THEN known ELSE HostNameOf[o]
             n == [kind |-> o[1], v |-> o[2], p |-> p]
             c == [name |-> n, owner |-> b, step |-> "add"]
  <2>1. stage = "running" /\ p # None /\ calls' = calls \cup {c}
        /\ UNCHANGED <<store, backend, stage, fixing, dropping>>
    BY <1>1 DEF ResolveVirtual, Start
  <2>2. ~WrongHost(n)
    BY <2>1, ResolvedIsRight
  <2>3. c.name = n /\ c.owner = b
    OBVIOUS
  <2> HIDE DEF c, n, p
  <2>4. CallsAgree'
    BY <1>a, <2>1, <2>2, <2>3
  <2> QED BY <1>0, <2>1, <2>4, QuietStep
<1>2. ASSUME NEW b \in Owners, NEW o \in HostObjects, ResolveHost(o, b) PROVE Inv'
  <2> DEFINE known == HostToVirtualName(store, o)
             v == IF known # None THEN known ELSE VirtualNameOf[o]
             n == [kind |-> o[1], v |-> v, p |-> o[2]]
             c == [name |-> n, owner |-> b, step |-> "add"]
  <2>1. stage = "running" /\ v # None /\ calls' = calls \cup {c}
        /\ UNCHANGED <<store, backend, stage, fixing, dropping>>
    BY <1>2 DEF ResolveHost, Start
  <2>2. ~WrongHost(n)
    BY <2>1, ResolvedIsRight
  <2>3. c.name = n /\ c.owner = b
    OBVIOUS
  <2> HIDE DEF c, n, v
  <2>4. CallsAgree'
    BY <1>a, <2>1, <2>2, <2>3
  <2> QED BY <1>0, <2>1, <2>4, QuietStep
<1>3. ASSUME NEW b \in Owners, Close(b) PROVE Inv'
  <2> DEFINE c == [name |-> Kubernetes, owner |-> b, step |-> "save"]
  <2>1. stage = "running" /\ calls' = calls \cup {c}
        /\ UNCHANGED <<store, backend, stage, fixing, dropping>>
    BY <1>3 DEF Close, Start
  <2>2. c.step # "add"
    OBVIOUS
  <2> HIDE DEF c
  <2>3. CallsAgree'
    BY <1>a, <2>1, <2>2
  <2> QED BY <1>0, <2>1, <2>3, QuietStep
<1>4. ASSUME NEW o \in VirtualObjects, MigrateVirtual(o) PROVE Inv'
  <2> DEFINE n == [kind |-> o[1], v |-> o[2], p |-> HostNameOf[o]]
             c == [name |-> n, owner |-> n, step |-> "add"]
  <2>1. stage # "drop" /\ calls' = {c} /\ HostNameOf[o] # None
        /\ UNCHANGED <<store, backend, stage, fixing, dropping>>
    BY <1>4 DEF MigrateVirtual
  <2>2. ~WrongHost(n)
    BY <2>1, ResolvedIsRight
  <2>3. c.name = n /\ c.owner = n
    OBVIOUS
  <2> HIDE DEF c, n
  <2>4. CallsAgree'
    BY <1>a, <2>1, <2>2, <2>3
  <2> QED BY <1>0, <2>1, <2>4, QuietStep
<1>5. ASSUME NEW o \in HostObjects, MigrateHost(o) PROVE Inv'
  <2> DEFINE n == [kind |-> o[1], v |-> VirtualNameOf[o], p |-> o[2]]
             c == [name |-> n, owner |-> n, step |-> "add"]
  <2>1. stage # "drop" /\ calls' = {c} /\ VirtualNameOf[o] # None
        /\ UNCHANGED <<store, backend, stage, fixing, dropping>>
    BY <1>5 DEF MigrateHost
  <2>2. ~WrongHost(n)
    BY <2>1, ResolvedIsRight
  <2>3. c.name = n /\ c.owner = n
    OBVIOUS
  <2> HIDE DEF c, n
  <2>4. CallsAgree'
    BY <1>a, <2>1, <2>2, <2>3
  <2> QED BY <1>0, <2>1, <2>4, QuietStep
<1>6. ASSUME NEW c \in calls, AddReference(c) PROVE Inv'
  BY <1>0, <1>6, AddReferenceInv
<1>7. ASSUME NEW c \in calls, RejectReference(c) PROVE Inv'
  <2>1. CASE StartOver(backend) /\ UNCHANGED backend
    BY <1>0, <2>1, StartOverInv
  <2>2. CASE calls' = calls \ {c} /\ UNCHANGED <<store, backend, stage, fixing, dropping>>
    <3>1. CallsAgree'
      BY <2>2 DEF Inv, CallsAgree
    <3>2. stage # "drop"
      BY <1>7 DEF RejectReference, Inv, RepairProgress, DropProgress
    <3> QED BY <1>0, <2>2, <3>1, <3>2, QuietStep
  <2> QED BY <1>7, <2>1, <2>2 DEF RejectReference
<1>8. ASSUME NEW c \in calls, SaveMapping(c) PROVE Inv'
  BY <1>0, <1>8, SaveMappingInv
<1>9. ASSUME NEW c \in calls, SaveMappingFails(c) PROVE Inv'
  BY <1>0, <1>9, SaveMappingFailsInv
<1>10. CASE RepairDelete
  BY <1>0, <1>10, RepairDeleteInv
<1>11. CASE RepairDeleteFails
  <2>1. Existing \in Pairs
    BY <1>0, <1>11, ResolvedType DEF RepairDeleteFails
  <2>2. backend' = backend \/ backend' = Remove(backend, Existing)
    BY <1>11 DEF RepairDeleteFails, FailedWrite
  <2>3. BackendOK(backend') /\ KnownUpTo(backend', store, Extra)
    BY <1>0, <2>1, <2>2, BackendWrites, KnownRemove
  <2>4. StartOver(backend')
    BY <1>11 DEF RepairDeleteFails
  <2> QED BY <1>0, <2>3, <2>4, StartOverInv
<1>12. ASSUME NEW m \in dropping, RepairDrop(m) PROVE Inv'
  BY <1>0, <1>12, RepairDropInv
<1>13. CASE RepairAdd
  BY <1>0, <1>13, RepairAddInv
<1>14. CASE RepairDone
  BY <1>0, <1>14, RepairDoneInv
<1>15. CASE StartControllers
  <2>1. stage = "migrated" /\ calls = {} /\ stage' = "running" /\ UNCHANGED <<store, backend, calls>>
    BY <1>15 DEF StartControllers
  <2>2. RepairProgress' /\ CallsAgree'
    BY <2>1 DEF Inv, RepairProgress, DropProgress, NoWrongHost, CallsAgree
  <2>3. BackendKnown'
    BY <2>1 DEF Inv, BackendKnown, KnownIn, Unsaved
  <2> QED BY <1>0, <2>1, <2>2, <2>3 DEF Inv
<1>16. CASE \/ CopyMappings \/ (\E m \in gc.todo : CheckVirtual(m)) \/ CheckHost
            \/ \E o \in Volatile : Appear(o) \/ Disappear(o)
            \/ UNCHANGED vars
  <2>1. UNCHANGED <<store, backend, stage, fixing, dropping, calls>>
    BY <1>16 DEF CopyMappings, CheckVirtual, CheckHost, Appear, Disappear, vars
  <2>2. CallsAgree'
    BY <2>1 DEF Inv, CallsAgree
  <2> QED BY <1>0, <2>1, <2>2, QuietStep
<1>17. CASE Collect
  <2>1. stage = "running"
    BY <1>17 DEF Collect, CollectorRuns, NoCollection
  <2> QED BY <1>0, <1>17, <2>1, CollectInv
<1>18. CASE Restart
  BY <1>0, <1>18, StartOverInv DEF Restart
<1> QED
  BY <1>1, <1>2, <1>3, <1>4, <1>5, <1>6, <1>7, <1>8, <1>9, <1>10, <1>11, <1>12, <1>13, <1>14,
     <1>15, <1>16, <1>17, <1>18 DEF Next

\* What an earlier process may have left is sound, so the invariant holds when
\* the first process starts.
LEMMA InvInit ==
    ASSUME BackendsAgree
    PROVE  Init => Inv /\ CollectorRuns
<1> SUFFICES ASSUME Init PROVE Inv /\ CollectorRuns
  OBVIOUS
<1>1. BackendOK(backend)
  BY BackendsAreSaved DEF Init, BackendOK
<1>2. Sound(backend)
  BY DEF Init, BackendsAgree
<1>3. Exact(store) /\ StoreOK(store)
  BY <1>1, <1>2, LoadExact, LoadType DEF Init
<1>4. Kubernetes \in Pairs
  BY KubernetesIsVerified, VerifiedArePairs
<1>5. TypeInv
  BY <1>1, <1>3, <1>4
     DEF Init, TypeInv, TypeOK, Stages, BackendOK, StoreOK, Collector, NoCollection
<1>6. BackendKnown
  BY LoadFields DEF Init, BackendKnown, KnownIn
<1>7. RepairProgress /\ CallsAgree /\ CollectorRuns
  BY DEF Init, RepairProgress, DropProgress, CallsAgree, CollectorRuns
<1> QED BY <1>3, <1>5, <1>6, <1>7 DEF Inv

-----------------------------------------------------------------------------
(* The theorems. Each holds for all constants for which owners in contexts,  *)
(* mappers and the backend an earlier process left agree with one another.   *)

\* The invariant always holds.
LEMMA InvAlways ==
    ASSUME OwnersAgree, KubernetesTranslated, BackendsAgree
    PROVE  Spec => []Inv
<1>1. Inv => TypeInv
  BY DEF Inv
<1>2. Inv /\ CollectorRuns /\ [Next]_vars => Inv' /\ CollectorRuns'
  BY <1>1, InvStep, CollectorStep
<1>3. Init => Inv /\ CollectorRuns
  BY InvInit
<1> QED BY <1>2, <1>3, PTL DEF Spec

\* The lookup maps of the store are exactly the names of its mappings, through
\* every interleaving of callers, repair, collection, failures and restarts.
THEOREM LookupsAlwaysExact ==
    ASSUME OwnersAgree, KubernetesTranslated, BackendsAgree
    PROVE  Spec => []LookupsExact
<1>1. Inv => LookupsExact
  BY DEF Inv, Exact, LookupsExact
<1> QED BY <1>1, InvAlways, PTL

\* A restart brings back no name that the process had dropped.
THEOREM RestartsAddNothing ==
    ASSUME OwnersAgree, KubernetesTranslated, BackendsAgree
    PROVE  Spec => []RestartAddsNothing
<1>1. Inv => RestartAddsNothing
  <2> SUFFICES ASSUME Inv PROVE RestartAddsNothing
    OBVIOUS
  <2>1. KnownUpTo(backend, store, Extra)
    BY InvSound
  <2> QED BY <2>1, LoadFields DEF RestartAddsNothing, KnownUpTo, KnownIn, Extra
<1> QED BY <1>1, InvAlways, PTL

\* Controllers never run with a wrong host service for default/kubernetes.
THEOREM KubernetesAlwaysRepaired ==
    ASSUME OwnersAgree, KubernetesTranslated, BackendsAgree
    PROVE  Spec => []KubernetesRepaired
<1>1. Inv => KubernetesRepaired
  BY DEF Inv, RepairProgress, NoWrongHost, KubernetesRepaired
<1> QED BY <1>1, InvAlways, PTL

\* DeleteReference is only called on mappings that have the reference.
THEOREM DeleteReferenceNeverPanics ==
    ASSUME OwnersAgree, KubernetesTranslated, BackendsAgree
    PROVE  Spec => []DeleteReferenceHasSome
<1>1. Inv => DeleteReferenceHasSome
  BY DEF Inv, RepairProgress, DropProgress, DeleteReferenceHasSome
<1> QED BY <1>1, InvAlways, PTL

-----------------------------------------------------------------------------
(* When no reply of etcd is lost, etcd holds every mapping that is not       *)
(* marked as changed.                                                        *)

\* Two mappings of an exact store have different keys.
LEMMA KeysDiffer ==
    ASSUME NEW st, StoreOK(st), Exact(st), NEW m \in st.mappings, NEW k \in st.mappings, m # k
    PROVE  Virtual(m) # Virtual(k)
<1>1. m \in Names(st, m) /\ k \in Names(st, k)
  BY DEF Names
<1>2. ~Conflicting(m, k)
  BY <1>1, ExactOneToOne
<1> QED BY <1>2 DEF Conflicting

\* Removing a mapping from memory and from etcd leaves the others persisted.
LEMMA RemovePersists ==
    ASSUME Inv, CleanIsPersisted, NEW m \in store.mappings,
           backend' = Remove(backend, m), store' = RemoveMapping(store, m)
    PROVE  CleanIsPersisted'
<1>0. StoreOK(store) /\ Exact(store) /\ BackendOK(backend) /\ m \in Pairs /\ store.mappings \subseteq Pairs
  BY InvSound DEF StoreOK, Store
<1>1. RemoveOK(backend', backend, m)
  BY <1>0, RemoveKeys
<1>2. /\ store'.mappings = store.mappings \ {m}
      /\ store'.references = [store.references EXCEPT ![m] = {}]
      /\ store'.changed = [store.changed EXCEPT ![m] = FALSE]
  BY DEF RemoveMapping
<1>3. store.references \in [Pairs -> SUBSET Pairs] /\ store.changed \in [Pairs -> BOOLEAN]
  BY <1>0 DEF StoreOK, Store
<1> SUFFICES ASSUME NEW k \in store'.mappings, ~store'.changed[k]
             PROVE  backend'[Virtual(k)] = [p |-> k.p, refs |-> store'.references[k]]
  BY DEF CleanIsPersisted
<1>4. k \in store.mappings /\ k # m /\ k \in Pairs
  BY <1>0, <1>2
<1>5. ~store.changed[k] /\ store'.references[k] = store.references[k]
  BY <1>2, <1>3, <1>4
<1>6. backend'[Virtual(k)] = backend[Virtual(k)]
  BY <1>0, <1>1, <1>4, KeysDiffer DEF RemoveOK
<1> QED BY <1>4, <1>5, <1>6 DEF CleanIsPersisted

\* What start loads is persisted.
LEMMA LoadPersists ==
    ASSUME NEW be, BackendOK(be), NEW m \in Load(be).mappings
    PROVE  be[Virtual(m)] = [p |-> m.p, refs |-> Load(be).references[m]]
<1>1. m \in Loaded(be) /\ m \in Pairs /\ m \in SavedMappings(be)
  BY LoadFields DEF Loaded
<1>2. Virtual(m) \in Keys /\ be[Virtual(m)].p = m.p
  BY <1>1, SavedIsPair
<1>3. Load(be).references[m] = be[Virtual(m)].refs
  BY <1>1, LoadFields, SMTT(30) DEF SavedReferences
<1> QED BY <1>2, <1>3 DEF BackendOK, Saved

\* Every step keeps clean mappings persisted.
LEMMA PersistStep ==
    ASSUME OwnersAgree, KubernetesTranslated
    PROVE  Inv /\ ReliablyPersisted /\ [Next]_vars => ReliablyPersisted'
<1> SUFFICES ASSUME Inv, CleanIsPersisted, [Next]_vars, ~lossy PROVE CleanIsPersisted'
  <2>1. [Next]_vars => lossy' = lossy
    BY Zenon DEF Next, vars
  <2> QED BY <2>1 DEF ReliablyPersisted
<1>0. StoreOK(store) /\ Exact(store) /\ BackendOK(backend) /\ store.mappings \subseteq Pairs
  BY InvSound DEF StoreOK, Store
<1>1. ASSUME NEW be, FailedWrite(be) PROVE backend' = backend
  BY <1>1 DEF FailedWrite
<1>2. ASSUME StartOver(backend'), backend' = backend PROVE CleanIsPersisted'
  BY <1>0, <1>2, LoadPersists DEF CleanIsPersisted, StartOver
<1>3. CASE UNCHANGED <<store, backend>>
  BY <1>3 DEF CleanIsPersisted
<1>4. ASSUME NEW b \in Owners PROVE
        /\ \A o \in VirtualObjects : ResolveVirtual(o, b) => CleanIsPersisted'
        /\ \A o \in HostObjects : ResolveHost(o, b) => CleanIsPersisted'
        /\ Close(b) => CleanIsPersisted'
  BY Zenon, <1>3 DEF ResolveVirtual, ResolveHost, Close
<1>5. /\ \A o \in VirtualObjects : MigrateVirtual(o) => CleanIsPersisted'
      /\ \A o \in HostObjects : MigrateHost(o) => CleanIsPersisted'
      /\ \A o \in Volatile : Appear(o) \/ Disappear(o) => CleanIsPersisted'
      /\ \A m \in gc.todo : CheckVirtual(m) => CleanIsPersisted'
      /\ RepairAdd \/ RepairDone \/ StartControllers \/ CopyMappings \/ CheckHost => CleanIsPersisted'
  BY <1>3 DEF MigrateVirtual, MigrateHost, Appear, Disappear, RepairAdd, RepairDone,
              StartControllers, CopyMappings, CheckVirtual, CheckHost
<1>6. ASSUME NEW c \in calls, AddReference(c) PROVE CleanIsPersisted'
  <2>1. c.name \in Pairs /\ (c.owner.v # None /\ c.owner.p # None => c.owner \in Pairs)
    BY CallOwner DEF Inv, TypeInv, TypeOK
  <2>2. AddsOnly(store, store', c.name, c.owner) /\ backend' = backend
    BY <1>0, <1>6, <2>1, AddReferenceAdds DEF AddReference
  <2> QED BY <2>2 DEF AddsOnly, CleanIsPersisted
<1>7. ASSUME NEW c \in calls, RejectReference(c) PROVE CleanIsPersisted'
  BY <1>2, <1>3, <1>7 DEF RejectReference
<1>8. ASSUME NEW c \in calls, SaveMapping(c) PROVE CleanIsPersisted'
  <2> DEFINE m == Completed(store, c.owner)
  <2>1. CASE ToSave(c.owner)
    <3>1. m \in store.mappings /\ m \in Pairs
      BY <1>0, <2>1, FoundIsPair DEF ToSave
    <3>2. backend' = Put(backend, store, m) /\ store' = [store EXCEPT !.changed[m] = FALSE]
      BY <1>8, <2>1 DEF SaveMapping
    <3> HIDE DEF m
    <3>3. PutOK(backend', backend, store, m)
      BY <1>0, <3>1, <3>2, PutKeys
    <3>4. /\ store'.mappings = store.mappings
          /\ store'.references = store.references
          /\ store'.changed = [store.changed EXCEPT ![m] = FALSE]
          /\ store.changed \in [Pairs -> BOOLEAN]
      BY <1>0, <3>2 DEF StoreOK, Store
    <3> SUFFICES ASSUME NEW k \in store.mappings, ~store'.changed[k]
                 PROVE  backend'[Virtual(k)] = [p |-> k.p, refs |-> store.references[k]]
      BY <3>4 DEF CleanIsPersisted
    <3>5. CASE k = m
      BY <3>3, <3>5 DEF PutOK
    <3>6. CASE k # m
      <4>1. ~store.changed[k] /\ k \in Pairs
        BY <1>0, <3>4, <3>6
      <4>2. backend'[Virtual(k)] = backend[Virtual(k)]
        BY <1>0, <3>1, <3>3, <3>6, <4>1, KeysDiffer DEF PutOK
      <4> QED BY <4>1, <4>2 DEF CleanIsPersisted
    <3> QED BY <3>5, <3>6
  <2>2. CASE ~ToSave(c.owner)
    BY <1>3, <1>8, <2>2 DEF SaveMapping
  <2> QED BY <2>1, <2>2
<1>9. ASSUME NEW c \in calls, SaveMappingFails(c) PROVE CleanIsPersisted'
  BY <1>1, <1>2, <1>3, <1>9 DEF SaveMappingFails
<1>10. CASE RepairDelete
  <2>1. CASE Found(store, Existing)
    <3>1. Existing \in Pairs
      BY <1>0, <1>10, ResolvedType DEF RepairDelete
    <3>2. Existing \in store.mappings
      BY <2>1, <3>1, PairObjects DEF Found, Completed
    <3> QED BY <1>10, <2>1, <3>2, RemovePersists DEF RepairDelete
  <2>2. CASE ~Found(store, Existing)
    BY <1>3, <1>10, <2>2 DEF RepairDelete
  <2> QED BY <2>1, <2>2
<1>11. CASE RepairDeleteFails
  BY <1>1, <1>2, <1>11 DEF RepairDeleteFails
<1>12. ASSUME NEW m \in dropping, RepairDrop(m) PROVE CleanIsPersisted'
  <2>1. m \in store.mappings /\ fixing \in store.references[m] /\ backend' = backend
    BY <1>12 DEF Inv, RepairProgress, DropProgress, RepairDrop
  <2>2. /\ store'.mappings = store.mappings
        /\ store'.references = [store.references EXCEPT ![m] = @ \ {fixing}]
        /\ store'.changed = [store.changed EXCEPT ![m] = TRUE]
    <3>1. store' = DeleteReferenceFrom(store, fixing, m)
      BY <1>12 DEF RepairDrop
    <3>2. ReferenceDropped(store, store', fixing, m)
      BY <1>0, <2>1, <3>1, DeleteReferenceFields, Zenon
    <3> QED BY <3>2 DEF ReferenceDropped
  <2>3. store.references \in [Pairs -> SUBSET Pairs] /\ store.changed \in [Pairs -> BOOLEAN] /\ m \in Pairs
    BY <1>0, <2>1 DEF StoreOK, Store
  <2> QED BY <1>0, <2>1, <2>2, <2>3 DEF CleanIsPersisted
<1>13. CASE Collect
  <2>1. CASE gc.at \in store.mappings /\ backend' = Remove(backend, gc.at) /\ store' = RemoveMapping(store, gc.at)
    BY <2>1, RemovePersists
  <2>2. CASE FailedWrite(Remove(backend, gc.at)) /\ UNCHANGED store
    BY <1>1, <1>3, <2>2
  <2> QED BY <1>3, <1>13, <2>1, <2>2 DEF Collect
<1>14. CASE Restart
  BY <1>2, <1>14 DEF Restart
<1>15. CASE UNCHANGED vars
  BY <1>3, <1>15 DEF vars
<1> QED
  BY SMTT(30), <1>4, <1>5, <1>6, <1>7, <1>8, <1>9, <1>10, <1>11, <1>12, <1>13, <1>14, <1>15 DEF Next

\* When no reply of etcd is lost, a restart loses only mappings that are marked
\* as changed.
THEOREM CleanAlwaysPersisted ==
    ASSUME OwnersAgree, KubernetesTranslated, BackendsAgree
    PROVE  Spec => []ReliablyPersisted
<1>1. Init => ReliablyPersisted
  <2> SUFFICES ASSUME Init PROVE ReliablyPersisted
    OBVIOUS
  <2>1. BackendOK(backend)
    BY BackendsAreSaved DEF Init, BackendOK
  <2> QED BY <2>1, LoadPersists DEF Init, CleanIsPersisted, ReliablyPersisted
<1>2. Inv /\ ReliablyPersisted /\ [Next]_vars => ReliablyPersisted'
  BY PersistStep, Zenon
<1> QED BY <1>1, <1>2, InvAlways, PTL DEF Spec


-----------------------------------------------------------------------------
(* The store implements NameTable *)

\* The names in use.
InUse(st) == UNION {Names(st, m) : m \in st.mappings}

\* The answers of an exact store are those of a one-to-one table of the names in use.
LEMMA StoreIsTable ==
    ASSUME NEW st, StoreOK(st), Exact(st)
    PROVE  /\ InUse(st) \subseteq Pairs
           /\ Table!OneToOne(InUse(st))
           /\ [o \in VirtualObjects |-> VirtualToHostName(st, o)] = Table!HostAnswers(InUse(st))
           /\ [o \in HostObjects |-> HostToVirtualName(st, o)] = Table!VirtualAnswers(InUse(st))
           /\ \A n \in Pairs : VirtualToHostName(st, Virtual(n)) = n.p <=> n \in InUse(st)
<1> DEFINE T == InUse(st)
<1>1. T \subseteq Pairs
  BY DEF InUse, Names, StoreOK, Store
<1>2. \A m, n \in T : ~Conflicting(m, n)
  BY ExactOneToOne DEF InUse
<1>3. Table!OneToOne(T)
  BY <1>2 DEF Table!OneToOne, Conflicting, Virtual, Host
<1>4. \A n \in T : VirtualToHostName(st, Virtual(n)) = n.p /\ HostToVirtualName(st, Host(n)) = n.v
  BY SMTT(30) DEF InUse, Exact, AnswersExact
<1>5. /\ \A o \in VirtualObjects : VirtualToHostName(st, o) # None =>
            [kind |-> o[1], v |-> o[2], p |-> VirtualToHostName(st, o)] \in T
      /\ \A o \in HostObjects : HostToVirtualName(st, o) # None =>
            [kind |-> o[1], v |-> HostToVirtualName(st, o), p |-> o[2]] \in T
  BY Zenon, AnswerIsName DEF InUse
<1> HIDE DEF T
<1>6. ASSUME NEW o \in VirtualObjects PROVE VirtualToHostName(st, o) = Table!HostAnswers(T)[o]
  <2>1. o = <<o[1], o[2]>>
    BY DEF VirtualObjects
  <2>2. CASE \E n \in T : <<n.kind, n.v>> = o
    <3>1. Table!HostAnswers(T)[o] = (CHOOSE n \in T : <<n.kind, n.v>> = o).p
      BY <2>2 DEF Table!HostAnswers, VirtualObjects
    <3>2. \A n \in T : <<n.kind, n.v>> = o => VirtualToHostName(st, o) = n.p
      BY <1>4 DEF Virtual
    <3> QED BY <2>2, <3>1, <3>2
  <2>3. CASE ~\E n \in T : <<n.kind, n.v>> = o
    <3>1. Table!HostAnswers(T)[o] = None
      BY <2>3 DEF Table!HostAnswers, VirtualObjects
    <3> QED BY Zenon, <1>5, <2>1, <2>3, <3>1
  <2> QED BY <2>2, <2>3
<1>7. ASSUME NEW o \in HostObjects PROVE HostToVirtualName(st, o) = Table!VirtualAnswers(T)[o]
  <2>1. o = <<o[1], o[2]>>
    BY DEF HostObjects
  <2>2. CASE \E n \in T : <<n.kind, n.p>> = o
    <3>1. Table!VirtualAnswers(T)[o] = (CHOOSE n \in T : <<n.kind, n.p>> = o).v
      BY <2>2 DEF Table!VirtualAnswers, HostObjects
    <3>2. \A n \in T : <<n.kind, n.p>> = o => HostToVirtualName(st, o) = n.v
      BY <1>4 DEF Host
    <3> QED BY <2>2, <3>1, <3>2
  <2>3. CASE ~\E n \in T : <<n.kind, n.p>> = o
    <3>1. Table!VirtualAnswers(T)[o] = None
      BY <2>3 DEF Table!VirtualAnswers, HostObjects
    <3> QED BY Zenon, <1>5, <2>1, <2>3, <3>1
  <2> QED BY <2>2, <2>3
<1>8. [o \in VirtualObjects |-> VirtualToHostName(st, o)] = Table!HostAnswers(T)
  BY <1>6 DEF Table!HostAnswers, VirtualObjects
<1>9. [o \in HostObjects |-> HostToVirtualName(st, o)] = Table!VirtualAnswers(T)
  BY <1>7 DEF Table!VirtualAnswers, HostObjects
<1>10. ASSUME NEW n \in Pairs, VirtualToHostName(st, Virtual(n)) = n.p PROVE n \in T
  <2>1. /\ Virtual(n) \in VirtualObjects /\ n.p # None
        /\ n = [kind |-> Virtual(n)[1], v |-> Virtual(n)[2], p |-> n.p]
    BY PairObjects DEF Virtual
  <2> QED BY <1>5, <1>10, <2>1
<1> QED BY <1>1, <1>3, <1>4, <1>8, <1>9, <1>10 DEF T

\* Before and after a step the answers are those of the names in use.
TableOK == StoreOK(store) /\ Exact(store) /\ stage \in Stages /\ fixing \in Pairs

LEMMA TableBefore ==
    ASSUME TableOK
    PROVE  Table!Known = InUse(store) /\ InUse(store) \subseteq Pairs
<1>1. ASSUME NEW n \in Pairs
      PROVE  [o \in VirtualObjects |-> VirtualToHostName(store, o)][<<n.kind, n.v>>]
               = VirtualToHostName(store, Virtual(n))
  BY PairObjects DEF Virtual
<1> QED BY <1>1, StoreIsTable DEF TableOK, Table!Known

LEMMA TableAfter ==
    ASSUME TableOK'
    PROVE  Table!Becomes(InUse(store'))
BY StoreIsTable DEF TableOK, Table!Becomes

\* A step that adds at most one name records it.
LEMMA RecordStep ==
    ASSUME TableOK, TableOK', NEW n \in Pairs,
           InUse(store') = InUse(store) \/ InUse(store') = InUse(store) \cup {n}, Extra' = Extra
    PROVE  [Table!Next]_(Table!vars)
<1>1. CASE InUse(store') = InUse(store) \cup {n}
  <2>1. Table!Becomes(Table!Known \cup {n})
    BY <1>1, TableBefore, TableAfter
  <2>2. Table!Record(n)
    BY <2>1 DEF Table!Record, Extra
  <2> QED BY <2>2 DEF Table!Next
<1>2. CASE InUse(store') = InUse(store)
  <2>1. /\ [o \in VirtualObjects |-> VirtualToHostName(store', o)] = [o \in VirtualObjects |-> VirtualToHostName(store, o)]
        /\ [o \in HostObjects |-> HostToVirtualName(store', o)] = [o \in HostObjects |-> HostToVirtualName(store, o)]
    BY <1>2, StoreIsTable DEF TableOK
  <2> QED BY <2>1 DEF Table!vars, Extra
<1> QED BY <1>1, <1>2

\* A step that only takes names away forgets them.
LEMMA ForgetStep ==
    ASSUME TableOK, TableOK', InUse(store') \subseteq InUse(store), Extra' \subseteq InUse(store) \cup Extra
    PROVE  [Table!Next]_(Table!vars)
<1>1. Table!Becomes(InUse(store'))
  BY TableAfter
<1>2. InUse(store') \in SUBSET Table!Known /\ Extra' \in SUBSET (Table!Known \cup Extra)
  BY TableBefore
<1>3. Table!Forget(InUse(store'), Extra')
  BY <1>1 DEF Table!Forget, Extra
<1>4. \E T \in SUBSET Table!Known, P \in SUBSET (Table!Known \cup Extra) : Table!Forget(T, P)
  BY <1>2, <1>3
<1> QED BY <1>4 DEF Table!Next, Extra

\* A process that starts over knows what etcd holds, which the old one knew.
LEMMA RestartStep ==
    ASSUME TableOK, TableOK', NEW be, BackendOK(be), KnownUpTo(be, store, Extra), StartOver(be)
    PROVE  [Table!Next]_(Table!vars)
<1>1. store' = Load(be) /\ Extra' = {}
  BY DEF StartOver, Extra
<1>2. InUse(store') \subseteq InUse(store) \cup Extra
  <2> SUFFICES ASSUME NEW m \in Load(be).mappings, NEW n \in Names(Load(be), m)
               PROVE  n \in InUse(store) \cup Extra
    BY <1>1 DEF InUse
  <2>1. m \in Loaded(be) /\ m \in Pairs /\ Load(be).references[m] = SavedReferences(be, m)
    BY LoadFields
  <2>2. m \in store.mappings /\ SavedReferences(be, m) \subseteq store.references[m] \cup Extra
    BY <2>1 DEF KnownUpTo, KnownIn
  <2> QED BY <2>1, <2>2 DEF InUse, Names
<1>3. Table!Restart(InUse(store'))
  BY <1>1, TableAfter DEF Table!Restart, Extra
<1>4. InUse(store') \in SUBSET (Table!Known \cup Extra)
  BY <1>2, TableBefore
<1>5. \E T \in SUBSET (Table!Known \cup Extra) : Table!Restart(T)
  BY <1>3, <1>4
<1> QED BY <1>5 DEF Table!Next, Extra

OneMore(st, st2) == \E k \in Pairs : InUse(st2) = InUse(st) \/ InUse(st2) = InUse(st) \cup {k}

\* AddReference uses at most one name more.
LEMMA AddReferenceNames ==
    ASSUME NEW st, StoreOK(st), Exact(st), NEW n \in Pairs, NEW b,
           b.v # None /\ b.p # None => b \in Pairs
    PROVE  OneMore(st, AddReferenceTo(st, n, b))
<1> DEFINE m == Completed(st, b)
           st2 == AddReferenceTo(st, n, b)
<1>0. st.mappings \subseteq Pairs /\ st.references \in [Pairs -> SUBSET Pairs]
  BY DEF StoreOK, Store
<1>1. CASE st2 = st
  BY <1>1 DEF OneMore
<1>2. CASE n \in Verified /\ ~Found(st, b) /\ ~Empty(b) /\ Creatable(n, b) # {}
  <2> DEFINE k == CHOOSE x \in Creatable(n, b) : TRUE
  <2>1. k \in Creatable(n, b) /\ k \in Pairs
    BY <1>2, CreatableIsPair
  <2>2. k \notin st.mappings
    BY <1>2, <2>1, CreatedIsNew
  <2>3. st2 = AddMapping(st, k, {}, TRUE)
    BY Zenon, <1>2 DEF AddReferenceTo, CreateMapping
  <2> HIDE DEF k, st2
  <2>4. st2.mappings = st.mappings \cup {k} /\ st2.references = [st.references EXCEPT ![k] = {}]
    BY <2>3 DEF AddMapping
  <2>5. Names(st2, k) = {k} /\ \A x \in st.mappings : Names(st2, x) = Names(st, x)
    BY <1>0, <2>1, <2>2, <2>4 DEF Names
  <2>6. InUse(st2) = InUse(st) \cup {k}
    BY <2>4, <2>5 DEF InUse
  <2> QED BY <2>1, <2>6 DEF st2, OneMore
<1>3. CASE n \in Verified /\ Found(st, b) /\ n \notin Names(st, m)
  <2>1. m \in st.mappings
    BY <1>3 DEF Found
  <2>2. st2.mappings = st.mappings /\ st2.references = [st.references EXCEPT ![m] = @ \cup {n}]
    BY <1>3 DEF AddReferenceTo
  <2> HIDE DEF m, st2
  <2>3. \A x \in st.mappings : Names(st2, x) = IF x = m THEN Names(st, m) \cup {n} ELSE Names(st, x)
    BY <1>0, <2>1, <2>2 DEF Names
  <2>4. InUse(st2) = InUse(st) \cup {n}
    BY <2>1, <2>2, <2>3 DEF InUse
  <2> QED BY <2>4 DEF st2, OneMore
<1>4. CASE ~(n \in Verified /\ ~Found(st, b) /\ ~Empty(b) /\ Creatable(n, b) # {})
           /\ ~(n \in Verified /\ Found(st, b) /\ n \notin Names(st, m))
  <2>1. st2 = st
    BY Zenon, <1>4 DEF AddReferenceTo, CreateMapping
  <2> QED BY <1>1, <2>1
<1> QED BY <1>1, <1>2, <1>3, <1>4

\* Removing a mapping or a reference, and clearing the mark, use no name more.
LEMMA RemovalNames ==
    ASSUME NEW st, StoreOK(st), NEW m \in Pairs, NEW n, NEW b
    PROVE  /\ InUse(RemoveMapping(st, m)) \subseteq InUse(st)
           /\ InUse(DeleteReferenceFrom(st, n, b)) \subseteq InUse(st)
           /\ InUse([st EXCEPT !.changed[m] = FALSE]) = InUse(st)
<1>0. st.mappings \subseteq Pairs /\ st.references \in [Pairs -> SUBSET Pairs] /\ st \in Store
  BY DEF StoreOK, Store
<1>1. ASSUME NEW st2, st2.mappings \subseteq st.mappings,
             \A x \in st.mappings : st2.references[x] \subseteq st.references[x]
      PROVE  InUse(st2) \subseteq InUse(st)
  BY <1>1 DEF InUse, Names
<1>2. InUse(RemoveMapping(st, m)) \subseteq InUse(st)
  <2>1. /\ RemoveMapping(st, m).mappings = st.mappings \ {m}
        /\ RemoveMapping(st, m).references = [st.references EXCEPT ![m] = {}]
    BY DEF RemoveMapping
  <2> QED BY <1>0, <1>1, <2>1
<1>3. InUse(DeleteReferenceFrom(st, n, b)) \subseteq InUse(st)
  <2> DEFINE st2 == DeleteReferenceFrom(st, n, b)
             k == Completed(st, b)
  <2>1. CASE st2 = st
    BY <2>1
  <2>2. CASE st2 # st
    <3>1. st2.mappings = st.mappings /\ st2.references = [st.references EXCEPT ![k] = @ \ {n}]
      BY <1>0, <2>2 DEF DeleteReferenceFrom, Store
    <3> HIDE DEF st2, k
    <3>2. \A x \in st.mappings : st2.references[x] \subseteq st.references[x]
      BY <1>0, <3>1
    <3> QED BY Zenon, <1>1, <3>1, <3>2 DEF st2
  <2> QED BY <2>1, <2>2
<1>4. InUse([st EXCEPT !.changed[m] = FALSE]) = InUse(st)
  <2>1. /\ [st EXCEPT !.changed[m] = FALSE].mappings = st.mappings
        /\ [st EXCEPT !.changed[m] = FALSE].references = st.references
    BY <1>0 DEF Store
  <2> QED BY <2>1 DEF InUse, Names
<1> QED BY <1>2, <1>3, <1>4

\* Every step is a step of the table, or leaves it.
LEMMA TableStep ==
    ASSUME Inv, Inv', [Next]_vars
    PROVE  [Table!Next]_(Table!vars)
<1>0. /\ StoreOK(store) /\ Exact(store) /\ BackendOK(backend) /\ KnownUpTo(backend, store, Extra)
      /\ calls \subseteq Call /\ Kubernetes \in Pairs
  BY InvSound, KubernetesIsVerified, VerifiedArePairs DEF Inv, TypeInv, TypeOK
<1>a. TableOK /\ TableOK'
  BY DEF Inv, TypeInv, TypeOK, TableOK
<1>1. CASE UNCHANGED <<store, stage, fixing>>
  BY <1>0, <1>1, <1>a, RecordStep DEF Extra
<1>2. ASSUME NEW be, be = backend \/ (\E m \in store.mappings : be = Put(backend, store, m))
                       \/ (\E m \in Pairs : be = Remove(backend, m)),
             StartOver(be)
      PROVE  [Table!Next]_(Table!vars)
  <2>1. store.mappings \subseteq Pairs
    BY <1>0 DEF StoreOK, Store
  <2>2. BackendOK(be)
    BY SMTT(30), <1>0, <1>2, <2>1, BackendWrites
  <2>3. KnownUpTo(be, store, Extra)
    BY <1>0, <1>2, KnownPut, KnownRemove
  <2> QED BY <1>2, <1>a, <2>2, <2>3, RestartStep
<1>3. ASSUME NEW c \in calls, AddReference(c) PROVE [Table!Next]_(Table!vars)
  <2>1. c \in Call /\ store' = AddReferenceTo(store, c.name, c.owner) /\ UNCHANGED <<stage, fixing>>
    BY <1>0, <1>3 DEF AddReference
  <2>2. c.name \in Pairs /\ (c.owner.v # None /\ c.owner.p # None => c.owner \in Pairs)
    BY <2>1, CallOwner
  <2>3. OneMore(store, store')
    BY SMTT(30), <1>0, <2>1, <2>2, AddReferenceNames
  <2> QED BY <1>a, <2>1, <2>3, RecordStep DEF Extra, OneMore
<1>4. ASSUME NEW c \in calls, RejectReference(c) PROVE [Table!Next]_(Table!vars)
  BY Zenon, <1>1, <1>2, <1>4 DEF RejectReference
<1>5. ASSUME NEW c \in calls, SaveMapping(c) PROVE [Table!Next]_(Table!vars)
  <2> DEFINE m == Completed(store, c.owner)
  <2>1. CASE ToSave(c.owner)
    <3>1. m \in Pairs /\ store' = [store EXCEPT !.changed[m] = FALSE] /\ UNCHANGED <<stage, fixing>>
      BY <1>0, <1>5, <2>1, FoundIsPair DEF SaveMapping, ToSave
    <3>2. InUse(store') = InUse(store)
      BY <1>0, <3>1, RemovalNames
    <3> QED BY Zenon, <1>0, <1>a, <3>1, <3>2, RecordStep DEF Extra
  <2>2. CASE ~ToSave(c.owner)
    BY <1>1, <1>5, <2>2 DEF SaveMapping
  <2> QED BY <2>1, <2>2
<1>6. ASSUME NEW c \in calls, SaveMappingFails(c) PROVE [Table!Next]_(Table!vars)
  <2>1. Completed(store, c.owner) \in store.mappings
    BY <1>6 DEF SaveMappingFails, ToSave, Found
  <2>2. backend' = backend \/ backend' = Put(backend, store, Completed(store, c.owner))
    BY <1>6 DEF SaveMappingFails, FailedWrite
  <2>3. UNCHANGED <<store, stage, fixing>> \/ StartOver(backend')
    BY <1>6 DEF SaveMappingFails
  <2> QED BY <1>1, <1>2, <2>1, <2>2, <2>3
<1>7. CASE RepairDelete
  <2>1. Existing \in Pairs /\ WrongKubernetes /\ Extra' = {Existing}
    BY Zenon, <1>0, <1>7, ResolvedType DEF RepairDelete, Extra
  <2>2. store' = store \/ store' = RemoveMapping(store, Existing)
    BY <1>7 DEF RepairDelete
  <2>3. InUse(store') \subseteq InUse(store)
    BY Zenon, <1>0, <2>1, <2>2, RemovalNames
  <2>4. Existing \in InUse(store)
    <3>1. Virtual(Existing) = Virtual(Kubernetes) /\ Existing.p = VirtualToHostName(store, Virtual(Kubernetes))
      BY <1>0, PairsAreComplete DEF Existing, Virtual
    <3> QED BY <1>0, <2>1, <3>1, StoreIsTable
  <2> QED BY SMTT(30), <1>a, <2>1, <2>3, <2>4, ForgetStep
<1>8. CASE RepairDeleteFails
  <2>1. Existing \in Pairs
    BY Zenon, <1>0, <1>8, ResolvedType DEF RepairDeleteFails
  <2>2. backend' = backend \/ backend' = Remove(backend, Existing)
    BY <1>8 DEF RepairDeleteFails, FailedWrite
  <2>3. StartOver(backend')
    BY <1>8 DEF RepairDeleteFails
  <2> QED BY <1>2, <2>1, <2>2, <2>3
<1>9. ASSUME NEW m \in dropping, RepairDrop(m) PROVE [Table!Next]_(Table!vars)
  <2>1. store' = DeleteReferenceFrom(store, fixing, m) /\ UNCHANGED <<stage, fixing>>
    BY <1>9 DEF RepairDrop
  <2>2. InUse(store') \subseteq InUse(store)
    BY Zenon, <1>0, <2>1, RemovalNames
  <2> QED BY <1>a, <2>1, <2>2, ForgetStep DEF Extra
<1>10. CASE RepairAdd \/ RepairDone \/ StartControllers
  <2>1. store' = store /\ Extra' = {}
    BY <1>10 DEF RepairAdd, RepairDone, StartControllers, Extra
  <2> QED BY <1>a, <2>1, ForgetStep
<1>11. CASE Collect
  <2>1. UNCHANGED <<stage, fixing>> /\ (store' = store \/ store' = RemoveMapping(store, gc.at))
    BY <1>11 DEF Collect
  <2>2. gc.at \in Pairs
    BY <1>11 DEF Collect, Inv, TypeInv, TypeOK
  <2>3. InUse(store') \subseteq InUse(store)
    BY Zenon, <1>0, <2>1, <2>2, RemovalNames
  <2> QED BY <1>a, <2>1, <2>3, ForgetStep DEF Extra
<1>12. CASE Restart
  BY <1>2, <1>12 DEF Restart
<1>13. CASE \/ \E b \in Owners : \/ \E o \in VirtualObjects : ResolveVirtual(o, b)
                                 \/ \E o \in HostObjects : ResolveHost(o, b)
                                 \/ Close(b)
            \/ \E o \in VirtualObjects : MigrateVirtual(o)
            \/ \E o \in HostObjects : MigrateHost(o)
            \/ CopyMappings \/ CheckHost \/ (\E m \in gc.todo : CheckVirtual(m))
            \/ \E o \in Volatile : Appear(o) \/ Disappear(o)
            \/ UNCHANGED vars
  <2>1. UNCHANGED <<store, stage, fixing>>
    BY Zenon, <1>13 DEF ResolveVirtual, ResolveHost, Close, MigrateVirtual, MigrateHost, CopyMappings,
                 CheckHost, CheckVirtual, Appear, Disappear, vars
  <2> QED BY <1>1, <2>1
<1> QED
  BY Zenon, <1>3, <1>4, <1>5, <1>6, <1>7, <1>8, <1>9, <1>10, <1>11, <1>12, <1>13 DEF Next

\* To its callers the store is a one-to-one table, for any number of them: no step gives a
\* name in use to another object, and a restart brings back no name but the one whose
\* removal is not saved yet (AddReference, DeleteMapping, servicesMapper.Migrate, start).
THEOREM StoreImplementsNameTable ==
    ASSUME OwnersAgree, KubernetesTranslated, BackendsAgree
    PROVE  Spec => ImplementsNameTable
<1>1. Init => Table!Init
  <2> SUFFICES ASSUME Init PROVE Table!Init
    OBVIOUS
  <2>1. Inv /\ stage # "drop"
    BY InvInit DEF Init
  <2>2. StoreOK(store) /\ Exact(store)
    BY <2>1 DEF Inv, TypeInv
  <2> QED BY <2>1, <2>2, StoreIsTable DEF Table!Init
<1>2. Spec => []Inv
  BY InvAlways
<1>3. Inv /\ Inv' /\ [Next]_vars => [Table!Next]_(Table!vars)
  BY TableStep
<1> QED BY <1>1, <1>2, <1>3, PTL DEF Spec, ImplementsNameTable, Table!Spec

=============================================================================
