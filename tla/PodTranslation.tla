---------------------------- MODULE PodTranslation ----------------------------
(***************************************************************************)
(* What a pod finds on the host (pkg/controllers/resources/pods/translate):*)
(* the virtual pod of a setting is translated, the kubelet of the host     *)
(* runs what comes of it, and later edits of images and tolerations go     *)
(* through Diff. The reference is what a kubelet of the virtual cluster    *)
(* would give the pod: the same variables, files and names.                *)
(*                                                                         *)
(* A reference to an object or field names it, and says through which      *)
(* mapping it was translated; one that was not means an object of the host.*)
(***************************************************************************)
EXTENDS ControlPlaneParts, Integers, FiniteSets, SequencesExt

CONSTANTS
    SpecSetups,     \* the settings to explore, with their virtual pods
    MaxSpecEdits    \* bound on the edits

VARIABLES
    sheet,      \* the setting: how pods are translated, and the virtual pod
    vSpec,      \* what may change of the virtual pod: its images and tolerations
    pSpec,      \* the same of the host pod, and the containers that webhooks added
    specEdits   \* the number of edits

specVars == <<sheet, vSpec, pSpec, specEdits>>

PodOf == sheet.pod

Ref(n) == [name |-> n, as |-> "none"]
VirtualToHostName(r, kind) == [r EXCEPT !.as = kind]

\* What is behind a reference: an object of the vCluster, or something else.
Content(kind, n, ours) == [kind |-> kind, name |-> n, ours |-> ours]
InVirtual(kind, r) == Content(kind, r.name, TRUE)

-----------------------------------------------------------------------------
(* Fields of the pod                                                         *)

\* Fields that the host pod has in common with the virtual pod.
SharedFields == {"status.podIP", "spec.nodeName", "metadata.annotations"}

\* translateFieldRef, for which Translate sets the annotations.
AnnotatedFields == {"metadata.labels", "metadata.name", "metadata.namespace", "metadata.uid", "spec.serviceAccountName"}
translateFieldRef(r) ==
    CASE r.name = "metadata.labels['app']" -> VirtualToHostName(r, "label")
      [] r.name \in AnnotatedFields -> VirtualToHostName(r, "annotation")
      [] OTHER -> r

\* What the kubelet of the host reads.
OnHost(kind, r) ==
    IF kind = "field" THEN Content(kind, r.name, r.name \in SharedFields \/ r.as \in {"label", "annotation"})
    ELSE Content(kind, r.name, r.as = kind)

translateRef(kind, r) == IF kind = "field" THEN translateFieldRef(r) ELSE VirtualToHostName(r, kind)

-----------------------------------------------------------------------------
(* Variables: a later entry goes before an earlier one, entries before        *)
(* sources, and both before the Services.                                     *)

LastThat(s, Test(_)) == CHOOSE i \in DOMAIN s : Test(s[i]) /\ \A j \in DOMAIN s : Test(s[j]) => j <= i

Variables(env, from, services, cluster) ==
    LET Read(kind, r) == IF cluster = "host" THEN OnHost(kind, r) ELSE InVirtual(kind, r)
    IN [v \in {env[i].name : i \in DOMAIN env} \cup UNION {from[i].keys : i \in DOMAIN from} \cup DOMAIN services |->
        LET InEnv(e) == e.name = v
            InFrom(f) == v \in f.keys
        IN IF \E i \in DOMAIN env : InEnv(env[i])
           THEN LET e == env[LastThat(env, InEnv)]
                IN IF e.kind = "value" THEN Content("value", e.ref.name, TRUE) ELSE Read(e.kind, e.ref)
           ELSE IF \E i \in DOMAIN from : InFrom(from[i])
           THEN Read(from[LastThat(from, InFrom)].kind, from[LastThat(from, InFrom)].ref)
           ELSE services[v]]

\* Headless Services have none; kubernetes always has.
ServiceVariables ==
    {s.name : s \in {t \in PodOf.services : PodOf.links /\ t.ip}} \cup {"KUBERNETES"}

\* Services in place of variables of the pod (a faulty TranslateContainerEnv).
TranslateContainerEnvLast(env) ==
    [i \in DOMAIN env |-> [env[i] EXCEPT !.ref = translateRef(env[i].kind, @)]]
    \o SetToSeq({[name |-> s, kind |-> "value", ref |-> Ref(s)] : s \in ServiceVariables})

\* The Services become variables of the pod, before its own.
TranslateContainerEnv(env) ==
    SetToSeq({[name |-> s, kind |-> "value", ref |-> Ref(s)] :
                 s \in ServiceVariables \ {env[i].name : i \in DOMAIN env}})
    \o [i \in DOMAIN env |-> [env[i] EXCEPT !.ref = translateRef(env[i].kind, @)]]

TranslateEnvFrom(from) == [i \in DOMAIN from |-> [from[i] EXCEPT !.ref = VirtualToHostName(@, from[i].kind)]]

VirtualVariables ==
    Variables(PodOf.env, PodOf.from, [s \in ServiceVariables |-> Content("value", s, TRUE)], "virtual")
HostVariables ==
    Variables(TranslateContainerEnv(PodOf.env), TranslateEnvFrom(PodOf.from),
              [s \in {"KUBERNETES"} |-> Content("value", "host", FALSE)], "host")

-----------------------------------------------------------------------------
(* Volumes: their sources, each with the path at which it is found. A volume *)
(* that is not projected has one.                                            *)

\* The tokens, which the syncer asks for, go to a Secret with one key for every volume, or to
\* annotations of their own.
tokenSecrets == [n \in {v.name : v \in Range(PodOf.volumes)} |->
    LET v == CHOOSE w \in Range(PodOf.volumes) : w.name = n
        IsToken(s) == s.kind = "token"
    IN IF \E i \in DOMAIN v.sources : IsToken(v.sources[i]) THEN v.sources[LastThat(v.sources, IsToken)].ref.name ELSE "none"]

TranslateToken(volume, s) ==
    IF sheet.secrets THEN [s EXCEPT !.ref = [name |-> volume.name, as |-> "key"]]
    ELSE [s EXCEPT !.ref = [name |-> s.ref.name, as |-> "annotation"]]

translateSource(volume, s) ==
    CASE s.kind = "token" -> TranslateToken(volume, s)
      [] s.kind = "hostPath" -> s
      [] OTHER -> [s EXCEPT !.ref = translateRef(s.kind, @)]

\* An ephemeral volume becomes a claim that the virtual cluster makes; what the drivers need
\* are Secrets.
translateVolume(volume) ==
    [volume EXCEPT !.sources = [i \in DOMAIN @ |->
        translateSource(volume, IF @[i].kind = "ephemeral" THEN [@[i] EXCEPT !.kind = "persistentVolumeClaim"] ELSE @[i])]]

\* The claim of an ephemeral volume has a name of its own.
VirtualFiles(volume) ==
    {<<s.path, InVirtual(IF s.kind = "ephemeral" THEN "persistentVolumeClaim" ELSE s.kind, s.ref)>> : s \in Range(volume.sources)}
HostSource(s) ==
    CASE s.kind = "token" /\ s.ref.as = "key" -> Content("token", tokenSecrets[s.ref.name], TRUE)
      [] s.kind = "token" /\ s.ref.as # "key" -> Content("token", s.ref.name, s.ref.as = "annotation")
      [] s.kind = "hostPath" -> Content("hostPath", s.ref.name, TRUE)
      [] OTHER -> OnHost(s.kind, s.ref)
HostFiles(volume) == {<<s.path, HostSource(s)>> : s \in Range(translateVolume(volume).sources)}

-----------------------------------------------------------------------------
(* Host paths: logs and kubelet directories are replaced by those of the     *)
(* vCluster; the mapper, where it is deployed, needs the real ones as well.  *)

HostPathOf(volume) == IF volume.sources[1].kind = "hostPath" THEN volume.sources[1].ref.name ELSE "none"
MappedPaths == {"/var/log/pods", "/var/lib/kubelet/pods", "/var/log"}
MappedVolumes(path) == {i \in DOMAIN PodOf.volumes : HostPathOf(PodOf.volumes[i]) = path}

\* The first such volume that the container mounts brings a mount for each of its mounts.
PhysicalMounts(path) ==
    LET used == {i \in MappedVolumes(path) : \E m \in Range(PodOf.mounts) : m.volume = PodOf.volumes[i].name}
        first == PodOf.volumes[CHOOSE i \in used : \A j \in used : i <= j].name
    IN IF ~sheet.mapper \/ used = {} THEN <<>>
       ELSE [m \in DOMAIN SelectSeq(PodOf.mounts, LAMBDA m : m.volume = first) |-> path]

-----------------------------------------------------------------------------
(* Names                                                                     *)

\* resolv.conf of a pod, given its policy and the defaults of its cluster: in a virtual cluster
\* without the domains of the node.
Resolver(policy, hostNetwork, config, cluster) ==
    LET first == policy = "ClusterFirstWithHostNet" \/ (policy = "ClusterFirst" /\ ~hostNetwork)
        servers == IF policy = "None" THEN <<>> ELSE IF first THEN <<cluster.server>> ELSE <<"node">>
        searches == IF first THEN cluster.searches ELSE <<>>
    IN [servers |-> Range(servers \o config.servers), searches |-> Range(searches \o config.searches)]

VirtualDNS == [server |-> "virtual", searches |-> <<"ns.svc.domain", "svc.domain", "domain">>]
HostDNS == [server |-> "host", searches |-> <<"vcluster.svc.domain", "svc.domain", "domain">>]

translateDNSConfig ==
    IF ~(PodOf.dnsPolicy = "ClusterFirstWithHostNet" \/ (PodOf.dnsPolicy = "ClusterFirst" /\ ~PodOf.hostNetwork))
    THEN [policy |-> PodOf.dnsPolicy, config |-> PodOf.dnsConfig]
    ELSE [policy |-> "None", config |-> [servers |-> <<VirtualDNS.server>> \o PodOf.dnsConfig.servers,
                                         searches |-> VirtualDNS.searches \o PodOf.dnsConfig.searches]]

\* The full name of the pod in /etc/hosts, which an init container writes for all containers
\* where a subdomain is given.
PodFullName == IF PodOf.subdomain THEN "host.sub.ns.svc.domain" ELSE "host"
rewritePodHostnameFQDN == IF PodOf.subdomain /\ sheet.overrideHosts THEN "host.sub.ns.svc.domain" ELSE "host"

-----------------------------------------------------------------------------
(* Priority                                                                  *)

maxPriority == 2

\* The name and number of the class; -1 for none.
TranslatePriority ==
    CASE sheet.classes = "toHost" /\ PodOf.class # "" ->
            [class |-> "translated", priority |-> IF PodOf.priority > maxPriority THEN maxPriority ELSE PodOf.priority]
      [] sheet.classes = "none" -> [class |-> "", priority |-> -1]
      [] OTHER -> [class |-> PodOf.class, priority |-> PodOf.priority]
HostPriority ==
    IF sheet.defaultClass /\ TranslatePriority.class = "" THEN [class |-> "default", priority |-> -1] ELSE TranslatePriority

\* The classes of the host: those of the virtual cluster have their numbers cut when they are
\* synced, "default" is the one that the configuration names, and there may be a global one.
HostClasses ==
    [c \in {"translated", "gold", "default", ""} |->
        CASE c = "translated" -> IF PodOf.priority > maxPriority THEN maxPriority ELSE PodOf.priority
          [] c = "gold" -> IF sheet.classes = "fromHost" THEN PodOf.priority ELSE 1
          [] c = "default" -> 1
          [] c = "" -> sheet.globalPriority]

\* Admission refuses a number that is not the one of the class.
Admitted == HostPriority.priority \in {-1, HostClasses[HostPriority.class]}

-----------------------------------------------------------------------------
(* Images and tolerations                                                    *)

Translate(image) == IF image \in DOMAIN sheet.images THEN sheet.images[image] ELSE image

SpecInit ==
    /\ sheet \in Settings("spec", SpecSetups)
    /\ vSpec = [images |-> [c \in {"init", "main"} |-> "a"], tolerations |-> {"t"}]
    /\ pSpec = [images |-> <<>>, tolerations |-> {}]
    /\ specEdits = 0

Created == pSpec.images # <<>>

\* Webhooks of the host add containers and tolerations.
CreateTranslatedPod ==
    /\ ~Created
    /\ pSpec' = [images |-> [c \in DOMAIN vSpec.images \cup sheet.injected \cup
                                   (IF PodOf.subdomain /\ sheet.overrideHosts THEN {"rewrite"} ELSE {}) |->
                                IF c \in DOMAIN vSpec.images THEN Translate(vSpec.images[c]) ELSE c],
                 tolerations |-> vSpec.tolerations \cup sheet.enforced \cup {"host"}]
    /\ UNCHANGED <<sheet, vSpec, specEdits>>

EditSpec ==
    /\ specEdits < MaxSpecEdits
    /\ specEdits' = specEdits + 1
    /\ \/ \E c \in DOMAIN vSpec.images, i \in {"a", "b"} : vSpec' = [vSpec EXCEPT !.images[c] = i]
       \/ vSpec' = [vSpec EXCEPT !.tolerations = @ \cup {"u"}]
    /\ UNCHANGED <<sheet, pSpec>>

\* calcContainerImageDiff: the containers that others added are lost where an image changes,
\* apart from our own; init containers are looked at by themselves.
calcContainerImageDiff(images) ==
    LET known == DOMAIN vSpec.images \cup {"rewrite"}
        changed == \E c \in DOMAIN vSpec.images : images[c] # Translate(vSpec.images[c])
    IN [c \in IF changed THEN DOMAIN images \cap known ELSE DOMAIN images |->
          IF c \in DOMAIN vSpec.images THEN Translate(vSpec.images[c]) ELSE images[c]]

NewTolerations == vSpec.tolerations \cup pSpec.tolerations \cup sheet.enforced

\* calcSpecDiff and the update, which the host refuses if a container or toleration is missing.
SyncSpec ==
    /\ Created
    /\ LET new == [images |-> calcContainerImageDiff(pSpec.images), tolerations |-> NewTolerations]
       IN /\ new # pSpec
          /\ pSpec' = IF DOMAIN new.images = DOMAIN pSpec.images /\ pSpec.tolerations \subseteq new.tolerations THEN new ELSE pSpec
    /\ UNCHANGED <<sheet, vSpec, specEdits>>

SpecNext == CreateTranslatedPod \/ EditSpec \/ SyncSpec

\* The syncer is woken by every edit.
SpecFairness == WF_specVars(part = "spec" /\ (CreateTranslatedPod \/ SyncSpec))

SpecTypeOK == specEdits \in 0..MaxSpecEdits

-----------------------------------------------------------------------------
\* A container has the variables that it would have in the virtual cluster: its own go before
\* those of Services, and what they refer to is found (TranslateContainerEnv,
\* ServicesToEnvironmentVariables). A Service takes the place of a source that has its name.
VariablesSame ==
    part = "spec" =>
        \A v \in DOMAIN VirtualVariables :
            \/ v \in DOMAIN HostVariables /\ HostVariables[v] = VirtualVariables[v]
            \/ v \in ServiceVariables /\ \E i \in DOMAIN PodOf.from : v \in PodOf.from[i].keys

\* The volumes have the same files, with the tokens of the right audience (translateVolumes,
\* translateProjectedVolume); two tokens in one volume that go through a Secret are not kept
\* apart.
FilesSame ==
    part = "spec" =>
        \A v \in Range(PodOf.volumes) :
            \/ HostFiles(v) = VirtualFiles(v)
            \/ sheet.secrets /\ Cardinality({s \in Range(v.sources) : s.kind = "token"}) > 1

\* No container gets two mounts at one place for the host path mapper, if it mounts a volume
\* once (rewriteHostPaths).
MountedOnce ==
    part = "spec" =>
        \A p \in MappedPaths :
            \/ Len(PhysicalMounts(p)) <= 1
            \/ \E i, j \in DOMAIN PodOf.mounts : i # j /\ PodOf.mounts[i].volume = PodOf.mounts[j].volume

\* Names are resolved as in the virtual cluster, and the pod has its full name where hosts are
\* rewritten (translateDNSConfig, rewritePodHostnameFQDN).
NamesResolve ==
    part = "spec" =>
        /\ Resolver(translateDNSConfig.policy, PodOf.hostNetwork, translateDNSConfig.config, HostDNS)
             = Resolver(PodOf.dnsPolicy, PodOf.hostNetwork, PodOf.dnsConfig, VirtualDNS)
        /\ sheet.overrideHosts => rewritePodHostnameFQDN = PodFullName

\* The host admits the priority of the pod (Translate), unless it has a global class, which
\* goes before the number that the pod comes with.
PriorityAdmitted == part = "spec" => Admitted \/ (sheet.globalPriority > 0 /\ HostPriority.class = "")

\* The host pod comes to have the tolerations and images of the virtual pod; the images not
\* where others added a container, which a change of images would lose (calcSpecDiff).
SpecFollows ==
    []<>(part # "spec"
         \/ (Created
             /\ (sheet.injected # {} \/ vSpec.tolerations \subseteq pSpec.tolerations)
             /\ \A c \in DOMAIN vSpec.images : pSpec.images[c] # Translate(vSpec.images[c]) => sheet.injected # {}))

\* A container sees on the host what its virtual pod says: variables, files, mounts
\* and names, with a priority the host accepts (Translate).
TranslationSame == VariablesSame /\ FilesSame /\ MountedOnce /\ NamesResolve /\ PriorityAdmitted

=============================================================================
