------------------------------ MODULE Manifest ------------------------------
(***************************************************************************)
(* A manifest from the command line to a running Pod: Init generates one,   *)
(* ParseDeployment accepts it and extracts a Pod and an optional Service,   *)
(* and the agent of every node parses, transforms and checks both again     *)
(* before it runs them (internal/manifest, internal/cli/cmd/deploy.go,      *)
(* internal/agent/staticpod).                                               *)
(*                                                                          *)
(* A path is the sequence of its components.  An image is a string of       *)
(* Images; Parse normalises the ones with a shorthand.  The index holds the *)
(* deployments of one NodeGroup; the commit itself is DeploymentIndex and   *)
(* the files on the node are Reconciler.                                    *)
(***************************************************************************)
EXTENDS Naturals, Sequences, FiniteSets, SequencesExt, TLC

CONSTANTS
    NodeGroup,     \* the node group of the index
    InvalidIDs,    \* the strings ValidID and ValidNamespace refuse
    NonStrings,    \* the identifiers YAML reads as a boolean, a number or null
    Normal,        \* the accepted images, each with its full reference
    Stored,        \* the <<provider, namespace, Pod, key>> a secret store holds
    Files,         \* the streams operators write, with the --image overrides
    Options,       \* the options operators give the built-in manifest
    MaxCommands    \* bound on the commands that read or write a manifest

ASSUME ManifestAssumption ==
    /\ \A i \in DOMAIN Normal : Normal[i] \in DOMAIN Normal
    /\ NodeGroup \notin InvalidIDs

VARIABLES
    index,      \* the committed deployments: name -> [pod, service]
    generated,  \* the outcome of the last built-in manifest that Init wrote
    running,    \* the node's Pods: name -> [pod, service]
    healthy,    \* the reconciler's health
    commands

vars == <<index, generated, running, healthy, commands>>

Providers == <<"aws-parameter-store", "aws-secrets-manager">>

IdentityMountPath == <<"var", "run", "secrets", "podmin.dev", "tls">>

runtimeHostRoot == <<"run", "podmin">>

IdentityVolume(pod) ==
    [name |-> "podmin-identity", host |-> runtimeHostRoot \o <<"workloads", pod, "identity">>]

IdentityMount == [name |-> "podmin-identity", path |-> IdentityMountPath, readOnly |-> TRUE]

Refused == [ok |-> FALSE]

Accepted(value) == [ok |-> TRUE, value |-> value]

ValidID(value) == value \notin InvalidIDs

NoDuplicates(s) == \A i, j \in DOMAIN s : s[i] = s[j] => i = j

Default(value, fallback) == IF value = "" THEN fallback ELSE value

All(pod) == pod.containers \o pod.inits

NamesOf(s) == [i \in DOMAIN s |-> s[i].name]

(***************************************************************************)
(* Images.                                                                  *)
(***************************************************************************)
\* An override is [container, image]; a bare one names no container.
overrides(pod, images) ==
    LET bare == SelectSeq(images, LAMBDA o : o.container = "")
        named == SelectSeq(images, LAMBDA o : o.container # "")
    IN  /\ Len(bare) <= 1
        /\ bare = <<>> \/ named = <<>>
        /\ bare # <<>> => Len(pod.containers) = 1
        /\ NoDuplicates([i \in DOMAIN named |-> named[i].container])
        /\ \A i \in DOMAIN images : images[i].image # ""
        /\ \A i \in DOMAIN named : named[i].container \in ToSet(NamesOf(All(pod)))

Overridden(pod, c, images) ==
    LET mine == SelectSeq(images, LAMBDA o : o.container = c.name
                    \/ (o.container = "" /\ c.name = Head(pod.containers).name))
    IN  IF mine = <<>> THEN c.image ELSE Head(mine).image

(***************************************************************************)
(* The workload identity mount.                                             *)
(***************************************************************************)
\* Mutant of pathsOverlap: only equal paths overlap.
pathsOverlapEqual(a, b) == a = b

pathsOverlap(a, b) == IsPrefix(a, b) \/ IsPrefix(b, a)

Touches(m) == m.name = "podmin-identity" \/ pathsOverlap(m.path, IdentityMountPath)

IdentityAllowed(pod) ==
    LET mine == SelectSeq(pod.volumes, LAMBDA v : v.name = "podmin-identity")
    IN  /\ mine \in {<<>>, <<IdentityVolume(pod.name)>>}
        /\ \A v \in ToSet(pod.volumes) : v.name # "podmin-identity" => ~IsPrefix(runtimeHostRoot, v.host)
        /\ \A c \in ToSet(All(pod)) :
             SelectSeq(c.mounts, Touches) \in {<<>>, <<IdentityMount>>}

injectIdentity(pod) ==
    LET mounted(c) == IF IdentityMount \in ToSet(c.mounts) THEN c
                      ELSE [c EXCEPT !.mounts = Append(@, IdentityMount)]
        own == IdentityVolume(pod.name)
    IN  [pod EXCEPT !.volumes = IF own \in ToSet(@) THEN @ ELSE Append(@, own),
                    !.containers = [i \in DOMAIN @ |-> mounted(@[i])],
                    !.inits = [i \in DOMAIN @ |-> mounted(@[i])]]

transformPod(pod, images) ==
    LET image(c) == Overridden(pod, c, images)
        normal(c) == [c EXCEPT !.image = Normal[image(c)]]
        all == All(pod)
    IN  IF /\ ValidID(pod.name)
           /\ pod.containers # <<>>
           /\ \A c \in ToSet(all) : ValidID(c.name)
           /\ NoDuplicates(NamesOf(all))
           /\ overrides(pod, images)
           /\ \A c \in ToSet(all) : image(c) \in DOMAIN Normal
           /\ IdentityAllowed(pod)
        THEN Accepted(injectIdentity([pod EXCEPT
                 !.containers = [i \in DOMAIN @ |-> normal(@[i])],
                 !.inits = [i \in DOMAIN @ |-> normal(@[i])]]))
        ELSE Refused

(***************************************************************************)
(* Services.  A port of a document has its target as a sequence: empty when *)
(* the field is left out, and <<0>> when it is null or not an integer.      *)
(***************************************************************************)
MaxPort == 65535

Port(p) ==
    [name |-> p.name, protocol |-> Default(p.protocol, "TCP"), port |-> p.port,
     target |-> IF p.target = <<>> THEN p.port ELSE Head(p.target)]

ValidPort(p) ==
    /\ p.protocol \in {"TCP", "UDP"}
    /\ p.port \in 1 .. MaxPort
    /\ p.target \in 1 .. MaxPort

\* The document parseService writes for the Service it read.
Canonical(s) ==
    [s EXCEPT !.ports = [i \in DOMAIN @ |-> [@[i] EXCEPT !.target = <<@>>]]]

parseService(d) ==
    LET ports == [i \in DOMAIN d.ports |-> Port(d.ports[i])]
        namespace == Default(d.namespace, "default")
    IN  IF /\ ValidID(d.name)
           /\ ValidID(namespace)
           /\ d.selector # {}
           /\ ports # <<>>
           /\ \A p \in ToSet(ports) : ValidPort(p)
           /\ NoDuplicates([i \in DOMAIN ports |-> <<ports[i].protocol, ports[i].port>>])
        THEN Accepted([name |-> d.name, namespace |-> namespace, selector |-> d.selector,
                       ports |-> ports])
        ELSE Refused

(***************************************************************************)
(* ParseDeployment.  A stream is the sequence of its documents, each        *)
(* [kind, strict, body]; strict says that validateYAML and decodeStrict     *)
(* take it.  The annotations are the ones Podmin reads; a key list is the   *)
(* sequence of its comma-separated keys.                                    *)
(***************************************************************************)
OfKind(stream, kind) == SelectSeq(stream, LAMBDA d : d.kind = kind)

\* The Pod of the DaemonSet's template.
Extracted(ds) ==
    [name |-> ds.name, namespace |-> Default(ds.namespace, "default"),
     annotations |-> ds.annotations, containers |-> ds.containers,
     inits |-> ds.inits, volumes |-> ds.volumes]

Targets(ds, nodeGroup) ==
    /\ ds.nodeSelector = {<<"podmin.dev/nodegroup", nodeGroup>>}
    /\ ~ds.scheduling

ParseDeployment(stream, images, expectedName, nodeGroup) ==
    LET sets == OfKind(stream, "DaemonSet")
        services == OfKind(stream, "Service")
        ds == Head(sets).body
        pod == transformPod(Extracted(ds), images)
        service == parseService(Head(services).body)
        annotated == [pod.value EXCEPT !.annotations.service = service.value.name]
    IN  IF \/ \E i \in DOMAIN stream : ~stream[i].strict
           \/ Len(sets) # 1
           \/ Len(services) > 1
           \/ Len(sets) + Len(services) # Len(stream)
           \/ ds.name # expectedName \/ ~ValidID(ds.name)
           \/ ~ValidID(Extracted(ds).namespace)
           \/ ~Targets(ds, nodeGroup)
           \/ ~pod.ok
        THEN Refused
        ELSE IF services = <<>>
        THEN Accepted([pod |-> pod.value, service |-> <<>>])
        ELSE IF service.ok /\ service.value.namespace = pod.value.namespace
        THEN Accepted([pod |-> annotated, service |-> <<Canonical(service.value)>>])
        ELSE Refused

(***************************************************************************)
(* Init, the built-in manifest.                                             *)
(***************************************************************************)
\* The variables Init gives a container of a workload with a Service.
BuiltInEnv(image) ==
    {"TLS_CERT_FILE", "TLS_KEY_FILE"} \cup (IF Normal[image] = "apps/hello" THEN {"PORT"} ELSE {})

DistinctPorts(ports) == NoDuplicates([i \in DOMAIN ports |-> ports[i].port])

InitPorts(o) ==
    IF o.service /\ o.ports = <<>> THEN <<[port |-> 443, target |-> 8443]>> ELSE o.ports

\* The Pod of the template, before transformPod.
InitPod(o) ==
    [name |-> o.name, namespace |-> "",
     annotations |-> [service |-> "", keys |-> [p \in ToSet(Providers) |->
                          IF p = o.provider THEN o.secretKeys ELSE <<>>]],
     containers |-> [i \in DOMAIN o.images |->
                        [name |-> Default(o.images[i].container, o.name),
                         image |-> o.images[i].image, mounts |-> <<>>]],
     inits |-> <<>>, volumes |-> <<>>]

InitAllowed(o) ==
    /\ ValidID(o.name) /\ ValidID(o.nodeGroup) /\ ValidID(o.namespace)
    /\ o.images # <<>>
    /\ o.service => Len(o.images) = 1
    /\ "other" \notin o.limits
    /\ ~o.service => o.ports = <<>>
    /\ \A p \in ToSet(InitPorts(o)) : p.port \in 1 .. MaxPort /\ p.target \in 1 .. MaxPort
    /\ DistinctPorts(InitPorts(o))
    /\ transformPod(InitPod(o), <<>>).ok
    /\ o.service => \A c \in ToSet(InitPod(o).containers) : o.env \cap BuiltInEnv(c.image) = {}
    /\ o.secretKeys # <<>> => o.provider \in ToSet(Providers)

\* The DaemonSet goes through the serializer, which quotes what it must; the
\* Service is printed with its name and namespace unquoted.
InitStream(o) ==
    LET pod == transformPod(InitPod(o), <<>>).value
        ports == InitPorts(o)
        ds == [name |-> o.name, namespace |-> o.namespace, scheduling |-> FALSE,
               nodeSelector |-> {<<"podmin.dev/nodegroup", o.nodeGroup>>},
               annotations |-> pod.annotations, containers |-> pod.containers,
               inits |-> pod.inits, volumes |-> pod.volumes]
        service == [name |-> o.name, namespace |-> o.namespace, selector |-> {<<"app", o.name>>},
                    ports |-> [i \in DOMAIN ports |->
                                  [name |-> IF Len(ports) > 1 THEN "tcp" ELSE "", protocol |-> "TCP",
                                   port |-> ports[i].port, target |-> <<ports[i].target>>]]]
    IN  <<[kind |-> "DaemonSet", strict |-> TRUE, body |-> ds]>> \o
        (IF o.service
         THEN <<[kind |-> "Service", strict |-> {o.name, o.namespace} \cap NonStrings = {},
                 body |-> service]>>
         ELSE <<>>)

(***************************************************************************)
(* The agent.                                                               *)
(***************************************************************************)
ValidKeys(keys) == NoDuplicates(keys) /\ \A k \in ToSet(keys) : ValidID(k)

\* A mount at the root has no components; with its separator added it is "//", a prefix of nothing.
mountPathOverlaps(a, b) == a = b \/ (a # <<>> /\ IsPrefix(a, b)) \/ (b # <<>> /\ IsPrefix(b, a))

\* The reserved volume of each provider.
ProviderVolume ==
    "aws-parameter-store" :> "podmin-aws-parameter-store" @@
    "aws-secrets-manager" :> "podmin-aws-secrets-manager"

ProviderMount(provider) ==
    [name |-> ProviderVolume[provider], path |-> <<"var", "run", "podmin", provider>>, readOnly |-> TRUE]

Reserved(pod, provider) ==
    \/ ProviderVolume[provider] \in ToSet(NamesOf(pod.volumes))
    \/ \E c \in ToSet(All(pod)) : \E m \in ToSet(c.mounts) :
          mountPathOverlaps(m.path, ProviderMount(provider).path)

injectProviderMount(pod, provider) ==
    LET mounted(c) == [c EXCEPT !.mounts = Append(@, ProviderMount(provider))]
    IN  [pod EXCEPT
          !.volumes = Append(@, [name |-> ProviderVolume[provider],
                                 host |-> runtimeHostRoot \o <<"workloads", pod.name, provider>>]),
          !.containers = [i \in DOMAIN @ |-> mounted(@[i])],
          !.inits = [i \in DOMAIN @ |-> mounted(@[i])]]

Provided(result, provider) ==
    LET pod == result.value
        keys == pod.annotations.keys[provider]
    IN  IF ~result.ok \/ keys = <<>> THEN result
        ELSE IF \/ Reserved(pod, provider)
                \/ \E k \in ToSet(keys) : <<provider, pod.namespace, pod.name, k>> \notin Stored
        THEN Refused
        ELSE Accepted(injectProviderMount(pod, provider))

build(input) ==
    LET pod == transformPod(input, <<>>)
    IN  IF pod.ok /\ \A p \in ToSet(Providers) : ValidKeys(pod.value.annotations.keys[p])
        THEN FoldLeft(Provided, pod, Providers)
        ELSE Refused

\* The Service a deployment of the index carries, as the agent reads it.
ReadService(d) == parseService(Head(d.service))

\* The checks of one deployment under its name in the index.
DeploymentTaken(name, d) ==
    LET pod == build(d.pod)
        service == ReadService(d)
    IN  /\ pod.ok
        /\ pod.value.name = name
        /\ IF d.service = <<>> THEN pod.value.annotations.service = ""
           ELSE /\ service.ok
                /\ pod.value.annotations.service = service.value.name
                /\ pod.value.namespace = service.value.namespace

WithService(deployments) == {n \in DOMAIN deployments : deployments[n].service # <<>>}

ServiceIdentity(d) == <<ReadService(d).value.namespace, ReadService(d).value.name>>

ServicesDistinct(deployments) ==
    \A m, n \in WithService(deployments) :
        ServiceIdentity(deployments[m]) = ServiceIdentity(deployments[n]) => m = n

(***************************************************************************)
(* The commands and the agent's pass.                                       *)
(***************************************************************************)
Commit(name, deployment) == index' = (name :> deployment) @@ index

Command == commands < MaxCommands /\ commands' = commands + 1

\* deploy --file: the stream as it is, with the overrides of the command line.
DeployFile(f) ==
    LET parsed == ParseDeployment(f.stream, f.images, f.name, NodeGroup)
    IN  /\ Command
        /\ parsed.ok
        /\ f.service => parsed.value.service # <<>>
        /\ Commit(f.name, parsed.value)
        /\ UNCHANGED <<generated, running, healthy>>

\* deploy without --file: what Init writes is parsed like a file.
DeployBuiltIn(o) ==
    LET parsed == ParseDeployment(InitStream(o), <<>>, o.name, NodeGroup)
    IN  /\ Command
        /\ o.namespace = "default"
        /\ ValidKeys(o.secretKeys)
        /\ InitAllowed(o)
        /\ generated' = [options |-> o, parsed |-> parsed]
        /\ IF parsed.ok THEN Commit(o.name, parsed.value) ELSE UNCHANGED index
        /\ UNCHANGED <<running, healthy>>

\* init writes a file, validate reads it.
InitThenValidate(o) ==
    /\ Command
    /\ o.env = {} /\ o.secretKeys = <<>> /\ o.ports = <<>> /\ o.limits = {}
    /\ InitAllowed(o)
    /\ generated' = [options |-> o,
                     parsed |-> ParseDeployment(InitStream(o), <<>>, o.name, o.nodeGroup)]
    /\ UNCHANGED <<index, running, healthy>>

Delete(name) ==
    /\ index' = [n \in DOMAIN index \ {name} |-> index[n]]
    /\ UNCHANGED <<generated, running, healthy, commands>>

\* One refused deployment refuses the whole node group.
Reconcile ==
    /\ healthy' = /\ \A n \in DOMAIN index : DeploymentTaken(n, index[n])
                  /\ ServicesDistinct(index)
    /\ running' = IF healthy'
                  THEN [n \in DOMAIN index |->
                          [pod |-> build(index[n].pod).value,
                           service |-> IF index[n].service = <<>> THEN <<>>
                                       ELSE <<ReadService(index[n]).value>>]]
                  ELSE running
    /\ UNCHANGED <<index, generated, commands>>

Init ==
    /\ index = <<>>
    /\ generated = <<>>
    /\ running = <<>>
    /\ healthy = TRUE
    /\ commands = 0

Next ==
    \/ \E f \in Files : DeployFile(f)
    \/ \E o \in Options : DeployBuiltIn(o)
    \/ \E o \in Options : InitThenValidate(o)
    \/ \E n \in DOMAIN index : Delete(n)
    \/ Reconcile

Spec == Init /\ [][Next]_vars

(***************************************************************************)
(* Properties.                                                              *)
(***************************************************************************)
\* What Init writes, validate and deploy accept, and they leave the Pod it
\* describes as it was: the two halves of manifest.go agree on names, ports,
\* images, the identity mount and the Service (Init, ParseDeployment).
GeneratedAccepted ==
    generated # <<>> =>
        /\ generated.parsed.ok
        /\ generated.parsed.value.pod.containers
             = transformPod(InitPod(generated.options), <<>>).value.containers

\* The reasons an agent may have to refuse what deploy committed: a key list
\* deploy does not read, a mount or a volume of a provider, a secret that is not
\* there, and an annotation naming a Service the stream does not have.
Excused(name) ==
    LET pod == index[name].pod
    IN  \/ \E p \in ToSet(Providers) :
             LET keys == pod.annotations.keys[p]
             IN  keys # <<>> /\ (~ValidKeys(keys) \/ Reserved(pod, p)
                   \/ \E k \in ToSet(keys) : <<p, pod.namespace, pod.name, k>> \notin Stored)
        \/ index[name].service = <<>> /\ pod.annotations.service # ""

\* An agent refuses a committed deployment only for one of those reasons: every
\* other check of the agent's second parse (transformPod on transformPod's own
\* output, the Service read back from its canonical form, the annotation against
\* the Service) has already been passed on the command line.
RefusalsExplained ==
    \A n \in DOMAIN index : DeploymentTaken(n, index[n]) \/ Excused(n)

\* Every container of a running Pod mounts the identity of its own Pod exactly
\* once, and no other mount lies above or below it, whatever the manifest said
\* and after both transformations and the provider mounts (injectIdentity,
\* injectProviderMount).
IdentityMounted ==
    \A n \in DOMAIN running :
        LET pod == running[n].pod
        IN  /\ SelectSeq(pod.volumes, LAMBDA v : v.name = "podmin-identity") = <<IdentityVolume(n)>>
            /\ \A c \in ToSet(All(pod)) :
                 SelectSeq(c.mounts, LAMBDA m : IsPrefix(m.path, IdentityMountPath)
                                             \/ IsPrefix(IdentityMountPath, m.path)) = <<IdentityMount>>

\* No two running Pods define one Service, and a Pod's Service is in its
\* namespace and is the one its annotation names: the endpoints of a Service come
\* from one deployment.
ServicesOwned ==
    /\ \A m, n \in WithService(running) :
         LET a == Head(running[m].service)
             b == Head(running[n].service)
         IN  <<a.namespace, a.name>> = <<b.namespace, b.name>> => m = n
    /\ \A n \in WithService(running) :
         /\ Head(running[n].service).name = running[n].pod.annotations.service
         /\ Head(running[n].service).namespace = running[n].pod.namespace

\* The parsers of one manifest agree: the generator with the command line, the command
\* line with the agent, and the agent with the identity and the Service it runs.
ManifestsAgree == GeneratedAccepted /\ RefusalsExplained /\ IdentityMounted /\ ServicesOwned
====
