----------------------------- MODULE MCManifest -----------------------------
(***************************************************************************)
(* Manifest on an ordinary stream and the streams that differ from it in    *)
(* one document field, and on the built-in manifest and the options that    *)
(* differ from the plain ones in one or two.                                *)
(***************************************************************************)
EXTENDS Manifest

MCInvalidIDs == {"", "Bad"}

MCNormal ==
    "hello" :> "apps/hello" @@ "apps/hello" :> "apps/hello" @@ "mirror/envoy" :> "mirror/envoy"

MCStored ==
    {<<p, "default", n, "token">> : p \in ToSet(Providers), n \in {"web", "api"}}

Keys(p, s) == "aws-parameter-store" :> p @@ "aws-secrets-manager" :> s

NoKeys == Keys(<<>>, <<>>)

Container(n) == [name |-> n, image |-> "hello", mounts |-> <<>>]

Mounting(m) == [Container("app") EXCEPT !.mounts = m]

Mount(n, path) == [name |-> n, path |-> path, readOnly |-> TRUE]

Set(n) ==
    [name |-> n, namespace |-> "", scheduling |-> FALSE,
     nodeSelector |-> {<<"podmin.dev/nodegroup", NodeGroup>>},
     annotations |-> [service |-> "", keys |-> NoKeys],
     containers |-> <<Container("app")>>, inits |-> <<>>, volumes |-> <<>>]

SetVariants(n) ==
    {Set(n)}
    \cup {[Set(n) EXCEPT !.namespace = v] : v \in {"product", "Bad"}}
    \cup {[Set(n) EXCEPT !.scheduling = TRUE]}
    \cup {[Set(n) EXCEPT !.nodeSelector = v] : v \in {{}, {<<"podmin.dev/nodegroup", "other">>},
            {<<"podmin.dev/nodegroup", NodeGroup>>, <<"zone", "a">>}}}
    \cup {[Set(n) EXCEPT !.containers = v] :
            v \in {<<>>, <<Container("Bad")>>, <<Container("app"), Container("app")>>,
                   <<Container("app"), Container("side")>>,
                   <<[Container("app") EXCEPT !.image = "docker.io/nginx"]>>,
                   <<Mounting(<<IdentityMount>>)>>,
                   <<Mounting(<<IdentityMount, IdentityMount>>)>>,
                   <<Mounting(<<Mount("data", <<>>)>>)>>,
                   <<Mounting(<<Mount("data", <<"var", "run", "secrets">>)>>)>>,
                   <<Mounting(<<Mount("data", <<"var", "run", "podmin">>)>>)>>,
                   <<Mounting(<<[IdentityMount EXCEPT !.readOnly = FALSE]>>)>>}}
    \cup {[Set(n) EXCEPT !.inits = <<Container("setup")>>]}
    \cup {[Set(n) EXCEPT !.volumes = <<v>>] :
            v \in {IdentityVolume(n), IdentityVolume("other"),
                   [name |-> "data", host |-> <<"run", "podmin">>],
                   [name |-> "podmin-aws-parameter-store", host |-> <<"srv">>]}}

Annotated(n) ==
    {[d EXCEPT !.annotations.keys = k] : d \in {Set(n)}
        \cup {[Set(n) EXCEPT !.containers = <<Mounting(<<Mount("data", <<"var", "run", "podmin">>)>>)>>],
              [Set(n) EXCEPT !.volumes = <<[name |-> "podmin-aws-parameter-store", host |-> <<"srv">>]>>]},
        k \in {Keys(<<"token">>, <<>>), Keys(<<"token">>, <<"token">>), Keys(<<"token", "token">>, <<>>),
               Keys(<<>>, <<"absent">>)}}
    \cup {[Set(n) EXCEPT !.annotations.service = "front"]}

WirePort == [name |-> "", protocol |-> "", port |-> 80, target |-> <<>>]

Service == [name |-> "front", namespace |-> "", selector |-> {<<"app", "app">>}, ports |-> <<WirePort>>]

ServiceVariants ==
    {Service}
    \cup {[Service EXCEPT !.namespace = v] : v \in {"default", "product"}}
    \cup {[Service EXCEPT !.selector = {}], [Service EXCEPT !.name = "Bad"]}
    \cup {[Service EXCEPT !.ports = v] :
            v \in {<<>>, <<WirePort, WirePort>>, <<WirePort, [WirePort EXCEPT !.protocol = "UDP"]>>,
                   <<[WirePort EXCEPT !.protocol = "SCTP"]>>, <<[WirePort EXCEPT !.target = <<0>>]>>,
                   <<[WirePort EXCEPT !.target = <<MaxPort>>]>>, <<[WirePort EXCEPT !.port = MaxPort + 1]>>}}

Doc(kind, body) == [kind |-> kind, strict |-> TRUE, body |-> body]

Streams(n) ==
    {<<Doc("DaemonSet", d)>> : d \in SetVariants(n) \cup Annotated(n)}
    \cup {<<Doc("Service", s), Doc("DaemonSet", Set(n))>> : s \in ServiceVariants}
    \cup {<<Doc("DaemonSet", [Set(n) EXCEPT !.namespace = "product"]), Doc("Service", s)>> :
            s \in ServiceVariants}
    \cup {<<>>, <<Doc("Service", Service)>>, <<Doc("DaemonSet", Set(n)), Doc("DaemonSet", Set(n))>>,
          <<Doc("DaemonSet", Set(n)), Doc("Other", Set(n))>>,
          <<[Doc("DaemonSet", Set(n)) EXCEPT !.strict = FALSE]>>}

Image(c, i) == [container |-> c, image |-> i]

MCFiles ==
    LET file(n, s, i, f) == [name |-> n, stream |-> s, images |-> i, service |-> f]
    IN  {file("web", s, <<>>, FALSE) : s \in Streams("web")}
        \cup {file("web", <<Doc("DaemonSet", d)>>, i, FALSE) :
                d \in {Set("web"), [Set("web") EXCEPT !.containers = <<Container("app"), Container("side")>>]},
                i \in {<<Image("", "mirror/envoy")>>, <<Image("app", "mirror/envoy")>>,
                       <<Image("", "hello"), Image("app", "hello")>>, <<Image("gone", "hello")>>,
                       <<Image("side", "hello"), Image("side", "hello")>>, <<Image("app", "")>>}}
        \cup {file("web", <<Doc("DaemonSet", Set("web"))>>, <<>>, TRUE),
              file("api", <<Doc("DaemonSet", Set("web"))>>, <<>>, FALSE),
              file("api", <<Doc("DaemonSet", Set("api")), Doc("Service", Service)>>, <<>>, TRUE),
              file("api", <<Doc("DaemonSet", Set("api"))>>, <<>>, FALSE)}

Plain(n) ==
    [name |-> n, nodeGroup |-> NodeGroup, namespace |-> "default", images |-> <<Image("", "hello")>>,
     service |-> FALSE, env |-> {}, ports |-> <<>>, limits |-> {}, secretKeys |-> <<>>, provider |-> ""]

\* What an operator may ask of the built-in manifest.  Identifiers such as "true", "null"
\* and "2026" are valid too, but YAML does not read them as strings (NonStrings).
OptionsFor(names, namespaces) ==
    UNION {{[Plain(n) EXCEPT !.service = s, !.namespace = ns],
            [Plain(n) EXCEPT !.service = s, !.env = {"PORT"}],
            [Plain(n) EXCEPT !.service = s, !.limits = {"other"}],
            [Plain(n) EXCEPT !.service = s, !.images = <<Image("", "hello"), Image("side", "hello")>>],
            [Plain(n) EXCEPT !.service = s, !.images = <<Image("side", "mirror/envoy")>>],
            [Plain(n) EXCEPT !.service = s, !.images = <<Image("", "docker.io/nginx")>>],
            [Plain(n) EXCEPT !.service = s, !.secretKeys = <<"token">>, !.provider = "aws-parameter-store"],
            [Plain(n) EXCEPT !.service = s, !.ports = <<[port |-> 80, target |-> 80], [port |-> 81, target |-> 80]>>],
            [Plain(n) EXCEPT !.service = s, !.ports = <<[port |-> 80, target |-> 80], [port |-> 80, target |-> 81]>>]}
           : n \in names, ns \in namespaces, s \in BOOLEAN}

MCOptions == OptionsFor({"web", "api", "Bad"}, {"default", "product", "Bad"})
=============================================================================
