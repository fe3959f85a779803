------------------------------- MODULE Subnets -------------------------------
(***************************************************************************)
(* The subnets of a cluster: setup reads the VPC, keeps the ranges its       *)
(* subnets have, gives every new node group the first free IPv6 /64 and      *)
(* every new NAT64 zone also the last free IPv4 /28, and the infrastructure  *)
(* engine then creates, replaces and removes subnets one call at a time      *)
(* (internal/cloud/aws/compute.go, internal/cli/infra/aws/network.tf,        *)
(* nat64.tf).  Other clusters and other owners use the same VPC meanwhile.   *)
(*                                                                           *)
(* A /64 is its number in the VPC's /56 and a /28 its number in the VPC's    *)
(* IPv4 range.  A key is a node group or the NAT64 subnet of a zone.  A Name *)
(* tag is a pair: what stands before and after its hyphen.                   *)
(***************************************************************************)
EXTENDS Naturals, Sequences, FiniteSets, SequencesExt, FiniteSetsExt, TLC

CONSTANTS
    Clusters,
    Prefixed,      \* each cluster's identifier with "podmin-" before it
    Groups,        \* names of node groups
    NatZone,       \* the NAT64 keys, each with its zone
    SortedNames,   \* Groups and the NAT64 keys in the order of their names
    SortedZones,   \* the region's zones in the order of their names
    Range64,       \* how many /64s the VPC has (256 in the code)
    Range28,       \* how many /28s the VPC's IPv4 range has
    ForeignRanges, \* the [six, four] ranges, and the names, of other owners' subnets
    Managed,       \* whether there is no VPC with the CIDR at first
    MaxSetups,     \* bound on the setups of each cluster
    MaxForeign     \* bound on the subnets of other owners

NatKeys == DOMAIN NatZone

Keys == Groups \cup NatKeys

Zones == ToSet(SortedZones)

SubnetsAssumption ==
    /\ ToSet(SortedNames) = Keys /\ Len(SortedNames) = Cardinality(Keys)
    /\ Groups \cap NatKeys = {}
    /\ \A k \in NatKeys : NatZone[k] \in Zones
    /\ Range64 \in Nat \ {0} /\ Range28 \in Nat \ {0}

VARIABLES
    vpc,      \* whether the VPC exists
    subnets,  \* the subnets of the VPC
    run,      \* the setup each cluster has in flight
    setups,   \* setups each cluster has started
    foreign   \* subnets other owners have created

vars == <<vpc, subnets, run, setups, foreign>>

Idle == [active |-> FALSE]

\* The tags, zone and ranges of a subnet: a node group's has no IPv4 and another owner's
\* may span several /28s.
Subnet(owner, key, name, zone, six, four) ==
    [owner |-> owner, key |-> key, name |-> name, zone |-> zone, six |-> six, four |-> four]

Overlap(s, t) == s.six = t.six \/ s.four \cap t.four # {}

\* A Name that counts as the node group's, whoever owns the subnet.
Named(c, key, s) == key \in Groups /\ s.name = <<Prefixed[c], key>>

\* The subnets whose range setup takes for the key's own: by their tags or their Name.
Owned(c, key, seen) == {s \in seen : (s.owner = c /\ s.key = key) \/ Named(c, key, s)}

\* The range that is kept for each key which has one: of several subnets the one that EC2
\* lists last, in an order of its own.
Listings(c, seen) ==
    LET found == {k \in Keys : Owned(c, k, seen) # {}}
    IN  {last \in [found -> UNION {Owned(c, k, seen) : k \in found}] :
            \A k \in found : last[k] \in Owned(c, k, seen)}

(***************************************************************************)
(* Network.                                                                 *)
(***************************************************************************)
\* Each requested group's zone; "" is the first available one.
resolveNodeGroupZones(requested, available) ==
    [g \in DOMAIN requested |->
        IF requested[g] = "" THEN available[1] ELSE requested[g]]

\* The wanted keys in the order in which they are given their ranges.
InOrder(keys) == SelectSeq(SortedNames, LAMBDA k : k \in keys)

NextFree(taken, next) == {n \in next .. Range64 - 1 : n \notin taken}

\* One pass over the names: next only moves forward.
Allocate64(acc, key) ==
    LET free == NextFree(acc.taken, acc.next)
    IN  IF key \in DOMAIN acc.owned THEN [acc EXCEPT !.six = (key :> acc.owned[key].six) @@ @]
        ELSE IF free = {} THEN [acc EXCEPT !.failed = TRUE]
        ELSE [acc EXCEPT !.six = (key :> Min(free)) @@ @,
                         !.taken = @ \cup {Min(free)},
                         !.next = Min(free) + 1]

\* Mutant of allocateNodeGroupSubnetCIDRs: the NAT64 subnets are not kept.
allocateNodeGroupSubnetCIDRsForgetful(seen, owned, keys) ==
    FoldLeft(Allocate64,
             [owned |-> [k \in DOMAIN owned \cap Groups |-> owned[k]], six |-> <<>>,
              taken |-> {s.six : s \in seen}, next |-> 0, failed |-> FALSE],
             InOrder(keys))

allocateNodeGroupSubnetCIDRs(seen, owned, keys) ==
    FoldLeft(Allocate64,
             [owned |-> owned, six |-> <<>>,
              taken |-> {s.six : s \in seen}, next |-> 0, failed |-> FALSE],
             InOrder(keys))

\* The /28s of the zones' subnets count as taken before any is handed out.
Allocate28(acc, key) ==
    LET free == {n \in 0 .. Range28 - 1 : n \notin acc.taken}
    IN  IF key \in DOMAIN acc.owned THEN [acc EXCEPT !.four = (key :> acc.owned[key].four) @@ @]
        ELSE IF free = {} THEN [acc EXCEPT !.failed = TRUE]
        ELSE [acc EXCEPT !.four = (key :> {Max(free)}) @@ @, !.taken = @ \cup {Max(free)}]

\* Mutant of allocateNAT64SubnetCIDRs: ranges of other owners are not taken.
allocateNAT64SubnetCIDRsBlind(seen, owned, keys) ==
    FoldLeft(Allocate28,
             [owned |-> owned, four |-> <<>>,
              taken |-> UNION {owned[k].four : k \in DOMAIN owned}, failed |-> FALSE],
             InOrder(keys))

allocateNAT64SubnetCIDRs(seen, owned, keys) ==
    FoldLeft(Allocate28,
             [owned |-> owned, four |-> <<>>,
              taken |-> UNION {s.four : s \in seen}, failed |-> FALSE],
             InOrder(keys))

Position(s, e) == CHOOSE i \in DOMAIN s : s[i] = e

\* The engine's own choice for a VPC it has yet to create: the node groups in
\* order, then the NAT64 zones.
Indexed(keys) ==
    LET groups == InOrder(keys \cap Groups)
        nats == InOrder(keys \cap NatKeys)
    IN  [k \in keys |-> IF k \in Groups THEN Position(groups, k) - 1
                        ELSE Len(groups) + Position(nats, k) - 1]

NatKeysOf(zones) == {k \in NatKeys : NatZone[k] \in zones}

\* What setup hands the engine for each key, or <<>> when Network returns an error.
Network(c, requested, nat64, available, owned) ==
    LET zone == resolveNodeGroupZones(requested, available)
        groups == DOMAIN requested
        nats == IF nat64 THEN NatKeysOf({zone[g] : g \in groups}) ELSE {}
        keys == groups \cup nats
        v6 == allocateNodeGroupSubnetCIDRs(subnets, owned, keys)
        v4 == allocateNAT64SubnetCIDRs(subnets, owned, nats)
        six == IF vpc THEN v6.six ELSE Indexed(keys)
        four == [k \in keys |-> IF k \in nats THEN v4.four[k] ELSE {}]
    IN  IF \/ \E g \in groups : zone[g] \notin ToSet(available)
           \/ nat64 /\ Cardinality(keys) > Range64
           \/ vpc /\ v6.failed
           \/ v4.failed
        THEN <<>>
        ELSE [k \in keys |-> Subnet(c, k, <<c, k>>, IF k \in groups THEN zone[k] ELSE NatZone[k],
                                    six[k], four[k])]

(***************************************************************************)
(* Setups.                                                                  *)
(***************************************************************************)
Discover(c, requested, nat64, available) ==
    /\ ~run[c].active
    /\ setups[c] < MaxSetups[c]
    /\ \E owned \in Listings(c, subnets) :
         LET want == Network(c, requested, nat64, available, owned)
         IN  /\ want # <<>>
             /\ run' = [run EXCEPT ![c] = [active |-> TRUE, want |-> want, seen |-> subnets]]
    /\ setups' = [setups EXCEPT ![c] = @ + 1]
    /\ UNCHANGED <<vpc, subnets, foreign>>

CreateVPC(c) ==
    /\ run[c].active
    /\ ~vpc
    /\ vpc' = TRUE
    /\ UNCHANGED <<subnets, run, setups, foreign>>

Wanted(c) == {run[c].want[k] : k \in DOMAIN run[c].want}

\* A subnet that is no longer wanted, or not as it is, is removed.
RemoveSubnet(c, s) ==
    /\ run[c].active
    /\ s.owner = c
    /\ s \notin Wanted(c)
    /\ subnets' = subnets \ {s}
    /\ UNCHANGED <<vpc, run, setups, foreign>>

\* The call fails, and with it the apply, when the range is not free.
CreateSubnet(c, s) ==
    /\ run[c].active
    /\ vpc
    /\ \A t \in subnets : t.owner = c => t.key # s.key
    /\ IF \E t \in subnets : Overlap(s, t)
       THEN run' = [run EXCEPT ![c] = Idle] /\ UNCHANGED subnets
       ELSE subnets' = subnets \cup {s} /\ UNCHANGED run
    /\ UNCHANGED <<vpc, setups, foreign>>

Finish(c) ==
    /\ run[c].active
    /\ Wanted(c) = {s \in subnets : s.owner = c}
    /\ run' = [run EXCEPT ![c] = Idle]
    /\ UNCHANGED <<vpc, subnets, setups, foreign>>

\* The engine fails or is interrupted between two calls.
Interrupt(c) ==
    /\ run[c].active
    /\ run' = [run EXCEPT ![c] = Idle]
    /\ UNCHANGED <<vpc, subnets, setups, foreign>>

\* Another owner's subnet, which EC2 too refuses on a range in use.
CreateForeign(r) ==
    LET s == Subnet("other", "", r.name, "", r.six, r.four)
    IN  /\ vpc
        /\ foreign < MaxForeign
        /\ \A t \in subnets : ~Overlap(s, t)
        /\ subnets' = subnets \cup {s}
        /\ foreign' = foreign + 1
        /\ UNCHANGED <<vpc, run, setups>>

Init ==
    /\ vpc = ~Managed
    /\ subnets = {}
    /\ run = [c \in Clusters |-> Idle]
    /\ setups = [c \in Clusters |-> 0]
    /\ foreign = 0

Requests == UNION {[gs -> {""} \cup Zones] : gs \in SUBSET Groups \ {{}}}

\* Every zone is available, or all but the first.
Availabilities == {SortedZones, Tail(SortedZones)} \ {<<>>}

Next ==
    \/ \E c \in Clusters :
         \/ \E r \in Requests, nat64 \in BOOLEAN, a \in Availabilities : Discover(c, r, nat64, a)
         \/ CreateVPC(c)
         \/ \E s \in subnets : RemoveSubnet(c, s)
         \/ run[c].active /\ \E s \in Wanted(c) : CreateSubnet(c, s)
         \/ Finish(c)
         \/ Interrupt(c)
    \/ \E r \in ForeignRanges : CreateForeign(r)

Spec == Init /\ [][Next]_vars

(***************************************************************************)
(* Properties.                                                              *)
(***************************************************************************)
\* Another owner's subnet that bears the Name of the node group.
Mistaken(c, key, s) == s.owner # c /\ Named(c, key, s)

\* What a setup plans to create collides neither with the cluster's other subnets nor with
\* anything it saw when it read the VPC, except that a node group is given the range of a
\* subnet that bears its Name and is not its own (compute.go:282): a create call fails only
\* because of that, or of a subnet somebody else made meanwhile.  It holds for the first
\* apply, whose ranges the engine numbers itself, for what an interrupted one left, and for
\* every later one (Network, network.tf:71, nat64.tf:52).
PlansFree ==
    \A c \in Clusters :
        run[c].active =>
            \A s \in Wanted(c), t \in subnets :
                Overlap(s, t) =>
                    \/ t.owner = c /\ t.key = s.key
                    \/ t.owner # c /\ t \notin run[c].seen
                    \/ Mistaken(c, s.key, t)

\* A subnet in use is never replaced under its nodes: one goes only when its
\* node group or NAT64 zone is no longer asked for, the group is moved to another
\* zone, or another owner's subnet bears its Name; whatever groups come and go before it
\* in the order of names and however earlier applies ended ("allocates stable ... CIDRs").
KeepsSubnets ==
    \A s \in subnets \ subnets' :
        LET plan == run[s.owner]
        IN  /\ plan.active
            /\ s.key \in DOMAIN plan.want =>
                 \/ plan.want[s.key].zone # s.zone
                 \/ \E t \in plan.seen : Mistaken(s.owner, s.key, t) /\ plan.want[s.key].six = t.six

\* Every step keeps the subnets in use (Network).
SubnetsKept == [][KeepsSubnets]_vars
====
