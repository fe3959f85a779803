----------------------------- MODULE Lifecycle ------------------------------
(***************************************************************************)
(* What a cluster lives through beside its workloads: the commands that    *)
(* create and remove it (Cluster) and the authority that issues the        *)
(* identities of its Pods (WorkloadCA).  They meet only in the stored      *)
(* authority and its key, which are one value in Cluster, so they share no *)
(* variable here.                                                          *)
(***************************************************************************)
CONSTANTS None,
          Process, Resource, Commands, MaxStarts, MaxTorn,
          Node, offset, Life, Retention, Lag, Skew, LeafLife, StartAt,
          MaxCASRetries, MaxClock, MaxDisturb, MaxOutage

VARIABLES bucket, key, clusterCA, caKey, infra, lock, context, local, run, unfinished, starts, torn,
          publication, clock, leader, durable, published, agent, synced, leaf, fresh, ensured, outage,
          disturbed, trusted

C == INSTANCE Cluster
Authority == INSTANCE WorkloadCA

\* Infrastructure is never left without its state and its saved variables, and one engine
\* changes it at a time (setup.go, destroy.go, teardown.go).
InfraRemovable == C!InfraRemovable

\* Teardown finds or restores the variables of what there is to remove (infra.md:23).
TeardownRestores == C!TeardownRestores

\* The stored key stays the one the authority was made with (setup.go).
TrustKept == C!TrustKept

\* A leaf in use verifies at every node (workload.go, Issue and Sync).
LeavesTrusted == Authority!LeavesTrusted

\* The state that a leader writes is accepted by all nodes and does not expire while
\* leaders work, and an external authority is published before it issues (workload.go, Ensure).
AuthorityUsable == Authority!AuthorityUsable

\* No certificate is lost to a concurrent leader (workload.go, Ensure).
CertificatesKept == Authority!CertificatesKept
=============================================================================
