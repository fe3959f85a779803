----------------------------- MODULE WorkloadCA -----------------------------
(***************************************************************************)
(* The workload CA (internal/agent/workload and runWorkloadIdentity): the  *)
(* elected leader creates and rotates identity/ca.json by compare and      *)
(* swap, every node synchronizes it and issues leaves from the current     *)
(* certificate, and the leader may publish the trust bundle to an external *)
(* object first.  Durations are constants in the order of the code's; a    *)
(* node's clock is ahead of the slowest by offset[n] =< Skew.  The slice   *)
(* of certificates is always in the order of generations: here a set.      *)
(***************************************************************************)
EXTENDS Integers

CONSTANTS Node, offset, None,
          Life,            \* validity of a CA certificate: a year
          Retention,       \* 30 days: rotation window and overlap
          Lag,             \* activationLag: ten minutes
          Skew,            \* clockSkew: five minutes
          LeafLife,        \* 24 hours
          StartAt,         \* where the model starts: 0, and times at which the CA made at 0 is quiet
          MaxCASRetries, MaxClock,
          MaxDisturb,      \* bound on failed requests and elections
          MaxOutage        \* bound on clock steps in which no node works

certificateRecord ==
  [gen : Nat, notBefore : Int, notAfter : Int,
   publishedAt : Int \cup {None}, activateAt : Int \cup {None}, retiredAt : Int \cup {None}]

caState == [current : Nat, certs : SUBSET certificateRecord]

\* The durations are far enough apart.  A clock step is one iteration of the loop: five
\* seconds.
DurationAssumption ==
  /\ {Life, Retention, Lag, Skew, LeafLife} \subseteq Nat
  /\ Skew + 2 <= Lag /\ Lag + 2 * Skew + 1 <= Retention /\ LeafLife + Skew + 2 <= Retention
  /\ 2 * Retention + Lag + 2 * Skew < Life
  /\ \A n \in Node : offset[n] \in 0..Skew
  /\ StartAt \subseteq Nat /\ \A t \in StartAt : t + Skew + Retention < Life
  /\ None \notin Int /\ None \notin caState

VARIABLES
  publication,  \* whether --workload-ca-publish is set; never changes
  clock, leader,
  durable,      \* identity/ca.json; its ETag is its content
  published,    \* the external trust object
  agent,        \* each node's loop: pc, now, and the locals of Ensure
  synced,       \* each node's Authority: the state it installed, and how often it changed
  leaf,         \* the leaf each node issued last
  fresh, ensured, outage,   \* the nodes that synchronized, whether a leader ensured, in this clock step
  disturbed,    \* failed requests and elections so far
  trusted       \* history: certificates the external object ever held

vars == <<publication, clock, leader, durable, published, agent, synced, leaf, fresh, ensured, outage, disturbed, trusted>>

-----------------------------------------------------------------------------
(* Certificates and states *)

newRecord(generation, now) ==
  [gen |-> generation, notBefore |-> now - Skew, notAfter |-> now + Life,
   publishedAt |-> None, activateAt |-> None, retiredAt |-> None]

\* The next generation, active after the propagation interval.
pendingRecord(generation, now) ==
  LET r == newRecord(generation, now)
  IN  [r EXCEPT !.activateAt = r.notBefore + Skew + Lag]

Cert(r) == [gen |-> r.gen, notBefore |-> r.notBefore, notAfter |-> r.notAfter]
bundleForState(s) == {Cert(r) : r \in s.certs}

\* The records at currentIndex and at pendingIndex.
CurrentRecord(s) == CHOOSE r \in s.certs : r.gen = s.current
Pending(s) == {r \in s.certs : r.activateAt # None}
PendingRecord(s) == CHOOSE r \in Pending(s) : \A q \in Pending(s) : r.gen <= q.gen

\* A certificate is kept while it is current, pending, or in its overlap.
Retained(s, r, now) == r.gen = s.current \/ r.retiredAt = None \/ r.retiredAt + Retention + Skew > now

pruneState(s, now) == [s EXCEPT !.certs = {r \in s.certs : Retained(s, r, now)}]

\* Mutant of Activated: a pending certificate is promoted at the next opportunity.
ActivatedAtOnce(r, now) == TRUE

Activated(r, now) == now >= r.activateAt

\* The record of generation g becomes current.
Promoted(s, g, r, now) ==
  IF r.gen = g THEN [r EXCEPT !.publishedAt = None, !.activateAt = None]
  ELSE IF r.gen = s.current THEN [r EXCEPT !.retiredAt = now] ELSE r

promoteState(s, g, now) == [current |-> g, certs |-> {Promoted(s, g, r, now) : r \in s.certs}]

\* The lifecycle checks of validateState for one record.
RecordValid(s, r, now, requireCurrentValid) ==
  /\ ~(r.activateAt # None /\ r.retiredAt # None)
  /\ r.publishedAt # None => r.activateAt # None
  /\ IF r.gen = s.current
     THEN /\ r.retiredAt = None /\ r.activateAt = None
          /\ now + Skew >= r.notBefore
          /\ requireCurrentValid => r.notBefore <= now /\ now < r.notAfter
     ELSE IF r.activateAt # None
     THEN /\ r.gen > s.current
          /\ r.activateAt = (IF r.publishedAt = None THEN r.notBefore + Skew ELSE r.publishedAt) + Lag
          /\ r.activateAt <= r.notAfter
          /\ r.publishedAt # None => r.publishedAt >= r.notBefore
     ELSE r.retiredAt # None /\ r.gen < s.current /\ r.retiredAt <= now + Skew

\* One or two certificates of different generations, the current one among them.
validateState(s, now, requireCurrentValid) ==
  /\ \A q, r, t \in s.certs : q = r \/ r = t \/ q = t
  /\ \A q, r \in s.certs : q.gen = r.gen => q = r
  /\ \E r \in s.certs : r.gen = s.current
  /\ \A r \in s.certs : RecordValid(s, r, now, requireCurrentValid)

-----------------------------------------------------------------------------
(* The loop of runWorkloadIdentity *)

Waiting == [pc |-> "wait", now |-> 0, seen |-> None, draft |-> None, expired |-> FALSE, attempt |-> 0]

Init ==
  /\ publication \in BOOLEAN /\ clock \in StartAt /\ leader \in Node
  /\ durable = IF clock = 0 THEN None ELSE [current |-> 1, certs |-> {newRecord(1, 0)}]
  /\ published = IF clock = 0 \/ ~publication THEN {} ELSE bundleForState(durable)
  /\ trusted = published
  /\ agent = [n \in Node |-> Waiting]
  /\ synced = [n \in Node |-> [state |-> durable, revision |-> IF clock = 0 THEN 0 ELSE 1]]
  /\ leaf = [n \in Node |-> None]
  /\ fresh = {} /\ ensured = FALSE /\ outage = 0 /\ disturbed = 0

Goto(n, pc) ==
  agent' = [agent EXCEPT ![n] = IF pc = "wait" THEN Waiting
                                ELSE [Waiting EXCEPT !.pc = pc, !.now = agent[n].now]]

\* The ticker fires; only the leader ensures.
Wake(n) ==
  /\ agent[n].pc = "wait"
  /\ n \notin fresh \/ (n = leader /\ ~ensured)
  /\ agent' = [agent EXCEPT ![n] = [@ EXCEPT !.pc = IF n = leader THEN "read" ELSE "sync", !.now = clock + offset[n]]]
  /\ UNCHANGED <<publication, clock, leader, durable, published, synced, leaf, fresh, ensured, outage, disturbed, trusted>>

Disturb == disturbed < MaxDisturb /\ disturbed' = disturbed + 1

\* A request fails: Ensure, Sync or Publish gives up and the loop goes on.
Fail(n) ==
  /\ agent[n].pc # "wait"
  /\ Disturb
  /\ Goto(n, IF agent[n].pc \in {"sync", "distribute"} THEN "wait" ELSE "sync")
  /\ UNCHANGED <<publication, clock, leader, durable, published, synced, leaf, fresh, ensured, outage, trusted>>

\* The iteration began in this clock step.
Began(n) == agent[n].now = clock + offset[n]

\* Ensure is left without an error.
Ensured(n) == ensured' = (ensured \/ Began(n)) /\ Goto(n, "sync")

Draft(n, pc, s, expired) ==
  /\ agent' = [agent EXCEPT ![n] = [@ EXCEPT !.pc = pc, !.seen = durable, !.draft = s, !.expired = expired]]
  /\ UNCHANGED ensured

\* The state an expired CA is replaced from: its pending certificate if that is
\* valid, otherwise a new one.
Replacement(s, now) ==
  LET current == CurrentRecord(s)
      usable == Pending(s) # {} /\ PendingRecord(s).notBefore <= now /\ now < PendingRecord(s).notAfter
  IN  IF usable THEN s
      ELSE [s EXCEPT !.certs = {current, pendingRecord(current.gen + 1, now)}]

\* Mutant of RotationDue: the next certificate is made when the current one ends.
RotationDueLate(r, now) == r.notAfter <= now

RotationDue(r, now) == r.notAfter <= now + Retention

\* Ensure up to its first request after the read of the durable state.
ReadState(n) ==
  /\ agent[n].pc = "read"
  /\ LET now == agent[n].now
         s == pruneState(durable, now)
         current == CurrentRecord(s)
     IN  IF durable = None
         THEN Draft(n, "put", [current |-> 1, certs |-> {newRecord(1, now)}], FALSE)
         ELSE IF ~validateState(durable, now, FALSE) THEN Goto(n, "sync") /\ UNCHANGED ensured
         ELSE IF now >= current.notAfter
         THEN IF publication THEN Draft(n, "publish", Replacement(s, now), TRUE)
              ELSE LET r == Replacement(s, now)
                   IN  Draft(n, "put", promoteState(r, PendingRecord(r).gen, now), TRUE)
         ELSE IF Pending(s) # {}
         THEN IF publication THEN Draft(n, "ready", s, FALSE)
              ELSE IF Activated(PendingRecord(s), now)
              THEN Draft(n, "put", promoteState(s, PendingRecord(s).gen, now), FALSE)
              ELSE IF s # durable THEN Draft(n, "put", s, FALSE) ELSE Ensured(n)
         ELSE IF RotationDue(current, now)
         THEN Draft(n, "put", [s EXCEPT !.certs = @ \cup {pendingRecord(current.gen + 1, now)}], FALSE)
         ELSE IF s # durable THEN Draft(n, "put", s, FALSE) ELSE Ensured(n)
  /\ UNCHANGED <<publication, clock, leader, durable, published, synced, leaf, fresh, outage, disturbed, trusted>>

\* publishBundle: compare and swap until the object is the bundle; what it writes
\* does not depend on what it reads.
PublishBundle(bundle) ==
  published' = bundle /\ trusted' = trusted \cup bundle

\* Recovery from expiry distributes the replacement first.
PublishReplacement(n) ==
  /\ agent[n].pc = "publish"
  /\ PublishBundle(bundleForState(agent[n].draft))
  /\ agent' = [agent EXCEPT ![n] = [@ EXCEPT !.pc = "ready"]]
  /\ UNCHANGED <<publication, clock, leader, durable, synced, leaf, fresh, ensured, outage, disturbed>>

\* The external object holds exactly the bundle of s.
publicationReady(s) == published = bundleForState(s)

\* The external object is read: the activation interval starts, or the pending
\* certificate is promoted.
CheckPublication(n) ==
  /\ agent[n].pc = "ready"
  /\ LET a == agent[n]
         s == a.draft
         p == PendingRecord(s)
         ready == publicationReady(s)
         q == IF ready /\ ~a.expired /\ p.publishedAt = None
              THEN [p EXCEPT !.publishedAt = a.now, !.activateAt = a.now + Lag] ELSE p
         marked == [s EXCEPT !.certs = (@ \ {p}) \cup {q}]
         done == IF ready /\ (a.expired \/ Activated(q, a.now))
                 THEN promoteState(marked, q.gen, a.now) ELSE marked
     IN  IF done = a.seen THEN Ensured(n)
         ELSE agent' = [agent EXCEPT ![n] = [@ EXCEPT !.pc = "put", !.draft = done]] /\ UNCHANGED ensured
  /\ UNCHANGED <<publication, clock, leader, durable, published, synced, leaf, fresh, outage, disturbed, trusted>>

\* Mutant of Unmodified: the write is unconditional.
UnmodifiedNever(n) == TRUE

\* The condition of PutIfMatch.
Unmodified(n) == durable = agent[n].seen

\* The conditional write; a conflict starts over.
PutState(n) ==
  /\ agent[n].pc = "put"
  /\ IF Unmodified(n) THEN durable' = agent[n].draft /\ Ensured(n)
     ELSE /\ IF agent[n].attempt + 1 < MaxCASRetries
             THEN agent' = [agent EXCEPT ![n] = [@ EXCEPT !.pc = "read", !.attempt = agent[n].attempt + 1]]
             ELSE Goto(n, "sync")
          /\ UNCHANGED <<durable, ensured>>
  /\ UNCHANGED <<publication, clock, leader, published, synced, leaf, fresh, outage, disturbed, trusted>>

\* Sync installs a valid state; Publish follows on the leader.
Sync(n) ==
  /\ agent[n].pc = "sync"
  /\ IF durable # None /\ validateState(durable, agent[n].now, TRUE)
     THEN /\ synced' = [synced EXCEPT ![n] = [state |-> durable,
                          revision |-> IF durable = @.state THEN @.revision ELSE @.revision + 1]]
          /\ fresh' = IF Began(n) THEN fresh \cup {n} ELSE fresh
          /\ Goto(n, IF n = leader /\ publication THEN "distribute" ELSE "wait")
     ELSE Goto(n, "wait") /\ UNCHANGED <<synced, fresh>>
  /\ UNCHANGED <<publication, clock, leader, durable, published, leaf, ensured, outage, disturbed, trusted>>

\* Publish writes the bundle of the last Sync.
Publish(n) ==
  /\ agent[n].pc = "distribute"
  /\ PublishBundle(bundleForState(synced[n].state))
  /\ Goto(n, "wait")
  /\ UNCHANGED <<publication, clock, leader, durable, synced, leaf, fresh, ensured, outage, disturbed>>

\* issue: a leaf from the installed current certificate, while that is valid; its
\* callers ask when the leaf ends or the CA changed.
Issue(n) ==
  LET now == clock + offset[n]
      ca == CurrentRecord(synced[n].state)
      made == [ca |-> Cert(ca),
               notAfter |-> IF ca.notAfter < now + LeafLife THEN ca.notAfter ELSE now + LeafLife]
  IN  /\ synced[n].state # None
      /\ ca.notBefore <= now /\ now < ca.notAfter /\ now < made.notAfter
      /\ leaf[n] # None => ~(leaf[n].ca = made.ca /\ now < leaf[n].notAfter)
      /\ leaf' = [leaf EXCEPT ![n] = made]
      /\ UNCHANGED <<publication, clock, leader, durable, published, agent, synced, fresh, ensured, outage, disturbed, trusted>>

-----------------------------------------------------------------------------
(* Time and election *)

\* Another node is elected.
Elect(n) ==
  /\ leader # n
  /\ Disturb
  /\ leader' = n
  /\ UNCHANGED <<publication, clock, durable, published, agent, synced, leaf, fresh, ensured, outage, trusted>>

\* Time advances after every node synchronized and a leader ensured, or, in an
\* outage, while nobody works.  An iteration of the loop spans at most one step.
Tick ==
  /\ clock < MaxClock
  /\ clock' = clock + 1
  /\ fresh' = {} /\ ensured' = FALSE
  /\ \/ /\ fresh = Node /\ ensured
        /\ \A n \in Node : agent[n].pc = "wait" \/ Began(n)
        /\ UNCHANGED outage
     \/ /\ outage < MaxOutage /\ outage' = outage + 1
        /\ fresh = {} /\ ~ensured
        /\ \A n \in Node : agent[n] = Waiting
  /\ UNCHANGED <<publication, leader, durable, published, agent, synced, leaf, disturbed, trusted>>

Loop(n) ==
  \/ Wake(n) \/ Fail(n) \/ ReadState(n) \/ PublishReplacement(n) \/ CheckPublication(n)
  \/ PutState(n) \/ Sync(n) \/ Publish(n)

Next == Tick \/ \E n \in Node : Loop(n) \/ Issue(n) \/ Elect(n)

Spec == Init /\ [][Next]_vars

-----------------------------------------------------------------------------
(* Properties *)

Valid(n) == synced[n].state # None /\ clock + offset[n] < CurrentRecord(synced[n].state).notAfter

\* Leaders have worked without an outage, and nothing is published externally.
Attended == ~publication /\ outage = 0

\* As long as the authority is attended, every unexpired leaf is trusted by every node
\* whose own issuer is still valid, across rotation, pruning, clock skew and leader
\* changes: the pending interval is long enough for every node to learn of a certificate
\* before a leaf uses it, and the overlap is long enough for every leaf to expire.
LeavesTrusted ==
  Attended =>
    \A n, m \in Node :
      leaf[n] # None /\ clock + offset[m] < leaf[n].notAfter /\ Valid(m) =>
        leaf[n].ca \in bundleForState(synced[m].state)

\* What a leader writes is accepted by Ensure and, until the current certificate
\* expires, by Sync on every node, whatever the clock skew allows.
StateAccepted ==
  durable # None =>
    \A n \in Node :
      LET now == clock + offset[n]
      IN  /\ validateState(durable, now, FALSE)
          /\ now < CurrentRecord(durable).notAfter => validateState(durable, now, TRUE)

\* Two leaders may be writing, yet no certificate disappears from the state while the
\* issuer is valid but a retired one after its overlap: nodes may already trust it.
KeepsCertificates ==
  durable # None /\ durable' # durable =>
    \A r \in durable.certs :
      \/ Cert(r) \in bundleForState(durable')
      \/ r.retiredAt # None /\ r.retiredAt + Retention <= clock
      \/ \E n \in Node : clock + offset[n] >= CurrentRecord(durable).notAfter

\* Every step keeps the certificates (Ensure).
CertificatesKept == [][KeepsCertificates]_vars

\* With external publication, no generation but the first becomes the issuer before
\* the external object held its certificate.
PublishedFirst ==
  publication /\ durable # None /\ durable.current > 1 => Cert(CurrentRecord(durable)) \in trusted

\* While leaders work, rotation is never late: the issuer is valid on every clock.
NeverExpires ==
  durable # None => \A n \in Node : clock + offset[n] < CurrentRecord(durable).notAfter

\* An attended authority can always issue, and an external one is published first.
AuthorityUsable == PublishedFirst /\ (Attended => StateAccepted /\ NeverExpires)
=============================================================================
