-------------------------- MODULE AuthorityProofs ---------------------------
(***************************************************************************)
(* The workload authority (WorkloadCA), for any number of nodes, any       *)
(* durations that are far enough apart, and any clocks, failures and       *)
(* elections.                                                              *)
(*                                                                         *)
(* Without any assumption on time, what a leader is about to write keeps   *)
(* the certificates of the state it read, and changes the issuer only to a *)
(* published one: EnsureInv.  While the authority is attended, AttendedInv *)
(* bounds the state by the clock: a certificate is pending before the      *)
(* issuer's last Retention, is promoted when it is due, and every node     *)
(* holds the certificates that may issue.                                  *)
(***************************************************************************)
EXTENDS Lifecycle, Integers, TLAPS

USE Zenon

State == Authority!caState \cup {None}
Issuer(s) == Authority!Cert(Authority!CurrentRecord(s))

Iteration ==
  [pc : {"wait", "read", "publish", "ready", "put", "sync", "distribute"}, now : Int,
   seen : State, draft : State, expired : BOOLEAN, attempt : Nat]

\* Generations are distinct, one is current and at most one, a later one, is pending.
Regular(s) ==
  /\ s \in Authority!caState
  /\ \E r \in s.certs : r.gen = s.current
  /\ \A q, r \in s.certs : q.gen = r.gen => q = r
  /\ \A r \in s.certs : r.activateAt # None <=> r.gen > s.current
  /\ \A q, r \in Authority!Pending(s) : q = r

\* What s has lost of d was retired for its overlap, or d had expired.
Kept(d, s, now) ==
  \A r \in d.certs :
    \/ Authority!Cert(r) \in Authority!bundleForState(s)
    \/ r.retiredAt # None /\ r.retiredAt + Retention + Skew <= now
    \/ now >= Authority!CurrentRecord(d).notAfter

SameIssuer(d, s) == s.current = d.current /\ Issuer(s) = Issuer(d)

\* A draft before its publication is checked.
Unpublished(d, s, now) ==
  /\ d # None /\ Regular(d) /\ Regular(s) /\ Authority!Pending(s) # {}
  /\ Kept(d, s, now) /\ SameIssuer(d, s)

\* A draft that is written when d is still the state.
Writable(d, s, now, held, pub) ==
  /\ s \in Authority!caState
  /\ d # None => Regular(d) /\ Kept(d, s, now)
  /\ pub => s.current <= 1 \/ (d # None /\ SameIssuer(d, s)) \/ Issuer(s) \in held

IterationOK(a, n, t, held, pub) ==
  /\ a.pc # "wait" => a.now <= t + offset[n]
  /\ a.pc \in {"publish", "ready"} => Unpublished(a.seen, a.draft, a.now)
  /\ a.pc = "put" => Writable(a.seen, a.draft, a.now, held, pub)

EnsureInv ==
  /\ clock \in Nat /\ durable \in State /\ agent \in [Node -> Iteration]
  /\ published \subseteq trusted
  /\ \A n \in Node : IterationOK(agent[n], n, clock, trusted, publication)
  /\ Authority!PublishedFirst

\* The lifecycle of every certificate of s at clock time t.
Sound(s, t) ==
  /\ s \in Authority!caState
  /\ \E r \in s.certs : r.gen = s.current
  /\ \A q, r \in s.certs : q.gen = r.gen => q = r
  /\ \A q, r, u \in s.certs : q = r \/ r = u \/ q = u
  /\ \A r \in s.certs :
       /\ r.notBefore <= t /\ r.notAfter = r.notBefore + Skew + Life /\ r.publishedAt = None
       /\ r.gen = s.current => r.activateAt = None /\ r.retiredAt = None
       /\ r.gen > s.current => r.activateAt = r.notBefore + Skew + Lag /\ r.retiredAt = None
       /\ r.gen < s.current => r.activateAt = None /\ r.retiredAt \in Int /\ r.retiredAt <= t + Skew

\* Rotation is on time: how long the issuer c lasts while it has no successor, and with
\* a pending or a retired certificate r beside it.  done: a leader ensured in this step.
Lasts(c, t, done) == c.notAfter > t - 1 + Retention /\ (done => c.notAfter > t + Retention)

Succeeds(r, c, t, done) ==
  /\ r.activateAt >= t /\ (done => r.activateAt > t)
  /\ c.notAfter > r.activateAt - Lag - Skew - 1 + Retention

OnTime(s, t, done) ==
  \A c \in s.certs : c.gen = s.current =>
    /\ (\A r \in s.certs : r.gen <= s.current) => Lasts(c, t, done)
    /\ \A r \in s.certs : r.gen > s.current => Succeeds(r, c, t, done)
    /\ \A r \in s.certs : r.gen < s.current => c.notAfter >= r.retiredAt - Skew - Lag + Life

\* What Ensure makes of d at its time now, without a publication.
Drafted(d, s, now) ==
  LET p == Authority!pruneState(d, now)
      c == Authority!CurrentRecord(p)
      q == Authority!PendingRecord(p)
  IN  /\ now < c.notAfter
      /\ \/ /\ Authority!Pending(p) # {} /\ Authority!Activated(q, now)
            /\ s = Authority!promoteState(p, q.gen, now)
         \/ Authority!Pending(p) # {} /\ ~Authority!Activated(q, now) /\ s = p
         \/ /\ Authority!Pending(p) = {} /\ Authority!RotationDue(c, now)
            /\ s = [p EXCEPT !.certs = @ \cup {Authority!pendingRecord(c.gen + 1, now)}]
         \/ Authority!Pending(p) = {} /\ ~Authority!RotationDue(c, now) /\ s = p

FirstState(now) == [current |-> 1, certs |-> {Authority!newRecord(1, now)}]

Recent(a, n, t) == t - 1 + offset[n] <= a.now /\ a.now <= t + offset[n]

Attending(a, n, t) ==
  /\ a.pc \in {"wait", "read", "put", "sync"}
  /\ a.pc # "wait" => Recent(a, n, t)
  /\ a.pc = "put" => IF a.seen = None THEN a.draft = FirstState(a.now) ELSE Drafted(a.seen, a.draft, a.now)

LoopInv == \A n \in Node : Attending(agent[n], n, clock)

\* How Ensure leaves a state that is on time: pruned, with a successor, or rotated.
Trimmed(d, s, now) ==
  /\ s.current = d.current /\ s.certs = {r \in d.certs : Authority!Retained(d, r, now)}
  /\ \A r \in d.certs : r.gen > d.current => now < r.activateAt
  /\ (\A r \in d.certs : ~(r.gen > d.current)) =>
       \A c \in d.certs : c.gen = d.current => c.notAfter > now + Retention

Appended(d, s, c, now) ==
  /\ c \in d.certs /\ c.gen = d.current /\ c.notAfter <= now + Retention
  /\ \A r \in d.certs : ~(r.gen > d.current) /\ (r # c => ~Authority!Retained(d, r, now))
  /\ s.current = d.current /\ s.certs = {c, Authority!pendingRecord(c.gen + 1, now)}

Rotated(d, s, c, p, now) ==
  /\ d.certs = {c, p} /\ c.gen = d.current /\ p.gen > d.current /\ p.activateAt <= now
  /\ s.current = p.gen
  /\ s.certs = {[c EXCEPT !.retiredAt = now], [p EXCEPT !.publishedAt = None, !.activateAt = None]}

\* Certificate r of d is in s, and if it is retired there, as in d or at now.
Carries(d, s, r, now) ==
  \E q \in s.certs :
    /\ Authority!Cert(q) = Authority!Cert(r) /\ q.gen <= s.current
    /\ q.gen < s.current => (r.gen < d.current /\ q.retiredAt = r.retiredAt) \/ q.retiredAt = now

StateInv == durable # None => Sound(durable, clock) /\ OnTime(durable, clock, ensured)

\* A certificate made at b or retired at b is known to a node that synchronized in this
\* step, or in the last one, unless it is that recent.
Unseen(m, b) == clock <= b \/ (m \notin fresh /\ clock <= b + 1)

\* Node m, which installed s, has every certificate of the state that may have issued,
\* and any other that is not recent; its issuer is current or recently retired.
Informed(m, s) ==
  /\ durable # None
  /\ \A r \in durable.certs :
       \/ Authority!Cert(r) \in Authority!bundleForState(s)
       \/ r.gen > durable.current /\ Unseen(m, r.notBefore + Skew)
  /\ \E r \in durable.certs :
       /\ Authority!Cert(r) = Issuer(s) /\ r.gen <= durable.current
       /\ r.gen < durable.current => Unseen(m, r.retiredAt + 1)

\* The certificate of an unexpired leaf is kept until the leaf expires.
Backed(l) ==
  /\ l.notAfter \in Int /\ l.notAfter <= clock + Skew + LeafLife
  /\ clock < l.notAfter =>
       /\ durable # None
       /\ \E r \in durable.certs :
            /\ Authority!Cert(r) = l.ca /\ r.gen <= durable.current
            /\ r.gen < durable.current => l.notAfter <= r.retiredAt + Retention

TrustedInv ==
  /\ DOMAIN synced = Node /\ DOMAIN leaf = Node
  /\ \A m \in Node : synced[m].state # None => Informed(m, synced[m].state)
  /\ \A n \in Node : leaf[n] # None => Backed(leaf[n])

AttendedInv ==
  /\ EnsureInv /\ outage \in Nat
  /\ Authority!Attended => LoopInv /\ StateInv /\ TrustedInv

-----------------------------------------------------------------------------
(* Certificates and states *)

\* The issuer is the record of the current generation (currentIndex).
LEMMA CurrentIs ==
  ASSUME NEW s, NEW c \in s.certs, c.gen = s.current, \A q, r \in s.certs : q.gen = r.gen => q = r
  PROVE  Authority!CurrentRecord(s) = c
  BY DEF Authority!CurrentRecord

\* pendingIndex finds the pending certificate.
LEMMA PendingIs ==
  ASSUME NEW s, Regular(s), Authority!Pending(s) # {}
  PROVE  Authority!PendingRecord(s) \in Authority!Pending(s)
<1>1. PICK p \in Authority!Pending(s) : TRUE
  OBVIOUS
<1>2. \A q \in Authority!Pending(s) : q = p
  BY <1>1 DEF Regular
<1>3. p.gen \in Nat
  BY <1>1 DEF Regular, Authority!Pending, Authority!caState, Authority!certificateRecord
<1>4. \A q \in Authority!Pending(s) : p.gen <= q.gen
  BY <1>2, <1>3, SMT
<1> QED BY <1>1, <1>4 DEF Authority!PendingRecord

\* A new record is one, and so is a pending one (newRecord).
LEMMA RecordMade ==
  ASSUME Authority!DurationAssumption, NEW g \in Nat, NEW now \in Int
  PROVE  /\ Authority!newRecord(g, now) \in Authority!certificateRecord
         /\ Authority!pendingRecord(g, now) \in Authority!certificateRecord
         /\ Authority!pendingRecord(g, now).gen = g
         /\ Authority!pendingRecord(g, now).activateAt = now + Lag
         /\ Authority!pendingRecord(g, now).activateAt # None
         /\ Authority!newRecord(g, now).gen = g
         /\ Authority!newRecord(g, now).activateAt = None
<1> DEFINE r == Authority!newRecord(g, now)
           p == Authority!pendingRecord(g, now)
<1>1. Life \in Nat /\ Skew \in Nat /\ Lag \in Nat /\ None \notin Int
  BY DEF Authority!DurationAssumption
<1>2. r = [gen |-> g, notBefore |-> now - Skew, notAfter |-> now + Life,
           publishedAt |-> None, activateAt |-> None, retiredAt |-> None]
  BY DEF Authority!newRecord
<1>3. r \in Authority!certificateRecord
  BY <1>1, <1>2, SMT DEF Authority!certificateRecord
<1>4. p = [r EXCEPT !.activateAt = r.notBefore + Skew + Lag]
  BY DEF Authority!pendingRecord
<1>5. r.notBefore + Skew + Lag = now + Lag /\ now + Lag \in Int
  BY <1>1, <1>2, SMT
<1>6. p = [r EXCEPT !.activateAt = now + Lag]
  BY <1>4, <1>5
<1>7. p \in Authority!certificateRecord /\ p.gen = g /\ p.activateAt = now + Lag
  BY <1>3, <1>5, <1>6, <1>2, SMT DEF Authority!certificateRecord
<1>8. p.activateAt # None
  BY <1>1, <1>5, <1>7
<1>9. r.gen = g /\ r.activateAt = None
  BY SMT DEF Authority!newRecord
<1> QED BY <1>3, <1>7, <1>8, <1>9

\* pruneState takes certificates away, never the issuer or a pending one.
LEMMA Pruned ==
  ASSUME NEW d \in Authority!caState, NEW now
  PROVE  LET s == Authority!pruneState(d, now)
         IN  /\ s \in Authority!caState /\ s.current = d.current
             /\ s.certs = {r \in d.certs : Authority!Retained(d, r, now)}
  BY DEF Authority!pruneState, Authority!caState

\* What Ensure reads is regular when it is valid, and stays so when it is pruned.
LEMMA PrunedRegular ==
  ASSUME NEW d \in Authority!caState, NEW now, Authority!validateState(d, now, FALSE)
  PROVE  LET s == Authority!pruneState(d, now)
         IN  Regular(d) /\ Regular(s) /\ Authority!CurrentRecord(s) = Authority!CurrentRecord(d)
<1> DEFINE s == Authority!pruneState(d, now)
<1>1. s \in Authority!caState /\ s.current = d.current /\ s.certs = {r \in d.certs : Authority!Retained(d, r, now)}
  BY Pruned
<1> HIDE DEF s
<1>2. PICK c \in d.certs : c.gen = d.current
  BY DEF Authority!validateState
<1>3. \A q, r \in d.certs : q.gen = r.gen => q = r
  BY DEF Authority!validateState
<1>4. \A r \in d.certs : r.activateAt # None <=> r.gen > d.current
  <2> SUFFICES ASSUME NEW r \in d.certs
               PROVE  r.activateAt # None <=> r.gen > d.current
    OBVIOUS
  <2>1. Authority!RecordValid(d, r, now, FALSE)
    BY DEF Authority!validateState
  <2>2. r.gen \in Nat /\ d.current \in Nat
    BY DEF Authority!caState, Authority!certificateRecord
  <2>3. ~(r.gen < d.current /\ r.gen > d.current) /\ ~(r.gen = d.current /\ r.gen > d.current)
    BY <2>2, SMT
  <2> QED BY <2>1, <2>3 DEF Authority!RecordValid
<1>5. \A q, r \in Authority!Pending(d) : q = r
  <2> SUFFICES ASSUME NEW q \in Authority!Pending(d), NEW r \in Authority!Pending(d)
               PROVE  q = r
    OBVIOUS
  <2>1. q \in d.certs /\ r \in d.certs /\ q.gen > d.current /\ r.gen > d.current
    BY <1>4 DEF Authority!Pending
  <2>2. q # c /\ r # c
    BY <1>2, <2>1, SMT DEF Authority!caState
  <2> QED BY <1>2, <2>1, <2>2 DEF Authority!validateState
<1>6. Regular(d)
  BY <1>2, <1>3, <1>4, <1>5 DEF Regular
<1>7. c \in s.certs
  BY <1>1, <1>2 DEF Authority!Retained
<1>8. s.certs \subseteq d.certs /\ Authority!Pending(s) \subseteq Authority!Pending(d)
  BY <1>1 DEF Authority!Pending
<1>9. Regular(s)
  BY <1>1, <1>2, <1>3, <1>4, <1>5, <1>7, <1>8 DEF Regular
<1>10. Authority!CurrentRecord(s) = c /\ Authority!CurrentRecord(d) = c
  BY <1>1, <1>2, <1>3, <1>7, <1>8, CurrentIs
<1> QED BY <1>6, <1>9, <1>10 DEF s

\* Promotion changes no certificate (promoteState).
LEMMA PromotedRecord ==
  ASSUME NEW s \in Authority!caState, NEW g, NEW r \in s.certs, NEW now \in Int
  PROVE  LET q == Authority!Promoted(s, g, r, now)
         IN  /\ q \in Authority!certificateRecord /\ q.gen = r.gen
             /\ Authority!Cert(q) = Authority!Cert(r)
<1>1. r \in Authority!certificateRecord
  BY DEF Authority!caState
<1>2. [r EXCEPT !.publishedAt = None, !.activateAt = None] \in Authority!certificateRecord
  BY <1>1 DEF Authority!certificateRecord
<1>3. [r EXCEPT !.retiredAt = now] \in Authority!certificateRecord
  BY <1>1 DEF Authority!certificateRecord
<1> QED BY <1>1, <1>2, <1>3 DEF Authority!Promoted, Authority!Cert, Authority!certificateRecord

\* A promotion makes a state of the new generation and the same bundle (promoteState).
LEMMA PromotedState ==
  ASSUME NEW s \in Authority!caState, NEW g \in Nat, NEW now \in Int
  PROVE  LET t == Authority!promoteState(s, g, now)
         IN  /\ t \in Authority!caState /\ t.current = g
             /\ Authority!bundleForState(t) = Authority!bundleForState(s)
<1> DEFINE t == Authority!promoteState(s, g, now)
<1>1. t.current = g /\ t.certs = {Authority!Promoted(s, g, r, now) : r \in s.certs}
      /\ t = [current |-> g, certs |-> {Authority!Promoted(s, g, r, now) : r \in s.certs}]
  BY DEF Authority!promoteState
<1>2. \A r \in s.certs : LET q == Authority!Promoted(s, g, r, now)
                         IN  q \in Authority!certificateRecord /\ Authority!Cert(q) = Authority!Cert(r)
  BY PromotedRecord
<1>3. t \in Authority!caState
  BY <1>1, <1>2 DEF Authority!caState
<1>4. Authority!bundleForState(t) = Authority!bundleForState(s)
  <2>1. ASSUME NEW x \in Authority!bundleForState(s)
        PROVE  x \in Authority!bundleForState(t)
    <3>1. PICK r \in s.certs : x = Authority!Cert(r)
      BY <2>1 DEF Authority!bundleForState
    <3>2. Authority!Promoted(s, g, r, now) \in t.certs /\ x = Authority!Cert(Authority!Promoted(s, g, r, now))
      BY <1>1, <1>2, <3>1
    <3> QED BY <3>2 DEF Authority!bundleForState
  <2>2. ASSUME NEW x \in Authority!bundleForState(t)
        PROVE  x \in Authority!bundleForState(s)
    <3> HIDE DEF t
    <3>1. PICK q \in t.certs : x = Authority!Cert(q)
      BY <2>2 DEF Authority!bundleForState
    <3>2. PICK r \in s.certs : q = Authority!Promoted(s, g, r, now)
      BY <1>1, <3>1
    <3> QED BY <1>2, <3>1, <3>2 DEF Authority!bundleForState
  <2> QED BY <2>1, <2>2
<1> QED BY <1>1, <1>3, <1>4

\* The promoted certificate is the issuer.
LEMMA PromotedIssuer ==
  ASSUME NEW s \in Authority!caState, NEW p \in s.certs, NEW now \in Int,
         \A q, r \in s.certs : q.gen = r.gen => q = r
  PROVE  Issuer(Authority!promoteState(s, p.gen, now)) = Authority!Cert(p)
<1> DEFINE t == Authority!promoteState(s, p.gen, now)
           c == Authority!Promoted(s, p.gen, p, now)
<1>1. p.gen \in Nat
  BY DEF Authority!caState, Authority!certificateRecord
<1>2. t.current = p.gen /\ t.certs = {Authority!Promoted(s, p.gen, r, now) : r \in s.certs}
  BY DEF Authority!promoteState
<1>3. \A r \in s.certs : LET q == Authority!Promoted(s, p.gen, r, now)
                         IN  q.gen = r.gen /\ Authority!Cert(q) = Authority!Cert(r)
  BY PromotedRecord, SMT
<1>4. c \in t.certs /\ c.gen = t.current
  BY <1>2, <1>3
<1>5. \A q, r \in t.certs : q.gen = r.gen => q = r
  <2> HIDE DEF t
  <2> SUFFICES ASSUME NEW q \in t.certs, NEW r \in t.certs, q.gen = r.gen
               PROVE  q = r
    OBVIOUS
  <2>1. PICK x \in s.certs : q = Authority!Promoted(s, p.gen, x, now)
    BY <1>2
  <2>2. PICK y \in s.certs : r = Authority!Promoted(s, p.gen, y, now)
    BY <1>2
  <2>3. x.gen = y.gen
    BY <1>3, <2>1, <2>2
  <2> QED BY <2>1, <2>2, <2>3
<1>6. Authority!CurrentRecord(t) = c
  <2> HIDE DEF t, c
  <2> QED BY <1>4, <1>5, CurrentIs
<1>7. Authority!Cert(c) = Authority!Cert(p)
  BY <1>3
<1> QED BY <1>6, <1>7 DEF Issuer

\* What a bundle still holds is kept, what pruneState takes away may go, and nothing
\* need be kept of an expired state.
LEMMA KeptLonger ==
  ASSUME NEW d, NEW s, NEW t, NEW now, Kept(d, s, now),
         Authority!bundleForState(s) \subseteq Authority!bundleForState(t)
  PROVE  Kept(d, t, now)
  BY DEF Kept

\* Pruning drops only what was retired for its overlap (pruneState).
LEMMA KeptPruned ==
  ASSUME Authority!DurationAssumption, NEW d \in Authority!caState, NEW now \in Int
  PROVE  Kept(d, Authority!pruneState(d, now), now)
<1> DEFINE s == Authority!pruneState(d, now)
<1> SUFFICES ASSUME NEW r \in d.certs,
                    ~(r.retiredAt # None /\ r.retiredAt + Retention + Skew <= now)
             PROVE  Authority!Cert(r) \in Authority!bundleForState(s)
  BY DEF Kept
<1>1. r.retiredAt \in Int \cup {None} /\ Retention \in Nat /\ Skew \in Nat
  BY DEF Authority!caState, Authority!certificateRecord, Authority!DurationAssumption
<1>2. r.retiredAt = None \/ r.retiredAt + Retention + Skew > now
  BY <1>1, SMT
<1>3. r \in s.certs
  BY <1>2, Pruned DEF Authority!Retained
<1> QED BY <1>3 DEF Authority!bundleForState

\* An expired state is replaced by one with a pending certificate and the same issuer.
LEMMA Replaced ==
  ASSUME Authority!DurationAssumption, NEW s, Regular(s), NEW now \in Int
  PROVE  LET r == Authority!Replacement(s, now)
         IN  Regular(r) /\ Authority!Pending(r) # {} /\ SameIssuer(s, r)
<1> DEFINE c == Authority!CurrentRecord(s)
           p == Authority!pendingRecord(c.gen + 1, now)
           r == [s EXCEPT !.certs = {c, p}]
<1>1. CASE Authority!Pending(s) # {} /\ Authority!PendingRecord(s).notBefore <= now
           /\ now < Authority!PendingRecord(s).notAfter
  BY <1>1 DEF Authority!Replacement, SameIssuer
<1>2. CASE ~(Authority!Pending(s) # {} /\ Authority!PendingRecord(s).notBefore <= now
             /\ now < Authority!PendingRecord(s).notAfter)
  <2>1. Authority!Replacement(s, now) = r
    BY <1>2 DEF Authority!Replacement
  <2>2. c \in s.certs /\ c.gen = s.current
    BY DEF Regular, Authority!CurrentRecord
  <2> HIDE DEF c
  <2>3. c \in Authority!certificateRecord /\ c.gen \in Nat /\ c.gen + 1 \in Nat /\ c.gen + 1 > c.gen
    BY <2>2, SMT DEF Regular, Authority!caState, Authority!certificateRecord
  <2>4. p \in Authority!certificateRecord /\ p.gen = c.gen + 1 /\ p.activateAt # None
    BY <2>3, RecordMade
  <2> HIDE DEF p
  <2>5. r \in Authority!caState /\ r.certs = {c, p} /\ r.current = s.current
    BY <2>3, <2>4 DEF Regular, Authority!caState
  <2> HIDE DEF r
  <2>6. p.gen # c.gen /\ ~(c.gen > c.gen)
    BY <2>3, <2>4, SMT
  <2>7. c.activateAt = None
    BY <2>2, <2>6 DEF Regular
  <2>8. p.gen > s.current
    BY <2>2, <2>3, <2>4
  <2>9. Authority!Pending(r) = {p}
    BY <2>4, <2>5, <2>7 DEF Authority!Pending
  <2>10. \A q, u \in r.certs : q.gen = u.gen => q = u
    BY <2>5, <2>6
  <2>11. \A q \in r.certs : q.activateAt # None <=> q.gen > r.current
    BY <2>2, <2>4, <2>5, <2>6, <2>7, <2>8
  <2>12. Regular(r)
    BY <2>2, <2>5, <2>9, <2>10, <2>11 DEF Regular
  <2>13. Authority!CurrentRecord(r) = c
    BY <2>2, <2>5, <2>10, CurrentIs
  <2>14. SameIssuer(s, r)
    BY <2>5, <2>13 DEF SameIssuer, Issuer, c
  <2> QED BY <2>1, <2>9, <2>12, <2>14
<1> QED BY <1>1, <1>2

\* A rotation adds a pending certificate (Ensure).
LEMMA Extended ==
  ASSUME Authority!DurationAssumption, NEW s, Regular(s), Authority!Pending(s) = {}, NEW now \in Int
  PROVE  LET c == Authority!CurrentRecord(s)
             t == [s EXCEPT !.certs = @ \cup {Authority!pendingRecord(c.gen + 1, now)}]
         IN  /\ t \in Authority!caState /\ SameIssuer(s, t)
             /\ Authority!bundleForState(s) \subseteq Authority!bundleForState(t)
<1> DEFINE c == Authority!CurrentRecord(s)
           p == Authority!pendingRecord(c.gen + 1, now)
           t == [s EXCEPT !.certs = @ \cup {p}]
<1>1. c \in s.certs /\ c.gen = s.current
  BY DEF Regular, Authority!CurrentRecord
<1> HIDE DEF c
<1>2. c.gen \in Nat /\ c.gen + 1 \in Nat /\ c.gen + 1 > c.gen
  BY <1>1, SMT DEF Regular, Authority!caState, Authority!certificateRecord
<1>3. p \in Authority!certificateRecord /\ p.gen = c.gen + 1
  BY <1>2, RecordMade
<1> HIDE DEF p
<1>4. t \in Authority!caState /\ t.certs = s.certs \cup {p} /\ t.current = s.current
  BY <1>3 DEF Regular, Authority!caState
<1> HIDE DEF t
<1>5. \A r \in s.certs : ~(r.gen > s.current)
  BY DEF Regular, Authority!Pending
<1>6. \A r \in s.certs : r.gen # p.gen
  BY <1>1, <1>2, <1>3, <1>5
<1>7. \A q, r \in t.certs : q.gen = r.gen => q = r
  BY <1>4, <1>6 DEF Regular
<1>8. Authority!CurrentRecord(t) = c
  BY <1>1, <1>4, <1>7, CurrentIs
<1>9. SameIssuer(s, t)
  BY <1>4, <1>8 DEF SameIssuer, Issuer, c
<1>10. Authority!bundleForState(s) \subseteq Authority!bundleForState(t)
  BY <1>4 DEF Authority!bundleForState
<1> QED BY <1>4, <1>9, <1>10 DEF t, p, c

-----------------------------------------------------------------------------
(* What a leader is about to write *)

\* Trust only grows, and with it what may be written.
LEMMA IterationKept ==
  ASSUME NEW a, NEW n, NEW t, NEW u, NEW held, NEW more, NEW pub, IterationOK(a, n, t, held, pub),
         held \subseteq more, t + offset[n] <= u + offset[n], t + offset[n] \in Int, u + offset[n] \in Int, a.now \in Int
  PROVE  IterationOK(a, n, u, more, pub)
<1>1. a.pc # "wait" => a.now <= u + offset[n]
  <2>1. a.pc # "wait" => a.now <= t + offset[n]
    BY DEF IterationOK
  <2>2. a.now <= t + offset[n] => a.now <= u + offset[n]
    BY SMT
  <2> QED BY <2>1, <2>2
<1>2. a.pc = "put" => Writable(a.seen, a.draft, a.now, more, pub)
  BY DEF IterationOK, Writable
<1> QED BY <1>1, <1>2 DEF IterationOK

\* One node's loop takes a step.
LEMMA NodeStep ==
  ASSUME Authority!DurationAssumption, EnsureInv, NEW n \in Node, NEW x \in Iteration,
         agent' = [agent EXCEPT ![n] = x], IterationOK(x, n, clock, trusted', publication),
         clock' = clock, trusted \subseteq trusted'
  PROVE  agent' \in [Node -> Iteration] /\ \A m \in Node : IterationOK(agent'[m], m, clock', trusted', publication)
<1>1. agent' \in [Node -> Iteration]
  BY DEF EnsureInv
<1>2. ASSUME NEW m \in Node
      PROVE  IterationOK(agent'[m], m, clock, trusted', publication)
  <2>1. CASE m = n
    BY <2>1 DEF EnsureInv
  <2>2. CASE m # n
    <3>1. agent'[m] = agent[m] /\ IterationOK(agent[m], m, clock, trusted, publication) /\ agent[m].now \in Int
      BY <2>2 DEF EnsureInv, Iteration
    <3>2. clock + offset[m] \in Int /\ clock + offset[m] <= clock + offset[m]
      BY SMT DEF EnsureInv, Authority!DurationAssumption
    <3> QED BY <3>1, <3>2, IterationKept
  <2> QED BY <2>1, <2>2
<1> QED BY <1>1, <1>2

\* The loop leaves Ensure, Sync or Publish (runWorkloadIdentity).
LEMMA NodeGoes ==
  ASSUME Authority!DurationAssumption, EnsureInv, NEW n \in Node, agent[n].pc # "wait",
         NEW pc \in {"wait", "sync", "distribute"}, Authority!Goto(n, pc),
         clock' = clock, trusted \subseteq trusted'
  PROVE  agent' \in [Node -> Iteration] /\ \A m \in Node : IterationOK(agent'[m], m, clock', trusted', publication)
<1> DEFINE x == IF pc = "wait" THEN Authority!Waiting
                ELSE [Authority!Waiting EXCEPT !.pc = pc, !.now = agent[n].now]
<1>1. Authority!Waiting \in Iteration /\ Authority!Waiting.pc = "wait"
  BY SMT DEF Authority!Waiting, Iteration, State
<1>2. agent[n].now \in Int /\ agent[n].now <= clock + offset[n]
  BY DEF EnsureInv, Iteration, IterationOK
<1>3. x \in Iteration /\ x.pc \in {"wait", "sync", "distribute"} /\ (x.pc # "wait" => x.now = agent[n].now)
  <2>1. CASE pc = "wait"
    BY <1>1, <2>1
  <2>2. CASE pc # "wait"
    <3>1. x = [Authority!Waiting EXCEPT !.pc = pc, !.now = agent[n].now]
      BY <2>2
    <3> QED BY <1>1, <1>2, <2>2, <3>1 DEF Iteration
  <2> QED BY <2>1, <2>2
<1>4. agent' = [agent EXCEPT ![n] = x]
  BY DEF Authority!Goto
<1> HIDE DEF x
<1>5. IterationOK(x, n, clock, trusted', publication)
  BY <1>2, <1>3 DEF IterationOK
<1> QED BY <1>3, <1>4, <1>5, NodeStep

\* Ensure goes on with a draft of what it read.
LEMMA NodeDrafts ==
  ASSUME Authority!DurationAssumption, EnsureInv, NEW n \in Node, agent[n].pc = "read",
         NEW pc \in {"publish", "ready", "put"}, NEW s \in Authority!caState, NEW e \in BOOLEAN,
         Authority!Draft(n, pc, s, e), clock' = clock, trusted' = trusted,
         pc \in {"publish", "ready"} => Unpublished(durable, s, agent[n].now),
         pc = "put" => Writable(durable, s, agent[n].now, trusted, publication)
  PROVE  agent' \in [Node -> Iteration] /\ \A m \in Node : IterationOK(agent'[m], m, clock', trusted', publication)
<1> DEFINE x == [agent[n] EXCEPT !.pc = pc, !.seen = durable, !.draft = s, !.expired = e]
<1>1. agent[n] \in Iteration /\ agent[n].now <= clock + offset[n]
  BY DEF EnsureInv, IterationOK
<1>2. x \in Iteration /\ x.pc = pc /\ x.now = agent[n].now /\ x.seen = durable /\ x.draft = s
  BY <1>1 DEF EnsureInv, Iteration, State
<1>3. agent' = [agent EXCEPT ![n] = x]
  BY DEF Authority!Draft, EnsureInv
<1> HIDE DEF x
<1>4. IterationOK(x, n, clock, trusted', publication)
  BY <1>1, <1>2 DEF IterationOK
<1> QED BY <1>2, <1>3, <1>4, NodeStep

\* Ensure's read of a state: every draft keeps its certificates and its issuer.
LEMMA ReadKeeps ==
  ASSUME Authority!DurationAssumption, EnsureInv, NEW n \in Node, Authority!ReadState(n)
  PROVE  agent' \in [Node -> Iteration] /\ \A m \in Node : IterationOK(agent'[m], m, clock', trusted', publication)
<1> DEFINE now == agent[n].now
           s == Authority!pruneState(durable, now)
           c == Authority!CurrentRecord(s)
           OK == agent' \in [Node -> Iteration] /\ \A m \in Node : IterationOK(agent'[m], m, clock', trusted', publication)
<1>1. agent[n].pc = "read" /\ clock' = clock /\ trusted' = trusted /\ now \in Int
      /\ trusted \subseteq trusted' /\ agent[n].pc # "wait"
  BY DEF Authority!ReadState, EnsureInv, Iteration
<1>2. ASSUME Authority!Goto(n, "sync")
      PROVE  OK
  BY <1>1, <1>2, NodeGoes
<1>3. CASE durable = None
  <2> DEFINE f == FirstState(now)
  <2>1. Authority!newRecord(1, now) \in Authority!certificateRecord
    BY <1>1, RecordMade
  <2>2. f \in Authority!caState /\ f.current = 1
    BY <2>1 DEF FirstState, Authority!caState
  <2>3. Authority!Draft(n, "put", f, FALSE)
    BY <1>3 DEF Authority!ReadState, FirstState
  <2> HIDE DEF f
  <2>4. Writable(durable, f, now, trusted, publication)
    BY <1>3, <2>2, SMT DEF Writable
  <2> QED BY <1>1, <2>2, <2>3, <2>4, NodeDrafts
<1>4. CASE durable # None /\ ~Authority!validateState(durable, now, FALSE)
  BY <1>2, <1>4 DEF Authority!ReadState
<1>5. CASE durable # None /\ Authority!validateState(durable, now, FALSE)
  <2>1. durable \in Authority!caState
    BY <1>5 DEF EnsureInv, State
  <2>2. Regular(s) /\ Regular(durable) /\ Authority!CurrentRecord(s) = Authority!CurrentRecord(durable)
    BY <1>5, <2>1, PrunedRegular
  <2>3. s \in Authority!caState /\ s.current = durable.current
    BY <2>1, Pruned
  <2>4. Kept(durable, s, now) /\ SameIssuer(durable, s)
    BY <1>1, <2>1, <2>2, <2>3, KeptPruned DEF SameIssuer, Issuer
  <2>5. CASE now >= c.notAfter
    <3> DEFINE r == Authority!Replacement(s, now)
    <3>1. Regular(r) /\ Authority!Pending(r) # {} /\ SameIssuer(s, r)
      BY <1>1, <2>2, Replaced
    <3>2. r \in Authority!caState
      BY <3>1 DEF Regular
    <3>3. \A t : Kept(durable, t, now)
      BY <2>2, <2>5 DEF Kept
    <3>4. CASE publication
      <4>1. Authority!Draft(n, "publish", r, TRUE)
        BY <1>5, <2>5, <3>4 DEF Authority!ReadState
      <4> HIDE DEF r, s
      <4>2. Unpublished(durable, r, now)
        BY <1>5, <2>2, <2>4, <3>1, <3>3 DEF Unpublished, SameIssuer
      <4> QED BY <1>1, <3>2, <4>1, <4>2, NodeDrafts
    <3>5. CASE ~publication
      <4> DEFINE p == Authority!PendingRecord(r)
                 t == Authority!promoteState(r, p.gen, now)
      <4>1. Authority!Draft(n, "put", t, TRUE)
        BY <1>5, <2>5, <3>5 DEF Authority!ReadState
      <4> HIDE DEF r
      <4>2. p \in r.certs
        BY <3>1, PendingIs DEF Authority!Pending
      <4>3. p.gen \in Nat
        BY <3>2, <4>2 DEF Authority!caState, Authority!certificateRecord
      <4> HIDE DEF p
      <4>4. t \in Authority!caState
        BY <1>1, <3>2, <4>3, PromotedState
      <4> HIDE DEF t
      <4>5. Writable(durable, t, now, trusted, publication)
        BY <2>2, <3>3, <3>5, <4>4 DEF Writable
      <4> QED BY <1>1, <4>1, <4>4, <4>5, NodeDrafts
    <3> QED BY <3>4, <3>5
  <2>6. CASE ~(now >= c.notAfter) /\ Authority!Pending(s) # {}
    <3> DEFINE p == Authority!PendingRecord(s)
               t == Authority!promoteState(s, p.gen, now)
    <3>1. p \in s.certs
      BY <2>2, <2>6, PendingIs DEF Authority!Pending
    <3>2. p.gen \in Nat
      BY <2>3, <3>1 DEF Authority!caState, Authority!certificateRecord
    <3>3. CASE publication
      <4>1. Authority!Draft(n, "ready", s, FALSE)
        BY <1>5, <2>6, <3>3 DEF Authority!ReadState
      <4> HIDE DEF s
      <4>2. Unpublished(durable, s, now)
        BY <1>5, <2>2, <2>4, <2>6 DEF Unpublished
      <4> QED BY <1>1, <2>3, <4>1, <4>2, NodeDrafts
    <3>4. CASE ~publication
      <4>1. Authority!Draft(n, "put", t, FALSE) \/ Authority!Draft(n, "put", s, FALSE) \/ Authority!Goto(n, "sync")
        BY <1>5, <2>6, <3>4 DEF Authority!ReadState, Authority!Ensured
      <4> HIDE DEF s, p
      <4>2. t \in Authority!caState /\ Authority!bundleForState(t) = Authority!bundleForState(s)
        BY <1>1, <2>3, <3>2, PromotedState
      <4> HIDE DEF t
      <4>3. Writable(durable, t, now, trusted, publication) /\ Writable(durable, s, now, trusted, publication)
        BY <2>2, <2>3, <2>4, <3>4, <4>2, KeptLonger DEF Writable
      <4> QED BY <1>1, <1>2, <2>3, <4>1, <4>2, <4>3, NodeDrafts
    <3> QED BY <3>3, <3>4
  <2>7. CASE ~(now >= c.notAfter) /\ Authority!Pending(s) = {}
    <3> DEFINE t == [s EXCEPT !.certs = @ \cup {Authority!pendingRecord(c.gen + 1, now)}]
    <3>1. Authority!Draft(n, "put", t, FALSE) \/ Authority!Draft(n, "put", s, FALSE) \/ Authority!Goto(n, "sync")
      BY <1>5, <2>7 DEF Authority!ReadState, Authority!Ensured
    <3>2. t \in Authority!caState /\ SameIssuer(s, t)
          /\ Authority!bundleForState(s) \subseteq Authority!bundleForState(t)
      BY <1>1, <2>2, <2>7, Extended
    <3> HIDE DEF s, t
    <3>3. Kept(durable, t, now) /\ SameIssuer(durable, t)
      BY <2>4, <3>2, KeptLonger DEF SameIssuer
    <3>4. Writable(durable, t, now, trusted, publication) /\ Writable(durable, s, now, trusted, publication)
      BY <1>5, <2>2, <2>3, <2>4, <3>2, <3>3 DEF Writable
    <3> QED BY <1>1, <1>2, <2>3, <3>1, <3>2, <3>4, NodeDrafts
  <2> QED BY <2>5, <2>6, <2>7
<1> QED BY <1>3, <1>4, <1>5

\* The mark of a publication changes no certificate.
LEMMA Marked ==
  ASSUME NEW s, Regular(s), NEW p \in Authority!Pending(s), NEW q \in Authority!certificateRecord,
         q.gen = p.gen, Authority!Cert(q) = Authority!Cert(p)
  PROVE  LET t == [s EXCEPT !.certs = (@ \ {p}) \cup {q}]
         IN  /\ t \in Authority!caState /\ q \in t.certs
             /\ \A u, v \in t.certs : u.gen = v.gen => u = v
             /\ SameIssuer(s, t) /\ Authority!bundleForState(t) = Authority!bundleForState(s)
<1> DEFINE t == [s EXCEPT !.certs = (@ \ {p}) \cup {q}]
<1>1. p \in s.certs /\ p.gen > s.current /\ p.gen \in Nat /\ s.current \in Nat
  BY DEF Regular, Authority!Pending, Authority!caState, Authority!certificateRecord
<1>2. t \in Authority!caState /\ t.certs = (s.certs \ {p}) \cup {q} /\ t.current = s.current
  BY DEF Regular, Authority!caState
<1> HIDE DEF t
<1>3. \A u, v \in t.certs : u.gen = v.gen => u = v
  BY <1>1, <1>2 DEF Regular
<1>4. PICK c \in s.certs : c.gen = s.current
  BY DEF Regular
<1>5. c # p
  BY <1>1, <1>4, SMT
<1>6. Authority!CurrentRecord(s) = c
  BY <1>4, CurrentIs DEF Regular
<1>7. Authority!CurrentRecord(t) = c
  BY <1>2, <1>3, <1>4, <1>5, CurrentIs
<1>8. SameIssuer(s, t)
  BY <1>2, <1>6, <1>7 DEF SameIssuer, Issuer
<1>9. Authority!bundleForState(t) = Authority!bundleForState(s)
  BY <1>1, <1>2 DEF Authority!bundleForState
<1> QED BY <1>2, <1>3, <1>8, <1>9 DEF t

\* The check of the external object: only a published certificate becomes the issuer.
LEMMA CheckKeeps ==
  ASSUME Authority!DurationAssumption, EnsureInv, NEW n \in Node, Authority!CheckPublication(n)
  PROVE  agent' \in [Node -> Iteration] /\ \A m \in Node : IterationOK(agent'[m], m, clock', trusted', publication)
<1> DEFINE a == agent[n]
           s == a.draft
           p == Authority!PendingRecord(s)
           q == IF Authority!publicationReady(s) /\ ~a.expired /\ p.publishedAt = None
                THEN [p EXCEPT !.publishedAt = a.now, !.activateAt = a.now + Lag] ELSE p
           t == [s EXCEPT !.certs = (@ \ {p}) \cup {q}]
           u == Authority!promoteState(t, q.gen, a.now)
           done == IF Authority!publicationReady(s) /\ (a.expired \/ Authority!Activated(q, a.now)) THEN u ELSE t
           x == [a EXCEPT !.pc = "put", !.draft = done]
           OK == agent' \in [Node -> Iteration] /\ \A m \in Node : IterationOK(agent'[m], m, clock', trusted', publication)
<1>1. a.pc = "ready" /\ clock' = clock /\ trusted' = trusted /\ trusted \subseteq trusted' /\ a.pc # "wait"
  BY DEF Authority!CheckPublication
<1>2. a \in Iteration /\ a.now \in Int /\ a.now + Lag \in Int /\ a.now <= clock + offset[n]
  <2>1. a \in Iteration /\ a.now \in Int /\ a.now <= clock + offset[n]
    BY <1>1 DEF EnsureInv, Iteration, IterationOK
  <2>2. a.now + Lag \in Int
    BY <2>1, SMT DEF Authority!DurationAssumption
  <2> QED BY <2>1, <2>2
<1>3. Unpublished(a.seen, s, a.now)
  BY <1>1 DEF EnsureInv, IterationOK
<1>4. a.seen # None /\ Regular(a.seen) /\ Regular(s) /\ Kept(a.seen, s, a.now) /\ SameIssuer(a.seen, s)
  BY <1>3 DEF Unpublished
<1>5. p \in Authority!Pending(s)
  BY <1>3, PendingIs DEF Unpublished
<1>6. p \in s.certs /\ p \in Authority!certificateRecord
  BY <1>4, <1>5 DEF Authority!Pending, Regular, Authority!caState
<1>7. agent' = [agent EXCEPT ![n] = x] \/ Authority!Goto(n, "sync")
  BY DEF Authority!CheckPublication, Authority!Ensured
<1> HIDE DEF p, s
<1>8. q \in Authority!certificateRecord /\ q.gen = p.gen /\ Authority!Cert(q) = Authority!Cert(p)
  <2>1. CASE q = p
    BY <1>6, <2>1
  <2>2. CASE q = [p EXCEPT !.publishedAt = a.now, !.activateAt = a.now + Lag]
    BY <1>2, <1>6, <2>2 DEF Authority!certificateRecord, Authority!Cert
  <2> QED BY <2>1, <2>2
<1>9. q.gen \in Nat
  BY <1>8 DEF Authority!certificateRecord
<1> HIDE DEF q
<1>10. /\ t \in Authority!caState /\ q \in t.certs
       /\ \A v, w \in t.certs : v.gen = w.gen => v = w
       /\ SameIssuer(s, t) /\ Authority!bundleForState(t) = Authority!bundleForState(s)
  BY <1>4, <1>5, <1>8, Marked
<1> HIDE DEF t
<1>11. /\ u \in Authority!caState /\ Authority!bundleForState(u) = Authority!bundleForState(t)
       /\ Issuer(u) = Authority!Cert(q)
  BY <1>2, <1>9, <1>10, PromotedState, PromotedIssuer
<1> HIDE DEF u
<1>12. Writable(a.seen, t, a.now, trusted, publication)
  <2>1. Kept(a.seen, t, a.now)
    BY <1>4, <1>10, KeptLonger
  <2> QED BY <1>4, <1>10, <2>1 DEF Writable, SameIssuer
<1>13. ASSUME Authority!publicationReady(s)
       PROVE  Writable(a.seen, u, a.now, trusted, publication)
  <2>1. Kept(a.seen, u, a.now)
    BY <1>4, <1>10, <1>11, KeptLonger
  <2>2. Authority!Cert(p) \in published
    BY <1>6, <1>13 DEF Authority!publicationReady, Authority!bundleForState
  <2>3. Issuer(u) \in trusted
    BY <1>8, <1>11, <2>2 DEF EnsureInv
  <2> QED BY <1>4, <1>11, <2>1, <2>3 DEF Writable
<1>14. Writable(a.seen, done, a.now, trusted, publication) /\ done \in Authority!caState
  BY <1>10, <1>11, <1>12, <1>13
<1> HIDE DEF done
<1>15. x \in Iteration /\ x.pc = "put" /\ x.draft = done /\ x.seen = a.seen /\ x.now = a.now
  BY <1>2, <1>14 DEF Iteration, State
<1> HIDE DEF x
<1>16. IterationOK(x, n, clock, trusted', publication)
  BY <1>1, <1>2, <1>14, <1>15 DEF IterationOK
<1>17. CASE agent' = [agent EXCEPT ![n] = x]
  BY <1>1, <1>15, <1>16, <1>17, NodeStep
<1>18. CASE Authority!Goto(n, "sync")
  BY <1>1, <1>18, NodeGoes
<1> QED BY <1>7, <1>17, <1>18

\* An issuer stays published.
LEMMA StaysPublished ==
  ASSUME EnsureInv, publication' = publication, durable' = durable, trusted \subseteq trusted'
  PROVE  Authority!PublishedFirst'
  BY DEF EnsureInv, Authority!PublishedFirst

\* The conditional write: what was drafted from the state that it replaces.
LEMMA PutKeeps ==
  ASSUME Authority!DurationAssumption, EnsureInv, NEW n \in Node, Authority!PutState(n)
  PROVE  EnsureInv'
<1>1. agent[n].pc = "put" /\ agent[n].pc # "wait" /\ clock' = clock /\ published' = published
      /\ trusted' = trusted /\ trusted \subseteq trusted' /\ publication' = publication
  BY DEF Authority!PutState
<1>2. agent[n] \in Iteration /\ Writable(agent[n].seen, agent[n].draft, agent[n].now, trusted, publication)
      /\ agent[n].now <= clock + offset[n]
  BY <1>1 DEF EnsureInv, IterationOK
<1>3. CASE Authority!Unmodified(n)
  <2>1. durable' = agent[n].draft /\ Authority!Goto(n, "sync") /\ durable = agent[n].seen
    BY <1>3 DEF Authority!PutState, Authority!Ensured, Authority!Unmodified
  <2>2. agent' \in [Node -> Iteration] /\ \A m \in Node : IterationOK(agent'[m], m, clock', trusted', publication)
    BY <1>1, <2>1, NodeGoes
  <2>3. durable' \in Authority!caState
    BY <1>2, <2>1 DEF Writable
  <2>4. Authority!PublishedFirst'
    <3> SUFFICES ASSUME publication, durable'.current > 1
                 PROVE  Issuer(durable') \in trusted
      BY <1>1 DEF Authority!PublishedFirst, Issuer
    <3>1. durable'.current \in Nat
      BY <2>3 DEF Authority!caState
    <3>2. ~(durable'.current <= 1)
      BY <3>1, SMT
    <3>3. (durable # None /\ SameIssuer(durable, durable')) \/ Issuer(durable') \in trusted
      BY <1>2, <2>1, <3>2 DEF Writable
    <3>4. ASSUME durable # None, SameIssuer(durable, durable')
          PROVE  Issuer(durable') \in trusted
      BY <3>4 DEF EnsureInv, Authority!PublishedFirst, SameIssuer, Issuer
    <3> QED BY <3>3, <3>4
  <2> QED BY <1>1, <2>2, <2>3, <2>4 DEF EnsureInv, State
<1>4. CASE ~Authority!Unmodified(n)
  <2>1. durable' = durable
    BY <1>4 DEF Authority!PutState
  <2>2. CASE Authority!Goto(n, "sync")
    <3>1. agent' \in [Node -> Iteration] /\ \A m \in Node : IterationOK(agent'[m], m, clock', trusted', publication)
      BY <1>1, <2>2, NodeGoes
    <3> QED BY <1>1, <2>1, <3>1, StaysPublished DEF EnsureInv
  <2>3. CASE agent' = [agent EXCEPT ![n] = [@ EXCEPT !.pc = "read", !.attempt = agent[n].attempt + 1]]
    <3> DEFINE x == [agent[n] EXCEPT !.pc = "read", !.attempt = agent[n].attempt + 1]
    <3>1. agent' = [agent EXCEPT ![n] = x]
      BY <2>3 DEF EnsureInv
    <3>2. agent[n].attempt + 1 \in Nat
      BY <1>2, SMT DEF Iteration
    <3>3. x \in Iteration /\ x.pc = "read" /\ x.now = agent[n].now
      BY <1>2, <3>2 DEF Iteration
    <3> HIDE DEF x
    <3>4. IterationOK(x, n, clock, trusted', publication)
      BY <1>2, <3>3 DEF IterationOK
    <3>5. agent' \in [Node -> Iteration] /\ \A m \in Node : IterationOK(agent'[m], m, clock', trusted', publication)
      BY <1>1, <3>1, <3>3, <3>4, NodeStep
    <3> QED BY <1>1, <2>1, <3>5, StaysPublished DEF EnsureInv
  <2> QED BY <1>4, <2>2, <2>3 DEF Authority!PutState
<1> QED BY <1>3, <1>4

\* EnsureInv holds at the start, before any leader works.
LEMMA EnsureInit ==
  ASSUME Authority!DurationAssumption, Authority!Init
  PROVE  EnsureInv
<1> DEFINE f == FirstState(0)
<1>0. 1 \in Nat /\ 0 \in Int
  BY SMT
<1>1. Authority!newRecord(1, 0) \in Authority!certificateRecord
  BY <1>0, RecordMade
<1>2. f \in Authority!caState /\ f.current = 1 /\ ~(f.current > 1)
  BY <1>1, SMT DEF FirstState, Authority!caState
<1>3. durable = None \/ durable = f
  BY DEF Authority!Init, FirstState
<1> HIDE DEF f
<1>4. Authority!Waiting \in Iteration /\ Authority!Waiting.pc = "wait"
  BY SMT DEF Authority!Waiting, Iteration, State
<1>5. agent \in [Node -> Iteration] /\ \A n \in Node : agent[n].pc = "wait"
  BY <1>4 DEF Authority!Init
<1>6. \A n \in Node : IterationOK(agent[n], n, clock, trusted, publication)
  BY <1>5 DEF IterationOK
<1>7. Authority!PublishedFirst
  BY <1>2, <1>3 DEF Authority!PublishedFirst
<1>8. clock \in Nat /\ published \subseteq trusted
  BY DEF Authority!Init, Authority!DurationAssumption
<1> QED BY <1>2, <1>3, <1>5, <1>6, <1>7, <1>8 DEF EnsureInv, State

\* A step of a node's loop.
LEMMA LoopKeeps ==
  ASSUME Authority!DurationAssumption, EnsureInv, NEW n \in Node, Authority!Loop(n)
  PROVE  EnsureInv'
<1> DEFINE OK == agent' \in [Node -> Iteration] /\ \A m \in Node : IterationOK(agent'[m], m, clock', trusted', publication)
<1>0. agent[n] \in Iteration
  BY DEF EnsureInv
<1>1. ASSUME OK, clock' = clock, publication' = publication, durable' = durable, published' \subseteq trusted', trusted \subseteq trusted'
      PROVE  EnsureInv'
  BY <1>1, StaysPublished DEF EnsureInv
<1>2. CASE Authority!Wake(n)
  <2> DEFINE x == [agent[n] EXCEPT !.pc = IF n = leader THEN "read" ELSE "sync", !.now = clock + offset[n]]
  <2>1. clock + offset[n] \in Int /\ clock + offset[n] <= clock + offset[n]
    BY SMT DEF EnsureInv, Authority!DurationAssumption
  <2>2. agent' = [agent EXCEPT ![n] = x]
    BY <1>2 DEF Authority!Wake
  <2>3. x \in Iteration /\ x.pc \in {"read", "sync"} /\ x.now = clock + offset[n]
    BY <1>0, <2>1 DEF Iteration
  <2> HIDE DEF x
  <2>4. IterationOK(x, n, clock, trusted', publication)
    BY <2>1, <2>3 DEF IterationOK
  <2>5. clock' = clock /\ publication' = publication /\ durable' = durable
        /\ published' \subseteq trusted' /\ trusted \subseteq trusted'
    BY <1>2 DEF Authority!Wake, EnsureInv
  <2>6. OK
    BY <2>2, <2>3, <2>4, <2>5, NodeStep
  <2> QED BY <1>1, <2>5, <2>6
<1>3. CASE Authority!Fail(n)
  <2>1. clock' = clock /\ publication' = publication /\ durable' = durable
        /\ published' \subseteq trusted' /\ trusted \subseteq trusted'
        /\ agent[n].pc # "wait" /\ (Authority!Goto(n, "wait") \/ Authority!Goto(n, "sync"))
    BY <1>3 DEF Authority!Fail, EnsureInv
  <2>2. OK
    BY <2>1, NodeGoes
  <2> QED BY <1>1, <2>1, <2>2
<1>4. CASE Authority!ReadState(n)
  <2>1. clock' = clock /\ publication' = publication /\ durable' = durable
        /\ published' \subseteq trusted' /\ trusted \subseteq trusted'
    BY <1>4 DEF Authority!ReadState, EnsureInv
  <2> QED BY <1>1, <1>4, <2>1, ReadKeeps
<1>5. CASE Authority!PublishReplacement(n)
  <2> DEFINE x == [agent[n] EXCEPT !.pc = "ready"]
  <2>1. clock' = clock /\ publication' = publication /\ durable' = durable
        /\ published' \subseteq trusted' /\ trusted \subseteq trusted'
        /\ agent[n].pc = "publish" /\ agent' = [agent EXCEPT ![n] = x]
    BY <1>5 DEF Authority!PublishReplacement, Authority!PublishBundle
  <2>2. x \in Iteration /\ x.pc = "ready" /\ x.now = agent[n].now /\ x.seen = agent[n].seen
        /\ x.draft = agent[n].draft
    BY <1>0 DEF Iteration
  <2>3. agent[n].now <= clock + offset[n] /\ Unpublished(agent[n].seen, agent[n].draft, agent[n].now)
    BY <2>1 DEF EnsureInv, IterationOK
  <2> HIDE DEF x
  <2>4. IterationOK(x, n, clock, trusted', publication)
    BY <2>2, <2>3 DEF IterationOK
  <2>5. OK
    BY <2>1, <2>2, <2>4, NodeStep
  <2> QED BY <1>1, <2>1, <2>5
<1>6. CASE Authority!CheckPublication(n)
  <2>1. clock' = clock /\ publication' = publication /\ durable' = durable
        /\ published' \subseteq trusted' /\ trusted \subseteq trusted'
    BY <1>6 DEF Authority!CheckPublication, EnsureInv
  <2> QED BY <1>1, <1>6, <2>1, CheckKeeps
<1>7. CASE Authority!PutState(n)
  BY <1>7, PutKeeps
<1>8. CASE Authority!Sync(n)
  <2>1. clock' = clock /\ publication' = publication /\ durable' = durable
        /\ published' \subseteq trusted' /\ trusted \subseteq trusted'
        /\ agent[n].pc # "wait" /\ (Authority!Goto(n, "wait") \/ Authority!Goto(n, "distribute"))
    BY <1>8 DEF Authority!Sync, EnsureInv
  <2>2. OK
    BY <2>1, NodeGoes
  <2> QED BY <1>1, <2>1, <2>2
<1>9. CASE Authority!Publish(n)
  <2>1. clock' = clock /\ publication' = publication /\ durable' = durable
        /\ published' \subseteq trusted' /\ trusted \subseteq trusted'
        /\ agent[n].pc # "wait" /\ Authority!Goto(n, "wait")
    BY <1>9 DEF Authority!Publish, Authority!PublishBundle
  <2>2. OK
    BY <2>1, NodeGoes
  <2> QED BY <1>1, <2>1, <2>2
<1> QED BY <1>2, <1>3, <1>4, <1>5, <1>6, <1>7, <1>8, <1>9 DEF Authority!Loop

\* Every step of the loop, of time and of elections keeps the invariant.
LEMMA EnsureStep ==
  ASSUME Authority!DurationAssumption, EnsureInv, [Authority!Next]_Authority!vars
  PROVE  EnsureInv'
<1>1. ASSUME agent' = agent, clock' = clock, publication' = publication, durable' = durable, published' = published,
             trusted' = trusted
      PROVE  EnsureInv'
  BY <1>1 DEF EnsureInv, Authority!PublishedFirst
<1>2. CASE Authority!Tick
  <2>1. clock' = clock + 1 /\ clock + 1 \in Nat /\ agent' = agent /\ durable' = durable
        /\ publication' = publication /\ published' = published /\ trusted' = trusted
    BY <1>2, SMT DEF Authority!Tick, EnsureInv
  <2>2. ASSUME NEW n \in Node
        PROVE  IterationOK(agent[n], n, clock + 1, trusted, publication)
    <3>1. clock + offset[n] \in Int /\ clock + 1 + offset[n] \in Int
          /\ clock + offset[n] <= clock + 1 + offset[n]
      BY SMT DEF EnsureInv, Authority!DurationAssumption
    <3>2. IterationOK(agent[n], n, clock, trusted, publication) /\ agent[n].now \in Int
      BY DEF EnsureInv, Iteration
    <3> QED BY <3>1, <3>2, IterationKept
  <2>3. Authority!PublishedFirst'
    BY <2>1, StaysPublished
  <2> QED BY <2>1, <2>2, <2>3 DEF EnsureInv
<1>3. ASSUME NEW n \in Node, Authority!Issue(n)
      PROVE  EnsureInv'
  BY <1>1, <1>3 DEF Authority!Issue
<1>4. ASSUME NEW n \in Node, Authority!Elect(n)
      PROVE  EnsureInv'
  BY <1>1, <1>4 DEF Authority!Elect
<1>5. CASE UNCHANGED Authority!vars
  BY <1>1, <1>5 DEF Authority!vars
<1> QED BY <1>2, <1>3, <1>4, <1>5, LoopKeeps DEF Authority!Next

\* What a leader is about to write was made from the state that it replaces and keeps
\* its certificates, and its issuer unless the external object held the new one
\* (workload.go, Ensure and publicationReady).
THEOREM EnsureInvariant ==
  ASSUME Authority!DurationAssumption
  PROVE  Authority!Spec => []EnsureInv
<1>1. Authority!Init => EnsureInv
  BY EnsureInit
<1>2. EnsureInv /\ [Authority!Next]_Authority!vars => EnsureInv'
  BY EnsureStep
<1> QED BY <1>1, <1>2, PTL DEF Authority!Spec

\* Only a conditional write changes the state, to what its leader drafted.
LEMMA OnlyPut ==
  ASSUME [Authority!Next]_Authority!vars, durable' # durable
  PROVE  \E n \in Node : agent[n].pc = "put" /\ durable = agent[n].seen /\ durable' = agent[n].draft
<1>1. PICK n \in Node : Authority!Loop(n)
  BY DEF Authority!Next, Authority!vars, Authority!Tick, Authority!Issue, Authority!Elect
<1>2. Authority!PutState(n)
  BY <1>1 DEF Authority!Loop, Authority!Wake, Authority!Fail, Authority!ReadState, Authority!PublishReplacement,
              Authority!CheckPublication, Authority!Sync, Authority!Publish
<1> QED BY <1>2 DEF Authority!PutState, Authority!Unmodified

\* No certificate disappears from the durable state while the issuer is valid, but a
\* retired one after its overlap, however leaders and their clocks interleave
\* (workload.go, Ensure and pruneState).
THEOREM CertificatesAreKept ==
  ASSUME Authority!DurationAssumption
  PROVE  Authority!Spec => CertificatesKept
<1>1. ASSUME EnsureInv, [Authority!Next]_Authority!vars
      PROVE  [Authority!KeepsCertificates]_Authority!vars
  <2> SUFFICES ASSUME durable # None, durable' # durable, NEW r \in durable.certs,
                      ~(Authority!Cert(r) \in Authority!bundleForState(durable'))
               PROVE  \/ r.retiredAt # None /\ r.retiredAt + Retention <= clock
                      \/ \E n \in Node : clock + offset[n] >= Authority!CurrentRecord(durable).notAfter
    BY DEF Authority!KeepsCertificates
  <2>1. PICK n \in Node : agent[n].pc = "put" /\ durable = agent[n].seen /\ durable' = agent[n].draft
    BY <1>1, OnlyPut
  <2> DEFINE now == agent[n].now
             c == Authority!CurrentRecord(durable)
  <2>2. IterationOK(agent[n], n, clock, trusted, publication) /\ now \in Int /\ clock \in Nat
    BY <1>1 DEF EnsureInv, Iteration
  <2>3. now <= clock + offset[n] /\ Kept(durable, durable', now) /\ Regular(durable)
    BY <2>1, <2>2 DEF IterationOK, Writable
  <2>4. durable \in Authority!caState
    BY <1>1 DEF EnsureInv, State
  <2>5. offset[n] \in Int /\ offset[n] <= Skew /\ Skew \in Int /\ Retention \in Int
    BY SMT DEF Authority!DurationAssumption
  <2>6. (r.retiredAt # None /\ r.retiredAt + Retention + Skew <= now) \/ now >= c.notAfter
    BY <2>3 DEF Kept
  <2>7. CASE r.retiredAt # None /\ r.retiredAt + Retention + Skew <= now
    <3>1. r.retiredAt \in Int
      BY <2>4, <2>7 DEF Authority!caState, Authority!certificateRecord
    <3>2. r.retiredAt + Retention <= clock
      BY <2>2, <2>3, <2>5, <2>7, <3>1, SMT
    <3> QED BY <2>7, <3>2
  <2>8. CASE now >= c.notAfter
    <3>1. c \in durable.certs
      BY <2>3 DEF Regular, Authority!CurrentRecord
    <3>2. c.notAfter \in Int
      BY <2>4, <3>1 DEF Authority!caState, Authority!certificateRecord
    <3> HIDE DEF c
    <3>3. clock + offset[n] >= c.notAfter
      BY <2>2, <2>3, <2>5, <2>8, <3>2, SMT
    <3> QED BY <3>3 DEF c
  <2> QED BY <2>6, <2>7, <2>8
<1> QED BY <1>1, EnsureInvariant, PTL DEF CertificatesKept, Authority!CertificatesKept, Authority!Spec

-----------------------------------------------------------------------------
(* Rotation on time *)

\* The durations are numbers and far enough apart.
LEMMA Durations ==
  ASSUME Authority!DurationAssumption
  PROVE  /\ Life \in Nat /\ Retention \in Nat /\ Lag \in Nat /\ Skew \in Nat /\ LeafLife \in Nat
         /\ None \notin Int
         /\ 2 * Retention + Lag + 2 * Skew < Life /\ Skew + 2 <= Lag
         /\ Lag + 2 * Skew + 1 <= Retention /\ LeafLife + Skew + 2 <= Retention
         /\ \A n \in Node : offset[n] \in Int /\ 0 <= offset[n] /\ offset[n] <= Skew
<1>1. \A n \in Node : offset[n] \in 0..Skew
  BY DEF Authority!DurationAssumption
<1>2. Life \in Nat /\ Retention \in Nat /\ Lag \in Nat /\ Skew \in Nat /\ LeafLife \in Nat
  BY DEF Authority!DurationAssumption
<1>3. \A n \in Node : offset[n] \in Int /\ 0 <= offset[n] /\ offset[n] <= Skew
  BY <1>1, <1>2, SMT
<1> QED BY <1>2, <1>3 DEF Authority!DurationAssumption

\* The fields of a record that are always times.
LEMMA RecordType ==
  ASSUME NEW s \in Authority!caState, NEW r \in s.certs
  PROVE  /\ r \in Authority!certificateRecord /\ r.gen \in Nat /\ s.current \in Nat
         /\ r.notBefore \in Int /\ r.notAfter \in Int
         /\ r.activateAt \in Int \cup {None} /\ r.retiredAt \in Int \cup {None}
  BY DEF Authority!caState, Authority!certificateRecord

\* A sound state is regular.
LEMMA SoundRegular ==
  ASSUME Authority!DurationAssumption, NEW d, NEW t, Sound(d, t)
  PROVE  Regular(d)
<1>1. d \in Authority!caState
  BY DEF Sound
<1>2. \A r \in d.certs : r.activateAt # None <=> r.gen > d.current
  <2> SUFFICES ASSUME NEW r \in d.certs
               PROVE  r.activateAt # None <=> r.gen > d.current
    OBVIOUS
  <2>1. r.gen \in Nat /\ d.current \in Nat /\ r.notBefore \in Int
    BY <1>1, RecordType
  <2>2. r.notBefore + Skew + Lag \in Int
    BY <2>1, Durations, SMT
  <2>3. r.gen > d.current \/ r.gen = d.current \/ r.gen < d.current
    BY <2>1, SMT
  <2>4. ~(r.gen > d.current /\ r.gen = d.current) /\ ~(r.gen > d.current /\ r.gen < d.current)
    BY <2>1, SMT
  <2>5. r.gen > d.current => r.activateAt = r.notBefore + Skew + Lag
    BY DEF Sound
  <2>6. ~(r.gen > d.current) => r.activateAt = None
    BY <2>3 DEF Sound
  <2> QED BY <2>2, <2>5, <2>6, Durations
<1>3. PICK c \in d.certs : c.gen = d.current
  BY DEF Sound
<1>4. \A q, r \in Authority!Pending(d) : q = r
  <2> SUFFICES ASSUME NEW q \in Authority!Pending(d), NEW r \in Authority!Pending(d)
               PROVE  q = r
    OBVIOUS
  <2>1. q \in d.certs /\ r \in d.certs /\ q.gen > d.current /\ r.gen > d.current
    BY <1>2 DEF Authority!Pending
  <2>2. q.gen # d.current /\ r.gen # d.current
    BY <1>1, <2>1, RecordType, SMT
  <2> QED BY <1>3, <2>1, <2>2 DEF Sound
<1> QED BY <1>1, <1>2, <1>3, <1>4 DEF Regular, Sound

\* The issuer of a state that is on time is valid on every clock.
LEMMA OnTimeValid ==
  ASSUME Authority!DurationAssumption, NEW d, NEW t \in Nat, NEW done,
         Sound(d, t), OnTime(d, t, done), NEW c \in d.certs, c.gen = d.current
  PROVE  c.notAfter > t + Skew
<1>1. d \in Authority!caState
  BY DEF Sound
<1>2. c.notAfter \in Int
  BY <1>1, RecordType
<1>3. CASE \A r \in d.certs : r.gen <= d.current
  <2>1. c.notAfter > t - 1 + Retention
    BY <1>3 DEF OnTime, Lasts
  <2> QED BY <1>2, <2>1, Durations, SMT
<1>4. CASE \E r \in d.certs : ~(r.gen <= d.current)
  <2>1. PICK r \in d.certs : ~(r.gen <= d.current)
    BY <1>4
  <2>2. r.gen > d.current
    BY <1>1, <2>1, RecordType, SMT
  <2>3. r.activateAt >= t /\ c.notAfter > r.activateAt - Lag - Skew - 1 + Retention
    BY <2>2 DEF OnTime, Succeeds
  <2>4. r.activateAt = r.notBefore + Skew + Lag /\ r.notBefore \in Int
    BY <1>1, <2>2, RecordType DEF Sound
  <2>5. r.activateAt \in Int
    BY <2>4, Durations, SMT
  <2> QED BY <1>2, <2>3, <2>5, Durations, SMT
<1> QED BY <1>3, <1>4

\* Every node accepts a sound state: Ensure always, Sync while the issuer is valid.
LEMMA SoundAccepted ==
  ASSUME Authority!DurationAssumption, NEW d, NEW t \in Nat, Sound(d, t), NEW n \in Node
  PROVE  /\ Authority!validateState(d, t + offset[n], FALSE)
         /\ t + offset[n] < Authority!CurrentRecord(d).notAfter => Authority!validateState(d, t + offset[n], TRUE)
<1> DEFINE now == t + offset[n]
<1>1. d \in Authority!caState
  BY DEF Sound
<1>2. now \in Int /\ now >= t /\ t \in Int
  BY Durations, SMT
<1> HIDE DEF now
<1>3. ASSUME NEW r \in d.certs, NEW b, b => r.gen # d.current \/ now < r.notAfter
      PROVE  Authority!RecordValid(d, r, now, b)
  <2>1. r.gen \in Nat /\ d.current \in Nat /\ r.notBefore \in Int /\ r.notAfter \in Int
    BY <1>1, RecordType
  <2>2. r.notBefore <= t /\ r.notAfter = r.notBefore + Skew + Life /\ r.publishedAt = None
    BY DEF Sound
  <2>3. now + Skew >= r.notBefore /\ r.notBefore <= now
    BY <1>2, <2>1, <2>2, Durations, SMT
  <2>4. CASE r.gen = d.current
    BY <1>3, <2>2, <2>3, <2>4 DEF Sound, Authority!RecordValid
  <2>5. CASE r.gen > d.current
    <3>1. r.activateAt = r.notBefore + Skew + Lag /\ r.retiredAt = None /\ r.gen # d.current
      BY <2>1, <2>5, SMT DEF Sound
    <3>2. r.activateAt \in Int /\ r.activateAt <= r.notAfter /\ r.activateAt = (r.notBefore + Skew) + Lag
      BY <2>1, <2>2, <3>1, Durations, SMT
    <3>3. r.activateAt # None
      BY <3>2, Durations
    <3> QED BY <2>2, <2>5, <3>1, <3>2, <3>3 DEF Authority!RecordValid
  <2>6. CASE r.gen < d.current
    <3>1. r.activateAt = None /\ r.retiredAt \in Int /\ r.retiredAt <= t + Skew
      BY <2>6 DEF Sound
    <3>2. r.retiredAt <= now + Skew /\ r.gen # d.current
      BY <1>2, <2>1, <2>6, <3>1, Durations, SMT
    <3>3. r.retiredAt # None
      BY <3>1, Durations
    <3> QED BY <2>2, <2>6, <3>1, <3>2, <3>3 DEF Authority!RecordValid
  <2>7. r.gen = d.current \/ r.gen > d.current \/ r.gen < d.current
    BY <2>1, SMT
  <2> QED BY <2>4, <2>5, <2>6, <2>7
<1>4. Authority!validateState(d, now, FALSE)
  <2>1. \A r \in d.certs : Authority!RecordValid(d, r, now, FALSE)
    BY <1>3
  <2> QED BY <2>1 DEF Sound, Authority!validateState
<1>5. ASSUME now < Authority!CurrentRecord(d).notAfter
      PROVE  Authority!validateState(d, now, TRUE)
  <2>1. \A r \in d.certs : r.gen = d.current => now < r.notAfter
    BY <1>5, CurrentIs DEF Sound
  <2>2. \A r \in d.certs : Authority!RecordValid(d, r, now, TRUE)
    BY <1>3, <2>1
  <2> QED BY <2>2 DEF Sound, Authority!validateState
<1> QED BY <1>4, <1>5 DEF now

\* A state that is on time is pruned, extended alone, or rotated: the overlap of a
\* retired certificate is over long before its successor ends.
LEMMA DraftCases ==
  ASSUME Authority!DurationAssumption, NEW d, NEW s, NEW t \in Nat, NEW done,
         NEW now \in Int, Sound(d, t), OnTime(d, t, done), Drafted(d, s, now)
  PROVE  \/ Trimmed(d, s, now)
         \/ \E c : Appended(d, s, c, now)
         \/ \E c, p : Rotated(d, s, c, p, now)
<1> DEFINE p == Authority!pruneState(d, now)
           c == Authority!CurrentRecord(p)
           q == Authority!PendingRecord(p)
<1>1. d \in Authority!caState /\ Regular(d)
  BY SoundRegular DEF Sound
<1>2. p \in Authority!caState /\ p.current = d.current /\ p.certs = {r \in d.certs : Authority!Retained(d, r, now)}
  BY <1>1, Pruned
<1>3. PICK e \in d.certs : e.gen = d.current
  BY DEF Sound
<1>4. \A u, r \in p.certs : u.gen = r.gen => u = r
  BY <1>2 DEF Sound
<1>5. e \in p.certs
  BY <1>2, <1>3 DEF Authority!Retained
<1>6. \A r \in d.certs : r.gen > d.current => r \in p.certs
  BY <1>2 DEF Sound, Authority!Retained
<1>7. \A r \in d.certs : r.activateAt # None <=> r.gen > d.current
  BY <1>1 DEF Regular
<1>8. Regular(p)
  BY <1>1, <1>2, <1>3, <1>5 DEF Regular, Authority!Pending
<1>9. \/ /\ Authority!Pending(p) # {} /\ Authority!Activated(q, now)
         /\ s = Authority!promoteState(p, q.gen, now)
      \/ Authority!Pending(p) # {} /\ ~Authority!Activated(q, now) /\ s = p
      \/ /\ Authority!Pending(p) = {} /\ Authority!RotationDue(c, now)
         /\ s = [p EXCEPT !.certs = @ \cup {Authority!pendingRecord(c.gen + 1, now)}]
      \/ Authority!Pending(p) = {} /\ ~Authority!RotationDue(c, now) /\ s = p
  BY DEF Drafted
<1> HIDE DEF p
<1>10. c = e
  BY <1>2, <1>3, <1>4, <1>5, CurrentIs
<1> HIDE DEF c
<1>11. \A r \in d.certs : r.gen > d.current <=> r \in Authority!Pending(p)
  BY <1>2, <1>6, <1>7 DEF Authority!Pending
<1>12. CASE Authority!Pending(p) # {}
  <2>1. q \in Authority!Pending(p)
    BY <1>8, <1>12, PendingIs
  <2> HIDE DEF q
  <2>2. q \in p.certs /\ q \in d.certs /\ q.gen > d.current
    BY <1>2, <1>7, <2>1 DEF Authority!Pending
  <2>3. q.gen # e.gen /\ q.activateAt \in Int
    <3>1. q.gen \in Nat /\ d.current \in Nat /\ q.notBefore \in Int
      BY <1>1, <2>2, RecordType
    <3>2. q.activateAt = q.notBefore + Skew + Lag
      BY <2>2 DEF Sound
    <3> QED BY <1>3, <2>2, <3>1, <3>2, Durations, SMT
  <2>4. d.certs = {e, q}
    BY <1>3, <2>2, <2>3 DEF Sound
  <2>5. p.certs = {e, q}
    BY <1>2, <1>5, <2>2, <2>4
  <2>6. CASE Authority!Activated(q, now)
    <3>1. s = Authority!promoteState(p, q.gen, now)
      BY <1>9, <1>12, <2>6
    <3>2. s.current = q.gen /\ s.certs = {Authority!Promoted(p, q.gen, r, now) : r \in p.certs}
      BY <3>1 DEF Authority!promoteState
    <3>3. Authority!Promoted(p, q.gen, e, now) = [e EXCEPT !.retiredAt = now]
      BY <1>2, <1>3, <2>3 DEF Authority!Promoted
    <3>4. Authority!Promoted(p, q.gen, q, now) = [q EXCEPT !.publishedAt = None, !.activateAt = None]
      BY DEF Authority!Promoted
    <3>5. s.certs = {[e EXCEPT !.retiredAt = now], [q EXCEPT !.publishedAt = None, !.activateAt = None]}
      <4> DEFINE u == Authority!Promoted(p, q.gen, e, now)
                 v == Authority!Promoted(p, q.gen, q, now)
      <4>1. \A x \in s.certs : x = u \/ x = v
        BY <2>5, <3>2
      <4>2. u \in s.certs /\ v \in s.certs
        BY <2>5, <3>2
      <4> HIDE DEF u, v
      <4>3. s.certs = {u, v}
        BY <4>1, <4>2
      <4> QED BY <3>3, <3>4, <4>3 DEF u, v
    <3>6. q.activateAt <= now
      BY <2>3, <2>6, SMT DEF Authority!Activated
    <3>7. Rotated(d, s, e, q, now)
      BY <1>3, <2>2, <2>4, <3>2, <3>5, <3>6 DEF Rotated
    <3> QED BY <3>7
  <2>7. CASE ~Authority!Activated(q, now)
    <3>1. s = p
      BY <1>9, <1>12, <2>7
    <3>2. now < q.activateAt
      BY <2>3, <2>7, SMT DEF Authority!Activated
    <3>3. ~(e.gen > d.current)
      BY <1>1, <1>3, RecordType, SMT
    <3>4. Trimmed(d, s, now)
      BY <1>2, <2>2, <2>4, <3>1, <3>2, <3>3 DEF Trimmed
    <3> QED BY <3>4
  <2> QED BY <2>6, <2>7
<1>13. CASE Authority!Pending(p) = {}
  <2>1. \A r \in d.certs : ~(r.gen > d.current)
    BY <1>11, <1>13
  <2>2. e.notAfter \in Int
    BY <1>1, <1>3, RecordType
  <2>3. CASE ~Authority!RotationDue(c, now)
    <3>1. s = p
      BY <1>9, <1>13, <2>3
    <3>2. e.notAfter > now + Retention
      BY <1>10, <2>2, <2>3, Durations, SMT DEF Authority!RotationDue
    <3>3. \A r \in d.certs : r.gen = d.current => r = e
      BY <1>3 DEF Sound
    <3>4. Trimmed(d, s, now)
      BY <1>2, <2>1, <3>1, <3>2, <3>3 DEF Trimmed
    <3> QED BY <3>4
  <2>4. CASE Authority!RotationDue(c, now)
    <3> DEFINE x == Authority!pendingRecord(e.gen + 1, now)
    <3>1. s = [p EXCEPT !.certs = @ \cup {x}]
      BY <1>9, <1>10, <1>13, <2>4
    <3> HIDE DEF x
    <3>2. s.current = d.current /\ s.certs = p.certs \cup {x}
      BY <1>2, <3>1 DEF Authority!caState
    <3>3. e.notAfter <= now + Retention
      BY <1>10, <2>4 DEF Authority!RotationDue
    <3>4. ASSUME NEW r \in d.certs, r # e, Authority!Retained(d, r, now)
          PROVE  FALSE
      <4>1. r.gen \in Nat /\ d.current \in Nat
        BY <1>1, RecordType
      <4>2. r.gen # d.current
        BY <1>3, <3>4 DEF Sound
      <4>3. r.gen < d.current
        BY <2>1, <4>1, <4>2, SMT
      <4>4. r.retiredAt \in Int
        BY <4>3 DEF Sound
      <4>5. r.retiredAt + Retention + Skew > now
        BY <3>4, <4>2, <4>4, Durations DEF Authority!Retained
      <4>6. e.notAfter >= r.retiredAt - Skew - Lag + Life
        BY <1>3, <4>3 DEF OnTime
      <4> QED BY <2>2, <3>3, <4>4, <4>5, <4>6, Durations, SMT
    <3>5. p.certs = {e}
      BY <1>2, <1>5, <3>4
    <3>6. s.certs = {e, x}
      BY <3>2, <3>5
    <3>7. Appended(d, s, e, now)
      BY <1>3, <2>1, <3>2, <3>3, <3>4, <3>6 DEF Appended, x
    <3> QED BY <3>7
  <2> QED BY <2>3, <2>4
<1> QED BY <1>12, <1>13

\* What Ensure makes of a sound state that is on time is sound, and on time for longer.
LEMMA TrimmedOnTime ==
  ASSUME Authority!DurationAssumption, NEW d, NEW s \in Authority!caState, NEW t \in Nat,
         NEW done, NEW now \in Int, NEW more, Sound(d, t), OnTime(d, t, done), Trimmed(d, s, now),
         more => done \/ now >= t
  PROVE  Sound(s, t) /\ OnTime(s, t, more)
<1>1. d \in Authority!caState /\ s.current = d.current
  BY DEF Sound, Trimmed
<1>2. s.certs \subseteq d.certs
  BY DEF Trimmed
<1>3. \A r \in d.certs : r.gen = d.current => r \in s.certs
  BY DEF Trimmed, Authority!Retained
<1>4. \A r \in d.certs : r.gen > d.current => r \in s.certs
  BY DEF Trimmed, Authority!Retained, Sound
<1>5. Sound(s, t)
  BY <1>1, <1>2, <1>3 DEF Sound
<1>6. ASSUME NEW c \in s.certs, c.gen = s.current, \A r \in s.certs : r.gen <= s.current
      PROVE  Lasts(c, t, more)
  <2>1. \A r \in d.certs : r.gen <= d.current /\ ~(r.gen > d.current)
    <3> SUFFICES ASSUME NEW r \in d.certs
                 PROVE  r.gen <= d.current /\ ~(r.gen > d.current)
      OBVIOUS
    <3>1. r.gen > d.current => r.gen <= d.current
      BY <1>1, <1>4, <1>6
    <3> QED BY <1>1, <3>1, RecordType, SMT
  <2>2. c \in d.certs /\ c.gen = d.current
    BY <1>1, <1>2, <1>6
  <2>3. Lasts(c, t, done) /\ c.notAfter > now + Retention
    BY <2>1, <2>2 DEF OnTime, Trimmed
  <2>4. c.notAfter \in Int
    BY <1>1, <2>2, RecordType
  <2>5. now >= t => c.notAfter > t + Retention
    BY <2>3, <2>4, Durations, SMT
  <2> QED BY <2>3, <2>5 DEF Lasts
<1>7. ASSUME NEW c \in s.certs, c.gen = s.current, NEW r \in s.certs, r.gen > s.current
      PROVE  Succeeds(r, c, t, more)
  <2>1. c \in d.certs /\ c.gen = d.current /\ r \in d.certs /\ r.gen > d.current
    BY <1>1, <1>2, <1>7
  <2>2. Succeeds(r, c, t, done) /\ now < r.activateAt
    BY <2>1 DEF OnTime, Trimmed
  <2>3. r.notBefore \in Int /\ r.activateAt = r.notBefore + Skew + Lag
    BY <1>1, <2>1, RecordType DEF Sound
  <2>4. now >= t => r.activateAt > t
    BY <2>2, <2>3, Durations, SMT
  <2> QED BY <2>2, <2>4 DEF Succeeds
<1>8. \A c, r \in s.certs : c.gen = s.current /\ r.gen < s.current => c.notAfter >= r.retiredAt - Skew - Lag + Life
  BY <1>1, <1>2 DEF OnTime
<1> QED BY <1>5, <1>6, <1>7, <1>8 DEF OnTime

\* A successor made in time leaves a state that is on time (Ensure, rotation due).
LEMMA AppendedOnTime ==
  ASSUME Authority!DurationAssumption, NEW d, NEW s \in Authority!caState, NEW t \in Nat,
         NEW done, NEW now \in Int, NEW more, NEW c, Sound(d, t), OnTime(d, t, done), Appended(d, s, c, now),
         t - 1 <= now, now <= t + Skew
  PROVE  Sound(s, t) /\ OnTime(s, t, more)
<1> DEFINE x == Authority!pendingRecord(c.gen + 1, now)
<1>1. d \in Authority!caState /\ c \in d.certs /\ c.gen = d.current /\ s.current = d.current /\ s.certs = {c, x}
  BY DEF Sound, Appended
<1>2. c.gen \in Nat /\ c.notAfter \in Int /\ c.gen + 1 \in Nat
  BY <1>1, RecordType, SMT
<1>3. x \in Authority!certificateRecord /\ x.gen = c.gen + 1 /\ x.activateAt = now + Lag
  BY <1>2, RecordMade
<1>4. x.notBefore = now - Skew /\ x.notAfter = now + Life /\ x.publishedAt = None /\ x.retiredAt = None
  BY SMT DEF Authority!pendingRecord, Authority!newRecord
<1> HIDE DEF x
<1>5. x.gen > s.current /\ x.gen # s.current /\ ~(x.gen <= s.current) /\ ~(x.gen < s.current)
  BY <1>1, <1>2, <1>3, SMT
<1>6. /\ x.notBefore <= t /\ x.notAfter = x.notBefore + Skew + Life
      /\ x.activateAt = x.notBefore + Skew + Lag
  BY <1>3, <1>4, Durations, SMT
<1>7. /\ c.notBefore <= t /\ c.notAfter = c.notBefore + Skew + Life /\ c.publishedAt = None
      /\ c.activateAt = None /\ c.retiredAt = None
  BY <1>1 DEF Sound
<1>8. ~(c.gen > s.current) /\ ~(c.gen < s.current)
  BY <1>1, <1>2, SMT
<1>9. Sound(s, t)
  <2>1. \A q, r \in s.certs : q.gen = r.gen => q = r
    BY <1>1, <1>5
  <2>2. \A q, r, u \in s.certs : q = r \/ r = u \/ q = u
    BY <1>1
  <2>3. \A r \in s.certs :
          /\ r.notBefore <= t /\ r.notAfter = r.notBefore + Skew + Life /\ r.publishedAt = None
          /\ r.gen = s.current => r.activateAt = None /\ r.retiredAt = None
          /\ r.gen > s.current => r.activateAt = r.notBefore + Skew + Lag /\ r.retiredAt = None
          /\ r.gen < s.current => r.activateAt = None /\ r.retiredAt \in Int /\ r.retiredAt <= t + Skew
    BY <1>1, <1>4, <1>5, <1>6, <1>7, <1>8
  <2> QED BY <1>1, <2>1, <2>2, <2>3 DEF Sound
<1>10. c.notAfter > t - 1 + Retention
  <2>1. \A r \in d.certs : r.gen <= d.current
    <3> SUFFICES ASSUME NEW r \in d.certs
                 PROVE  r.gen <= d.current
      OBVIOUS
    <3>1. ~(r.gen > d.current)
      BY DEF Appended
    <3> QED BY <1>1, <3>1, RecordType, SMT
  <2> QED BY <1>1, <2>1 DEF OnTime, Lasts
<1>11. Succeeds(x, c, t, more)
  <2>1. x.activateAt > t /\ x.activateAt >= t
    BY <1>3, Durations, SMT
  <2>2. c.notAfter > x.activateAt - Lag - Skew - 1 + Retention
    BY <1>2, <1>3, <1>10, Durations, SMT
  <2> QED BY <2>1, <2>2 DEF Succeeds
<1>12. \A e \in s.certs : e.gen = s.current => e = c
  BY <1>1, <1>5
<1> QED BY <1>1, <1>5, <1>8, <1>9, <1>11, <1>12 DEF OnTime

\* A promotion in time leaves a state that is on time (promoteState).
LEMMA RotatedOnTime ==
  ASSUME Authority!DurationAssumption, NEW d, NEW s \in Authority!caState, NEW t \in Nat,
         NEW done, NEW now \in Int, NEW more, NEW c, NEW p, Sound(d, t), OnTime(d, t, done),
         Rotated(d, s, c, p, now), now <= t + Skew
  PROVE  Sound(s, t) /\ OnTime(s, t, more)
<1> DEFINE x == [c EXCEPT !.retiredAt = now]
           y == [p EXCEPT !.publishedAt = None, !.activateAt = None]
<1>1. d \in Authority!caState /\ c \in d.certs /\ p \in d.certs /\ c.gen = d.current /\ p.gen > d.current
      /\ s.current = p.gen /\ s.certs = {x, y}
  BY DEF Sound, Rotated
<1>2. c \in Authority!certificateRecord /\ p \in Authority!certificateRecord
      /\ c.gen \in Nat /\ p.gen \in Nat /\ c.notAfter \in Int /\ p.notBefore \in Int /\ p.notAfter \in Int
  BY <1>1, RecordType
<1>3. x.gen = c.gen /\ x.notBefore = c.notBefore /\ x.notAfter = c.notAfter /\ x.publishedAt = c.publishedAt
      /\ x.activateAt = c.activateAt /\ x.retiredAt = now
  BY <1>2 DEF Authority!certificateRecord
<1>4. y.gen = p.gen /\ y.notBefore = p.notBefore /\ y.notAfter = p.notAfter /\ y.publishedAt = None
      /\ y.activateAt = None /\ y.retiredAt = p.retiredAt
  BY <1>2 DEF Authority!certificateRecord
<1> HIDE DEF x, y
<1>5. /\ c.notBefore <= t /\ c.notAfter = c.notBefore + Skew + Life /\ c.publishedAt = None
      /\ c.activateAt = None /\ c.retiredAt = None
  BY <1>1 DEF Sound
<1>6. /\ p.notBefore <= t /\ p.notAfter = p.notBefore + Skew + Life
      /\ p.activateAt = p.notBefore + Skew + Lag /\ p.retiredAt = None
  BY <1>1 DEF Sound
<1>7. x.gen < s.current /\ x.gen # s.current /\ ~(x.gen > s.current) /\ x.gen <= s.current
      /\ ~(y.gen > s.current) /\ ~(y.gen < s.current) /\ y.gen = s.current /\ y.gen <= s.current
  BY <1>1, <1>2, <1>3, <1>4, SMT
<1>8. Sound(s, t)
  <2>1. \A q, r \in s.certs : q.gen = r.gen => q = r
    BY <1>1, <1>7
  <2>2. \A q, r, u \in s.certs : q = r \/ r = u \/ q = u
    BY <1>1
  <2>3. \A r \in s.certs :
          /\ r.notBefore <= t /\ r.notAfter = r.notBefore + Skew + Life /\ r.publishedAt = None
          /\ r.gen = s.current => r.activateAt = None /\ r.retiredAt = None
          /\ r.gen > s.current => r.activateAt = r.notBefore + Skew + Lag /\ r.retiredAt = None
          /\ r.gen < s.current => r.activateAt = None /\ r.retiredAt \in Int /\ r.retiredAt <= t + Skew
    BY <1>1, <1>3, <1>4, <1>5, <1>6, <1>7
  <2> QED BY <1>1, <1>7, <2>1, <2>2, <2>3 DEF Sound
<1>9. p.activateAt >= t
  BY <1>1 DEF OnTime, Succeeds
<1>10. Lasts(y, t, more)
  <2>1. y.notAfter > t + Retention /\ y.notAfter > t - 1 + Retention
    BY <1>2, <1>4, <1>6, <1>9, Durations, SMT
  <2> QED BY <2>1 DEF Lasts
<1>11. y.notAfter >= x.retiredAt - Skew - Lag + Life
  BY <1>2, <1>3, <1>4, <1>6, <1>9, Durations, SMT
<1> QED BY <1>1, <1>7, <1>8, <1>10, <1>11 DEF OnTime

\* Whatever Ensure makes of a state that is on time is on time.
LEMMA DraftOnTime ==
  ASSUME Authority!DurationAssumption, NEW d, NEW s \in Authority!caState, NEW t \in Nat,
         NEW done, NEW now \in Int, NEW more, Sound(d, t), OnTime(d, t, done), Drafted(d, s, now),
         t - 1 <= now, now <= t + Skew, more => done \/ now >= t
  PROVE  Sound(s, t) /\ OnTime(s, t, more)
<1>1. CASE Trimmed(d, s, now)
  BY <1>1, TrimmedOnTime
<1>2. ASSUME NEW c, Appended(d, s, c, now)
      PROVE  Sound(s, t) /\ OnTime(s, t, more)
  BY <1>2, AppendedOnTime
<1>3. ASSUME NEW c, NEW p, Rotated(d, s, c, p, now)
      PROVE  Sound(s, t) /\ OnTime(s, t, more)
  BY <1>3, RotatedOnTime
<1> QED BY <1>1, <1>2, <1>3, DraftCases

\* The first certificate is on time.
LEMMA FirstOnTime ==
  ASSUME Authority!DurationAssumption, NEW t \in Nat, NEW now \in Int, NEW more,
         now <= t + Skew, t + Retention < now + Life
  PROVE  /\ FirstState(now) \in Authority!caState
         /\ Sound(FirstState(now), t) /\ OnTime(FirstState(now), t, more)
<1> DEFINE r == Authority!newRecord(1, now)
           s == FirstState(now)
<1>1. Life \in Nat /\ Retention \in Nat /\ Skew \in Nat
  BY DEF Authority!DurationAssumption
<1>2. r \in Authority!certificateRecord
  BY RecordMade
<1>3. r.gen = 1 /\ r.notBefore = now - Skew /\ r.notAfter = now + Life
      /\ r.publishedAt = None /\ r.activateAt = None /\ r.retiredAt = None
  BY SMT DEF Authority!newRecord
<1>4. s.current = 1 /\ s.certs = {r} /\ s = [current |-> 1, certs |-> {r}]
  BY DEF FirstState
<1> HIDE DEF r, s
<1>5. s \in Authority!caState
  BY <1>2, <1>4 DEF Authority!caState
<1>6. ~(r.gen > s.current) /\ ~(r.gen < s.current) /\ r.notBefore <= t /\ r.notAfter = r.notBefore + Skew + Life
  BY <1>1, <1>3, <1>4, SMT
<1>7. Sound(s, t)
  BY <1>3, <1>4, <1>5, <1>6 DEF Sound
<1>8. Lasts(r, t, more)
  <2>1. r.notAfter > t + Retention /\ r.notAfter > t - 1 + Retention
    BY <1>1, <1>3, SMT
  <2> QED BY <2>1 DEF Lasts
<1>9. OnTime(s, t, more)
  BY <1>4, <1>6, <1>8 DEF OnTime
<1> QED BY <1>5, <1>7, <1>9 DEF s

\* One node's loop takes a step, or leaves Ensure or Sync.
LEMMA AttendingStep ==
  ASSUME EnsureInv, LoopInv, NEW n \in Node, NEW x, agent' = [agent EXCEPT ![n] = x],
         Attending(x, n, clock), clock' = clock
  PROVE  LoopInv'
<1>1. \A m \in Node : agent'[m] = IF m = n THEN x ELSE agent[m]
  BY DEF EnsureInv
<1> QED BY <1>1 DEF LoopInv

\* Leaving Ensure or Sync keeps an iteration recent (runWorkloadIdentity).
LEMMA AttendingGoes ==
  ASSUME EnsureInv, LoopInv, NEW n \in Node, agent[n].pc # "wait", NEW pc \in {"wait", "sync"},
         Authority!Goto(n, pc), clock' = clock
  PROVE  LoopInv'
<1> DEFINE x == IF pc = "wait" THEN Authority!Waiting
                ELSE [Authority!Waiting EXCEPT !.pc = pc, !.now = agent[n].now]
<1>1. agent' = [agent EXCEPT ![n] = x]
  BY DEF Authority!Goto
<1>2. Recent(agent[n], n, clock)
  BY DEF LoopInv, Attending
<1>3. x.pc \in {"wait", "sync"} /\ (x.pc # "wait" => x.now = agent[n].now)
  <2>1. CASE pc = "wait"
    BY <2>1 DEF Authority!Waiting
  <2>2. CASE pc # "wait"
    <3>1. x = [Authority!Waiting EXCEPT !.pc = pc, !.now = agent[n].now]
      BY <2>2
    <3> QED BY <2>2, <3>1 DEF Authority!Waiting
  <2> QED BY <2>1, <2>2
<1> HIDE DEF x
<1>4. Attending(x, n, clock)
  BY <1>2, <1>3 DEF Attending, Recent
<1> QED BY <1>1, <1>4, AttendingStep

\* An iteration that drafted from what it read is about to write that.
LEMMA AttendingDrafts ==
  ASSUME EnsureInv, LoopInv, NEW n \in Node, agent[n].pc = "read", NEW s, NEW e,
         Authority!Draft(n, "put", s, e), clock' = clock,
         IF durable = None THEN s = FirstState(agent[n].now) ELSE Drafted(durable, s, agent[n].now)
  PROVE  LoopInv'
<1> DEFINE x == [agent[n] EXCEPT !.pc = "put", !.seen = durable, !.draft = s, !.expired = e]
<1>1. agent' = [agent EXCEPT ![n] = x]
  BY DEF Authority!Draft, EnsureInv
<1>2. Recent(agent[n], n, clock) /\ agent[n] \in Iteration
  BY DEF LoopInv, Attending, EnsureInv
<1>3. x.pc = "put" /\ x.now = agent[n].now /\ x.seen = durable /\ x.draft = s
  BY <1>2 DEF Iteration
<1> HIDE DEF x
<1>4. Attending(x, n, clock)
  BY <1>2, <1>3 DEF Attending, Recent
<1> QED BY <1>1, <1>4, AttendingStep

\* The bounds of a running iteration's time.
LEMMA RecentBounds ==
  ASSUME Authority!DurationAssumption, EnsureInv, LoopInv, NEW n \in Node, agent[n].pc # "wait"
  PROVE  LET now == agent[n].now
         IN  /\ now \in Int /\ clock \in Nat /\ clock - 1 <= now /\ now <= clock + Skew
             /\ now <= clock + offset[n] /\ (Authority!Began(n) => now >= clock)
<1>1. Recent(agent[n], n, clock) /\ agent[n].now \in Int /\ clock \in Nat
  BY DEF LoopInv, Attending, EnsureInv, Iteration
<1> QED BY <1>1, Durations, SMT DEF Recent, Authority!Began

\* Ensure's read of an attended state never finds it expired.
LEMMA ReadAttended ==
  ASSUME Authority!DurationAssumption, Authority!Attended, EnsureInv, LoopInv, StateInv, NEW n \in Node,
         Authority!ReadState(n)
  PROVE  LoopInv' /\ StateInv'
<1> DEFINE now == agent[n].now
           s == Authority!pruneState(durable, now)
           c == Authority!CurrentRecord(s)
           q == Authority!PendingRecord(s)
<1>1. agent[n].pc = "read" /\ agent[n].pc # "wait" /\ clock' = clock /\ durable' = durable
  BY DEF Authority!ReadState
<1>2. /\ now \in Int /\ clock \in Nat /\ clock - 1 <= now /\ now <= clock + Skew
      /\ now <= clock + offset[n] /\ (Authority!Began(n) => now >= clock)
  BY <1>1, RecentBounds
<1>3. ASSUME ensured' = ensured
      PROVE  StateInv'
  BY <1>1, <1>3 DEF StateInv
<1>4. ASSUME NEW u, NEW e, Authority!Draft(n, "put", u, e),
             IF durable = None THEN u = FirstState(now) ELSE Drafted(durable, u, now)
      PROVE  LoopInv' /\ StateInv'
  <2>1. ensured' = ensured
    BY <1>4 DEF Authority!Draft
  <2> QED BY <1>1, <1>3, <1>4, <2>1, AttendingDrafts
<1>5. CASE durable = None
  <2>1. Authority!Draft(n, "put", FirstState(now), FALSE)
    BY <1>5 DEF Authority!ReadState, FirstState
  <2> QED BY <1>4, <1>5, <2>1
<1>6. CASE durable # None /\ ~Authority!validateState(durable, now, FALSE)
  <2>1. Authority!Goto(n, "sync") /\ ensured' = ensured
    BY <1>6 DEF Authority!ReadState
  <2> QED BY <1>1, <1>3, <2>1, AttendingGoes
<1>7. CASE durable # None /\ Authority!validateState(durable, now, FALSE)
  <2>1. Sound(durable, clock) /\ OnTime(durable, clock, ensured) /\ durable \in Authority!caState
    BY <1>7 DEF StateInv, Sound
  <2>2. c = Authority!CurrentRecord(durable)
    BY <1>7, <2>1, PrunedRegular
  <2>3. c \in durable.certs /\ c.gen = durable.current
    BY <2>1, <2>2 DEF Sound, Authority!CurrentRecord
  <2>4. c.notAfter > clock + Skew /\ c.notAfter \in Int
    <3> HIDE DEF c
    <3> QED BY <1>2, <2>1, <2>3, OnTimeValid, RecordType
  <2>5. now < c.notAfter /\ ~(now >= c.notAfter)
    <3> HIDE DEF c
    <3> QED BY <1>2, <2>4, Durations, SMT
  <2>6. ~publication
    BY DEF Authority!Attended
  <2>7. ASSUME Drafted(durable, durable, now), Authority!Ensured(n)
        PROVE  LoopInv' /\ StateInv'
    <3>1. Authority!Goto(n, "sync") /\ ensured' = (ensured \/ Authority!Began(n))
      BY <2>7 DEF Authority!Ensured
    <3>2. ensured' => ensured \/ now >= clock
      BY <1>2, <3>1
    <3>3. Sound(durable, clock) /\ OnTime(durable, clock, ensured')
      BY <1>2, <2>1, <2>7, <3>2, DraftOnTime
    <3> QED BY <1>1, <3>1, <3>3, AttendingGoes DEF StateInv
  <2>8. CASE Authority!Pending(s) # {}
    <3> DEFINE u == Authority!promoteState(s, q.gen, now)
    <3>1. CASE Authority!Activated(q, now)
      <4>1. Authority!Draft(n, "put", u, FALSE)
        BY <1>7, <2>5, <2>6, <2>8, <3>1 DEF Authority!ReadState
      <4>2. Drafted(durable, u, now)
        BY <2>5, <2>8, <3>1 DEF Drafted
      <4> QED BY <1>4, <1>7, <4>1, <4>2
    <3>2. CASE ~Authority!Activated(q, now)
      <4>1. Authority!Draft(n, "put", s, FALSE) \/ (s = durable /\ Authority!Ensured(n))
        BY <1>7, <2>5, <2>6, <2>8, <3>2 DEF Authority!ReadState
      <4>2. Drafted(durable, s, now)
        BY <2>5, <2>8, <3>2 DEF Drafted
      <4> HIDE DEF s
      <4> QED BY <1>4, <1>7, <2>7, <4>1, <4>2
    <3> QED BY <3>1, <3>2
  <2>9. CASE Authority!Pending(s) = {}
    <3> DEFINE u == [s EXCEPT !.certs = @ \cup {Authority!pendingRecord(c.gen + 1, now)}]
    <3>1. CASE Authority!RotationDue(c, now)
      <4>1. Authority!Draft(n, "put", u, FALSE)
        BY <1>7, <2>5, <2>6, <2>9, <3>1 DEF Authority!ReadState
      <4>2. Drafted(durable, u, now)
        BY <2>5, <2>9, <3>1 DEF Drafted
      <4> HIDE DEF u
      <4> QED BY <1>4, <1>7, <4>1, <4>2
    <3>2. CASE ~Authority!RotationDue(c, now)
      <4>1. Authority!Draft(n, "put", s, FALSE) \/ (s = durable /\ Authority!Ensured(n))
        BY <1>7, <2>5, <2>6, <2>9, <3>2 DEF Authority!ReadState
      <4>2. Drafted(durable, s, now)
        BY <2>5, <2>9, <3>2 DEF Drafted
      <4> HIDE DEF s
      <4> QED BY <1>4, <1>7, <2>7, <4>1, <4>2
    <3> QED BY <3>1, <3>2
  <2> QED BY <2>8, <2>9
<1> QED BY <1>5, <1>6, <1>7

\* A certificate that may have issued is carried into the next state, unless its
\* overlap is over; it is retired now or as it was.
LEMMA Carried ==
  ASSUME Authority!DurationAssumption, NEW d, NEW s, NEW t \in Nat, NEW done,
         NEW now \in Int, now <= t + Skew, Sound(d, t), OnTime(d, t, done), Drafted(d, s, now),
         NEW r \in d.certs, r.gen <= d.current, r.gen < d.current => r.retiredAt + Retention > t
  PROVE  Carries(d, s, r, now)
<1>1. d \in Authority!caState /\ r.gen \in Nat /\ d.current \in Nat /\ r \in Authority!certificateRecord
  BY RecordType DEF Sound
<1>2. r.gen = d.current \/ r.gen < d.current
  BY <1>1, SMT
<1>3. Authority!Retained(d, r, now)
  <2>1. CASE r.gen = d.current
    BY <2>1 DEF Authority!Retained
  <2>2. CASE r.gen < d.current
    <3>1. r.retiredAt \in Int
      BY <2>2 DEF Sound
    <3>2. r.retiredAt + Retention + Skew > now
      BY <2>2, <3>1, Durations, SMT
    <3> QED BY <3>2 DEF Authority!Retained
  <2> QED BY <1>2, <2>1, <2>2
<1>4. CASE Trimmed(d, s, now)
  <2>1. r \in s.certs /\ s.current = d.current
    BY <1>3, <1>4 DEF Trimmed
  <2> QED BY <2>1 DEF Carries
<1>5. ASSUME NEW c, Appended(d, s, c, now)
      PROVE  r \in s.certs /\ s.current = d.current
  BY <1>3, <1>5 DEF Appended
<1>6. ASSUME NEW c, NEW p, Rotated(d, s, c, p, now)
      PROVE  \E q \in s.certs :
               /\ Authority!Cert(q) = Authority!Cert(r) /\ q.gen <= s.current
               /\ q.gen < s.current => q.retiredAt = now
  <2> DEFINE x == [c EXCEPT !.retiredAt = now]
  <2>1. d.certs = {c, p} /\ p.gen > d.current /\ s.current = p.gen /\ x \in s.certs /\ p.gen \in Nat
    BY <1>1, <1>6, RecordType DEF Rotated
  <2>2. r = c
    BY <1>1, <2>1, SMT
  <2>3. x.gen = r.gen /\ x.retiredAt = now /\ Authority!Cert(x) = Authority!Cert(r)
    BY <1>1, <2>2 DEF Authority!certificateRecord, Authority!Cert
  <2> HIDE DEF x
  <2>4. x.gen <= s.current
    BY <1>1, <2>1, <2>3, SMT
  <2> QED BY <2>1, <2>3, <2>4
<1> QED BY <1>4, <1>5, <1>6, DraftCases DEF Carries

\* A certificate of the next state is an old one, which does not become the issuer
\* before every node had two steps to learn of it, or it was made in this step.
LEMMA Origin ==
  ASSUME Authority!DurationAssumption, NEW d, NEW s, NEW t \in Nat, NEW done,
         NEW now \in Int, now <= t + Skew, Sound(d, t), OnTime(d, t, done), Drafted(d, s, now), NEW q \in s.certs
  PROVE  \/ \E r \in d.certs :
              /\ Authority!Cert(q) = Authority!Cert(r)
              /\ r.gen > d.current => q.gen > s.current \/ r.notBefore + Skew + 2 <= t
         \/ q.gen > s.current /\ t <= q.notBefore + Skew
<1>1. d \in Authority!caState
  BY DEF Sound
<1>2. CASE Trimmed(d, s, now)
  BY <1>2 DEF Trimmed
<1>3. ASSUME NEW c, Appended(d, s, c, now)
      PROVE  q = c \/ (q.gen > s.current /\ t <= q.notBefore + Skew)
  <2> DEFINE x == Authority!pendingRecord(c.gen + 1, now)
  <2>1. c \in d.certs /\ c.gen = d.current /\ s.current = d.current /\ s.certs = {c, x}
        /\ c.notAfter <= now + Retention
    BY <1>3 DEF Appended
  <2>2. c.gen \in Nat /\ c.gen + 1 \in Nat /\ c.notAfter \in Int
    BY <1>1, <2>1, RecordType, SMT
  <2>3. x.gen = c.gen + 1 /\ x.notBefore = now - Skew
    BY SMT DEF Authority!pendingRecord, Authority!newRecord
  <2> HIDE DEF x
  <2>4. \A r \in d.certs : r.gen <= d.current
    <3> SUFFICES ASSUME NEW r \in d.certs
                 PROVE  r.gen <= d.current
      OBVIOUS
    <3>1. ~(r.gen > d.current)
      BY <1>3 DEF Appended
    <3> QED BY <1>1, <3>1, RecordType, SMT
  <2>5. c.notAfter > t - 1 + Retention
    BY <2>1, <2>4 DEF OnTime, Lasts
  <2>6. x.gen > s.current /\ t <= x.notBefore + Skew
    BY <2>1, <2>2, <2>3, <2>5, Durations, SMT
  <2> QED BY <2>1, <2>6
<1>4. ASSUME NEW c, NEW p, Rotated(d, s, c, p, now)
      PROVE  \E r \in d.certs :
               /\ Authority!Cert(q) = Authority!Cert(r)
               /\ r.gen > d.current => r.notBefore + Skew + 2 <= t
  <2> DEFINE x == [c EXCEPT !.retiredAt = now]
             y == [p EXCEPT !.publishedAt = None, !.activateAt = None]
  <2>1. c \in d.certs /\ p \in d.certs /\ c.gen = d.current /\ p.gen > d.current
        /\ p.activateAt <= now /\ s.certs = {x, y}
    BY <1>4 DEF Rotated
  <2>2. c \in Authority!certificateRecord /\ p \in Authority!certificateRecord
        /\ c.gen \in Nat /\ p.notBefore \in Int /\ d.current \in Nat
    BY <1>1, <2>1, RecordType
  <2>3. Authority!Cert(x) = Authority!Cert(c) /\ Authority!Cert(y) = Authority!Cert(p)
    BY <2>2 DEF Authority!certificateRecord, Authority!Cert
  <2> HIDE DEF x, y
  <2>4. p.activateAt = p.notBefore + Skew + Lag
    BY <2>1 DEF Sound
  <2>5. p.notBefore + Skew + 2 <= t
    BY <2>1, <2>2, <2>4, Durations, SMT
  <2>6. ~(c.gen > d.current)
    BY <2>1, <2>2, SMT
  <2> QED BY <2>1, <2>3, <2>5, <2>6
<1>5. ASSUME NEW c, Appended(d, s, c, now), q = c
      PROVE  q \in d.certs /\ ~(q.gen > d.current)
  BY <1>5 DEF Appended
<1> QED BY <1>2, <1>3, <1>4, <1>5, DraftCases

\* The write of a draft keeps every node informed and every leaf backed.
LEMMA PutTrusted ==
  ASSUME Authority!DurationAssumption, EnsureInv, LoopInv, StateInv, TrustedInv,
         NEW n \in Node, agent[n].pc = "put", durable = agent[n].seen, durable' = agent[n].draft,
         clock' = clock, synced' = synced, leaf' = leaf, fresh' = fresh
  PROVE  TrustedInv'
<1> DEFINE now == agent[n].now
<1>1. now \in Int /\ clock \in Nat /\ clock - 1 <= now /\ now <= clock + Skew
  BY RecentBounds
<1>2. ASSUME durable # None
      PROVE  Sound(durable, clock) /\ OnTime(durable, clock, ensured) /\ Drafted(durable, durable', now)
  BY <1>2 DEF StateInv, LoopInv, Attending
<1>3. durable' \in Authority!caState
  BY DEF EnsureInv, IterationOK, Writable
<1> HIDE DEF now
<1>4. ASSUME NEW m \in Node, synced[m].state # None
      PROVE  Informed(m, synced[m].state)'
  <2> DEFINE b == synced[m].state
  <2>1. Informed(m, b) /\ durable # None
    BY <1>4 DEF TrustedInv, Informed
  <2>2. Sound(durable, clock) /\ OnTime(durable, clock, ensured) /\ Drafted(durable, durable', now)
    BY <1>2, <2>1
  <2>3. durable \in Authority!caState
    BY <2>2 DEF Sound
  <2> HIDE DEF b
  <2>4. ASSUME NEW q \in durable'.certs
        PROVE  \/ Authority!Cert(q) \in Authority!bundleForState(b)
               \/ q.gen > durable'.current /\ Unseen(m, q.notBefore + Skew)
    <3>1. CASE q.gen > durable'.current /\ clock <= q.notBefore + Skew
      BY <3>1 DEF Unseen
    <3>2. ASSUME NEW r \in durable.certs, Authority!Cert(q) = Authority!Cert(r),
                 r.gen > durable.current => q.gen > durable'.current \/ r.notBefore + Skew + 2 <= clock
          PROVE  \/ Authority!Cert(q) \in Authority!bundleForState(b)
                 \/ q.gen > durable'.current /\ Unseen(m, q.notBefore + Skew)
      <4>1. r.notBefore = q.notBefore /\ r.notBefore \in Int
        <5>1. Authority!Cert(q).notBefore = q.notBefore /\ Authority!Cert(r).notBefore = r.notBefore
          BY DEF Authority!Cert
        <5> QED BY <2>3, <3>2, <5>1, RecordType
      <4>2. Authority!Cert(r) \in Authority!bundleForState(b) \/ (r.gen > durable.current /\ Unseen(m, r.notBefore + Skew))
        BY <2>1 DEF Informed
      <4>3. Unseen(m, r.notBefore + Skew) => ~(r.notBefore + Skew + 2 <= clock)
        BY <1>1, <4>1, Durations, SMT DEF Unseen
      <4> QED BY <3>2, <4>1, <4>2, <4>3
    <3>3. \/ \E r \in durable.certs :
               /\ Authority!Cert(q) = Authority!Cert(r)
               /\ r.gen > durable.current => q.gen > durable'.current \/ r.notBefore + Skew + 2 <= clock
          \/ q.gen > durable'.current /\ clock <= q.notBefore + Skew
      BY <1>1, <2>2, Origin
    <3> QED BY <3>1, <3>2, <3>3
  <2>5. \E q \in durable'.certs :
          /\ Authority!Cert(q) = Issuer(b) /\ q.gen <= durable'.current
          /\ q.gen < durable'.current => Unseen(m, q.retiredAt + 1)
    <3>1. PICK r \in durable.certs :
            /\ Authority!Cert(r) = Issuer(b) /\ r.gen <= durable.current
            /\ r.gen < durable.current => Unseen(m, r.retiredAt + 1)
      BY <2>1 DEF Informed
    <3>2. r.gen < durable.current => r.retiredAt + Retention > clock
      <4> SUFFICES ASSUME r.gen < durable.current
                   PROVE  r.retiredAt + Retention > clock
        OBVIOUS
      <4>1. r.retiredAt \in Int
        BY <2>2 DEF Sound
      <4>2. clock <= r.retiredAt + 2
        BY <1>1, <3>1, <4>1, SMT DEF Unseen
      <4> QED BY <1>1, <4>1, <4>2, Durations, SMT
    <3>3. PICK q \in durable'.certs :
            /\ Authority!Cert(q) = Authority!Cert(r) /\ q.gen <= durable'.current
            /\ q.gen < durable'.current => (r.gen < durable.current /\ q.retiredAt = r.retiredAt) \/ q.retiredAt = now
      <4>1. r.gen <= durable.current
        BY <3>1
      <4>2. Carries(durable, durable', r, now)
        BY <1>1, <2>2, <3>2, <4>1, Carried
      <4> QED BY <4>2 DEF Carries
    <3>4. q.retiredAt = now => Unseen(m, q.retiredAt + 1)
      <4>1. clock <= now + 1
        BY <1>1, SMT
      <4> QED BY <4>1 DEF Unseen
    <3>5. q.gen < durable'.current => Unseen(m, q.retiredAt + 1)
      BY <3>1, <3>3, <3>4
    <3> QED BY <3>1, <3>3, <3>5
  <2>6. \E q \in durable'.certs : TRUE
    BY <2>5
  <2>7. \A z : Unseen(m, z)' <=> Unseen(m, z)
    BY DEF Unseen
  <2>8. durable' # None
    BY <1>3 DEF Authority!DurationAssumption
  <2> QED BY <2>4, <2>5, <2>7, <2>8 DEF Informed, b, Unseen
<1>5. ASSUME NEW m \in Node, leaf[m] # None
      PROVE  Backed(leaf[m])'
  <2> DEFINE l == leaf[m]
  <2>1. Backed(l)
    BY <1>5 DEF TrustedInv
  <2> HIDE DEF l
  <2>2. l.notAfter \in Int /\ l.notAfter <= clock + Skew + LeafLife
    BY <2>1 DEF Backed
  <2>3. ASSUME clock < l.notAfter
        PROVE  \E q \in durable'.certs :
                 /\ Authority!Cert(q) = l.ca /\ q.gen <= durable'.current
                 /\ q.gen < durable'.current => l.notAfter <= q.retiredAt + Retention
    <3>1. durable # None
      BY <2>1, <2>3 DEF Backed
    <3>2. Sound(durable, clock) /\ OnTime(durable, clock, ensured) /\ Drafted(durable, durable', now)
      BY <1>2, <3>1
    <3>3. PICK r \in durable.certs :
            /\ Authority!Cert(r) = l.ca /\ r.gen <= durable.current
            /\ r.gen < durable.current => l.notAfter <= r.retiredAt + Retention
      BY <2>1, <2>3 DEF Backed
    <3>4. r.gen < durable.current => r.retiredAt + Retention > clock
      <4> SUFFICES ASSUME r.gen < durable.current
                   PROVE  r.retiredAt + Retention > clock
        OBVIOUS
      <4>1. r.retiredAt \in Int
        BY <3>2 DEF Sound
      <4> QED BY <1>1, <2>2, <2>3, <3>3, <4>1, Durations, SMT
    <3>5. PICK q \in durable'.certs :
            /\ Authority!Cert(q) = Authority!Cert(r) /\ q.gen <= durable'.current
            /\ q.gen < durable'.current => (r.gen < durable.current /\ q.retiredAt = r.retiredAt) \/ q.retiredAt = now
      <4>1. r.gen <= durable.current
        BY <3>3
      <4>2. Carries(durable, durable', r, now)
        BY <1>1, <3>2, <3>4, <4>1, Carried
      <4> QED BY <4>2 DEF Carries
    <3>6. l.notAfter <= now + Retention
      BY <1>1, <2>2, Durations, SMT
    <3>7. q.gen < durable'.current => l.notAfter <= q.retiredAt + Retention
      BY <3>3, <3>5, <3>6
    <3> QED BY <3>3, <3>5, <3>7
  <2>4. durable' # None
    BY <1>3 DEF Authority!DurationAssumption
  <2> QED BY <2>2, <2>3, <2>4 DEF Backed, l
<1> QED BY <1>4, <1>5 DEF TrustedInv

\* A step that leaves the state, the clock and the nodes' copies alone.
LEMMA TrustRests ==
  ASSUME TrustedInv, durable' = durable, clock' = clock, fresh' = fresh, synced' = synced, leaf' = leaf
  PROVE  TrustedInv'
  BY DEF TrustedInv, Informed, Backed, Unseen

\* The conditional write keeps the state on time and the nodes informed (Ensure).
LEMMA PutAttended ==
  ASSUME Authority!DurationAssumption, Authority!Attended, AttendedInv, NEW n \in Node, Authority!PutState(n)
  PROVE  LoopInv' /\ StateInv' /\ TrustedInv'
<1> DEFINE now == agent[n].now
<1>1. agent[n].pc = "put" /\ agent[n].pc # "wait" /\ clock' = clock /\ synced' = synced
      /\ leaf' = leaf /\ fresh' = fresh
  BY DEF Authority!PutState
<1>2. EnsureInv /\ LoopInv /\ StateInv /\ TrustedInv
  BY DEF AttendedInv
<1>3. /\ now \in Int /\ clock \in Nat /\ clock - 1 <= now /\ now <= clock + Skew
      /\ (Authority!Began(n) => now >= clock)
  BY <1>1, <1>2, RecentBounds
<1>4. CASE Authority!Unmodified(n)
  <2>1. durable = agent[n].seen /\ durable' = agent[n].draft /\ Authority!Goto(n, "sync")
        /\ ensured' = (ensured \/ Authority!Began(n))
    BY <1>4 DEF Authority!PutState, Authority!Unmodified, Authority!Ensured
  <2>2. LoopInv'
    BY <1>1, <1>2, <2>1, AttendingGoes
  <2>3. durable' \in Authority!caState
    BY <1>1, <1>2, <2>1 DEF EnsureInv, IterationOK, Writable
  <2>4. ensured' => ensured \/ now >= clock
    BY <1>3, <2>1
  <2>5. CASE durable = None
    <3>1. durable' = FirstState(now)
      BY <1>1, <1>2, <2>1, <2>5 DEF LoopInv, Attending
    <3>2. clock + Retention < now + Life
      BY <1>3, Durations, SMT
    <3>3. Sound(durable', clock) /\ OnTime(durable', clock, ensured')
      BY <1>3, <3>1, <3>2, FirstOnTime
    <3>4. StateInv'
      BY <1>1, <3>3 DEF StateInv
    <3>5. TrustedInv'
      BY <1>1, <1>2, <2>1, PutTrusted
    <3> QED BY <2>2, <3>4, <3>5
  <2>6. CASE durable # None
    <3>1. Drafted(durable, durable', now) /\ Sound(durable, clock) /\ OnTime(durable, clock, ensured)
      BY <1>1, <1>2, <2>1, <2>6 DEF LoopInv, Attending, StateInv
    <3>2. Sound(durable', clock) /\ OnTime(durable', clock, ensured')
      BY <1>3, <2>3, <2>4, <3>1, DraftOnTime
    <3>3. StateInv'
      BY <1>1, <3>2 DEF StateInv
    <3>4. TrustedInv'
      BY <1>1, <1>2, <2>1, PutTrusted
    <3> QED BY <2>2, <3>3, <3>4
  <2> QED BY <2>5, <2>6
<1>5. CASE ~Authority!Unmodified(n)
  <2>1. durable' = durable /\ ensured' = ensured
    BY <1>5 DEF Authority!PutState
  <2>2. StateInv' /\ TrustedInv'
    BY <1>1, <1>2, <2>1, TrustRests DEF StateInv
  <2>3. CASE Authority!Goto(n, "sync")
    BY <1>1, <1>2, <2>2, <2>3, AttendingGoes
  <2>4. CASE agent' = [agent EXCEPT ![n] = [@ EXCEPT !.pc = "read", !.attempt = agent[n].attempt + 1]]
    <3> DEFINE x == [agent[n] EXCEPT !.pc = "read", !.attempt = agent[n].attempt + 1]
    <3>1. agent' = [agent EXCEPT ![n] = x]
      BY <1>2, <2>4 DEF EnsureInv
    <3>2. x.pc = "read" /\ x.now = agent[n].now
      BY <1>2 DEF EnsureInv, Iteration
    <3>3. Recent(agent[n], n, clock)
      BY <1>1, <1>2 DEF LoopInv, Attending
    <3> HIDE DEF x
    <3>4. Attending(x, n, clock)
      BY <3>2, <3>3 DEF Attending, Recent
    <3> QED BY <1>1, <1>2, <2>2, <3>1, <3>4, AttendingStep
  <2> QED BY <1>5, <2>3, <2>4 DEF Authority!PutState
<1> QED BY <1>4, <1>5

\* A node that synchronizes knows the state as it is (Sync).
LEMMA SyncAttended ==
  ASSUME Authority!DurationAssumption, Authority!Attended, AttendedInv, NEW n \in Node, Authority!Sync(n)
  PROVE  LoopInv' /\ StateInv' /\ TrustedInv'
<1>1. agent[n].pc # "wait" /\ clock' = clock /\ durable' = durable /\ ensured' = ensured /\ leaf' = leaf
  BY DEF Authority!Sync
<1>2. EnsureInv /\ LoopInv /\ StateInv /\ TrustedInv /\ ~publication
  BY DEF AttendedInv, Authority!Attended
<1>3. Authority!Goto(n, "wait")
  BY <1>2 DEF Authority!Sync
<1>4. LoopInv'
  BY <1>1, <1>2, <1>3, AttendingGoes
<1>5. StateInv'
  BY <1>1, <1>2 DEF StateInv
<1>6. CASE synced' = synced /\ fresh' = fresh
  BY <1>1, <1>2, <1>4, <1>5, <1>6, TrustRests
<1>7. CASE durable # None /\ \E v : synced' = [synced EXCEPT ![n] = [state |-> durable, revision |-> v]]
  <2>1. PICK v : synced' = [synced EXCEPT ![n] = [state |-> durable, revision |-> v]]
    BY <1>7
  <2>2. fresh' \subseteq fresh \cup {n}
    BY DEF Authority!Sync
  <2>3. DOMAIN synced' = Node /\ synced'[n].state = durable /\ \A m \in Node \ {n} : synced'[m] = synced[m]
    BY <1>2, <2>1 DEF TrustedInv
  <2>4. ASSUME NEW m \in Node, m # n, synced[m].state # None
        PROVE  Informed(m, synced[m].state)'
    <3>1. Informed(m, synced[m].state)
      BY <1>2, <2>4 DEF TrustedInv
    <3>2. synced'[m] = synced[m]
      BY <2>3, <2>4
    <3>3. \A z : Unseen(m, z) => Unseen(m, z)'
      BY <1>1, <2>2, <2>4 DEF Unseen
    <3> QED BY <1>1, <3>1, <3>2, <3>3 DEF Informed
  <2>5. \E r \in durable.certs : Authority!Cert(r) = Issuer(durable) /\ r.gen <= durable.current
                                 /\ ~(r.gen < durable.current)
    <3>1. Sound(durable, clock)
      BY <1>2, <1>7 DEF StateInv
    <3>2. PICK c \in durable.certs : c.gen = durable.current
      BY <3>1 DEF Sound
    <3>3. Issuer(durable) = Authority!Cert(c)
      BY <3>1, <3>2, CurrentIs DEF Sound, Issuer
    <3>4. c.gen <= durable.current /\ ~(c.gen < durable.current)
      BY <3>1, <3>2, RecordType, SMT DEF Sound
    <3> QED BY <3>2, <3>3, <3>4
  <2>6. Informed(n, synced[n].state)'
    <3>1. \A r \in durable.certs : Authority!Cert(r) \in Authority!bundleForState(durable)
      BY DEF Authority!bundleForState
    <3> QED BY <1>1, <1>7, <2>3, <2>5, <3>1 DEF Informed
  <2>7. \A m \in Node : leaf[m] # None => Backed(leaf[m])'
    BY <1>1, <1>2 DEF TrustedInv, Backed
  <2>8. TrustedInv'
    BY <1>1, <1>2, <2>3, <2>4, <2>6, <2>7 DEF TrustedInv
  <2> QED BY <1>4, <1>5, <2>8
<1>8. CASE durable # None /\ Authority!validateState(durable, agent[n].now, TRUE)
  <2>1. synced' = [synced EXCEPT ![n] = [state |-> durable,
                          revision |-> IF durable = @.state THEN @.revision ELSE @.revision + 1]]
    BY <1>8 DEF Authority!Sync
  <2>2. \E v : synced' = [synced EXCEPT ![n] = [state |-> durable, revision |-> v]]
    BY <2>1
  <2> QED BY <1>7, <1>8, <2>2
<1>9. CASE ~(durable # None /\ Authority!validateState(durable, agent[n].now, TRUE))
  BY <1>6, <1>9 DEF Authority!Sync
<1> QED BY <1>8, <1>9

\* A leaf is issued from a certificate that is current or was a moment ago.
LEMMA IssueTrusted ==
  ASSUME Authority!DurationAssumption, Authority!Attended, AttendedInv, NEW n \in Node, Authority!Issue(n)
  PROVE  TrustedInv'
<1> DEFINE now == clock + offset[n]
           b == synced[n].state
           ca == Authority!CurrentRecord(b)
           made == [ca |-> Authority!Cert(ca),
                    notAfter |-> IF ca.notAfter < now + LeafLife THEN ca.notAfter ELSE now + LeafLife]
<1>1. TrustedInv /\ clock \in Nat
  BY DEF AttendedInv, EnsureInv
<1>2. /\ b # None /\ leaf' = [leaf EXCEPT ![n] = made]
      /\ clock' = clock /\ durable' = durable /\ fresh' = fresh /\ synced' = synced
  BY DEF Authority!Issue
<1>3. Informed(n, b) /\ durable # None
  BY <1>1, <1>2 DEF TrustedInv, Informed
<1>4. durable \in Authority!caState /\ Sound(durable, clock)
  BY <1>3 DEF AttendedInv, StateInv, Sound
<1>5. PICK r \in durable.certs :
        /\ Authority!Cert(r) = Authority!Cert(ca) /\ r.gen <= durable.current
        /\ r.gen < durable.current => Unseen(n, r.retiredAt + 1)
  BY <1>3 DEF Informed, Issuer
<1> HIDE DEF b, ca
<1>6. ca.notAfter = r.notAfter /\ r.notAfter \in Int
  <2>1. Authority!Cert(r).notAfter = r.notAfter /\ Authority!Cert(ca).notAfter = ca.notAfter
    BY DEF Authority!Cert
  <2> QED BY <1>4, <1>5, <2>1, RecordType
<1>7. made.ca = Authority!Cert(ca) /\ made.notAfter = IF ca.notAfter < now + LeafLife THEN ca.notAfter ELSE now + LeafLife
  OBVIOUS
<1> HIDE DEF made
<1>8. made.notAfter \in Int /\ made.notAfter <= clock + Skew + LeafLife
  BY <1>1, <1>6, <1>7, Durations, SMT
<1>9. ASSUME r.gen < durable.current
      PROVE  made.notAfter <= r.retiredAt + Retention
  <2>1. r.retiredAt \in Int
    BY <1>4, <1>9 DEF Sound
  <2>2. clock <= r.retiredAt + 2
    BY <1>1, <1>5, <1>9, <2>1, SMT DEF Unseen
  <2> QED BY <1>1, <1>8, <2>1, <2>2, Durations, SMT
<1>10. Backed(made)
  BY <1>3, <1>5, <1>7, <1>8, <1>9 DEF Backed
<1>11. DOMAIN leaf' = Node /\ \A m \in Node : leaf'[m] = IF m = n THEN made ELSE leaf[m]
  BY <1>1, <1>2 DEF TrustedInv
<1>12. \A m \in Node : leaf'[m] # None => Backed(leaf'[m])
  BY <1>1, <1>10, <1>11 DEF TrustedInv
<1>13. \A l : Backed(l) => Backed(l)'
  BY <1>2 DEF Backed
<1>14. \A m \in Node : leaf'[m] # None => Backed(leaf[m])'
  BY <1>2, <1>12 DEF Backed
<1>15. \A m \in Node : synced[m].state # None => Informed(m, synced[m].state)'
  BY <1>1, <1>2 DEF TrustedInv, Informed, Unseen
<1> QED BY <1>1, <1>2, <1>11, <1>14, <1>15 DEF TrustedInv

\* Time advances when every node has synchronized and a leader has ensured.
LEMMA TickAttended ==
  ASSUME Authority!DurationAssumption, Authority!Attended, AttendedInv, Authority!Tick, outage' = 0
  PROVE  LoopInv' /\ StateInv' /\ TrustedInv'
<1>1. EnsureInv /\ LoopInv /\ StateInv /\ TrustedInv /\ outage = 0 /\ clock \in Nat
  BY DEF AttendedInv, EnsureInv, Authority!Attended
<1>2. clock' = clock + 1 /\ fresh' = {} /\ ensured' = FALSE /\ agent' = agent /\ durable' = durable
      /\ synced' = synced /\ leaf' = leaf
  BY DEF Authority!Tick
<1>3. outage' # outage + 1
  BY <1>1, SMT
<1>4. fresh = Node /\ ensured /\ \A n \in Node : agent[n].pc = "wait" \/ Authority!Began(n)
  BY <1>3 DEF Authority!Tick
<1>5. LoopInv'
  <2> SUFFICES ASSUME NEW n \in Node
               PROVE  Attending(agent[n], n, clock + 1)
    BY <1>2 DEF LoopInv
  <2>1. Attending(agent[n], n, clock)
    BY <1>1 DEF LoopInv
  <2>2. agent[n].pc # "wait" => Recent(agent[n], n, clock + 1)
    <3> SUFFICES ASSUME agent[n].pc # "wait"
                 PROVE  Recent(agent[n], n, clock + 1)
      OBVIOUS
    <3>1. agent[n].now = clock + offset[n]
      BY <1>4 DEF Authority!Began
    <3> QED BY <1>1, <3>1, Durations, SMT DEF Recent
  <2> QED BY <2>1, <2>2 DEF Attending
<1>6. StateInv'
  <2> SUFFICES ASSUME durable # None
               PROVE  Sound(durable, clock + 1) /\ OnTime(durable, clock + 1, FALSE)
    BY <1>2 DEF StateInv
  <2>1. Sound(durable, clock) /\ OnTime(durable, clock, TRUE) /\ durable \in Authority!caState
    BY <1>1, <1>4 DEF StateInv, Sound, OnTime, Lasts, Succeeds
  <2>2. Sound(durable, clock + 1)
    <3>1. \A r \in durable.certs : r.notBefore <= clock + 1
      <4> SUFFICES ASSUME NEW r \in durable.certs
                   PROVE  r.notBefore <= clock + 1
        OBVIOUS
      <4>1. r.notBefore <= clock /\ r.notBefore \in Int
        BY <2>1, RecordType DEF Sound
      <4> QED BY <1>1, <4>1, SMT
    <3>2. \A r \in durable.certs : r.gen < durable.current => r.retiredAt <= clock + 1 + Skew
      <4> SUFFICES ASSUME NEW r \in durable.certs, r.gen < durable.current
                   PROVE  r.retiredAt <= clock + 1 + Skew
        OBVIOUS
      <4>1. r.retiredAt <= clock + Skew /\ r.retiredAt \in Int
        BY <2>1 DEF Sound
      <4> QED BY <1>1, <4>1, Durations, SMT
    <3> QED BY <2>1, <3>1, <3>2 DEF Sound
  <2>3. ASSUME NEW c \in durable.certs, Lasts(c, clock, TRUE)
        PROVE  Lasts(c, clock + 1, FALSE)
    <3>1. c.notAfter > clock + Retention /\ c.notAfter \in Int
      BY <2>1, <2>3, RecordType DEF Lasts
    <3>2. c.notAfter > (clock + 1) - 1 + Retention
      BY <1>1, <3>1, Durations, SMT
    <3> QED BY <3>2 DEF Lasts
  <2>4. ASSUME NEW c \in durable.certs, NEW r \in durable.certs, r.gen > durable.current, Succeeds(r, c, clock, TRUE)
        PROVE  Succeeds(r, c, clock + 1, FALSE)
    <3>1. r.activateAt > clock /\ r.notBefore \in Int /\ r.activateAt = r.notBefore + Skew + Lag
      BY <2>1, <2>4, RecordType DEF Succeeds, Sound
    <3>2. r.activateAt >= clock + 1
      BY <1>1, <3>1, Durations, SMT
    <3> QED BY <2>4, <3>2 DEF Succeeds
  <2>5. OnTime(durable, clock + 1, FALSE)
    BY <2>1, <2>3, <2>4 DEF OnTime
  <2> QED BY <2>2, <2>5
<1>7. TrustedInv'
  <2>1. ASSUME NEW m \in Node, NEW z \in Int, Unseen(m, z)
        PROVE  Unseen(m, z)'
    <3>1. clock <= z
      BY <1>4, <2>1 DEF Unseen
    <3>2. clock + 1 <= z + 1
      BY <1>1, <3>1, SMT
    <3> QED BY <1>2, <3>2 DEF Unseen
  <2>2. ASSUME NEW m \in Node, synced[m].state # None
        PROVE  Informed(m, synced[m].state)'
    <3>1. Informed(m, synced[m].state) /\ durable # None
      BY <1>1, <2>2 DEF TrustedInv, Informed
    <3>2. Sound(durable, clock) /\ durable \in Authority!caState
      BY <1>1, <3>1 DEF StateInv, Sound
    <3>3. ASSUME NEW r \in durable.certs, Unseen(m, r.notBefore + Skew)
          PROVE  Unseen(m, r.notBefore + Skew)'
      <4>1. r.notBefore + Skew \in Int
        BY <3>2, RecordType, Durations, SMT
      <4>2. PICK z \in Int : z = r.notBefore + Skew
        BY <4>1
      <4>3. Unseen(m, z)'
        BY <2>1, <3>3, <4>2
      <4> QED BY <4>2, <4>3 DEF Unseen
    <3>4. ASSUME NEW r \in durable.certs, r.gen < durable.current, Unseen(m, r.retiredAt + 1)
          PROVE  Unseen(m, r.retiredAt + 1)'
      <4>1. r.retiredAt \in Int
        BY <3>2, <3>4 DEF Sound
      <4>2. r.retiredAt + 1 \in Int
        BY <4>1, SMT
      <4>3. PICK z \in Int : z = r.retiredAt + 1
        BY <4>2
      <4>4. Unseen(m, z)'
        BY <2>1, <3>4, <4>3
      <4> QED BY <4>3, <4>4 DEF Unseen
    <3> QED BY <1>2, <3>1, <3>3, <3>4 DEF Informed
  <2>3. ASSUME NEW m \in Node, leaf[m] # None
        PROVE  Backed(leaf[m])'
    <3>1. Backed(leaf[m])
      BY <1>1, <2>3 DEF TrustedInv
    <3>2. leaf[m].notAfter \in Int /\ leaf[m].notAfter <= clock + Skew + LeafLife
      BY <3>1 DEF Backed
    <3>3. leaf[m].notAfter <= clock + 1 + Skew + LeafLife
      BY <1>1, <3>2, Durations, SMT
    <3>4. clock + 1 < leaf[m].notAfter => clock < leaf[m].notAfter
      BY <1>1, <3>2, SMT
    <3> QED BY <1>2, <3>1, <3>2, <3>3, <3>4 DEF Backed
  <2> QED BY <1>1, <1>2, <2>2, <2>3 DEF TrustedInv
<1> QED BY <1>1, <1>4, <1>5, <1>6, <1>7

\* The invariant holds before the first iteration, with or without a certificate.
LEMMA AttendedInit ==
  ASSUME Authority!DurationAssumption, Authority!Init
  PROVE  AttendedInv
<1>1. EnsureInv /\ outage \in Nat /\ clock \in Nat
  <2>1. outage = 0 /\ 0 \in Nat
    BY SMT DEF Authority!Init
  <2> QED BY <2>1, EnsureInit DEF EnsureInv
<1>2. LoopInv
  BY DEF Authority!Init, LoopInv, Attending, Authority!Waiting
<1>3. durable = None \/ durable = FirstState(0)
  BY DEF Authority!Init, FirstState
<1>4. clock \in Nat /\ 0 \in Int /\ 0 <= clock + Skew /\ clock + Retention < 0 + Life
  <2>1. clock \in Nat /\ clock + Skew + Retention < Life
    BY DEF Authority!Init, Authority!DurationAssumption
  <2> QED BY <2>1, Durations, SMT
<1>5. Sound(FirstState(0), clock) /\ OnTime(FirstState(0), clock, ensured)
  BY <1>4, FirstOnTime
<1>6. StateInv
  BY <1>3, <1>5 DEF StateInv
<1>7. DOMAIN synced = Node /\ DOMAIN leaf = Node /\ \A n \in Node : synced[n].state = durable /\ leaf[n] = None
  BY DEF Authority!Init
<1>8. ASSUME durable # None
      PROVE  \A m \in Node : Informed(m, durable)
  <2>1. Sound(durable, clock)
    BY <1>6, <1>8 DEF StateInv
  <2>2. PICK c \in durable.certs : c.gen = durable.current
    BY <2>1 DEF Sound
  <2>3. Issuer(durable) = Authority!Cert(c)
    BY <2>1, <2>2, CurrentIs DEF Sound, Issuer
  <2>4. c.gen <= durable.current /\ ~(c.gen < durable.current)
    BY <2>1, <2>2, RecordType, SMT DEF Sound
  <2>5. \A r \in durable.certs : Authority!Cert(r) \in Authority!bundleForState(durable)
    BY DEF Authority!bundleForState
  <2> QED BY <1>8, <2>2, <2>3, <2>4, <2>5 DEF Informed
<1>9. TrustedInv
  BY <1>7, <1>8 DEF TrustedInv
<1> QED BY <1>1, <1>2, <1>6, <1>9 DEF AttendedInv

\* Every step of an attended authority keeps the invariant.
LEMMA AttendedMoves ==
  ASSUME Authority!DurationAssumption, Authority!Attended, AttendedInv, [Authority!Next]_Authority!vars, outage' = 0
  PROVE  LoopInv' /\ StateInv' /\ TrustedInv'
<1> DEFINE OK == LoopInv' /\ StateInv' /\ TrustedInv'
<1>1. EnsureInv /\ LoopInv /\ StateInv /\ TrustedInv
  BY DEF AttendedInv
<1>3. ASSUME LoopInv', durable' = durable, clock' = clock, ensured' = ensured, fresh' = fresh, synced' = synced,
             leaf' = leaf
      PROVE  OK
  <2>1. StateInv'
    BY <1>1, <1>3 DEF StateInv
  <2> QED BY <1>1, <1>3, <2>1, TrustRests
<1>4. CASE Authority!Tick
  BY <1>4, TickAttended
<1>5. ASSUME NEW n \in Node, Authority!Wake(n)
      PROVE  OK
  <2> DEFINE x == [agent[n] EXCEPT !.pc = IF n = leader THEN "read" ELSE "sync", !.now = clock + offset[n]]
  <2>1. /\ agent' = [agent EXCEPT ![n] = x] /\ durable' = durable /\ clock' = clock /\ ensured' = ensured
        /\ fresh' = fresh /\ synced' = synced /\ leaf' = leaf
    BY <1>5 DEF Authority!Wake
  <2>2. x.pc \in {"read", "sync"} /\ x.now = clock + offset[n]
    BY <1>1 DEF EnsureInv, Iteration
  <2> HIDE DEF x
  <2>3. Recent(x, n, clock)
    BY <1>1, <2>2, Durations, SMT DEF Recent, EnsureInv
  <2>4. Attending(x, n, clock)
    BY <2>2, <2>3 DEF Attending
  <2>5. LoopInv'
    BY <1>1, <2>1, <2>4, AttendingStep
  <2> QED BY <1>3, <2>1, <2>5
<1>6. ASSUME NEW n \in Node, Authority!Fail(n)
      PROVE  OK
  <2>1. /\ durable' = durable /\ clock' = clock /\ ensured' = ensured /\ fresh' = fresh
        /\ synced' = synced /\ leaf' = leaf
        /\ agent[n].pc # "wait" /\ (Authority!Goto(n, "wait") \/ Authority!Goto(n, "sync"))
    BY <1>6 DEF Authority!Fail
  <2>2. LoopInv'
    BY <1>1, <2>1, AttendingGoes
  <2> QED BY <1>3, <2>1, <2>2
<1>7. ASSUME NEW n \in Node, Authority!ReadState(n)
      PROVE  OK
  <2>1. LoopInv' /\ StateInv'
    BY <1>1, <1>7, ReadAttended
  <2>2. durable' = durable /\ clock' = clock /\ fresh' = fresh /\ synced' = synced /\ leaf' = leaf
    BY <1>7 DEF Authority!ReadState
  <2>3. TrustedInv'
    BY <1>1, <2>2, TrustRests
  <2> QED BY <2>1, <2>3
<1>8. ASSUME NEW n \in Node, Authority!PublishReplacement(n) \/ Authority!CheckPublication(n) \/ Authority!Publish(n)
      PROVE  OK
  <2>1. agent[n].pc \in {"wait", "read", "put", "sync"}
    BY <1>1 DEF LoopInv, Attending
  <2> QED BY <1>8, <2>1 DEF Authority!PublishReplacement, Authority!CheckPublication, Authority!Publish
<1>9. ASSUME NEW n \in Node, Authority!PutState(n)
      PROVE  OK
  BY <1>9, PutAttended
<1>10. ASSUME NEW n \in Node, Authority!Sync(n)
       PROVE  OK
  BY <1>10, SyncAttended
<1>11. ASSUME NEW n \in Node, Authority!Issue(n)
       PROVE  OK
  <2>1. agent' = agent /\ durable' = durable /\ clock' = clock /\ ensured' = ensured
    BY <1>11 DEF Authority!Issue
  <2>2. LoopInv' /\ StateInv'
    BY <1>1, <2>1 DEF LoopInv, StateInv
  <2> QED BY <1>11, <2>2, IssueTrusted
<1>12. ASSUME NEW n \in Node, Authority!Elect(n)
       PROVE  OK
  <2>1. /\ agent' = agent /\ durable' = durable /\ clock' = clock /\ ensured' = ensured
        /\ fresh' = fresh /\ synced' = synced /\ leaf' = leaf
    BY <1>12 DEF Authority!Elect
  <2> QED BY <1>1, <1>3, <2>1 DEF LoopInv
<1>13. CASE UNCHANGED Authority!vars
  BY <1>1, <1>3, <1>13 DEF LoopInv, Authority!vars
<1>14. CASE \E n \in Node : Authority!Loop(n)
  BY <1>5, <1>6, <1>7, <1>8, <1>9, <1>10, <1>14 DEF Authority!Loop
<1> QED BY <1>4, <1>11, <1>12, <1>13, <1>14 DEF Authority!Next

\* An outage is not undone, and the publication is not changed.
LEMMA AttendedStep ==
  ASSUME Authority!DurationAssumption, AttendedInv, [Authority!Next]_Authority!vars
  PROVE  AttendedInv'
<1>1. EnsureInv'
  BY EnsureStep DEF AttendedInv
<1>2. publication' = publication /\ (outage' = outage \/ outage' = outage + 1)
  BY DEF Authority!Next, Authority!vars, Authority!Tick, Authority!Loop, Authority!Wake, Authority!Fail,
         Authority!ReadState, Authority!PublishReplacement, Authority!CheckPublication, Authority!PutState,
         Authority!Sync, Authority!Publish, Authority!Issue, Authority!Elect
<1>3. outage' \in Nat /\ (outage' = 0 => outage = 0)
  <2>1. outage \in Nat
    BY DEF AttendedInv
  <2> QED BY <1>2, <2>1, SMT
<1>4. ASSUME Authority!Attended'
      PROVE  LoopInv' /\ StateInv' /\ TrustedInv'
  <2>1. Authority!Attended /\ outage' = 0
    BY <1>2, <1>3, <1>4 DEF Authority!Attended
  <2> QED BY <2>1, AttendedMoves
<1> QED BY <1>1, <1>3, <1>4 DEF AttendedInv

\* While leaders work, the durable state follows the clock: a successor is pending
\* before the issuer's last Retention and is promoted when every node knows it, at most
\* two certificates are kept, and no iteration of a loop finds the issuer expired
\* (workload.go, Ensure and Sync).
THEOREM AttendedInvariant ==
  ASSUME Authority!DurationAssumption
  PROVE  Authority!Spec => []AttendedInv
<1>1. Authority!Init => AttendedInv
  BY AttendedInit
<1>2. AttendedInv /\ [Authority!Next]_Authority!vars => AttendedInv'
  BY AttendedStep
<1> QED BY <1>1, <1>2, PTL DEF Authority!Spec

\* An external authority issues only what the external object held, and an attended one
\* is accepted by Ensure and Sync on every clock and never expires
\* (workload.go, Ensure, publicationReady and validateState).
THEOREM AuthorityIsUsable ==
  ASSUME Authority!DurationAssumption
  PROVE  Authority!Spec => []AuthorityUsable
<1>1. ASSUME AttendedInv
      PROVE  AuthorityUsable
  <2>1. Authority!PublishedFirst /\ clock \in Nat
    BY <1>1 DEF AttendedInv, EnsureInv
  <2>2. ASSUME Authority!Attended, durable # None, NEW n \in Node
        PROVE  /\ Authority!validateState(durable, clock + offset[n], FALSE)
               /\ Authority!validateState(durable, clock + offset[n], TRUE)
               /\ clock + offset[n] < Authority!CurrentRecord(durable).notAfter
    <3> DEFINE c == Authority!CurrentRecord(durable)
    <3>1. Sound(durable, clock) /\ OnTime(durable, clock, ensured) /\ durable \in Authority!caState
      BY <1>1, <2>2 DEF AttendedInv, StateInv, Sound
    <3>2. c \in durable.certs /\ c.gen = durable.current
      BY <3>1 DEF Sound, Authority!CurrentRecord
    <3> HIDE DEF c
    <3>3. c.notAfter > clock + Skew /\ c.notAfter \in Int
      BY <2>1, <3>1, <3>2, OnTimeValid, RecordType
    <3>4. clock + offset[n] < c.notAfter
      BY <2>1, <3>3, Durations, SMT
    <3> QED BY <2>1, <3>1, <3>4, SoundAccepted DEF c
  <2>3. Authority!Attended => Authority!StateAccepted
    BY <2>2 DEF Authority!StateAccepted
  <2>4. Authority!Attended => Authority!NeverExpires
    BY <2>2 DEF Authority!NeverExpires
  <2> QED BY <2>1, <2>3, <2>4 DEF AuthorityUsable, Authority!AuthorityUsable
<1> QED BY <1>1, AttendedInvariant, PTL

\* As long as the authority is attended, every unexpired leaf verifies at every node
\* whose issuer is valid, across rotation, pruning, clock skew, stale writes and leader
\* changes (workload.go, Issue and Sync).
THEOREM LeavesAreTrusted ==
  ASSUME Authority!DurationAssumption
  PROVE  Authority!Spec => []LeavesTrusted
<1>1. ASSUME AttendedInv
      PROVE  LeavesTrusted
  <2> SUFFICES ASSUME Authority!Attended, NEW n \in Node, NEW m \in Node, leaf[n] # None, clock + offset[m] < leaf[n].notAfter,
                      synced[m].state # None
               PROVE  leaf[n].ca \in Authority!bundleForState(synced[m].state)
    BY DEF LeavesTrusted, Authority!LeavesTrusted, Authority!Valid
  <2>1. Backed(leaf[n]) /\ Informed(m, synced[m].state) /\ clock \in Nat
    BY <1>1 DEF AttendedInv, TrustedInv, EnsureInv
  <2>2. leaf[n].notAfter \in Int
    BY <2>1 DEF Backed
  <2>3. clock < leaf[n].notAfter
    BY <2>1, <2>2, Durations, SMT
  <2>4. durable # None
    BY <2>1 DEF Informed
  <2>5. PICK r \in durable.certs : Authority!Cert(r) = leaf[n].ca /\ r.gen <= durable.current
    BY <2>1, <2>3 DEF Backed
  <2>6. ~(r.gen > durable.current)
    <3>1. durable \in Authority!caState
      BY <1>1, <2>4 DEF AttendedInv, StateInv, Sound
    <3> QED BY <2>5, <3>1, RecordType, SMT
  <2> QED BY <2>1, <2>5, <2>6 DEF Informed
<1> QED BY <1>1, AttendedInvariant, PTL
=============================================================================
