--------------------------- MODULE ClusterProofs ---------------------------
(***************************************************************************)
(* TrustKept for any commands, and InfraRemovable for commands that a      *)
(* destroy does not run beside; for any number of processes, resources,    *)
(* starts and torn local files.                                            *)
(*                                                                         *)
(* A lock is broken by its identity, so what must be shown is that an      *)
(* identity, once seen, is never the one of a running engine again unless  *)
(* it has been running all along: the lock and every identity that a       *)
(* teardown remembers are spent (Spent), that is, the command they name    *)
(* has gone past the engine run they name.                                 *)
(***************************************************************************)
EXTENDS Lifecycle, Naturals, TLAPS

USE Zenon

Working == {"prepare", "write", "plan", "planning", "apply", "applying", "locked", "unlock"}
Ending == {"destroykey", "destroyca", "empty"}
Pcs == {"ensure", "remember", "key", "ca", "save", "restore", "forget", "clean"} \cup Working \cup Ending

Command == [pc : Pcs, kind : Commands, id : Nat, plan : SUBSET Resource,
            seen : C!Lock \cup {None}, retried : BOOLEAN]

\* The steps belong to commands.
OnTrack(kind, pc) ==
  /\ pc \in {"key", "ca", "save"} => kind = "setup"
  /\ pc = "restore" => kind \in {"teardown", "destroy"}
  /\ pc \in Working => kind \in {"setup", "teardown", "destroy"}
  /\ pc \in Ending => kind = "destroy"

TypeInv ==
  /\ bucket \in (SUBSET C!Object) \cup {None} /\ infra \in SUBSET Resource /\ lock \in C!Lock \cup {None}
  /\ local \in {"absent", "torn", "whole"} /\ starts \in Nat /\ torn \in Nat
  /\ run \in [Process -> Command \cup {None}]
  /\ \A p \in Process : run[p] # None => OnTrack(run[p].kind, run[p].pc)

\* The steps before a command's engine plans, and before it applies.
BeforePlanning == {"ensure", "remember", "key", "ca", "save", "restore", "prepare", "write", "plan"}
BeforeApplying == BeforePlanning \cup {"planning", "apply", "locked", "unlock"}

\* The engine run that a lock names is one that its command has left behind or is in.
Spent(l, r) ==
  r.id = l.id =>
    \/ ~l.retried /\ r.retried
    \/ /\ l.retried = r.retried
       /\ l.phase = "planning" => r.pc \notin BeforePlanning
       /\ l.phase = "applying" => r.pc \notin BeforeApplying

\* Every command (of those in r, when n were started) has.
Seen(l, n, r) ==
  /\ l \in C!Lock /\ l.id < n
  /\ \A q \in Process : r[q] # None => Spent(l, r[q])

Active(p) == run[p] # None /\ run[p].pc \in C!Engine
Waiting(p) == run[p] # None /\ run[p].pc \in {"locked", "unlock"}

\* An engine holds the lock, and a lock about to be broken is nobody's.
LockInv ==
  /\ \A p \in Process : run[p] # None => run[p].id < starts
  /\ \A p, q \in Process : run[p] # None /\ run[q] # None /\ run[p].id = run[q].id => p = q
  /\ \A p \in Process : Active(p) => lock = C!LockID(p, run[p].pc)
  /\ lock # None => Seen(lock, starts, run)
  /\ \A p \in Process : Waiting(p) => ~run[p].retried /\ Seen(run[p].seen, starts, run)
  /\ \A p, q \in Process : C!At(p, "unlock") /\ Active(q) => run[p].seen # C!LockID(q, run[q].pc)

\* Resources have a state and variables; setup saves the variables before it has any, and
\* destroy deletes them when there are none.
InfraInv ==
  /\ infra # {} => C!Has("tfstate") /\ C!Has("tfvars")
  /\ \A p \in Process : run[p] # None /\ run[p].kind = "setup" /\ run[p].pc \in Working => C!Has("tfvars")
  /\ \A p \in Process : run[p] # None /\ run[p].pc \in Ending => infra = {}

\* A destroy deletes the state's lock with the bucket: no other command runs beside it.
Undisturbed ==
  \A p, q \in Process : run[p] # None /\ run[p].kind = "destroy" /\ run[q] # None => p = q

\* The published authority was made with the stored key until a destroy deletes that.
TrustInv == C!Has("ca.json") => unfinished \/ (key # None /\ caKey = key)

ClusterInv == TypeInv /\ LockInv /\ InfraInv

-----------------------------------------------------------------------------
(* Moves of one command *)

\* A command goes on as s, or returns.
Move(p, s) ==
  /\ run[p] # None /\ s \in Command \cup {None}
  /\ run' = [run EXCEPT ![p] = s] /\ UNCHANGED starts
  /\ s # None => s.id = run[p].id /\ s.kind = run[p].kind /\ OnTrack(s.kind, s.pc)

Forward(old, new) ==
  /\ old \notin BeforePlanning => new \notin BeforePlanning
  /\ old \notin BeforeApplying => new \notin BeforeApplying

Follows(r, s) ==
  /\ s.id = r.id
  /\ \/ ~r.retried /\ s.retried
     \/ s.retried = r.retried /\ Forward(r.pc, s.pc)

\* What a command has left behind it does not come back to.
LEMMA SpentStays ==
  ASSUME NEW l, NEW r, NEW s, Spent(l, r), Follows(r, s)
  PROVE  Spent(l, s)
BY DEF Spent, Follows, Forward

\* The other commands stay where they are.
LEMMA Moved ==
  ASSUME TypeInv, NEW p \in Process, NEW s, Move(p, s)
  PROVE  /\ run' \in [Process -> Command \cup {None}] /\ run'[p] = s
         /\ \A q \in Process \ {p} : run'[q] = run[q]
BY DEF TypeInv, Move

\* The fields of commands.
LEMMA Fields ==
  ASSUME TypeInv, NEW p \in Process, run[p] # None
  PROVE  /\ run[p] \in Command /\ run[p].pc \in Pcs /\ run[p].kind \in Commands
         /\ run[p].id \in Nat /\ run[p].retried \in BOOLEAN /\ OnTrack(run[p].kind, run[p].pc)
<1>1. run[p] \in Command
  BY DEF TypeInv
<1> QED BY <1>1 DEF Command, TypeInv

\* A move keeps the types.
LEMMA TypeMoves ==
  ASSUME TypeInv, NEW p \in Process, NEW s, Move(p, s),
         bucket' \in (SUBSET C!Object) \cup {None}, infra' \in SUBSET Resource, lock' \in C!Lock \cup {None},
         local' \in {"absent", "torn", "whole"}, torn' \in Nat
  PROVE  TypeInv'
<1>1. \A q \in Process : run'[q] # None => OnTrack(run'[q].kind, run'[q].pc)
  <2> SUFFICES ASSUME NEW q \in Process, run'[q] # None PROVE OnTrack(run'[q].kind, run'[q].pc)
    OBVIOUS
  <2>1. CASE q = p
    BY <2>1, Moved DEF Move
  <2>2. CASE q # p
    BY <2>2, Moved DEF TypeInv
  <2> QED BY <2>1, <2>2
<1> QED BY <1>1, Moved DEF TypeInv, Move

\* An identity that was seen stays spent.
LEMMA SeenStays ==
  ASSUME TypeInv, NEW p \in Process, NEW s, Move(p, s), s # None => Follows(run[p], s),
         NEW l, Seen(l, starts, run)
  PROVE  Seen(l, starts', run')
<1> SUFFICES ASSUME NEW q \in Process, run'[q] # None PROVE Spent(l, run'[q])
  BY DEF Seen, Move
<1>1. CASE q = p
  <2>1. run'[q] = s /\ s # None /\ Spent(l, run[p]) /\ Follows(run[p], s)
    BY <1>1, Moved DEF Seen, Move
  <2>2. Spent(l, s)
    BY <2>1, SpentStays
  <2> QED BY <2>1, <2>2
<1>2. CASE q # p
  BY <1>2, Moved DEF Seen
<1> QED BY <1>1, <1>2

\* A move that takes no lock keeps the lock's owner and breaks nobody's.
LEMMA LockMoves ==
  ASSUME TypeInv, LockInv, NEW p \in Process, NEW s, Move(p, s),
         s # None => Follows(run[p], s),
         lock' \in {lock, None},
         \A q \in Process \ {p} : Active(q) => lock' = lock,
         s # None /\ s.pc \in C!Engine => s.pc = run[p].pc /\ s.retried = run[p].retried /\ lock' = lock,
         s # None /\ s.pc \in {"locked", "unlock"} => ~s.retried /\ Seen(s.seen, starts, run),
         s # None /\ s.pc = "unlock" => \A q \in Process : ~Active(q)
  PROVE  LockInv'
<1>1. /\ run'[p] = s /\ \A q \in Process \ {p} : run'[q] = run[q]
      /\ starts' = starts /\ run[p] # None
  BY Moved DEF Move
<1>2. \A q \in Process : run'[q] # None => run[q] # None /\ run'[q].id = run[q].id
  BY <1>1 DEF Move
<1>3. \A q \in Process : run'[q] # None => run'[q].id < starts'
  BY <1>1, <1>2 DEF LockInv
<1>4. \A q, k \in Process : run'[q] # None /\ run'[k] # None /\ run'[q].id = run'[k].id => q = k
  <2> SUFFICES ASSUME NEW q \in Process, NEW k \in Process, run'[q] # None, run'[k] # None,
                      run'[q].id = run'[k].id
               PROVE  q = k
    OBVIOUS
  <2>1. run[q] # None /\ run[k] # None /\ run[q].id = run[k].id
    BY <1>2
  <2> QED BY <2>1 DEF LockInv
<1>5. \A q \in Process : Active(q)' => /\ Active(q) /\ lock' = lock
                                       /\ C!LockID(q, run[q].pc) = C!LockID(q, run[q].pc)'
  <2> SUFFICES ASSUME NEW q \in Process, Active(q)'
               PROVE  Active(q) /\ lock' = lock /\ C!LockID(q, run[q].pc) = C!LockID(q, run[q].pc)'
    OBVIOUS
  <2>1. CASE q = p
    <3>1. run'[q] = s /\ s # None /\ s.pc \in C!Engine
      BY <1>1, <2>1 DEF Active
    <3>2. s.pc = run[q].pc /\ s.retried = run[q].retried /\ s.id = run[q].id /\ lock' = lock
      BY <1>2, <2>1, <3>1
    <3> QED BY <1>1, <2>1, <3>1, <3>2 DEF Active, C!LockID
  <2>2. CASE q # p
    BY <1>1, <2>2 DEF Active, C!LockID
  <2> QED BY <2>1, <2>2
<1>6. \A q \in Process : Active(q)' => lock' = C!LockID(q, run[q].pc)'
  BY <1>5 DEF LockInv
<1>7. lock' # None => Seen(lock', starts', run')
  BY SeenStays DEF LockInv
<1>8. \A q \in Process : Waiting(q)' => ~run'[q].retried /\ Seen(run'[q].seen, starts', run')
  <2> SUFFICES ASSUME NEW q \in Process, Waiting(q)'
               PROVE  ~run'[q].retried /\ Seen(run'[q].seen, starts', run')
    OBVIOUS
  <2>1. CASE q = p
    <3>1. run'[q] = s /\ s # None /\ s.pc \in {"locked", "unlock"}
      BY <1>1, <2>1 DEF Waiting
    <3>2. ~s.retried /\ Seen(s.seen, starts, run)
      BY <3>1
    <3> QED BY <3>1, <3>2, SeenStays
  <2>2. CASE q # p
    <3>1. run'[q] = run[q] /\ Waiting(q)
      BY <1>1, <2>2 DEF Waiting
    <3>2. ~run[q].retried /\ Seen(run[q].seen, starts, run)
      BY <3>1 DEF LockInv
    <3>3. Seen(run[q].seen, starts', run')
      BY <3>2, SeenStays
    <3> QED BY <3>1, <3>2, <3>3
  <2> QED BY <2>1, <2>2
<1>9. \A q, k \in Process : C!At(q, "unlock")' /\ Active(k)' => run'[q].seen # C!LockID(k, run[k].pc)'
  <2> SUFFICES ASSUME NEW q \in Process, NEW k \in Process, C!At(q, "unlock")', Active(k)'
               PROVE  run'[q].seen # C!LockID(k, run[k].pc)'
    OBVIOUS
  <2>1. q # p
    BY <1>1, <1>5 DEF C!At
  <2>2. run'[q] = run[q] /\ C!At(q, "unlock")
    BY <1>1, <2>1 DEF C!At
  <2>3. run[q].seen # C!LockID(k, run[k].pc)
    BY <1>5, <2>2 DEF LockInv
  <2> QED BY <1>5, <2>2, <2>3
<1> QED BY <1>3, <1>4, <1>6, <1>7, <1>8, <1>9 DEF LockInv

\* A move that changes no resource keeps what their removal needs.
LEMMA InfraMoves ==
  ASSUME TypeInv, InfraInv, NEW p \in Process, NEW s, Move(p, s),
         infra' = infra,
         C!Has("tfstate") => C!Has("tfstate")', C!Has("tfvars") => C!Has("tfvars")',
         s # None /\ s.kind = "setup" /\ s.pc \in Working => C!Has("tfvars")',
         s # None /\ s.pc \in Ending => infra = {}
  PROVE  InfraInv'
<1>1. run'[p] = s /\ \A q \in Process \ {p} : run'[q] = run[q]
  BY Moved
<1>2. \A q \in Process : run'[q] # None /\ run'[q].kind = "setup" /\ run'[q].pc \in Working => C!Has("tfvars")'
  BY <1>1 DEF InfraInv
<1>3. \A q \in Process : run'[q] # None /\ run'[q].pc \in Ending => infra' = {}
  BY <1>1 DEF InfraInv
<1> QED BY <1>2, <1>3 DEF InfraInv

\* A move that ends no other command's lock and leaves the resources alone.
LEMMA PlainMoves ==
  ASSUME ClusterInv, NEW p \in Process, NEW s, Move(p, s),
         s # None => s.pc \notin C!Engine \cup {"locked", "unlock"},
         LockInv /\ s # None => Follows(run[p], s),
         lock' \in {lock, None}, \A q \in Process \ {p} : LockInv /\ Active(q) => lock' = lock,
         UNCHANGED infra,
         bucket' \in (SUBSET C!Object) \cup {None}, local' \in {"absent", "torn", "whole"}, torn' \in Nat,
         C!Has("tfstate") => C!Has("tfstate")', C!Has("tfvars") => C!Has("tfvars")',
         InfraInv => /\ s # None /\ s.kind = "setup" /\ s.pc \in Working => C!Has("tfvars")'
                     /\ s # None /\ s.pc \in Ending => infra = {}
  PROVE  ClusterInv'
<1>1. TypeInv'
  BY TypeMoves DEF ClusterInv, TypeInv
<1>2. LockInv => LockInv'
  BY LockMoves DEF ClusterInv
<1>3. InfraInv => InfraInv'
  BY InfraMoves DEF ClusterInv, InfraInv
<1> QED BY <1>1, <1>2, <1>3 DEF ClusterInv

\* A command that goes to another step is a move.
LEMMA GotoMoves ==
  ASSUME TypeInv, NEW p \in Process, NEW pc \in Pcs, run[p] # None, C!Goto(p, pc),
         OnTrack(run[p].kind, pc), UNCHANGED starts
  PROVE  \E s \in Command :
           /\ Move(p, s) /\ s.pc = pc
           /\ s.id = run[p].id /\ s.kind = run[p].kind /\ s.retried = run[p].retried
           /\ s.plan = run[p].plan /\ s.seen = run[p].seen
<1> DEFINE s == [run[p] EXCEPT !.pc = pc]
<1>1. run[p] \in Command
  BY Fields
<1>2. /\ s \in Command /\ s.pc = pc
      /\ s.id = run[p].id /\ s.kind = run[p].kind /\ s.retried = run[p].retried
      /\ s.plan = run[p].plan /\ s.seen = run[p].seen
  BY <1>1 DEF Command
<1>3. run' = [run EXCEPT ![p] = s]
  BY DEF C!Goto
<1> HIDE DEF s
<1> QED BY <1>2, <1>3 DEF Move

\* A step that leaves the lock and the resources alone.
LEMMA PlainGoto ==
  ASSUME ClusterInv, NEW p \in Process, NEW pc \in Pcs, run[p] # None, C!Goto(p, pc), UNCHANGED starts,
         OnTrack(run[p].kind, pc), Forward(run[p].pc, pc), pc \notin C!Engine \cup {"locked", "unlock"},
         UNCHANGED <<infra, lock>>,
         bucket' \in (SUBSET C!Object) \cup {None}, local' \in {"absent", "torn", "whole"}, torn' \in Nat,
         C!Has("tfstate") => C!Has("tfstate")', C!Has("tfvars") => C!Has("tfvars")',
         InfraInv => /\ run[p].kind = "setup" /\ pc \in Working => C!Has("tfvars")'
                     /\ pc \in Ending => infra = {}
  PROVE  ClusterInv'
<1>1. PICK s \in Command :
        /\ Move(p, s) /\ s.pc = pc
        /\ s.id = run[p].id /\ s.kind = run[p].kind /\ s.retried = run[p].retried
  BY GotoMoves DEF ClusterInv
<1>2. Follows(run[p], s) /\ s.pc \notin C!Engine \cup {"locked", "unlock"}
  BY <1>1 DEF Follows
<1>3. InfraInv => /\ s # None /\ s.kind = "setup" /\ s.pc \in Working => C!Has("tfvars")'
                  /\ s # None /\ s.pc \in Ending => infra = {}
  BY <1>1
<1> QED BY <1>1, <1>2, <1>3, PlainMoves

\* A command that ends may take its own lock along.
LEMMA ReturnMoves ==
  ASSUME ClusterInv, NEW p \in Process, run[p] # None, C!Return(p), UNCHANGED <<infra, bucket, starts>>,
         lock' \in {lock, None}, \A q \in Process \ {p} : LockInv /\ Active(q) => lock' = lock,
         local' \in {"absent", "torn", "whole"}, torn' \in Nat
  PROVE  ClusterInv'
<1>1. Move(p, None)
  BY DEF C!Return, Move
<1>2. (C!Has("tfstate") => C!Has("tfstate")') /\ (C!Has("tfvars") => C!Has("tfvars")')
  BY DEF C!Has
<1>3. bucket' \in (SUBSET C!Object) \cup {None}
  BY DEF ClusterInv, TypeInv
<1> QED BY <1>1, <1>2, <1>3, PlainMoves

-----------------------------------------------------------------------------
(* The steps of the commands *)

\* The steps that change neither lock nor resources nor objects.
LEMMA QuietGoto ==
  ASSUME ClusterInv, NEW p \in Process, NEW pc \in Pcs, run[p] # None, C!Goto(p, pc),
         UNCHANGED <<starts, bucket, infra, lock, torn>>,
         OnTrack(run[p].kind, pc), Forward(run[p].pc, pc), pc \notin C!Engine \cup {"locked", "unlock"},
         local' \in {local, "absent", "whole"},
         InfraInv => /\ run[p].kind = "setup" /\ pc \in Working => C!Has("tfvars")
                     /\ pc \in Ending => infra = {}
  PROVE  ClusterInv'
<1>1. /\ bucket' \in (SUBSET C!Object) \cup {None} /\ local' \in {"absent", "torn", "whole"} /\ torn' \in Nat
  BY DEF ClusterInv, TypeInv
<1>2. (C!Has("tfstate") => C!Has("tfstate")') /\ (C!Has("tfvars") => C!Has("tfvars")')
  BY DEF C!Has
<1> QED BY <1>1, <1>2, PlainGoto

\* A command that ends and leaves everything but the local variables.
LEMMA QuietReturn ==
  ASSUME ClusterInv, NEW p \in Process, run[p] # None, C!Return(p),
         UNCHANGED <<infra, bucket, starts, lock, torn>>, local' \in {local, "absent", "whole"}
  PROVE  ClusterInv'
<1>1. local' \in {"absent", "torn", "whole"} /\ torn' \in Nat
  BY DEF ClusterInv, TypeInv
<1> QED BY <1>1, ReturnMoves

\* Connect.
LEMMA ConnectKeeps ==
  ASSUME ClusterInv, NEW p \in Process, C!EnsureBucket(p) \/ C!Remember(p)
  PROVE  ClusterInv'
<1>1. CASE C!EnsureBucket(p)
  <2>1. run[p] # None /\ run[p].pc = "ensure" /\ C!Goto(p, "remember") /\ UNCHANGED <<starts, infra, lock, local, torn>>
    BY <1>1 DEF C!EnsureBucket, C!At, C!machine, C!bounds
  <2>2. /\ bucket' \in (SUBSET C!Object) \cup {None} /\ local' \in {"absent", "torn", "whole"} /\ torn' \in Nat
    BY <1>1, <2>1 DEF ClusterInv, TypeInv, C!EnsureBucket
  <2>3. (C!Has("tfstate") => C!Has("tfstate")') /\ (C!Has("tfvars") => C!Has("tfvars")')
    BY <1>1 DEF C!Has, C!EnsureBucket
  <2>4. /\ "remember" \in Pcs /\ "remember" \notin C!Engine \cup {"locked", "unlock"} \cup Working \cup Ending
        /\ OnTrack(run[p].kind, "remember") /\ Forward("ensure", "remember")
    BY DEF Pcs, C!Engine, Working, Ending, OnTrack, Forward, BeforePlanning, BeforeApplying
  <2> QED BY <2>1, <2>2, <2>3, <2>4, PlainGoto
<1>2. CASE C!Remember(p)
  <2>1. run[p] # None /\ C!Return(p) /\ UNCHANGED <<infra, bucket, starts, lock, torn, local>>
    BY <1>2 DEF C!Remember, C!At, C!cloud, C!bounds
  <2> QED BY <2>1, QuietReturn
<1> QED BY <1>1, <1>2

\* Setup up to its saved variables.
LEMMA SetupKeeps ==
  ASSUME C!ClusterAssumption, ClusterInv, NEW p \in Process, C!CreateKey(p) \/ C!CreateCA(p) \/ C!SaveVariables(p)
  PROVE  ClusterInv'
<1>1. CASE C!CreateKey(p)
  <2>1. run[p] # None /\ run[p].pc = "key" /\ C!Goto(p, "ca") /\ UNCHANGED <<starts, bucket, infra, lock, torn, local>>
    BY <1>1 DEF C!CreateKey, C!At, C!machine, C!bounds
  <2>2. /\ "ca" \in Pcs /\ "ca" \notin C!Engine \cup {"locked", "unlock"} \cup Working \cup Ending
        /\ OnTrack(run[p].kind, "ca") /\ Forward("key", "ca")
    BY <2>1, Fields
       DEF ClusterInv, Pcs, C!Engine, Working, Ending, OnTrack, Forward, BeforePlanning, BeforeApplying
  <2> QED BY <2>1, <2>2, QuietGoto
<1>2. CASE C!CreateCA(p)
  <2>1. run[p] # None /\ run[p].pc = "ca" /\ C!Goto(p, "save") /\ UNCHANGED <<starts, bucket, infra, lock, torn, local>>
    BY <1>2 DEF C!CreateCA, C!AfterCA, C!At, C!machine, C!bounds
  <2>2. /\ "save" \in Pcs /\ "save" \notin C!Engine \cup {"locked", "unlock"} \cup Working \cup Ending
        /\ OnTrack(run[p].kind, "save") /\ Forward("ca", "save")
    BY <2>1, Fields
       DEF ClusterInv, Pcs, C!Engine, Working, Ending, OnTrack, Forward, BeforePlanning, BeforeApplying
  <2> QED BY <2>1, <2>2, QuietGoto
<1>3. CASE C!SaveVariables(p)
  <2>1. /\ run[p] # None /\ run[p].pc = "save" /\ C!Goto(p, "prepare")
        /\ UNCHANGED <<starts, infra, lock, torn, local>>
        /\ bucket # None /\ bucket' = bucket \cup {"tfvars"}
    BY <1>3 DEF C!SaveVariables, C!At, C!machine, C!bounds
  <2>2. bucket' \in SUBSET C!Object
    <3>1. bucket \in SUBSET C!Object
      BY <2>1 DEF ClusterInv, TypeInv
    <3>2. "tfvars" \in C!Object
      BY DEF C!Object
    <3> QED BY <2>1, <3>1, <3>2
  <2>3. bucket' # None
    BY <2>2 DEF C!ClusterAssumption
  <2>4. (C!Has("tfstate") => C!Has("tfstate")') /\ C!Has("tfvars")'
    BY <2>1, <2>3 DEF C!Has
  <2>5. local' \in {"absent", "torn", "whole"} /\ torn' \in Nat
    BY <2>1 DEF ClusterInv, TypeInv
  <2>6. /\ "prepare" \in Pcs /\ "prepare" \notin C!Engine \cup {"locked", "unlock"} \cup Ending
        /\ OnTrack(run[p].kind, "prepare") /\ Forward("save", "prepare")
    BY <2>1, Fields
       DEF ClusterInv, Pcs, C!Engine, Working, Ending, OnTrack, Forward, BeforePlanning, BeforeApplying
  <2> QED BY <2>1, <2>2, <2>4, <2>5, <2>6, PlainGoto
<1> QED BY <1>1, <1>2, <1>3

\* The generated directory.
LEMMA DirectoryKeeps ==
  ASSUME ClusterInv, NEW p \in Process, C!Restore(p) \/ C!Prepare(p) \/ C!WriteVariables(p)
  PROVE  ClusterInv'
<1>1. CASE C!Restore(p)
  <2>1. run[p] # None /\ run[p].pc = "restore" /\ UNCHANGED <<starts, bucket, infra, lock, torn, local>>
    BY <1>1 DEF C!Restore, C!At, C!cloud, C!machine, C!bounds
  <2>2. ASSUME NEW pc \in {"plan", "prepare"}, C!Goto(p, pc) PROVE ClusterInv'
    <3>1. /\ pc \in Pcs /\ pc \notin C!Engine \cup {"locked", "unlock"} \cup Ending
          /\ OnTrack(run[p].kind, pc) /\ Forward("restore", pc) /\ run[p].kind # "setup"
      BY <2>1, Fields
         DEF ClusterInv, Pcs, C!Engine, Working, Ending, OnTrack, Forward, BeforePlanning, BeforeApplying
    <3> QED BY <2>1, <2>2, <3>1, QuietGoto
  <2>3. CASE C!Return(p)
    BY <2>1, <2>3, QuietReturn
  <2> QED BY <1>1, <2>2, <2>3 DEF C!Restore
<1>2. CASE C!Prepare(p) \/ C!WriteVariables(p)
  <2>1. PICK pc \in {"write", "plan"} :
          /\ run[p] # None /\ run[p].pc \in {"prepare", "write"} /\ C!Goto(p, pc)
          /\ UNCHANGED <<starts, bucket, infra, lock, torn>> /\ local' \in {"absent", "whole"}
    BY <1>2 DEF C!Prepare, C!WriteVariables, C!At, C!cloud, C!bounds
  <2>2. /\ pc \in Pcs /\ pc \notin C!Engine \cup {"locked", "unlock"} \cup Ending
        /\ OnTrack(run[p].kind, pc) /\ Forward(run[p].pc, pc) /\ run[p].pc \in Working
    BY <2>1, Fields
       DEF ClusterInv, Pcs, C!Engine, Working, Ending, OnTrack, Forward, BeforePlanning, BeforeApplying
  <2>3. InfraInv /\ run[p].kind = "setup" => C!Has("tfvars")
    BY <2>1, <2>2 DEF InfraInv
  <2> QED BY <2>1, <2>2, <2>3, QuietGoto
<1> QED BY <1>1, <1>2

-----------------------------------------------------------------------------
(* The engine and its lock *)

\* The engine that runs is the only one, and what it gives back is its own.
LEMMA EngineAlone ==
  ASSUME ClusterInv, NEW p \in Process, Active(p)
  PROVE  \A q \in Process : LockInv /\ Active(q) => q = p
<1> SUFFICES ASSUME NEW q \in Process, LockInv, Active(q) PROVE q = p
  OBVIOUS
<1>1. C!LockID(q, run[q].pc) = C!LockID(p, run[p].pc)
  BY DEF LockInv
<1>2. run[q].id = run[p].id
  BY <1>1 DEF C!LockID
<1> QED BY <1>2 DEF LockInv, Active

\* A held lock ends a command, or makes a teardown look into it.
LEMMA LockedKeeps ==
  ASSUME ClusterInv, NEW p \in Process, C!Locked(p) \/ C!Unusable(p) \/ C!Refuse(p)
  PROVE  ClusterInv'
<1>1. CASE C!Return(p)
  <2>1. run[p] # None /\ UNCHANGED <<infra, bucket, starts, lock, torn, local>>
    BY DEF C!Locked, C!Unusable, C!Refuse, C!At, C!cloud, C!machine, C!bounds
  <2> QED BY <1>1, <2>1, QuietReturn
<1>2. CASE ~C!Return(p)
  <2> DEFINE s == [run[p] EXCEPT !.pc = "locked", !.plan = {}, !.seen = lock]
  <2>1. /\ run[p] # None /\ run[p].pc \in {"plan", "apply"} /\ lock # None
        /\ run[p].kind = "teardown" /\ ~run[p].retried
        /\ run' = [run EXCEPT ![p] = s]
        /\ UNCHANGED <<infra, bucket, starts, lock, torn, local>>
    BY <1>2 DEF C!Locked, C!Unusable, C!Refuse, C!EngineFails, C!AfterFailure, C!At, C!cloud, C!machine, C!bounds
  <2>2. run[p] \in Command /\ lock \in C!Lock \cup {None} /\ "locked" \in Pcs /\ {} \in SUBSET Resource
    BY <2>1, Fields DEF ClusterInv, TypeInv, Pcs, Working
  <2>3. /\ s \in Command /\ s.pc = "locked" /\ s.id = run[p].id /\ s.kind = run[p].kind
        /\ s.retried = run[p].retried /\ s.seen = lock
    BY <2>2 DEF Command
  <2> HIDE DEF s
  <2>4. Move(p, s)
    BY <2>1, <2>3 DEF Move, OnTrack, Ending
  <2>5. Follows(run[p], s)
    BY <2>1, <2>3 DEF Follows, Forward, BeforePlanning, BeforeApplying
  <2>6. s.pc \notin C!Engine /\ s.pc # "unlock" /\ s.pc \notin Ending /\ s.kind # "setup"
    BY <2>1, <2>3 DEF C!Engine, Ending
  <2>7. TypeInv'
    BY <2>1, <2>4, TypeMoves DEF ClusterInv, TypeInv
  <2>8. LockInv => LockInv'
    <3> SUFFICES ASSUME LockInv PROVE LockInv'
      OBVIOUS
    <3>1. ~s.retried /\ Seen(s.seen, starts, run)
      BY <2>1, <2>3 DEF LockInv
    <3> QED BY <2>1, <2>4, <2>5, <2>6, <3>1, LockMoves DEF ClusterInv
  <2>9. InfraInv => InfraInv'
    BY <2>1, <2>4, <2>6, InfraMoves DEF ClusterInv, InfraInv, C!Has
  <2> QED BY <2>7, <2>8, <2>9 DEF ClusterInv
<1> QED BY <1>1, <1>2

\* A lock that is taken is a new one.
LEMMA AcquireKeeps ==
  ASSUME C!ClusterAssumption, ClusterInv, NEW p \in Process, C!Acquire(p)
  PROVE  ClusterInv'
<1>1. PICK phase \in {"planning", "applying"} :
        /\ run[p] # None
        /\ phase = "planning" => run[p].pc = "plan"
        /\ phase = "applying" => run[p].pc = "apply"
        /\ lock = None /\ lock' = C!LockID(p, phase) /\ C!Goto(p, phase)
        /\ UNCHANGED <<infra, bucket, starts, torn, local>>
  BY DEF C!Acquire, C!At, C!machine, C!bounds
<1>2. phase \in Pcs /\ phase \in Working /\ phase \in C!Engine /\ phase \notin Ending \cup {"locked", "unlock"}
  BY DEF Pcs, Working, C!Engine, Ending
<1>3. OnTrack(run[p].kind, phase) /\ run[p].pc \in Working
  BY <1>1, Fields DEF ClusterInv, OnTrack, Working, Ending
<1>4. PICK s \in Command :
        /\ Move(p, s) /\ s.pc = phase
        /\ s.id = run[p].id /\ s.kind = run[p].kind /\ s.retried = run[p].retried
  <2>1. TypeInv /\ UNCHANGED starts /\ run[p] # None /\ C!Goto(p, phase)
    BY <1>1 DEF ClusterInv
  <2> QED BY <1>2, <1>3, <2>1, GotoMoves
<1>5. Follows(run[p], s)
  BY <1>1, <1>4 DEF Follows, Forward, BeforePlanning, BeforeApplying
<1>6. lock' \in C!Lock
  <2>1. run[p].id \in Nat /\ run[p].retried \in BOOLEAN
    BY <1>1, Fields DEF ClusterInv
  <2> QED BY <1>1, <2>1 DEF C!LockID, C!Lock
<1>7. /\ lock'.id = run[p].id /\ lock'.phase = phase /\ lock'.retried = run[p].retried
  BY <1>1 DEF C!LockID
<1>8. TypeInv'
  BY <1>1, <1>4, <1>6, TypeMoves DEF ClusterInv, TypeInv
<1>9. InfraInv => InfraInv'
  <2> SUFFICES ASSUME InfraInv PROVE InfraInv'
    OBVIOUS
  <2>1. s.kind = "setup" => C!Has("tfvars")
    BY <1>1, <1>3, <1>4 DEF InfraInv
  <2> QED BY <1>1, <1>2, <1>4, <2>1, InfraMoves DEF ClusterInv, InfraInv, C!Has
<1>10. LockInv => LockInv'
  <2> SUFFICES ASSUME LockInv PROVE LockInv'
    OBVIOUS
  <2>1. /\ run'[p] = s /\ \A q \in Process \ {p} : run'[q] = run[q]
        /\ starts' = starts
    BY <1>1, <1>4, Moved DEF ClusterInv
  <2>2. \A q \in Process : run'[q] # None => run[q] # None /\ run'[q].id = run[q].id
    BY <1>1, <1>4, <2>1
  <2>3. \A q \in Process : run'[q] # None => run'[q].id < starts'
    BY <2>1, <2>2 DEF LockInv
  <2>4. \A q, k \in Process : run'[q] # None /\ run'[k] # None /\ run'[q].id = run'[k].id => q = k
    BY <2>2 DEF LockInv
  <2>5. \A q \in Process : Active(q)' => q = p
    <3> SUFFICES ASSUME NEW q \in Process, Active(q), q # p PROVE FALSE
      BY <2>1 DEF Active
    <3>1. lock = C!LockID(q, run[q].pc) /\ run[q] # None /\ run[q].pc \in C!Engine
      BY DEF LockInv, Active
    <3>2. run[q].id \in Nat /\ run[q].retried \in BOOLEAN
      BY <3>1, Fields DEF ClusterInv
    <3>3. C!LockID(q, run[q].pc) \in C!Lock
      BY <3>1, <3>2 DEF C!LockID, C!Lock, C!Engine
    <3> QED BY <1>1, <3>1, <3>3 DEF C!ClusterAssumption
  <2>6. C!LockID(p, run[p].pc)' = lock'
    BY <1>1, <1>4, <2>1 DEF C!LockID
  <2>7. Seen(lock', starts', run')
    <3>1. lock'.id < starts'
      BY <1>1, <1>7, <2>1 DEF LockInv
    <3>2. Spent(lock', s)
      BY <1>4, <1>7 DEF Spent, BeforePlanning, BeforeApplying
    <3>3. ASSUME NEW q \in Process \ {p}, run[q] # None PROVE Spent(lock', run[q])
      BY <1>1, <1>7, <3>3 DEF LockInv, Spent
    <3> QED BY <1>6, <2>1, <3>1, <3>2, <3>3 DEF Seen
  <2>8. \A q \in Process : Waiting(q)' => ~run'[q].retried /\ Seen(run'[q].seen, starts', run')
    <3> SUFFICES ASSUME NEW q \in Process, Waiting(q)'
                 PROVE  ~run'[q].retried /\ Seen(run'[q].seen, starts', run')
      OBVIOUS
    <3>1. q # p
      BY <1>2, <1>4, <2>1 DEF Waiting
    <3>2. run'[q] = run[q] /\ Waiting(q)
      BY <2>1, <3>1 DEF Waiting
    <3>3. ~run[q].retried /\ Seen(run[q].seen, starts, run)
      BY <3>2 DEF LockInv
    <3>4. Seen(run[q].seen, starts', run')
      BY <1>4, <1>5, <3>3, SeenStays DEF ClusterInv
    <3> QED BY <3>2, <3>3, <3>4
  <2>9. \A q, k \in Process : C!At(q, "unlock")' /\ Active(k)' => run'[q].seen # C!LockID(k, run[k].pc)'
    <3> SUFFICES ASSUME NEW q \in Process, C!At(q, "unlock")', run'[q].seen = lock' PROVE FALSE
      BY <2>5, <2>6
    <3>1. q # p
      BY <1>2, <1>4, <2>1 DEF C!At
    <3>2. run[q].seen = lock' /\ Waiting(q)
      BY <2>1, <3>1 DEF C!At, Waiting
    <3>3. Spent(lock', run[p])
      BY <1>1, <3>2 DEF LockInv, Seen
    <3> QED BY <1>1, <1>7, <3>3 DEF Spent, BeforePlanning, BeforeApplying
  <2> QED BY <2>3, <2>4, <2>5, <2>6, <2>7, <2>8, <2>9 DEF LockInv
<1> QED BY <1>8, <1>9, <1>10 DEF ClusterInv

\* What a command knows when its engine has nothing left to do.
LEMMA AfterEngineKeeps ==
  ASSUME ClusterInv, NEW p \in Process, Active(p), lock' = C!Released(p), C!AfterEngine(p),
         C!Recorded = C!Target(run[p].kind), UNCHANGED <<infra, bucket, starts, torn, local>>
  PROVE  ClusterInv'
<1>1. /\ lock' \in {lock, None} /\ \A q \in Process \ {p} : LockInv /\ Active(q) => lock' = lock
      /\ run[p] # None /\ run[p].pc \in C!Engine
  BY EngineAlone DEF C!Released, Active
<1>2. /\ bucket' \in (SUBSET C!Object) \cup {None} /\ local' \in {"absent", "torn", "whole"} /\ torn' \in Nat
  BY DEF ClusterInv, TypeInv
<1>3. (C!Has("tfstate") => C!Has("tfstate")') /\ (C!Has("tfvars") => C!Has("tfvars")')
  BY DEF C!Has
<1>4. CASE run[p].kind = "destroy"
  <2>1. /\ "destroykey" \in Pcs /\ "destroykey" \notin C!Engine \cup {"locked", "unlock"} \cup Working
        /\ OnTrack(run[p].kind, "destroykey") /\ Forward(run[p].pc, "destroykey")
    BY <1>4 DEF Pcs, C!Engine, Working, Ending, OnTrack, Forward, BeforePlanning, BeforeApplying
  <2>2. InfraInv => infra = {}
    BY <1>4 DEF InfraInv, C!Recorded, C!Target, C!Destroys
  <2>3. PICK s \in Command :
          /\ Move(p, s) /\ s.pc = "destroykey"
          /\ s.id = run[p].id /\ s.kind = run[p].kind /\ s.retried = run[p].retried
    BY <1>1, <1>4, <2>1, GotoMoves DEF ClusterInv, C!AfterEngine
  <2>4. Follows(run[p], s) /\ s.pc \notin C!Engine \cup {"locked", "unlock"} \cup Working
    BY <2>1, <2>3 DEF Follows
  <2> QED BY <1>1, <1>2, <1>3, <2>2, <2>3, <2>4, PlainMoves
<1>5. CASE run[p].kind # "destroy"
  BY <1>1, <1>2, <1>5, ReturnMoves DEF C!AfterEngine
<1> QED BY <1>4, <1>5

\* Planning ends.
LEMMA PlanKeeps ==
  ASSUME ClusterInv, NEW p \in Process, C!Plan(p)
  PROVE  ClusterInv'
<1>1. /\ run[p] # None /\ run[p].pc = "planning" /\ Active(p) /\ lock' = C!Released(p)
      /\ UNCHANGED <<infra, bucket, starts, torn, local>>
  BY DEF C!Plan, C!At, Active, C!Engine, C!machine, C!bounds
<1>2. CASE C!Recorded = C!Target(run[p].kind)
  BY <1>1, <1>2, AfterEngineKeeps DEF C!Plan
<1>3. CASE C!Recorded # C!Target(run[p].kind)
  <2> DEFINE s == [run[p] EXCEPT !.pc = "apply", !.plan = C!Recorded]
  <2>1. run' = [run EXCEPT ![p] = s]
    BY <1>3 DEF C!Plan
  <2>2. run[p] \in Command /\ C!Recorded \in SUBSET Resource /\ "apply" \in Pcs
    BY <1>1, Fields DEF ClusterInv, TypeInv, C!Recorded, Pcs, Working
  <2>3. /\ s \in Command /\ s.pc = "apply" /\ s.id = run[p].id /\ s.kind = run[p].kind
        /\ s.retried = run[p].retried
    BY <2>2 DEF Command
  <2> HIDE DEF s
  <2>4. /\ OnTrack(run[p].kind, "apply") /\ run[p].pc \in Working
        /\ "apply" \notin C!Engine \cup {"locked", "unlock"} \cup Ending
    BY <1>1, Fields DEF ClusterInv, OnTrack, Working, Ending, C!Engine
  <2>5. Move(p, s)
    BY <1>1, <2>1, <2>3, <2>4 DEF Move
  <2>6. Follows(run[p], s)
    BY <1>1, <2>3 DEF Follows, Forward, BeforePlanning, BeforeApplying
  <2>7. lock' \in {lock, None} /\ \A q \in Process \ {p} : LockInv /\ Active(q) => lock' = lock
    BY <1>1, EngineAlone DEF C!Released
  <2>8. /\ bucket' \in (SUBSET C!Object) \cup {None} /\ local' \in {"absent", "torn", "whole"} /\ torn' \in Nat
    BY <1>1 DEF ClusterInv, TypeInv
  <2>9. (C!Has("tfstate") => C!Has("tfstate")') /\ (C!Has("tfvars") => C!Has("tfvars")')
    BY <1>1 DEF C!Has
  <2>10. InfraInv /\ run[p].kind = "setup" => C!Has("tfvars")
    BY <1>1, <2>4 DEF InfraInv
  <2>11. InfraInv => /\ s # None /\ s.kind = "setup" /\ s.pc \in Working => C!Has("tfvars")'
                     /\ s # None /\ s.pc \in Ending => infra = {}
    BY <2>3, <2>4, <2>9, <2>10
  <2>12. s.pc \notin C!Engine \cup {"locked", "unlock"} /\ UNCHANGED infra
    BY <1>1, <2>3, <2>4
  <2> QED BY <2>5, <2>6, <2>7, <2>8, <2>9, <2>11, <2>12, PlainMoves
<1> QED BY <1>2, <1>3

\* Applying ends.
LEMMA AppliedKeeps ==
  ASSUME ClusterInv, NEW p \in Process, C!Applied(p)
  PROVE  ClusterInv'
<1>1. /\ run[p] # None /\ Active(p) /\ lock' = C!Released(p)
      /\ UNCHANGED <<infra, bucket, starts, torn, local>>
  BY DEF C!Applied, C!At, Active, C!Engine, C!machine, C!bounds
<1>2. CASE C!Finished(p) /\ C!AfterEngine(p)
  BY <1>1, <1>2, AfterEngineKeeps DEF C!Finished
<1>3. CASE C!EngineFails(p)
  <2>1. /\ C!Return(p) /\ lock' \in {lock, None}
        /\ \A q \in Process \ {p} : LockInv /\ Active(q) => lock' = lock
    BY <1>1, <1>3, EngineAlone DEF C!EngineFails, C!AfterFailure, C!Released
  <2>2. local' \in {"absent", "torn", "whole"} /\ torn' \in Nat
    BY <1>1 DEF ClusterInv, TypeInv
  <2> QED BY <1>1, <2>1, <2>2, ReturnMoves
<1> QED BY <1>2, <1>3 DEF C!Applied

\* The engine changes a resource.
LEMMA ChangeKeeps ==
  ASSUME C!ClusterAssumption, ClusterInv, Undisturbed, NEW p \in Process, NEW r \in Resource, C!Change(p, r)
  PROVE  ClusterInv'
<1> DEFINE s == [run[p] EXCEPT !.plan = infra']
<1>1. /\ run[p] # None /\ run[p].pc = "applying" /\ bucket # None
      /\ infra' = IF C!Destroys(run[p].kind) THEN infra \ {r} ELSE infra \cup {r}
      /\ bucket' = bucket \cup {"tfstate"} /\ run' = [run EXCEPT ![p] = s]
      /\ UNCHANGED <<lock, starts, torn, local>>
  BY DEF C!Change, C!At, C!machine, C!bounds
<1>2. run[p] \in Command /\ infra' \in SUBSET Resource
  BY <1>1, Fields DEF ClusterInv, TypeInv
<1>3. /\ s \in Command /\ s.pc = run[p].pc /\ s.id = run[p].id /\ s.kind = run[p].kind
      /\ s.retried = run[p].retried
  BY <1>2 DEF Command
<1> HIDE DEF s
<1>4. Move(p, s) /\ run[p].pc \in Working /\ run[p].pc \notin {"locked", "unlock"} \cup Ending
  BY <1>1, <1>3, Fields DEF ClusterInv, Move, Working, Ending
<1>5. Follows(run[p], s)
  BY <1>3 DEF Follows, Forward
<1>6. bucket' \in SUBSET C!Object
  <2>1. bucket \in SUBSET C!Object
    BY <1>1 DEF ClusterInv, TypeInv
  <2>2. "tfstate" \in C!Object
    BY DEF C!Object
  <2> QED BY <1>1, <2>1, <2>2
<1>7. bucket' # None
  BY <1>6 DEF C!ClusterAssumption
<1>8. C!Has("tfstate")' /\ (C!Has("tfvars") => C!Has("tfvars")')
  BY <1>1, <1>7 DEF C!Has
<1>9. TypeInv'
  BY <1>1, <1>2, <1>4, <1>6, TypeMoves DEF ClusterInv, TypeInv
<1>10. LockInv => LockInv'
  BY <1>1, <1>3, <1>4, <1>5, LockMoves DEF ClusterInv
<1>11. InfraInv => InfraInv'
  <2> SUFFICES ASSUME InfraInv PROVE InfraInv'
    OBVIOUS
  <2>1. run'[p] = s /\ \A q \in Process \ {p} : run'[q] = run[q]
    BY <1>4, Moved DEF ClusterInv
  <2>2. CASE C!Destroys(run[p].kind)
    <3>1. infra' # {} => C!Has("tfvars")'
      BY <1>1, <1>8, <2>2 DEF InfraInv
    <3>2. \A q \in Process : run'[q] # None /\ run'[q].kind = "setup" /\ run'[q].pc \in Working => C!Has("tfvars")'
      BY <1>1, <1>3, <1>4, <1>8, <2>1 DEF InfraInv
    <3>3. \A q \in Process : run'[q] # None /\ run'[q].pc \in Ending => infra' = {}
      BY <1>1, <1>3, <1>4, <2>1, <2>2 DEF InfraInv
    <3> QED BY <1>1, <1>8, <3>1, <3>2, <3>3 DEF InfraInv
  <2>3. CASE ~C!Destroys(run[p].kind)
    <3>1. run[p].kind = "setup"
      BY <1>1, <1>4, <2>3, Fields DEF ClusterInv, OnTrack, C!Destroys
    <3>2. C!Has("tfvars")'
      BY <1>1, <1>4, <1>8, <3>1 DEF InfraInv
    <3>3. ASSUME NEW q \in Process, run'[q] # None, run'[q].pc \in Ending PROVE FALSE
      <4>1. q # p
        BY <1>3, <1>4, <2>1, <3>3
      <4>2. run[q] # None /\ run[q].kind = "destroy"
        BY <2>1, <3>3, <4>1, Fields DEF ClusterInv, OnTrack
      <4> QED BY <1>1, <4>1, <4>2 DEF Undisturbed
    <3> QED BY <1>1, <1>8, <3>2, <3>3 DEF InfraInv
  <2> QED BY <2>2, <2>3
<1> QED BY <1>9, <1>10, <1>11 DEF ClusterInv

\* A teardown looks for engines and breaks the lock it saw.
LEMMA UnlockKeeps ==
  ASSUME ClusterInv, NEW p \in Process, C!Inspect(p) \/ C!ForceUnlock(p)
  PROVE  ClusterInv'
<1>1. /\ run[p] # None /\ run[p].pc \in {"locked", "unlock"} /\ Waiting(p)
      /\ UNCHANGED <<infra, bucket, starts, torn, local>>
  BY DEF C!Inspect, C!ForceUnlock, C!At, Waiting, C!cloud, C!machine, C!bounds
<1>2. /\ bucket' \in (SUBSET C!Object) \cup {None} /\ local' \in {"absent", "torn", "whole"} /\ torn' \in Nat
  BY <1>1 DEF ClusterInv, TypeInv
<1>3. (C!Has("tfstate") => C!Has("tfstate")') /\ (C!Has("tfvars") => C!Has("tfvars")')
  BY <1>1 DEF C!Has
<1>4. run[p].pc \in Working /\ run[p].kind \in {"setup", "teardown", "destroy"}
  BY <1>1, Fields DEF ClusterInv, OnTrack, Working
<1>5. InfraInv /\ run[p].kind = "setup" => C!Has("tfvars")
  BY <1>1, <1>4 DEF InfraInv
<1>6. CASE C!Return(p) /\ UNCHANGED lock
  BY <1>1, <1>6, QuietReturn
<1>7. CASE C!ActiveCommands = {} /\ C!Goto(p, "unlock") /\ UNCHANGED lock
  <2>1. "unlock" \in Pcs /\ OnTrack(run[p].kind, "unlock") /\ "unlock" \notin C!Engine \cup Ending
    BY <1>4 DEF Pcs, Working, C!Engine, Ending, OnTrack
  <2>2. PICK s \in Command :
          /\ Move(p, s) /\ s.pc = "unlock" /\ s.seen = run[p].seen
          /\ s.id = run[p].id /\ s.kind = run[p].kind /\ s.retried = run[p].retried
    BY <1>1, <1>7, <2>1, GotoMoves DEF ClusterInv
  <2>3. Follows(run[p], s)
    BY <1>1, <2>2 DEF Follows, Forward, BeforePlanning, BeforeApplying
  <2>4. TypeInv'
    BY <1>1, <1>2, <1>7, <2>2, TypeMoves DEF ClusterInv, TypeInv
  <2>5. LockInv => LockInv'
    <3> SUFFICES ASSUME LockInv PROVE LockInv'
      OBVIOUS
    <3>1. ~s.retried /\ Seen(s.seen, starts, run)
      BY <1>1, <2>2 DEF LockInv
    <3>2. \A q \in Process : ~Active(q)
      BY <1>7 DEF C!ActiveCommands, Active
    <3>3. s.pc \notin C!Engine /\ lock' = lock
      BY <1>7, <2>1, <2>2
    <3> QED BY <2>2, <2>3, <3>1, <3>2, <3>3, LockMoves DEF ClusterInv
  <2>6. InfraInv => InfraInv'
    <3> SUFFICES ASSUME InfraInv PROVE InfraInv'
      OBVIOUS
    <3>1. /\ infra' = infra /\ (s.kind = "setup" => C!Has("tfvars")') /\ s.pc \notin Ending
      BY <1>1, <1>3, <1>5, <2>1, <2>2 DEF InfraInv
    <3> QED BY <1>3, <2>2, <3>1, InfraMoves DEF ClusterInv
  <2> QED BY <2>4, <2>5, <2>6 DEF ClusterInv
<1>8. CASE C!At(p, "unlock") /\ lock = run[p].seen /\ lock' = None /\ C!ForceUnlock(p)
  <2> DEFINE s == [run[p] EXCEPT !.pc = "plan", !.seen = None, !.retried = TRUE]
  <2>1. run' = [run EXCEPT ![p] = s]
    BY <1>8 DEF C!ForceUnlock
  <2>2. run[p] \in Command /\ "plan" \in Pcs
    BY <1>1, Fields DEF ClusterInv, Pcs, Working
  <2>3. s \in Command /\ s.pc = "plan" /\ s.id = run[p].id /\ s.kind = run[p].kind /\ s.retried
    BY <2>2 DEF Command
  <2> HIDE DEF s
  <2>4. OnTrack(run[p].kind, "plan") /\ "plan" \notin C!Engine \cup {"locked", "unlock"} \cup Ending
    BY <1>4 DEF OnTrack, Working, C!Engine, Ending
  <2>5. Move(p, s)
    BY <1>1, <2>1, <2>3, <2>4 DEF Move
  <2>6. LockInv => Follows(run[p], s)
    BY <1>1, <2>3 DEF LockInv, Follows
  <2>7. \A q \in Process \ {p} : LockInv /\ Active(q) => lock' = lock
    BY <1>8 DEF LockInv
  <2>8. InfraInv => /\ s # None /\ s.kind = "setup" /\ s.pc \in Working => C!Has("tfvars")'
                    /\ s # None /\ s.pc \in Ending => infra = {}
    BY <1>3, <1>5, <2>3, <2>4
  <2>9. s.pc \notin C!Engine \cup {"locked", "unlock"} /\ lock' \in {lock, None} /\ UNCHANGED infra
    BY <1>1, <1>8, <2>3, <2>4
  <2> QED BY <1>2, <1>3, <2>5, <2>6, <2>7, <2>8, <2>9, PlainMoves
<1> QED BY <1>6, <1>7, <1>8 DEF C!Inspect, C!ForceUnlock, C!cloud

-----------------------------------------------------------------------------
(* Destroy, disconnect, interrupts and starts *)

\* The authorities are deleted and the machine forgets the cluster.
LEMMA ForgetKeeps ==
  ASSUME ClusterInv, NEW p \in Process, C!DestroyKey(p) \/ C!DestroyCA(p) \/ C!Forget(p) \/ C!Clean(p)
  PROVE  ClusterInv'
<1>1. run[p] # None /\ UNCHANGED <<starts, bucket, infra, lock, torn>> /\ local' \in {local, "absent"}
  BY DEF C!DestroyKey, C!DestroyCA, C!Forget, C!Clean, C!At, C!cloud, C!machine, C!bounds
<1>2. CASE C!DestroyKey(p) \/ C!DestroyCA(p)
  <2>1. PICK pc \in {"destroyca", "empty"} : run[p].pc \in {"destroykey", "destroyca"} /\ C!Goto(p, pc)
    BY <1>2 DEF C!DestroyKey, C!DestroyCA, C!At
  <2>2. /\ pc \in Pcs /\ pc \notin C!Engine \cup {"locked", "unlock"} \cup Working
        /\ OnTrack(run[p].kind, pc) /\ Forward(run[p].pc, pc) /\ run[p].pc \in Ending
    BY <1>1, <2>1, Fields
       DEF ClusterInv, Pcs, C!Engine, Working, Ending, OnTrack, Forward, BeforePlanning, BeforeApplying
  <2>3. InfraInv => infra = {}
    BY <1>1, <2>2 DEF InfraInv
  <2> QED BY <1>1, <2>1, <2>2, <2>3, QuietGoto
<1>3. CASE C!Forget(p)
  <2>1. run[p].pc = "forget" /\ C!Goto(p, "clean")
    BY <1>3 DEF C!Forget, C!At
  <2>2. /\ "clean" \in Pcs /\ "clean" \notin C!Engine \cup {"locked", "unlock"} \cup Working \cup Ending
        /\ OnTrack(run[p].kind, "clean") /\ Forward(run[p].pc, "clean")
    BY <2>1 DEF Pcs, C!Engine, Working, Ending, OnTrack, Forward, BeforePlanning, BeforeApplying
  <2> QED BY <1>1, <2>1, <2>2, QuietGoto
<1>4. CASE C!Clean(p)
  BY <1>1, <1>4, QuietReturn DEF C!Clean
<1> QED BY <1>2, <1>3, <1>4

\* The bucket is emptied and deleted.
LEMMA BucketKeeps ==
  ASSUME ClusterInv, Undisturbed, NEW p \in Process,
         C!DeleteBucket(p) \/ \E some \in SUBSET bucket : C!EmptyBucket(p, some)
  PROVE  ClusterInv'
<1>1. /\ run[p] # None /\ run[p].pc = "empty"
      /\ UNCHANGED <<starts, infra, torn, local>> /\ lock' \in {lock, None}
      /\ C!Goto(p, "forget") \/ UNCHANGED run
  BY DEF C!DeleteBucket, C!EmptyBucket, C!At, C!machine, C!bounds
<1>2. run[p].kind = "destroy" /\ run[p].pc \in Ending /\ run[p].pc \notin C!Engine \cup {"locked", "unlock"}
  BY <1>1, Fields DEF ClusterInv, OnTrack, Ending, C!Engine
<1>3. bucket' \in (SUBSET C!Object) \cup {None}
  BY <1>1 DEF C!DeleteBucket, C!EmptyBucket, ClusterInv, TypeInv
<1>4. \A q \in Process \ {p} : run[q] = None
  BY <1>1, <1>2 DEF Undisturbed
<1>5. \A q \in Process : ~Active(q) /\ ~Waiting(q)
  BY <1>2, <1>4 DEF Active, Waiting
<1>6. InfraInv => infra = {}
  BY <1>1, <1>2 DEF InfraInv
<1>7. CASE C!Goto(p, "forget")
  <2>1. /\ "forget" \in Pcs /\ "forget" \notin Working \cup Ending \cup C!Engine \cup {"locked", "unlock"}
        /\ OnTrack(run[p].kind, "forget")
    BY DEF Pcs, Working, Ending, C!Engine, OnTrack
  <2>2. PICK s \in Command : Move(p, s) /\ s.pc = "forget" /\ s.id = run[p].id /\ s.retried = run[p].retried
    BY <1>1, <1>7, <2>1, GotoMoves DEF ClusterInv
  <2>3. TypeInv'
    BY <1>1, <1>3, <2>2, TypeMoves DEF ClusterInv, TypeInv
  <2>4. Follows(run[p], s)
    BY <1>1, <2>2 DEF Follows, Forward, BeforePlanning, BeforeApplying
  <2>5. LockInv'
    BY <1>1, <1>5, <2>1, <2>2, <2>4, LockMoves DEF ClusterInv
  <2>6. InfraInv => InfraInv'
    <3>1. run'[p].pc = "forget" /\ \A q \in Process \ {p} : run'[q] = None
      BY <1>4, <2>2, Moved DEF ClusterInv
    <3>2. \A q \in Process : run'[q] # None => run'[q].pc \notin Working \cup Ending
      BY <2>1, <3>1
    <3> QED BY <1>1, <1>6, <3>2 DEF InfraInv
  <2> QED BY <2>3, <2>5, <2>6 DEF ClusterInv
<1>8. CASE UNCHANGED run
  <2>1. TypeInv'
    BY <1>1, <1>3, <1>8 DEF ClusterInv, TypeInv
  <2>2. LockInv'
    BY <1>1, <1>5, <1>8 DEF ClusterInv, LockInv, Active, Waiting, C!At
  <2>3. InfraInv => InfraInv'
    <3>1. \A q \in Process : run'[q] # None => run'[q].kind # "setup"
      BY <1>2, <1>4, <1>8
    <3> QED BY <1>1, <1>6, <1>8, <3>1 DEF InfraInv
  <2> QED BY <2>1, <2>2, <2>3 DEF ClusterInv
<1> QED BY <1>1, <1>7, <1>8

\* A call fails or a process ends.
LEMMA InterruptKeeps ==
  ASSUME ClusterInv, NEW p \in Process, C!Interrupt(p)
  PROVE  ClusterInv'
<1>1. run[p] # None /\ C!Return(p) /\ UNCHANGED <<infra, bucket, starts>>
  BY DEF C!Interrupt
<1>2. lock' \in {lock, None} /\ \A q \in Process \ {p} : LockInv /\ Active(q) => lock' = lock
  <2>1. CASE run[p].pc \in C!Engine
    BY <1>1, <2>1, EngineAlone DEF C!Interrupt, C!Released, Active
  <2>2. CASE run[p].pc \notin C!Engine
    BY <2>2 DEF C!Interrupt
  <2> QED BY <2>1, <2>2
<1>3. torn \in Nat /\ local \in {"absent", "torn", "whole"}
  BY DEF ClusterInv, TypeInv
<1>4. /\ torn' \in Nat /\ local' \in {"absent", "torn", "whole"}
  <2>1. CASE UNCHANGED <<local, torn>>
    BY <1>3, <2>1
  <2>2. CASE torn < MaxTorn /\ torn' = torn + 1 /\ local' = "torn"
    <3>1. torn' \in Nat
      BY <1>3, <2>2, SMT
    <3> QED BY <2>2, <3>1
  <2> QED BY <2>1, <2>2 DEF C!Interrupt
<1> QED BY <1>1, <1>2, <1>4, ReturnMoves

\* A new command has an identity of its own.
LEMMA StartKeeps ==
  ASSUME C!ClusterAssumption, ClusterInv, NEW p \in Process, NEW kind \in Commands, C!Start(p, kind)
  PROVE  ClusterInv'
<1> DEFINE s == [pc |-> C!FirstStep[kind], kind |-> kind, id |-> starts, plan |-> {}, seen |-> None,
                 retried |-> FALSE]
<1>1. /\ run[p] = None /\ starts' = starts + 1 /\ run' = [run EXCEPT ![p] = s]
      /\ UNCHANGED <<bucket, infra, lock, local, torn>>
  BY DEF C!Start, C!cloud, C!machine
<1>2. C!FirstStep[kind] \in {"ensure", "key", "restore", "forget"} /\ OnTrack(kind, C!FirstStep[kind])
  <2>1. kind \in {"connect", "setup", "teardown", "destroy", "disconnect"}
    BY DEF C!ClusterAssumption
  <2>2. CASE kind = "connect"
    BY <2>2 DEF C!FirstStep, OnTrack, Working, Ending
  <2>3. CASE kind = "setup"
    BY <2>3 DEF C!FirstStep, OnTrack, Working, Ending
  <2>4. CASE kind = "teardown"
    BY <2>4 DEF C!FirstStep, OnTrack, Working, Ending
  <2>5. CASE kind = "destroy"
    BY <2>5 DEF C!FirstStep, OnTrack, Working, Ending
  <2>6. CASE kind = "disconnect"
    BY <2>6 DEF C!FirstStep, OnTrack, Working, Ending
  <2> QED BY <2>1, <2>2, <2>3, <2>4, <2>5, <2>6
<1>3. /\ starts \in Nat /\ starts + 1 \in Nat /\ starts < starts + 1
      /\ \A n \in Nat : n < starts => n # starts /\ n < starts + 1
  <2>1. starts \in Nat
    BY DEF ClusterInv, TypeInv
  <2> QED BY <2>1, SMT
<1>4. C!FirstStep[kind] \in Pcs /\ C!FirstStep[kind] \notin C!Engine \cup Working \cup Ending
  BY <1>2 DEF Pcs, C!Engine, Working, Ending
<1>5. s \in Command /\ s.pc \notin C!Engine \cup Working \cup Ending /\ s.id = starts /\ OnTrack(s.kind, s.pc)
  <2>1. C!FirstStep[kind] \in Pcs /\ starts \in Nat
    BY <1>3, <1>4
  <2> QED BY <1>2, <1>4, <2>1 DEF Command
<1> HIDE DEF s
<1>6. /\ run' \in [Process -> Command \cup {None}] /\ run'[p] = s
      /\ \A q \in Process \ {p} : run'[q] = run[q]
  BY <1>1, <1>5 DEF ClusterInv, TypeInv
<1>7. TypeInv'
  <2>1. \A q \in Process : run'[q] # None => OnTrack(run'[q].kind, run'[q].pc)
    BY <1>5, <1>6 DEF ClusterInv, TypeInv
  <2> QED BY <1>1, <1>3, <1>6, <2>1 DEF ClusterInv, TypeInv
<1>8. InfraInv => InfraInv'
  <2> SUFFICES ASSUME InfraInv PROVE InfraInv'
    OBVIOUS
  <2>1. \A q \in Process : run'[q] # None /\ run'[q].kind = "setup" /\ run'[q].pc \in Working => C!Has("tfvars")
    BY <1>5, <1>6 DEF InfraInv
  <2>2. \A q \in Process : run'[q] # None /\ run'[q].pc \in Ending => infra = {}
    BY <1>5, <1>6 DEF InfraInv
  <2> QED BY <1>1, <2>1, <2>2 DEF InfraInv, C!Has
<1>9. LockInv => LockInv'
  <2> SUFFICES ASSUME LockInv PROVE LockInv'
    OBVIOUS
  <2>1. \A q \in Process \ {p} : run'[q] # None =>
          run[q] # None /\ run'[q].id \in Nat /\ run'[q].id < starts
    BY <1>6, Fields DEF ClusterInv, LockInv
  <2>2. \A q \in Process : run'[q] # None => run'[q].id < starts'
    BY <1>1, <1>3, <1>5, <1>6, <2>1
  <2>3. \A q, k \in Process : run'[q] # None /\ run'[k] # None /\ run'[q].id = run'[k].id => q = k
    <3> SUFFICES ASSUME NEW q \in Process, NEW k \in Process, run'[q] # None, run'[k] # None,
                        run'[q].id = run'[k].id, q # k
                 PROVE  FALSE
      OBVIOUS
    <3>1. CASE q # p /\ k # p
      BY <1>6, <2>1, <3>1 DEF LockInv
    <3>2. CASE q = p \/ k = p
      BY <1>3, <1>5, <1>6, <2>1, <3>2
    <3> QED BY <3>1, <3>2
  <2>4. \A q \in Process : (Active(q)' \/ Waiting(q)') => q # p /\ run'[q] = run[q]
    BY <1>5, <1>6 DEF Active, Waiting, Working
  <2>5. \A q \in Process : Active(q)' => Active(q) /\ C!LockID(q, run[q].pc)' = C!LockID(q, run[q].pc)
    BY <2>4 DEF Active, C!LockID
  <2>6. \A q \in Process : Waiting(q)' => Waiting(q)
    BY <2>4 DEF Waiting
  <2>7. ASSUME NEW l, Seen(l, starts, run) PROVE Seen(l, starts', run')
    <3>1. l \in C!Lock /\ l.id \in Nat /\ l.id < starts
      BY <2>7 DEF Seen, C!Lock
    <3>2. l.id < starts' /\ l.id # starts
      BY <1>1, <1>3, <3>1
    <3>3. Spent(l, s)
      BY <1>5, <3>2 DEF Spent
    <3> QED BY <1>6, <2>7, <3>1, <3>2, <3>3 DEF Seen
  <2>8. \A q \in Process : Active(q)' => lock' = C!LockID(q, run[q].pc)'
    BY <1>1, <2>5 DEF LockInv
  <2>9. lock' # None => Seen(lock', starts', run')
    BY <1>1, <2>7 DEF LockInv
  <2>10. \A q \in Process : Waiting(q)' => ~run'[q].retried /\ Seen(run'[q].seen, starts', run')
    BY <2>4, <2>6, <2>7 DEF LockInv
  <2>11. \A q, k \in Process : C!At(q, "unlock")' /\ Active(k)' => run'[q].seen # C!LockID(k, run[k].pc)'
    <3> SUFFICES ASSUME NEW q \in Process, NEW k \in Process, C!At(q, "unlock")', Active(k)'
                 PROVE  run'[q].seen # C!LockID(k, run[k].pc)'
      OBVIOUS
    <3>1. Waiting(q)'
      BY DEF C!At, Waiting
    <3>2. run'[q] = run[q] /\ C!At(q, "unlock")
      BY <2>4, <3>1 DEF C!At
    <3> QED BY <2>5, <3>2 DEF LockInv
  <2> QED BY <2>2, <2>3, <2>8, <2>9, <2>10, <2>11 DEF LockInv
<1> QED BY <1>7, <1>8, <1>9 DEF ClusterInv

\* The agents publish their authority.
LEMMA PublishKeeps ==
  ASSUME C!ClusterAssumption, ClusterInv, C!PublishCA
  PROVE  ClusterInv'
<1>1. /\ bucket # None /\ bucket' = bucket \cup {"ca.json"}
      /\ UNCHANGED <<infra, lock, local, run, starts, torn>>
  BY DEF C!PublishCA, C!machine, C!bounds
<1>2. bucket' \in SUBSET C!Object
  <2>1. bucket \in SUBSET C!Object
    BY <1>1 DEF ClusterInv, TypeInv
  <2>2. "ca.json" \in C!Object
    BY DEF C!Object
  <2> QED BY <1>1, <2>1, <2>2
<1>3. bucket' # None
  BY <1>2 DEF C!ClusterAssumption
<1>4. (C!Has("tfstate") => C!Has("tfstate")') /\ (C!Has("tfvars") => C!Has("tfvars")')
  BY <1>1, <1>3 DEF C!Has
<1>5. TypeInv'
  BY <1>1, <1>2 DEF ClusterInv, TypeInv
<1>6. LockInv => LockInv'
  BY <1>1 DEF LockInv, Active, Waiting, C!At, C!LockID
<1>7. InfraInv => InfraInv'
  BY <1>1, <1>4 DEF InfraInv
<1> QED BY <1>5, <1>6, <1>7 DEF ClusterInv

\* The inductive invariant of commands, lock and resources.
THEOREM ClusterInvariant ==
  ASSUME C!ClusterAssumption
  PROVE  C!Spec /\ []Undisturbed => []ClusterInv
<1>1. C!Init => ClusterInv
  <2> SUFFICES ASSUME C!Init PROVE ClusterInv
    OBVIOUS
  <2>1. \A p \in Process : run[p] = None
    BY DEF C!Init
  <2>2. TypeInv
    <3>1. 0 \in Nat
      BY SMT
    <3> QED BY <2>1, <3>1 DEF C!Init, TypeInv
  <2>3. LockInv
    BY <2>1 DEF C!Init, LockInv, Active, Waiting, C!At
  <2>4. InfraInv
    BY <2>1 DEF C!Init, InfraInv
  <2> QED BY <2>2, <2>3, <2>4 DEF ClusterInv
<1>2. ClusterInv /\ Undisturbed /\ [C!Next]_C!vars => ClusterInv'
  <2> SUFFICES ASSUME ClusterInv, Undisturbed, [C!Next]_C!vars PROVE ClusterInv'
    OBVIOUS
  <2>1. CASE UNCHANGED C!vars
    <3>1. UNCHANGED <<bucket, infra, lock, local, run, starts, torn>>
      BY <2>1 DEF C!vars
    <3>2. TypeInv'
      BY <3>1 DEF ClusterInv, TypeInv
    <3>3. LockInv => LockInv'
      BY <3>1 DEF LockInv, Active, Waiting, C!At, C!LockID
    <3>4. InfraInv => InfraInv'
      BY <3>1 DEF InfraInv, C!Has
    <3> QED BY <3>2, <3>3, <3>4 DEF ClusterInv
  <2>2. ASSUME NEW p \in Process, C!Step(p) PROVE ClusterInv'
    BY <2>2, ConnectKeeps, SetupKeeps, DirectoryKeeps, LockedKeeps, AcquireKeeps, PlanKeeps, AppliedKeeps,
       ChangeKeeps, UnlockKeeps, ForgetKeeps, BucketKeeps DEF C!Step
  <2> QED BY <2>1, <2>2, InterruptKeeps, StartKeeps, PublishKeeps DEF C!Next
<1> QED BY <1>1, <1>2, PTL DEF C!Spec

\* Infrastructure can be removed: it never exists without the state and the variables in
\* the bucket, however often the local variables are torn, and one engine at a time changes
\* it, also after a lock was broken, as long as nothing runs beside a destroy (setup.go,
\* destroy.go, teardown.go).
THEOREM InfraIsRemovable ==
  ASSUME C!ClusterAssumption
  PROVE  C!Spec /\ []Undisturbed => []InfraRemovable
<1>1. ClusterInv => InfraRemovable
  <2> SUFFICES ASSUME ClusterInv PROVE InfraRemovable
    OBVIOUS
  <2>1. C!InfraTracked /\ C!VariablesSaved
    BY DEF ClusterInv, InfraInv, C!InfraTracked, C!VariablesSaved
  <2>2. C!OneEngine
    BY EngineAlone DEF ClusterInv, C!OneEngine, C!At, Active, C!Engine
  <2> QED BY <2>1, <2>2 DEF InfraRemovable, C!InfraRemovable
<1> QED BY <1>1, ClusterInvariant, PTL

\* The published authority was made with the stored key: setup never replaces a key that
\* exists, and a key that a destroy deleted takes the published state with it (setup.go,
\* destroy.go), whatever commands run and are interrupted.
THEOREM TrustIsKept == C!Spec => []TrustKept
<1>1. C!Init => TrustInv
  BY DEF C!Init, TrustInv, C!Has
<1>2. TrustInv /\ [C!Next]_C!vars => TrustInv'
  <2> SUFFICES ASSUME TrustInv, [C!Next]_C!vars PROVE TrustInv'
    OBVIOUS
  <2>1. CASE UNCHANGED <<bucket, key, caKey, unfinished>>
    BY <2>1 DEF TrustInv, C!Has
  <2>2. CASE C!PublishCA
    BY <2>2 DEF C!PublishCA, TrustInv
  <2>3. ASSUME NEW p \in Process, C!EnsureBucket(p) PROVE TrustInv'
    BY <2>3 DEF C!EnsureBucket, TrustInv, C!Has
  <2>4. ASSUME NEW p \in Process, C!CreateKey(p) PROVE TrustInv'
    BY <2>4 DEF C!CreateKey, C!Create, TrustInv, C!Has
  <2>5. ASSUME NEW p \in Process, C!SaveVariables(p) \/ \E r \in Resource : C!Change(p, r) PROVE TrustInv'
    <3>1. /\ UNCHANGED <<key, caKey, unfinished>> /\ bucket # None
          /\ bucket' = bucket \cup {"tfvars"} \/ bucket' = bucket \cup {"tfstate"}
      BY <2>5 DEF C!SaveVariables, C!Change
    <3>2. "ca.json" \in bucket' => "ca.json" \in bucket
      BY <3>1, SMT
    <3> QED BY <3>1, <3>2 DEF TrustInv, C!Has
  <2>6. ASSUME NEW p \in Process, C!DestroyKey(p) PROVE TrustInv'
    BY <2>6 DEF C!DestroyKey, TrustInv, C!Has
  <2>7. ASSUME NEW p \in Process, C!DeleteBucket(p) \/ \E some \in SUBSET bucket : C!EmptyBucket(p, some)
        PROVE  TrustInv'
    BY <2>7 DEF C!DeleteBucket, C!EmptyBucket, TrustInv, C!Has
  <2>8. ASSUME NEW p \in Process, C!Interrupt(p) \/ \E kind \in Commands : C!Start(p, kind) PROVE TrustInv'
    BY <2>1, <2>8 DEF C!Interrupt, C!Start, C!cloud
  <2>9. ASSUME NEW p \in Process, C!Step(p) PROVE TrustInv'
    BY <2>1, <2>3, <2>4, <2>5, <2>6, <2>7, <2>9
       DEF C!Step, C!Remember, C!CreateCA, C!Restore, C!Prepare, C!WriteVariables, C!Locked, C!Unusable, C!Acquire, C!Plan,
           C!Refuse, C!Applied, C!Inspect, C!ForceUnlock, C!DestroyCA, C!Forget, C!Clean, C!cloud
  <2> QED BY <2>1, <2>2, <2>8, <2>9 DEF C!Next, C!vars
<1>3. TrustInv => TrustKept
  BY DEF TrustInv, TrustKept, C!TrustKept
<1> QED BY <1>1, <1>2, <1>3, PTL DEF C!Spec
=============================================================================
