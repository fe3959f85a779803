------------------------------ MODULE Dataplane ------------------------------
(***************************************************************************)
(* Activation of the dataplane on a node (dataplane.go and                 *)
(* activation_linux.go): Reconcile loads every new table into a collection *)
(* of its own, attaches it to the interfaces the route table names, makes  *)
(* it current and closes the one before; each collection has a watcher     *)
(* that follows the routes.  Links are unpinned, so the kernel drops them  *)
(* when the process ends.  An error of Reconcile ends the process unless   *)
(* the call came from clearStale or had an empty snapshot to apply.        *)
(***************************************************************************)
EXTENDS Naturals, FiniteSets

CONSTANTS Route,         \* rows of /proc/net/ipv6_route: kind, metric and interface
          Permanent,     \* the rows present throughout, which name the uplinks
          Snapshot,      \* nonempty snapshots; None is the empty one
          None,
          MaxCalls, MaxRoutes, MaxErrors

DataplaneAssumption == None \notin Snapshot /\ Permanent \subseteq Route /\ MaxCalls \in Nat

State == 1..MaxCalls      \* at most one collection per call

VARIABLES
  table,         \* the route table
  plane,         \* the collections: platformState
  current,       \* r.state, 0 for nil
  tables,        \* r.tables
  call,          \* the Reconcile call in progress
  served,        \* history: the snapshot the last call succeeded with, None if it failed
  calls, changes, errors

vars == <<table, plane, current, tables, call, served, calls, changes, errors>>

Unused == [open |-> FALSE, tables |-> None, links |-> {}, watch |-> "off", seen |-> {}]
NoCall == [pc |-> "idle", want |-> None, new |-> 0, seen |-> {}, fatal |-> FALSE]

Init ==
  /\ table = Permanent
  /\ plane = [p \in State |-> Unused]
  /\ current = 0 /\ tables = None /\ call = NoCall /\ served = None
  /\ calls = 0 /\ changes = 0 /\ errors = 0

-----------------------------------------------------------------------------
(* refresh *)

\* Interfaces exist while a row names them.
Devices == {r.dev : r \in table}

\* routeInterfaces: the interfaces of Pod routes, and of the default route with the
\* lowest metric.
routeInterfaces(rows) ==
  LET defaults == {r \in rows : r.kind = "default"}
  IN  {r.dev : r \in {x \in rows : x.kind \in {"host", "prefix"}}}
        \cup {r.dev : r \in {x \in defaults : \A y \in defaults : x.metric <= y.metric}}

routes == routeInterfaces(table)

\* The links after refresh discovered seen: TCX cannot attach to an interface that
\* went away in between, and then the rest is left as it is.
Refreshed(links, seen) ==
  IF seen \subseteq Devices THEN {seen}
  ELSE {links \cup s : s \in SUBSET (seen \cap Devices)}

\* The outcomes that are errors.
Stale(seen) == ~(seen \subseteq Devices)

-----------------------------------------------------------------------------
(* Reconcile *)

\* close: the watcher is told to stop, and after two seconds not waited for; links
\* are closed, and then objects.
Closed(p) == [plane[p] EXCEPT !.open = FALSE, !.links = {},
                              !.watch = IF @ = "read" THEN "read" ELSE "off"]

\* The process ends and with it everything it attached.
Exit ==
  /\ plane' = [p \in State |-> Unused]
  /\ current' = 0 /\ tables' = None /\ call' = NoCall /\ served' = None

\* Reconcile returns an error: the coordinator ends the process, or, for a call it
\* tolerates to fail, leaves the collections as they are now.
Failed(after) ==
  IF call.fatal THEN Exit
  ELSE /\ plane' = after
       /\ call' = NoCall /\ served' = None
       /\ UNCHANGED <<current, tables>>

\* A collection that never became current is closed.
Abandoned == IF call.new = current THEN plane ELSE [plane EXCEPT ![call.new] = Closed(call.new)]

\* activate loads the collection and publishes into it first.
FirstStep == "publish"

\* apply and applyLocalTransition end the process when they fail, but for an empty
\* snapshot to apply; clearStale tries again.
Begin(s, fatal) ==
  /\ call.pc = "idle"
  /\ calls < MaxCalls /\ calls' = calls + 1
  /\ IF s = tables /\ current = 0
     THEN UNCHANGED <<plane, call, served>>
     ELSE IF s = tables
     THEN /\ call' = [pc |-> "discover", want |-> s, new |-> current, seen |-> {}, fatal |-> fatal]
          /\ UNCHANGED <<plane, served>>
     ELSE IF s = None
     THEN call' = [NoCall EXCEPT !.pc = "close", !.fatal = fatal] /\ UNCHANGED <<plane, served>>
     ELSE /\ call' = [pc |-> FirstStep, want |-> s, new |-> calls + 1, seen |-> {}, fatal |-> fatal]
          /\ plane' = [plane EXCEPT ![calls + 1].open = TRUE]
          /\ UNCHANGED served
  /\ UNCHANGED <<table, current, tables, changes, errors>>

\* The flow maps cannot be taken over from a collection that was closed.
Loadable == current = 0 \/ plane[current].open

\* The collection is loaded, and filled before anything is attached.
Publish ==
  /\ call.pc = "publish"
  /\ IF Loadable
     THEN /\ plane' = [plane EXCEPT ![call.new].tables = call.want]
          /\ call' = [call EXCEPT !.pc = "discover"]
          /\ UNCHANGED <<current, tables, served>>
     ELSE Failed(Abandoned)
  /\ UNCHANGED <<table, calls, changes, errors>>

\* Mutant of Discover: the old collection is closed first.
DiscoverRetires ==
  /\ call.pc = "discover"
  /\ call' = [call EXCEPT !.pc = "attach", !.seen = routes]
  /\ plane' = IF current \in {0, call.new} THEN plane
              ELSE [plane EXCEPT ![current].links = {}]
  /\ UNCHANGED <<table, current, tables, served, calls, changes, errors>>

\* attachmentIndices reads the routes outside the lock.
Discover ==
  /\ call.pc = "discover"
  /\ call' = [call EXCEPT !.pc = "attach", !.seen = routes]
  /\ UNCHANGED <<table, plane, current, tables, served, calls, changes, errors>>

\* Mutant of AfterAttach: a new collection is attached and forgotten.
AfterAttachKept(new) == "idle"

\* A refresh of the current collection ends the call; a new one takes over.
AfterAttach(new) == IF new = current THEN "idle" ELSE "swap"

\* refresh attaches under the lock, unless an interface is gone or the program closed.
Attach ==
  /\ call.pc = "attach"
  /\ \/ /\ ~Stale(call.seen) /\ plane[call.new].open
        /\ plane' = [plane EXCEPT ![call.new].links = call.seen]
        /\ IF AfterAttach(call.new) = "idle" THEN call' = NoCall /\ served' = call.want
           ELSE call' = [call EXCEPT !.pc = "swap"] /\ UNCHANGED served
        /\ UNCHANGED <<current, tables>>
     \/ /\ Stale(call.seen) /\ plane[call.new].open
        /\ IF call.new # current THEN Failed(Abandoned)
           ELSE \E l \in Refreshed(plane[current].links, call.seen) :
                  Failed([plane EXCEPT ![current].links = l])
     \/ ~plane[call.new].open /\ Failed(plane)
  /\ UNCHANGED <<table, calls, changes, errors>>

\* Mutant of Swap: the watcher is not started.
SwapSilent ==
  /\ call.pc = "swap"
  /\ current' = call.new
  /\ tables' = call.want
  /\ served' = call.want
  /\ call' = IF current = 0 THEN NoCall ELSE [call EXCEPT !.pc = "retire", !.new = current]
  /\ UNCHANGED <<table, plane, calls, changes, errors>>

\* r.state and r.tables change hands and the new watcher starts.
Swap ==
  /\ call.pc = "swap"
  /\ current' = call.new
  /\ tables' = call.want
  /\ plane' = [plane EXCEPT ![call.new].watch = "wait"]
  /\ served' = call.want
  /\ call' = IF current = 0 THEN NoCall ELSE [call EXCEPT !.pc = "retire", !.new = current]
  /\ UNCHANGED <<table, calls, changes, errors>>

\* The collection before is closed; what fails there is ignored.
Retire ==
  /\ call.pc = "retire"
  /\ plane' = [plane EXCEPT ![call.new] = Closed(call.new)]
  /\ call' = NoCall
  /\ UNCHANGED <<table, current, tables, served, calls, changes, errors>>

\* An empty snapshot detaches.
Close ==
  /\ call.pc = "close"
  /\ plane' = [plane EXCEPT ![current] = Closed(current)]
  /\ current' = 0 /\ tables' = None
  /\ call' = NoCall /\ served' = None
  /\ UNCHANGED <<table, calls, changes, errors>>

\* Any kernel operation of the call may fail, and the caller's context may end.  After
\* a failed close everything is closed and r.state is still the old collection.
Fail ==
  /\ call.pc \in {"publish", "discover", "attach", "swap", "close"}
  /\ errors < MaxErrors /\ errors' = errors + 1
  /\ Failed(IF call.pc = "close" THEN [plane EXCEPT ![current] = Closed(current)] ELSE Abandoned)
  /\ UNCHANGED <<table, calls, changes>>

\* Between them close lets go of the lock: a watcher that was not waited for attaches
\* once more, and ends the process when it writes to the map of links, which is nil.
Panic ==
  /\ call.pc \in {"retire", "close"}
  /\ LET closing == plane[IF call.pc = "close" THEN current ELSE call.new]
     IN  closing.watch = "read" /\ closing.open /\ closing.seen \cap Devices # {}
  /\ Exit
  /\ UNCHANGED <<table, calls, changes, errors>>

-----------------------------------------------------------------------------
(* watch and the host *)

\* A tick of five seconds; a hint only makes it early, and whichever watcher takes
\* the hint from the shared channel leaves the others to their ticks.
WatchRead(p) ==
  /\ plane[p].watch = "wait"
  /\ plane[p].open
  /\ plane' = [plane EXCEPT ![p].watch = "read", ![p].seen = routes]
  /\ UNCHANGED <<table, current, tables, call, served, calls, changes, errors>>

\* refresh of a watcher: errors are ignored, and nothing attaches once the program
\* is closed.
WatchApply(p) ==
  /\ plane[p].watch = "read"
  /\ IF plane[p].open
     THEN \E l \in Refreshed(plane[p].links, plane[p].seen) :
            plane' = [plane EXCEPT ![p].watch = "wait", ![p].seen = {}, ![p].links = l]
     ELSE plane' = [plane EXCEPT ![p].watch = "off", ![p].seen = {}]
  /\ UNCHANGED <<table, current, tables, call, served, calls, changes, errors>>

\* A route comes or goes, with it a Pod's interface; the kernel detaches what was on
\* that interface.
RouteChange(r) ==
  /\ changes < MaxRoutes /\ changes' = changes + 1
  /\ table' = IF r \in table THEN table \ {r} ELSE table \cup {r}
  /\ plane' = [p \in State |-> [plane[p] EXCEPT !.links = @ \cap Devices']]
  /\ UNCHANGED <<current, tables, call, served, calls, errors>>

Step == Publish \/ Discover \/ Attach \/ Swap \/ Retire \/ Close

Next ==
  \/ Step \/ Fail \/ Panic
  \/ \E s \in Snapshot \cup {None}, fatal \in BOOLEAN : Begin(s, fatal)
  \/ \E p \in State : WatchRead(p) \/ WatchApply(p)
  \/ \E r \in Route \ Permanent : RouteChange(r)

\* A call runs to its end, and every watcher has its ticker.
Spec ==
  /\ Init /\ [][Next]_vars
  /\ WF_vars(Step)
  /\ \A p \in State : WF_vars(WatchRead(p)) /\ WF_vars(WatchApply(p))

-----------------------------------------------------------------------------
(* Properties *)

Covered(i) == \E p \in State : i \in plane[p].links

\* Packets never meet a partly filled table: whatever is attached was published
\* completely and is open.
NeverPartial ==
  \A p \in State : plane[p].links # {} => plane[p].open /\ plane[p].tables # None

\* Between two calls nothing but the current collection is open or attached, also
\* after calls that failed, found nothing to do or detached everything.
NoLeak ==
  call.pc = "idle" =>
    \A p \in State : plane[p].open \/ plane[p].links # {} => p = current

\* A call that reports success serves what it was asked for, whatever failed before it:
\* an equal snapshot is not taken for served when a failed close left r.state behind.
SuccessServes ==
  call.pc = "idle" /\ served # None =>
    current # 0 /\ plane[current].open /\ plane[current].tables = served

\* Whatever fails in Reconcile, activate, refresh or Close: packets meet complete tables,
\* nothing is left behind, and success is not reported for less (activation_linux.go).
OnlyCurrentServes == NeverPartial /\ NoLeak /\ SuccessServes

\* The interfaces the routes name whichever rows come and go.
Steady == {r.dev : r \in {x \in Permanent : \A more \in SUBSET (Route \ Permanent) :
                                               x.dev \in routeInterfaces(Permanent \cup more)}}

\* Replacing one table by another leaves no moment in which such an uplink is without
\* a program, also when the replacement fails; only an empty snapshot or the end of the
\* process detaches it.
NoGap ==
  [][\A i \in Steady : Covered(i) => Covered(i)' \/ call.pc = "close" \/ current' = 0]_vars

\* When routes and Services settle, the current table is attached to every interface
\* the routes name, and to no other.
Settles ==
  <>[](\A p \in State : plane[p].links = IF p = current /\ plane[p].open THEN routes ELSE {})
=============================================================================
