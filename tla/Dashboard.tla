------------------------------ MODULE Dashboard ------------------------------
(***************************************************************************)
(* Downloads behind a progress dashboard.  tui.Run starts the operation in  *)
(* one goroutine and a reader of its events in another, and a Bubble Tea    *)
(* program applies their messages until both have ended or the operator     *)
(* interrupts it (internal/cli/tui/progress.go).  The operation is          *)
(* Fetcher.Download: one goroutine for each artifact, a bounded number of   *)
(* them at work, each of which keeps the cached file or fetches, verifies   *)
(* and replaces it (internal/cli/dependencies/fetch.go, upstream.go).       *)
(*                                                                          *)
(* Bubble Tea runs every command in a goroutine of its own that delivers    *)
(* one message: the messages in flight arrive in any order.                 *)
(***************************************************************************)
EXTENDS Naturals, FiniteSets

CONSTANTS
    Artifacts, \* the artifacts to download
    Limit,     \* goroutines at work (maxConcurrentDownloads, 4 in the code)
    Capacity,  \* the event channel's capacity (256 in the code)
    MaxReads   \* bound: reads of one body that report progress

ASSUME DashboardAssumption ==
    /\ Limit \in Nat \ {0} /\ Capacity \in Nat \ {0}
    /\ MaxReads \in Nat

VARIABLES
    file,      \* each artifact's cache file: "none", "good" or "other"
    worker,    \* phase of each artifact's goroutine
    reads,     \* reads of each body so far
    limit,     \* goroutines that hold a place of the limit channel
    operation, \* "running", "ok" or "failed" once run has returned
    buffered,  \* events in the channel
    closed,    \* whether the channel is closed
    late,      \* whether an event was sent on the closed channel
    inflight,  \* messages on their way to the program
    reader,    \* whether a waitForEvent command waits
    model,     \* the dashboard
    returned   \* whether tui.Run has returned

workVars == <<file, worker, reads, limit>>

channelVars == <<buffered, closed, late>>

programVars == <<inflight, reader, model, returned>>

vars == <<workVars, operation, channelVars, programVars>>

Ended == {"ok", "failed"}

(***************************************************************************)
(* The operation.                                                           *)
(***************************************************************************)
\* runCommand's Progress, given n events at once: a full channel drops an
\* event, a closed one panics.
Send(n) ==
    /\ late' = (late \/ (closed /\ n > 0))
    /\ LET room == IF closed THEN 0 ELSE Capacity - buffered
           taken == IF n < room THEN n ELSE room
       IN  buffered' = buffered + taken
    /\ UNCHANGED closed

\* Mutant of Release: only a success gives the place back.
ReleaseOnSuccess(end) == limit - (IF end = "ok" THEN 1 ELSE 0)

\* The deferred receive gives the place back however the goroutine ends.
Release(end) == limit - 1

End(a, end) ==
    /\ worker' = [worker EXCEPT ![a] = end]
    /\ limit' = Release(end)

\* download: a cached file with the right digest is kept, and reported.
Start(a) ==
    /\ worker[a] = "new"
    /\ limit < Limit
    /\ worker' = [worker EXCEPT ![a] = "check"]
    /\ limit' = limit + 1
    /\ UNCHANGED <<file, reads, operation, channelVars, programVars>>

cachedArtifact(a) == file[a] = "good"

Check(a) ==
    /\ worker[a] = "check"
    /\ IF cachedArtifact(a)
       THEN End(a, "ok") /\ Send(1)
       ELSE /\ worker' = [worker EXCEPT ![a] = "get"]
            /\ UNCHANGED <<limit, channelVars>>
    /\ UNCHANGED <<file, reads, operation, programVars>>

\* get: no response, or one that is not 200 OK or too large, ends the goroutine.
Respond(a) ==
    /\ worker[a] = "get"
    /\ \/ End(a, "failed") /\ UNCHANGED channelVars
       \/ /\ worker' = [worker EXCEPT ![a] = "body"]
          /\ Send(1)
          /\ UNCHANGED limit
    /\ UNCHANGED <<file, reads, operation, programVars>>

\* Reader.Read reports what it read.
Read(a) ==
    /\ worker[a] = "body"
    /\ reads[a] < MaxReads
    /\ reads' = [reads EXCEPT ![a] = @ + 1]
    /\ Send(1)
    /\ UNCHANGED <<file, worker, limit, operation, programVars>>

\* The body ends or breaks off, with its last Progressed and its Done or Failed.
EndBody(a) ==
    /\ worker[a] = "body"
    /\ \/ End(a, "failed")
       \/ \E content \in {"good", "other"} :
            /\ worker' = [worker EXCEPT ![a] = content]
            /\ UNCHANGED limit
    /\ Send(2)
    /\ UNCHANGED <<file, reads, operation, programVars>>

\* The digest is compared before atomicFile renames the new file into place.
Store(a) ==
    /\ worker[a] \in {"good", "other"}
    /\ \/ /\ worker[a] = "good"
          /\ file' = [file EXCEPT ![a] = "good"]
          /\ End(a, "ok")
       \/ /\ End(a, "failed")
          /\ UNCHANGED file
    /\ UNCHANGED <<reads, operation, channelVars, programVars>>

\* group.Wait: Download looks at the errors once every goroutine has ended.
Finished == \A a \in Artifacts : worker[a] \in Ended

\* run returns, the channel is closed, and doneMsg is sent.
RunEnds ==
    /\ operation = "running"
    /\ Finished
    /\ operation' = IF \A a \in Artifacts : worker[a] = "ok" THEN "ok" ELSE "failed"
    /\ closed' = TRUE
    /\ inflight' = inflight \cup {"done"}
    /\ UNCHANGED <<workVars, buffered, late, reader, model, returned>>

(***************************************************************************)
(* The program.                                                             *)
(***************************************************************************)
\* waitForEvent: the next event, or closedMsg when the closed channel is empty.
WaitForEvent ==
    /\ reader
    /\ \/ /\ buffered > 0
          /\ buffered' = buffered - 1
          /\ inflight' = inflight \cup {"event"}
       \/ /\ buffered = 0 /\ closed
          /\ inflight' = inflight \cup {"closed"}
          /\ UNCHANGED buffered
    /\ reader' = FALSE
    /\ UNCHANGED <<workVars, operation, closed, late, model, returned>>

\* The dashboard's fields; interrupted only records the operator's key.
View(done, noMore, err, interrupted) ==
    [doneReceived |-> done, closed |-> noMore, err |-> err, interrupted |-> interrupted]

\* The operator's q or ctrl+c.
PressKey ==
    /\ ~model.interrupted
    /\ model' = View(model.doneReceived, model.closed, model.err, TRUE)
    /\ inflight' = inflight \cup {"key"}
    /\ UNCHANGED <<workVars, operation, channelVars, reader, returned>>

\* tea.Quit follows the second of doneMsg and closedMsg.
AfterDone == IF model.closed THEN {"quit"} ELSE {}

\* Mutant of AfterClosed: the operation's result is not waited for.
AfterClosedAlone == {"quit"}

AfterClosed == IF model.doneReceived THEN {"quit"} ELSE {}

\* tea.Quit is itself a command: its message arrives like the others, and
\* messages that overtake it are still applied.
Update(message) ==
    /\ message \in inflight
    /\ \/ /\ message = "key"
          /\ model' = View(model.doneReceived, model.closed, "canceled", model.interrupted)
          /\ inflight' = (inflight \ {message}) \cup {"quit"}
          /\ UNCHANGED <<reader, returned>>
       \/ /\ message = "event"
          /\ inflight' = inflight \ {message}
          /\ reader' = TRUE
          /\ UNCHANGED <<model, returned>>
       \/ /\ message = "done"
          /\ model' = View(TRUE, model.closed, operation, model.interrupted)
          /\ inflight' = (inflight \ {message}) \cup AfterDone
          /\ UNCHANGED <<reader, returned>>
       \/ /\ message = "closed"
          /\ model' = View(model.doneReceived, TRUE, model.err, model.interrupted)
          /\ inflight' = (inflight \ {message}) \cup AfterClosed
          /\ UNCHANGED <<reader, returned>>
       \/ /\ message = "quit"
          /\ returned' = TRUE
          /\ inflight' = inflight \ {message}
          /\ UNCHANGED <<reader, model>>
    /\ UNCHANGED <<workVars, operation, channelVars>>

\* The cache may hold damaged files, and what an interrupted run stored.
Init ==
    /\ file \in [Artifacts -> {"none", "good", "other"}]
    /\ worker = [a \in Artifacts |-> "new"]
    /\ reads = [a \in Artifacts |-> 0]
    /\ limit = 0 /\ operation = "running"
    /\ buffered = 0 /\ closed = FALSE /\ late = FALSE
    /\ inflight = {} /\ reader = TRUE /\ model = View(FALSE, FALSE, "nil", FALSE) /\ returned = FALSE

Work(a) == Start(a) \/ Check(a) \/ Respond(a) \/ Read(a) \/ EndBody(a) \/ Store(a)

\* The command ends with tui.Run, and its goroutines with it.
Next ==
    /\ ~returned
    /\ \/ \E a \in Artifacts : Work(a)
       \/ RunEnds
       \/ WaitForEvent
       \/ \E m \in inflight : Update(m)
       \/ PressKey

\* Goroutines are scheduled, requests end (the client has a timeout) and a
\* body of bounded size is read to its end.
Fairness ==
    /\ \A a \in Artifacts : WF_vars(~returned /\ Work(a))
    /\ WF_vars(~returned /\ RunEnds)
    /\ WF_vars(~returned /\ WaitForEvent)
    /\ \A m \in {"key", "event", "done", "closed", "quit"} : WF_vars(~returned /\ Update(m))

Spec == Init /\ [][Next]_vars /\ Fairness

(***************************************************************************)
(* Properties.                                                              *)
(***************************************************************************)
\* When tui.Run returns nil every artifact is in the cache with the contents
\* its digest names, however doneMsg, closedMsg, the interrupt and the quit
\* message interleave and whatever an earlier, interrupted run left behind:
\* setup goes on to upload these files (Update, Download, cachedArtifact).
NilMeansVerified ==
    returned /\ model.err \in {"nil", "ok"} => \A a \in Artifacts : file[a] = "good"

\* A dashboard nobody interrupted ends with every event the channel took
\* applied, none left in the channel or in flight, so its last picture is the operation's (doneMsg, closedMsg).
EventsApplied ==
    returned /\ ~model.interrupted => buffered = 0 /\ "event" \notin inflight

\* closedMsg "reports that no more progress events remain": no goroutine of the
\* operation reports once the channel is closed, where the send would panic.
NoEventsRemain == ~late

\* tui.Run returns: no place of the limit channel is lost to a
\* failed download, no order of the last messages leaves the program waiting
\* and a full channel blocks nobody.
Returns == <>returned
====
