----------------------------- MODULE MCRegistry -----------------------------
(***************************************************************************)
(* The registry of a leader, with a small instance of the streams that     *)
(* keep its entries.  The two models share no variable, so each is         *)
(* explored while the other rests.                                         *)
(***************************************************************************)
EXTENDS MCCoordinator

CONSTANTS Peer, Leader, Digest, Stream, Lease, MaxDeploys, MaxBreaks

VARIABLES part, contract, want, up, client, server, entries, reported, refused, deploys, breaks

Conn == INSTANCE Streams
  WITH Node <- Peer, Session <- Stream, MaxFaults <- MaxBreaks,
       desired <- contract, registry <- entries, faults <- breaks

ASSUME Conn!StreamsAssumption

streamVars == <<contract, want, up, client, server, entries, reported, refused, deploys, breaks>>

MCInit == part \in {"leader", "streams"} /\ Init /\ Conn!Init

MCNext ==
  /\ \/ part = "leader" /\ Next /\ UNCHANGED streamVars
     \/ part = "streams" /\ Conn!Next /\ UNCHANGED vars
  /\ UNCHANGED part

\* The fairness of Streams, while they are explored.
MCSpec ==
  /\ MCInit /\ [][MCNext]_<<part, vars, streamVars>>
  /\ SF_streamVars(part = "streams" /\ Conn!Tick)
  /\ WF_streamVars(part = "streams" /\ Conn!registerLocal)
  /\ WF_streamVars(part = "streams" /\ Conn!expireAndPublish)
  /\ \A n \in Peer : WF_streamVars(part = "streams" /\ Conn!SetServices(n))
  /\ \A n \in Peer \ {Leader} : WF_streamVars(part = "streams" /\ (Conn!Follow(n) \/ Conn!SendState(n)))
  /\ \A s \in Stream : WF_streamVars(part = "streams" /\ (Conn!Handle(s) \/ Conn!Finish(s)))

\* The registry of a lasting leader comes to hold the running nodes (coordinator, api).
RegistryConverges == part = "streams" => Conn!RegistryConverges
=============================================================================
