----------------------------- MODULE MCBoundary -----------------------------
(***************************************************************************)
(* Instances of Boundary for TLC: one event of every variant.              *)
(***************************************************************************)
EXTENDS Boundary, TLC

s == <<"int", 7>>
k == <<"int", 3>>
w == <<"text", "w">>
v == <<"text", "v">>

\* Threads and endpoints are interchangeable.
BoundarySymmetry == Permutations(OsThreads) \cup Permutations(Endpoints)

OneOfEach ==
  {[variant |-> "SessionOpened", session_id |-> s, authority |-> v, path |-> w],
   [variant |-> "SessionClosed", session_id |-> s, reason |-> w],
   [variant |-> "Datagram", session_id |-> s, utf8 |-> w],
   [variant |-> "StreamMessage", session_id |-> s, utf8 |-> w],
   [variant |-> "StreamOpened", session_id |-> s, stream_id |-> k],
   [variant |-> "StreamData", session_id |-> s, stream_id |-> k, utf8 |-> w],
   [variant |-> "StreamClosed", session_id |-> s, stream_id |-> k],
   [variant |-> "EndpointError", message |-> w]}
=============================================================================
