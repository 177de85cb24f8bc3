----------------------------- MODULE EventKinds -----------------------------
(***************************************************************************)
(* What an endpoint tells its caller (rust/src/event.rs), as far as the    *)
(* order of events goes: the kind and the ids.  Texts are in Boundary.     *)
(***************************************************************************)
EXTENDS Naturals, Sequences

CONSTANTS
  StreamIds,    \* ids of the bidirectional streams of one connection
  MaxSession,   \* bound on the session counter
  None          \* no entry, no stream, no result

SessionIds == 1..MaxSession

Kinds == {"sessionOpened", "sessionClosed", "datagram", "streamMessage",
          "streamOpened", "streamData", "streamClosed"}

Events == [kind : Kinds, session : SessionIds, stream : StreamIds \cup {None}]

Event(kind, s, k)  == [kind |-> kind, session |-> s, stream |-> k]
SessionOpened(s)   == Event("sessionOpened", s, None)
SessionClosed(s)   == Event("sessionClosed", s, None)
Datagram(s)        == Event("datagram", s, None)
StreamMessage(s)   == Event("streamMessage", s, None)
StreamOpened(s, k) == Event("streamOpened", s, k)
StreamData(s, k)   == Event("streamData", s, k)
StreamClosed(s, k) == Event("streamClosed", s, k)
=============================================================================
