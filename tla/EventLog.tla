------------------------------ MODULE EventLog ------------------------------
(***************************************************************************)
(* What an endpoint promises about its events, to a caller who sees        *)
(* nothing but polls: each session and each stream goes through its life   *)
(* once, every step of it is offered to one bounded queue, and an event    *)
(* that finds the queue full is lost without disturbing the others.        *)
(* Endpoint implements this (EndpointLog).                                 *)
(***************************************************************************)
EXTENDS EventKinds

CONSTANT Depth  \* EVENT_QUEUE_DEPTH

VARIABLES
  session,      \* of each session id: "unborn", "open", "over"
  stream,       \* of each stream: "unborn", "open", "read", "over"
  queue,        \* offered and not yet polled
  seen,         \* polled
  dropped       \* lost

lives == <<session, stream>>
vars == <<session, stream, queue, seen, dropped>>

Offer(e) ==
  /\ \/ Len(queue) < Depth /\ queue' = Append(queue, e) /\ UNCHANGED dropped
     \/ Len(queue) >= Depth /\ dropped' = dropped \cup {e} /\ UNCHANGED queue
  /\ UNCHANGED seen

Silent == UNCHANGED <<queue, seen, dropped>>

Poll ==
  /\ queue # <<>>
  /\ queue' = Tail(queue)
  /\ seen' = seen \cup {Head(queue)}
  /\ UNCHANGED <<lives, dropped>>

SessionStep(s, from, to) == session[s] = from /\ session' = [session EXCEPT ![s] = to]
StreamStep(s, k, from, to) == stream[s][k] = from /\ stream' = [stream EXCEPT ![s][k] = to]

SessionOpens(s) ==
  /\ SessionStep(s, "unborn", "open")
  /\ Offer(SessionOpened(s))
  /\ UNCHANGED stream

SessionSays(s) ==
  /\ session[s] = "open"
  /\ Offer(Datagram(s)) \/ Offer(StreamMessage(s))
  /\ UNCHANGED lives

SessionEnds(s) ==
  /\ SessionStep(s, "open", "over")
  /\ Offer(SessionClosed(s))
  /\ UNCHANGED stream

\* A stream the peer opened is announced while its session is open; one that
\* the caller opened is not, and may come too late for its session.
StreamOpens(s, k) ==
  /\ StreamStep(s, k, "unborn", "open")
  /\ \/ session[s] = "open" /\ Offer(StreamOpened(s, k))
     \/ session[s] # "unborn" /\ Silent
  /\ UNCHANGED session

\* The other half was read to its end; it is reported if it was a message.
StreamReads(s, k) ==
  /\ StreamStep(s, k, "open", "read")
  /\ Offer(StreamData(s, k)) \/ Silent
  /\ UNCHANGED session

StreamEnds(s, k) ==
  /\ StreamStep(s, k, "read", "over")
  /\ Offer(StreamClosed(s, k))
  /\ UNCHANGED session

Init ==
  /\ session = [s \in SessionIds |-> "unborn"]
  /\ stream = [s \in SessionIds |-> [k \in StreamIds |-> "unborn"]]
  /\ queue = <<>> /\ seen = {} /\ dropped = {}

Next ==
  \/ Poll
  \/ \E s \in SessionIds :
       \/ SessionOpens(s) \/ SessionSays(s) \/ SessionEnds(s)
       \/ \E k \in StreamIds : StreamOpens(s, k) \/ StreamReads(s, k) \/ StreamEnds(s, k)

Spec == Init /\ [][Next]_vars

-----------------------------------------------------------------------------
(* Properties *)

\* No poll returns e after it returned f.
NeverAfter(e, f) ==
  \A j \in 1..Len(queue) : queue[j] = e =>
    /\ f \notin seen
    /\ \A i \in 1..(j - 1) : queue[i] # f

(* Of the three events of a bidirectional stream, streamOpened comes before   *)
(* streamData and streamData before streamClosed, although the session task   *)
(* and the reader task emit them independently.                               *)
StreamEventOrder ==
  \A s \in SessionIds, k \in StreamIds :
    /\ NeverAfter(StreamOpened(s, k), StreamData(s, k))
    /\ NeverAfter(StreamOpened(s, k), StreamClosed(s, k))
    /\ NeverAfter(StreamData(s, k), StreamClosed(s, k))

(* sessionOpened is the first event of a session, and nothing that the        *)
(* session loop reports (datagrams, messages, new streams) comes after its    *)
(* sessionClosed.  Readers may still report the end of their streams.         *)
SessionEventOrder ==
  \A s \in SessionIds :
    /\ \A kind \in Kinds \ {"sessionOpened"}, k \in StreamIds \cup {None} :
         NeverAfter(SessionOpened(s), Event(kind, s, k))
    /\ \A k \in StreamIds : NeverAfter(StreamOpened(s, k), SessionClosed(s))
    /\ NeverAfter(Datagram(s), SessionClosed(s))
    /\ NeverAfter(StreamMessage(s), SessionClosed(s))
=============================================================================
