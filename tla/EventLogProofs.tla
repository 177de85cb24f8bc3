--------------------------- MODULE EventLogProofs ---------------------------
(***************************************************************************)
(* The order of events that EventLog promises, proved for every number of  *)
(* sessions and streams and every queue depth.  EndpointLogProofs carries  *)
(* it over to Endpoint.                                                    *)
(***************************************************************************)
EXTENDS EventLog, TLAPS

(* Waiting in the queue or already polled.                                   *)
Known(e) == e \in seen \/ \E i \in 1..Len(queue) : queue[i] = e

LogType ==
  /\ session \in [SessionIds -> {"unborn", "open", "over"}]
  /\ stream \in [SessionIds -> [StreamIds -> {"unborn", "open", "read", "over"}]]
  /\ queue \in Seq(Events)

(* Nothing is known of a session or of a stream that its life has not        *)
(* reached yet.                                                              *)
KnownIsLived ==
  /\ \A s \in SessionIds, kind \in Kinds, k \in StreamIds \cup {None} :
       Known(Event(kind, s, k)) => session[s] # "unborn"
  /\ \A s \in SessionIds : Known(SessionClosed(s)) => session[s] = "over"
  /\ \A s \in SessionIds, k \in StreamIds :
       /\ Known(StreamData(s, k)) => stream[s][k] \in {"read", "over"}
       /\ Known(StreamClosed(s, k)) => stream[s][k] = "over"
       /\ stream[s][k] # "unborn" => session[s] # "unborn"

(* The inductive invariant behind both orders.                               *)
LogInv == LogType /\ KnownIsLived /\ StreamEventOrder /\ SessionEventOrder

-----------------------------------------------------------------------------
(* The queue *)

(* An offer makes nothing known but its event, and keeps the queue's type.   *)
LEMMA OfferKnows ==
  ASSUME LogType, NEW e \in Events, Offer(e)
  PROVE  /\ queue' \in Seq(Events)
         /\ \A f : Known(f)' => Known(f) \/ f = e
<1>1. CASE queue' = queue
  BY <1>1 DEF Known, LogType, Offer
<1>2. CASE queue' = Append(queue, e)
  <2>1. queue \in Seq(Events)
    BY DEF LogType
  <2>2. /\ Len(queue) \in Nat /\ Len(queue') = Len(queue) + 1 /\ queue' \in Seq(Events)
        /\ \A i \in 1..Len(queue) : queue'[i] = queue[i]
        /\ queue'[Len(queue) + 1] = e
    BY <1>2, <2>1
  <2>3. ASSUME NEW f, Known(f)' PROVE Known(f) \/ f = e
    <3>1. CASE f \in seen
      BY <3>1 DEF Known
    <3>2. ASSUME NEW i \in 1..Len(queue'), queue'[i] = f PROVE Known(f) \/ f = e
      <4>1. i \in 1..Len(queue) \/ i = Len(queue) + 1
        BY <2>2
      <4> QED BY <2>2, <3>2, <4>1 DEF Known
    <3> QED BY <2>3, <3>1, <3>2 DEF Known, Offer
  <2> QED BY <2>2, <2>3
<1> QED BY <1>1, <1>2 DEF Offer

(* An offer keeps an order between two events unless it offers the first     *)
(* when the second is known.                                                 *)
LEMMA OfferKeepsOrder ==
  ASSUME LogType, NEW g \in Events, Offer(g), NEW e, NEW f, NeverAfter(e, f),
         g = e => ~Known(f)
  PROVE  NeverAfter(e, f)'
<1>1. CASE queue' = queue
  BY <1>1 DEF NeverAfter, Offer
<1>2. CASE queue' = Append(queue, g)
  <2>1. /\ Len(queue) \in Nat /\ Len(queue') = Len(queue) + 1 /\ seen' = seen
        /\ \A i \in 1..Len(queue) : queue'[i] = queue[i]
        /\ queue'[Len(queue) + 1] = g
    BY <1>2 DEF LogType, Offer
  <2> SUFFICES ASSUME NEW j \in 1..Len(queue'), queue'[j] = e
               PROVE  f \notin seen /\ \A i \in 1..(j - 1) : queue'[i] # f
    BY <2>1 DEF NeverAfter
  <2>2. CASE j \in 1..Len(queue)
    <3>1. queue[j] = e /\ \A i \in 1..(j - 1) : i \in 1..Len(queue)
      BY <2>1, <2>2
    <3> QED BY <2>1, <2>2, <3>1 DEF NeverAfter
  <2>3. CASE j = Len(queue) + 1
    <3>1. g = e /\ 1..(j - 1) = 1..Len(queue)
      BY <2>1, <2>3
    <3> QED BY <2>1, <3>1 DEF Known
  <2> QED BY <2>1, <2>2, <2>3
<1> QED BY <1>1, <1>2 DEF Offer

(* A poll makes nothing known and keeps every order.                         *)
LEMMA PollKeeps ==
  ASSUME LogType, Poll
  PROVE  /\ queue' \in Seq(Events)
         /\ \A f : Known(f)' => Known(f)
         /\ \A e, f : NeverAfter(e, f) => NeverAfter(e, f)'
<1>1. queue \in Seq(Events) /\ queue # <<>>
  BY DEF LogType, Poll
<1>2. queue' = Tail(queue) /\ seen' = seen \cup {Head(queue)}
  BY DEF Poll
<1>3. /\ Len(queue) \in Nat /\ Len(queue) > 0 /\ Head(queue) = queue[1]
      /\ Len(queue') = Len(queue) - 1 /\ queue' \in Seq(Events)
      /\ \A i \in 1..Len(queue') : queue'[i] = queue[i + 1]
  BY <1>1, <1>2
<1>4. ASSUME NEW f, Known(f)' PROVE Known(f)
  <2>1. CASE f \in seen \cup {Head(queue)}
    BY <1>3, <2>1 DEF Known
  <2>2. ASSUME NEW i \in 1..Len(queue'), queue'[i] = f PROVE Known(f)
    <3>1. i + 1 \in 1..Len(queue) /\ queue[i + 1] = f
      BY <1>3, <2>2
    <3> QED BY <3>1 DEF Known
  <2> QED BY <1>2, <1>4, <2>1, <2>2 DEF Known
<1>5. ASSUME NEW e, NEW f, NeverAfter(e, f) PROVE NeverAfter(e, f)'
  <2> SUFFICES ASSUME NEW j \in 1..Len(queue'), queue'[j] = e
               PROVE  f \notin seen' /\ \A i \in 1..(j - 1) : queue'[i] # f
    BY DEF NeverAfter
  <2>1. j + 1 \in 1..Len(queue) /\ queue[j + 1] = e
    BY <1>3
  <2>2. f \notin seen /\ \A i \in 1..((j + 1) - 1) : queue[i] # f
    BY <1>5, <2>1 DEF NeverAfter
  <2>3. /\ 1 \in 1..((j + 1) - 1)
        /\ \A i \in 1..(j - 1) : i \in 1..Len(queue') /\ i + 1 \in 1..((j + 1) - 1)
    BY <1>3
  <2> QED BY <1>2, <1>3, <2>2, <2>3
<1> QED BY <1>3, <1>4, <1>5

-----------------------------------------------------------------------------
(* Lives and events *)

(* Lives only go forward, and a stream lives in a session that was opened.   *)
Forward ==
  /\ \A s \in SessionIds :
       /\ session[s] # "unborn" => session'[s] # "unborn"
       /\ session[s] = "over" => session'[s] = "over"
  /\ \A s \in SessionIds, k \in StreamIds :
       /\ stream[s][k] \in {"read", "over"} => stream'[s][k] \in {"read", "over"}
       /\ stream[s][k] = "over" => stream'[s][k] = "over"
       /\ stream'[s][k] # "unborn" => session'[s] # "unborn"

(* g is offered by a step that its session and its stream had come to.       *)
Due(g) ==
  /\ session'[g.session] # "unborn"
  /\ \A s \in SessionIds :
       /\ g = SessionOpened(s) => session[s] = "unborn"
       /\ g \in {Datagram(s), StreamMessage(s)} => session[s] = "open"
       /\ g = SessionClosed(s) => session'[s] = "over"
  /\ \A s \in SessionIds, k \in StreamIds :
       /\ g = StreamOpened(s, k) => session[s] = "open" /\ stream[s][k] = "unborn"
       /\ g = StreamData(s, k) => stream[s][k] = "open" /\ stream'[s][k] = "read"
       /\ g = StreamClosed(s, k) => stream'[s][k] = "over"

(* A step that makes nothing new known keeps the invariant.                  *)
LEMMA QuietKeepsInv ==
  ASSUME LogInv, LogType', Forward, \A f : Known(f)' => Known(f),
         \A e, f : NeverAfter(e, f) => NeverAfter(e, f)'
  PROVE  LogInv'
<1>1. KnownIsLived'
  <2>1. ASSUME NEW s \in SessionIds, NEW kind \in Kinds, NEW k \in StreamIds \cup {None},
               Known(Event(kind, s, k))'
        PROVE  session'[s] # "unborn"
    <3>1. Known(Event(kind, s, k))
      BY <2>1 DEF Event
    <3> QED BY <3>1 DEF LogInv, KnownIsLived, Forward
  <2>2. ASSUME NEW s \in SessionIds, Known(SessionClosed(s))' PROVE session'[s] = "over"
    <3>1. Known(SessionClosed(s))
      BY <2>2 DEF SessionClosed, Event
    <3> QED BY <3>1 DEF LogInv, KnownIsLived, Forward
  <2>3. ASSUME NEW s \in SessionIds, NEW k \in StreamIds, Known(StreamData(s, k))'
        PROVE  stream'[s][k] \in {"read", "over"}
    <3>1. Known(StreamData(s, k))
      BY <2>3 DEF StreamData, Event
    <3> QED BY <3>1 DEF LogInv, KnownIsLived, Forward
  <2>4. ASSUME NEW s \in SessionIds, NEW k \in StreamIds, Known(StreamClosed(s, k))'
        PROVE  stream'[s][k] = "over"
    <3>1. Known(StreamClosed(s, k))
      BY <2>4 DEF StreamClosed, Event
    <3> QED BY <3>1 DEF LogInv, KnownIsLived, Forward
  <2> QED BY <2>1, <2>2, <2>3, <2>4 DEF KnownIsLived, Forward
<1>2. StreamEventOrder'
  BY DEF LogInv, StreamEventOrder, StreamOpened, StreamData, StreamClosed, Event
<1>3. SessionEventOrder'
  BY DEF LogInv, SessionEventOrder, SessionOpened, SessionClosed, Datagram, StreamMessage,
     StreamOpened, Event
<1> QED BY <1>1, <1>2, <1>3 DEF LogInv

(* So does a step that offers an event that was due.                         *)
LEMMA DueKeepsInv ==
  ASSUME LogInv, LogType', Forward, NEW g \in Events, Due(g), Offer(g)
  PROVE  LogInv'
<1>a. LogType /\ KnownIsLived
  BY DEF LogInv
<1>b. \A f : Known(f)' => Known(f) \/ f = g
  BY <1>a, OfferKnows
<1>c. \A e, f : NeverAfter(e, f) /\ (g = e => ~Known(f)) => NeverAfter(e, f)'
  BY <1>a, OfferKeepsOrder
<1>1. KnownIsLived'
  <2>1. ASSUME NEW s \in SessionIds, NEW kind \in Kinds, NEW k \in StreamIds \cup {None},
               Known(Event(kind, s, k))'
        PROVE  session'[s] # "unborn"
    <3>1. Known(Event(kind, s, k)) \/ Event(kind, s, k) = g
      BY <1>b, <2>1 DEF Event
    <3>2. Event(kind, s, k).session = s
      BY DEF Event
    <3> QED BY <1>a, <3>1, <3>2 DEF KnownIsLived, Forward, Due
  <2>2. ASSUME NEW s \in SessionIds, Known(SessionClosed(s))' PROVE session'[s] = "over"
    <3>1. Known(SessionClosed(s)) \/ g = SessionClosed(s)
      BY <1>b, <2>2 DEF SessionClosed, Event
    <3> QED BY <1>a, <3>1 DEF KnownIsLived, Forward, Due
  <2>3. ASSUME NEW s \in SessionIds, NEW k \in StreamIds, Known(StreamData(s, k))'
        PROVE  stream'[s][k] \in {"read", "over"}
    <3>1. Known(StreamData(s, k)) \/ g = StreamData(s, k)
      BY <1>b, <2>3 DEF StreamData, Event
    <3> QED BY <1>a, <3>1 DEF KnownIsLived, Forward, Due
  <2>4. ASSUME NEW s \in SessionIds, NEW k \in StreamIds, Known(StreamClosed(s, k))'
        PROVE  stream'[s][k] = "over"
    <3>1. Known(StreamClosed(s, k)) \/ g = StreamClosed(s, k)
      BY <1>b, <2>4 DEF StreamClosed, Event
    <3> QED BY <1>a, <3>1 DEF KnownIsLived, Forward, Due
  <2> QED BY <2>1, <2>2, <2>3, <2>4 DEF KnownIsLived, Forward
<1>2. StreamEventOrder'
  <2>1. ASSUME NEW s \in SessionIds, NEW k \in StreamIds
        PROVE  /\ g = StreamOpened(s, k) => ~Known(StreamData(s, k)) /\ ~Known(StreamClosed(s, k))
               /\ g = StreamData(s, k) => ~Known(StreamClosed(s, k))
    BY <1>a DEF KnownIsLived, Due
  <2> QED BY <1>c, <2>1 DEF LogInv, StreamEventOrder, StreamOpened, StreamData, StreamClosed, Event
<1>3. SessionEventOrder'
  <2>1. ASSUME NEW s \in SessionIds, g = SessionOpened(s), NEW kind \in Kinds,
               NEW k \in StreamIds \cup {None}
        PROVE  ~Known(Event(kind, s, k))
    BY <1>a, <2>1 DEF KnownIsLived, Due
  <2>2. ASSUME NEW s \in SessionIds,
               \/ g \in {Datagram(s), StreamMessage(s)}
               \/ \E k \in StreamIds : g = StreamOpened(s, k)
        PROVE  ~Known(SessionClosed(s))
    BY <1>a, <2>2 DEF KnownIsLived, Due
  <2>3. ASSUME NEW s \in SessionIds, NEW kind \in Kinds \ {"sessionOpened"},
               NEW k \in StreamIds \cup {None}
        PROVE  NeverAfter(SessionOpened(s), Event(kind, s, k))'
    BY <1>c, <2>1 DEF LogInv, SessionEventOrder, SessionOpened, Event
  <2>4. ASSUME NEW s \in SessionIds
        PROVE  /\ (\A k \in StreamIds : NeverAfter(StreamOpened(s, k), SessionClosed(s)))'
               /\ NeverAfter(Datagram(s), SessionClosed(s))'
               /\ NeverAfter(StreamMessage(s), SessionClosed(s))'
    BY <1>c, <2>2 DEF LogInv, SessionEventOrder, SessionClosed, Datagram, StreamMessage,
       StreamOpened, Event
  <2> QED BY <2>3, <2>4 DEF SessionEventOrder
<1> QED BY <1>1, <1>2, <1>3 DEF LogInv

(* Every step of the log keeps the invariant.                                *)
LEMMA NextLogInv ==
  ASSUME LogInv, [Next]_vars
  PROVE  LogInv'
<1>a. LogType /\ KnownIsLived
  BY DEF LogInv
<1>1. CASE UNCHANGED vars
  <2>1. /\ UNCHANGED <<session, stream, queue, seen, dropped>>
    BY <1>1 DEF vars
  <2>2. LogType' /\ Forward
    BY <1>a, <2>1 DEF LogType, Forward, KnownIsLived
  <2>3. (\A f : Known(f)' => Known(f)) /\ (\A e, f : NeverAfter(e, f) => NeverAfter(e, f)')
    BY <2>1 DEF Known, NeverAfter
  <2> QED BY <2>2, <2>3, QuietKeepsInv
<1>2. CASE Poll
  <2>1. UNCHANGED <<session, stream>>
    BY <1>2 DEF Poll, lives
  <2>2. /\ queue' \in Seq(Events) /\ \A f : Known(f)' => Known(f)
        /\ \A e, f : NeverAfter(e, f) => NeverAfter(e, f)'
    BY <1>a, <1>2, PollKeeps
  <2>3. LogType' /\ Forward
    BY <1>a, <2>1, <2>2 DEF LogType, Forward, KnownIsLived
  <2> QED BY <2>2, <2>3, QuietKeepsInv
<1>3. ASSUME Silent PROVE /\ UNCHANGED queue /\ \A f : Known(f)' => Known(f)
                          /\ \A e, f : NeverAfter(e, f) => NeverAfter(e, f)'
  BY <1>3 DEF Silent, Known, NeverAfter
<1>4. ASSUME NEW s \in SessionIds, SessionOpens(s) PROVE LogInv'
  <2> DEFINE g == SessionOpened(s)
  <2>1. /\ session[s] = "unborn" /\ session' = [session EXCEPT ![s] = "open"]
        /\ UNCHANGED stream /\ Offer(g)
    BY <1>4 DEF SessionOpens, SessionStep
  <2>2. g \in Events
    BY DEF SessionOpened, Event, Events, Kinds
  <2>3. queue' \in Seq(Events)
    BY <1>a, <2>1, <2>2, OfferKnows
  <2>4. LogType' /\ Forward
    BY <1>a, <2>1, <2>3 DEF LogType, Forward, KnownIsLived
  <2>5. Due(g)
    BY <1>a, <2>1 DEF LogType, Due, Event, SessionOpened, SessionClosed, Datagram,
       StreamMessage, StreamOpened, StreamData, StreamClosed
  <2> QED BY <2>1, <2>2, <2>4, <2>5, DueKeepsInv
<1>5. ASSUME NEW s \in SessionIds, SessionSays(s) PROVE LogInv'
  <2>1. PICK g \in {Datagram(s), StreamMessage(s)} : Offer(g)
    BY <1>5 DEF SessionSays
  <2>2. session[s] = "open" /\ UNCHANGED <<session, stream>>
    BY <1>5 DEF SessionSays, lives
  <2>3. g \in Events
    BY DEF Datagram, StreamMessage, Event, Events, Kinds
  <2>4. queue' \in Seq(Events)
    BY <1>a, <2>1, <2>3, OfferKnows
  <2>5. LogType' /\ Forward
    BY <1>a, <2>2, <2>4 DEF LogType, Forward, KnownIsLived
  <2>6. Due(g)
    BY <1>a, <2>1, <2>2 DEF LogType, Due, Event, SessionOpened, SessionClosed, Datagram,
       StreamMessage, StreamOpened, StreamData, StreamClosed
  <2> QED BY <2>1, <2>3, <2>5, <2>6, DueKeepsInv
<1>6. ASSUME NEW s \in SessionIds, SessionEnds(s) PROVE LogInv'
  <2> DEFINE g == SessionClosed(s)
  <2>1. /\ session[s] = "open" /\ session' = [session EXCEPT ![s] = "over"]
        /\ UNCHANGED stream /\ Offer(g)
    BY <1>6 DEF SessionEnds, SessionStep
  <2>2. g \in Events
    BY DEF SessionClosed, Event, Events, Kinds
  <2>3. queue' \in Seq(Events)
    BY <1>a, <2>1, <2>2, OfferKnows
  <2>4. LogType' /\ Forward
    BY <1>a, <2>1, <2>3 DEF LogType, Forward, KnownIsLived
  <2>5. Due(g)
    BY <1>a, <2>1 DEF LogType, Due, Event, SessionOpened, SessionClosed, Datagram,
       StreamMessage, StreamOpened, StreamData, StreamClosed
  <2> QED BY <2>1, <2>2, <2>4, <2>5, DueKeepsInv
<1>7. ASSUME NEW s \in SessionIds, NEW k \in StreamIds, NEW from, NEW to, from # to,
             StreamStep(s, k, from, to), UNCHANGED session, session[s] # "unborn",
             <<from, to>> \in {<<"unborn", "open">>, <<"open", "read">>, <<"read", "over">>}
      PROVE  /\ stream' \in [SessionIds -> [StreamIds -> {"unborn", "open", "read", "over"}]]
             /\ Forward /\ stream'[s][k] = to
  BY <1>a, <1>7 DEF StreamStep, LogType, Forward, KnownIsLived
<1>8. ASSUME NEW s \in SessionIds, NEW k \in StreamIds, StreamOpens(s, k) PROVE LogInv'
  <2> DEFINE g == StreamOpened(s, k)
  <2>1. /\ StreamStep(s, k, "unborn", "open") /\ UNCHANGED session /\ session[s] # "unborn"
    BY <1>8 DEF StreamOpens
  <2>2. Forward /\ (queue' \in Seq(Events) => LogType')
    BY <1>a, <1>7, <2>1 DEF LogType
  <2>3. CASE Silent
    BY <1>a, <1>3, <2>2, <2>3, QuietKeepsInv DEF LogType
  <2>4. CASE session[s] = "open" /\ Offer(g)
    <3>1. g \in Events
      BY DEF StreamOpened, Event, Events, Kinds
    <3>2. LogType'
      BY <1>a, <2>2, <2>4, <3>1, OfferKnows
    <3>3. Due(g)
      BY <1>a, <2>1, <2>4 DEF LogType, StreamStep, Due, Event, SessionOpened, SessionClosed,
         Datagram, StreamMessage, StreamOpened, StreamData, StreamClosed
    <3> QED BY <2>2, <2>4, <3>1, <3>2, <3>3, DueKeepsInv
  <2> QED BY <1>8, <2>3, <2>4 DEF StreamOpens
<1>9. ASSUME NEW s \in SessionIds, NEW k \in StreamIds, StreamReads(s, k) PROVE LogInv'
  <2> DEFINE g == StreamData(s, k)
  <2>1. /\ StreamStep(s, k, "open", "read") /\ UNCHANGED session /\ session[s] # "unborn"
    BY <1>a, <1>9 DEF StreamReads, StreamStep, KnownIsLived
  <2>2. Forward /\ stream'[s][k] = "read" /\ (queue' \in Seq(Events) => LogType')
    BY <1>a, <1>7, <2>1 DEF LogType
  <2>3. CASE Silent
    BY <1>a, <1>3, <2>2, <2>3, QuietKeepsInv DEF LogType
  <2>4. CASE Offer(g)
    <3>1. g \in Events
      BY DEF StreamData, Event, Events, Kinds
    <3>2. LogType'
      BY <1>a, <2>2, <2>4, <3>1, OfferKnows
    <3>3. Due(g)
      BY <1>a, <2>1, <2>2 DEF LogType, StreamStep, Due, Event, SessionOpened, SessionClosed,
         Datagram, StreamMessage, StreamOpened, StreamData, StreamClosed
    <3> QED BY <2>2, <2>4, <3>1, <3>2, <3>3, DueKeepsInv
  <2> QED BY <1>9, <2>3, <2>4 DEF StreamReads
<1>10. ASSUME NEW s \in SessionIds, NEW k \in StreamIds, StreamEnds(s, k) PROVE LogInv'
  <2> DEFINE g == StreamClosed(s, k)
  <2>1. /\ StreamStep(s, k, "read", "over") /\ UNCHANGED session /\ session[s] # "unborn"
        /\ Offer(g)
    BY <1>a, <1>10 DEF StreamEnds, StreamStep, KnownIsLived
  <2>2. Forward /\ stream'[s][k] = "over" /\ (queue' \in Seq(Events) => LogType')
    BY <1>a, <1>7, <2>1 DEF LogType
  <2>3. g \in Events
    BY DEF StreamClosed, Event, Events, Kinds
  <2>4. LogType'
    BY <1>a, <2>1, <2>2, <2>3, OfferKnows
  <2>5. Due(g)
    BY <1>a, <2>1, <2>2 DEF LogType, StreamStep, Due, Event, SessionOpened, SessionClosed,
       Datagram, StreamMessage, StreamOpened, StreamData, StreamClosed
  <2> QED BY <2>1, <2>2, <2>3, <2>4, <2>5, DueKeepsInv
<1> QED BY <1>1, <1>2, <1>4, <1>5, <1>6, <1>8, <1>9, <1>10 DEF Next

(* A log starts with nothing known.                                          *)
LEMMA InitLogInv == Init => LogInv
<1> SUFFICES ASSUME Init PROVE LogInv
  OBVIOUS
<1>1. LogType
  BY DEF Init, LogType
<1>2. \A e : ~Known(e)
  BY DEF Init, Known
<1>3. KnownIsLived
  BY <1>2 DEF Init, KnownIsLived
<1>4. \A e, f : NeverAfter(e, f)
  BY DEF Init, NeverAfter
<1>5. StreamEventOrder /\ SessionEventOrder
  BY <1>4 DEF StreamEventOrder, SessionEventOrder
<1> QED BY <1>1, <1>3, <1>5 DEF LogInv

(* A caller that reads a log sees the events of every stream and of every    *)
(* session in the order of their lives, whatever is lost to a full queue.    *)
THEOREM LogIsOrdered == Spec => [](StreamEventOrder /\ SessionEventOrder)
<1>1. LogInv /\ [Next]_vars => LogInv'
  BY NextLogInv
<1>2. LogInv => StreamEventOrder /\ SessionEventOrder
  BY DEF LogInv
<1> QED BY InitLogInv, <1>1, <1>2, PTL DEF Spec
=============================================================================
