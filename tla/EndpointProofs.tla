--------------------------- MODULE EndpointProofs ---------------------------
(***************************************************************************)
(* What TLAPS proves of module Endpoint, for every number of connections,  *)
(* streams and callers, every queue depth and every pattern of traffic.    *)
(***************************************************************************)
EXTENDS Endpoint, TLAPS

USE DEF ids, peerVars, halves, maps, ffi, history

(* emit keeps the queue a queue of events no longer than Depth.              *)
LEMMA EmitType ==
  ASSUME TypeOK, NEW e \in Events, Emit(e)
  PROVE  /\ queue' \in Seq(Events) /\ Len(queue') <= Depth
         /\ dropped' \subseteq Events
<1> USE EndpointAssumption DEF TypeOK, Emit
<1>1. CASE Len(queue) < Depth
  <2>1. queue' = Append(queue, e) /\ dropped' = dropped
    BY <1>1
  <2> QED BY <1>1, <2>1
<1>2. CASE Len(queue) >= Depth
  <2>1. queue' = queue /\ dropped' = dropped \cup {e}
    BY <1>2
  <2> QED BY <2>1
<1> QED BY <1>1, <1>2

(* The events of a session are events.                                       *)
LEMMA SessionEventType ==
  ASSUME NEW s \in SessionIds
  PROVE  /\ SessionOpened(s) \in Events /\ SessionClosed(s) \in Events
         /\ Datagram(s) \in Events /\ StreamMessage(s) \in Events
BY DEF SessionOpened, SessionClosed, Datagram, StreamMessage, Event, Events, Kinds

(* The events of a stream are events.                                        *)
LEMMA StreamEventType ==
  ASSUME NEW s \in SessionIds, NEW k \in StreamIds
  PROVE  /\ StreamOpened(s, k) \in Events /\ StreamData(s, k) \in Events
         /\ StreamClosed(s, k) \in Events
BY DEF StreamOpened, StreamData, StreamClosed, Event, Events, Kinds

(* A lookup leaves a well-formed call.                                       *)
LEMMA LookedType ==
  ASSUME NEW op \in {"send", "streamSend", "streamClose", "openStream"},
         NEW s \in SessionIds, NEW k \in StreamIds \cup {None},
         NEW c \in Conns \cup {None}
  PROVE  Looked(op, s, k, c) \in Calls
BY DEF Looked, Idle, Calls, Statuses

(* So does a return.                                                        *)
LEMMA IdleType ==
  ASSUME NEW late \in BOOLEAN, NEW status \in Statuses \cup {None}
  PROVE  Idle(late, status) \in Calls
BY DEF Idle, Calls

(* Whatever the connection is, a write is answered by a status.              *)
LEMMA AnswersAreStatuses ==
  \A c, k : /\ \A status \in ConnAnswers(c) : status \in Statuses
            /\ \A status \in HalfAnswers(c, k) : status \in Statuses
<1> TAKE c, k
<1>1. CASE conn[c] = "closed"
  BY <1>1 DEF ConnAnswers, HalfAnswers, Statuses
<1>2. CASE conn[c] = "ended"
  BY <1>2 DEF ConnAnswers, HalfAnswers, Statuses
<1>3. CASE conn[c] \notin {"closed", "ended"}
  BY <1>3 DEF ConnAnswers, HalfAnswers, Statuses
<1> QED BY <1>1, <1>2, <1>3

(* emit reports nothing but its event.                                       *)
LEMMA EmitReports ==
  ASSUME TypeOK, NEW e, Emit(e), UNCHANGED seen, NEW f, Reported(f)'
  PROVE  Reported(f) \/ f = e
<1> USE EndpointAssumption
<1>1. CASE queue' = queue
  BY <1>1 DEF Reported
<1>2. CASE queue' = Append(queue, e)
  <2>1. queue \in Seq(Events)
    BY DEF TypeOK
  <2>2. Len(queue') = Len(queue) + 1
    BY <1>2, <2>1
  <2>3. \A i \in 1..Len(queue') : queue'[i] = f => f = e \/ (i \in 1..Len(queue) /\ queue[i] = f)
    <3> TAKE i \in 1..Len(queue')
    <3>1. CASE i = Len(queue) + 1
      <4>1. queue \in Seq(Events \cup {e}) /\ e \in Events \cup {e}
        BY <2>1
      <4>2. Append(queue, e)[Len(queue) + 1] = e
        BY <4>1
      <4> QED BY <1>2, <3>1, <4>2
    <3>2. CASE i \in 1..Len(queue)
      BY <1>2, <2>1, <3>2
    <3>3. i = Len(queue) + 1 \/ i \in 1..Len(queue)
      BY <2>1, <2>2
    <3> QED BY <3>1, <3>2, <3>3
  <2> QED BY <2>3 DEF Reported
<1> QED BY <1>1, <1>2 DEF Emit

(* A poll moves an event from the queue to the caller and reports no other.  *)
LEMMA PollReports ==
  ASSUME TypeOK, NextEvent, NEW e, Reported(e)'
  PROVE  Reported(e)
<1>1. queue \in Seq(Events) /\ queue # <<>>
  BY DEF NextEvent, TypeOK
<1>2. queue' = Tail(queue) /\ seen' = seen \cup {Head(queue)}
  BY DEF NextEvent
<1>3. /\ Len(queue) \in Nat /\ Len(queue) > 0 /\ Head(queue) = queue[1]
      /\ Len(queue') = Len(queue) - 1
      /\ \A i \in 1..Len(queue') : queue'[i] = queue[i + 1]
  BY <1>1, <1>2
<1>4. CASE e \in seen
  BY <1>4 DEF Reported
<1>5. CASE e = Head(queue)
  BY <1>3, <1>5 DEF Reported
<1>6. ASSUME NEW i \in 1..Len(queue'), queue'[i] = e PROVE Reported(e)
  <2>1. i + 1 \in 1..Len(queue) /\ queue[i + 1] = e
    BY <1>3, <1>6
  <2> QED BY <2>1 DEF Reported
<1> QED BY <1>2, <1>4, <1>5, <1>6 DEF Reported

(* Tasks that took a session id.                                             *)
Numbered == {"registered", "serving", "readingUni", "announcing", "returned",
             "forgotten", "swept", "done"}

(* Ids are given in order, once each, to the tasks past Register.            *)
IdsUnique ==
  /\ \A c \in Conns : id[c] # 0 <=> task[c] \in Numbered
  /\ \A c \in Conns : id[c] < nextSession
  /\ \A c, d \in Conns : id[c] = id[d] /\ id[c] # 0 => c = d

(* A stream is read under the id of a session.                               *)
ReadersNumbered ==
  \A c \in Conns, k \in StreamIds :
    reader[c][k] \in {"accepted", "reading", "closing", "done"} => id[c] # 0

(* The maps hold a connection under its own id only.                         *)
MapsOwn ==
  /\ \A s \in SessionIds : sessions[s] # None => id[sessions[s]] = s
  /\ \A s \in SessionIds, k \in StreamIds :
       streams[s][k] # None => id[streams[s][k]] = s

(* So does a call under way, whatever happened since its lookup.             *)
CallsOwn ==
  \A t \in Callers : ~Free(t) =>
    /\ call[t].conn \in Conns /\ call[t].session \in SessionIds
    /\ id[call[t].conn] = call[t].session
    /\ call[t].op \in {"streamSend", "streamClose"} => call[t].stream \in StreamIds

Ownership == IdsUnique /\ ReadersNumbered /\ MapsOwn /\ CallsOwn

(* The inductive invariant of both roles.                                    *)
Inv == TypeOK /\ Ownership

(* Before anything happened no task has an id and no call is under way.      *)
LEMMA InitInv == Init => Inv
BY EndpointAssumption DEF Init, Inv, TypeOK, Ownership, Free, Idle, Calls, TaskStates,
   ConnStates, ReaderStates, SessionIds, Numbered, IdsUnique, ReadersNumbered, MapsOwn,
   CallsOwn

(* The counter hands out a legal id.                                         *)
LEMMA TakeSessionType ==
  ASSUME TypeOK, NEW c \in Conns, TakeSession(c)
  PROVE  /\ nextSession \in SessionIds
         /\ id' \in [Conns -> 0..MaxSession] /\ nextSession' \in 1..(MaxSession + 1)
         /\ sessions' \in [SessionIds -> Conns \cup {None}]
<1>1. nextSession \in SessionIds
  BY EndpointAssumption DEF TypeOK, TakeSession, SessionIds
<1>2. nextSession' \in 1..(MaxSession + 1)
  BY EndpointAssumption DEF TypeOK, TakeSession
<1>3. nextSession \in 0..MaxSession
  BY <1>1, EndpointAssumption DEF SessionIds
<1> QED BY <1>1, <1>2, <1>3 DEF TypeOK, TakeSession

(* A task past Register, and a reader, name a session.                       *)
LEMMA NumberedId ==
  ASSUME TypeOK, Ownership, NEW c \in Conns
  PROVE  /\ task[c] \in Numbered => id[c] \in SessionIds
         /\ \A k \in StreamIds :
              reader[c][k] \in {"accepted", "reading", "closing", "done"} =>
                id[c] \in SessionIds
BY EndpointAssumption DEF TypeOK, Ownership, IdsUnique, ReadersNumbered, SessionIds

(* Every step keeps the types.                                               *)
LEMMA NextType == Inv /\ [Next]_vars => TypeOK'
<1> SUFFICES ASSUME TypeOK, Ownership, [Next]_vars PROVE TypeOK'
  BY DEF Inv
<1> USE EndpointAssumption
<1>1. CASE UNCHANGED vars
  BY <1>1 DEF vars, TypeOK
<1>2. CASE NextEvent
  BY <1>2 DEF NextEvent, TypeOK
<1>3. CASE DropCloses \/ RuntimeGoes
  BY <1>3 DEF DropCloses, RuntimeGoes, TypeOK, ConnStates
<1>4. ASSUME NEW c \in Conns, Network(c) PROVE TypeOK'
  <2>1. CASE PeerCloses(c) \/ PeerVanishes(c) \/ IdleTimeout(c) \/ ConnCloses(c)
    <3>1. /\ \E to \in ConnStates : conn' = [conn EXCEPT ![c] = to]
          /\ UNCHANGED <<task, ids, uni, ask, halves, maps, queue, ffi, history>>
      BY <2>1 DEF PeerCloses, PeerVanishes, IdleTimeout, ConnCloses, ConnStep, ConnStates
    <3>2. conn' \in [Conns -> ConnStates]
      BY <3>1 DEF TypeOK
    <3> QED BY <3>1, <3>2 DEF TypeOK
  <2>2. CASE PeerSendsUni(c)
    <3>1. \/ uni' = [uni EXCEPT ![c] = "open"]
          \/ \E how \in {"text", "junk"} : uni' = [uni EXCEPT ![c] = how]
      BY <2>2 DEF PeerSendsUni
    <3>2. uni' \in [Conns -> {"none", "open", "text", "junk"}]
      BY <3>1 DEF TypeOK
    <3>3. UNCHANGED <<task, ids, conn, ask, halves, maps, queue, ffi, history>>
      BY <2>2 DEF PeerSendsUni
    <3> QED BY <3>2, <3>3 DEF TypeOK, ids, halves, maps, ffi, history
  <2>3. ASSUME NEW k \in StreamIds,
               PeerOpensBi(c, k) \/ PeerEndsAsk(c, k) \/ PeerStopsReply(c, k)
        PROVE  TypeOK'
    <3>1. CASE PeerOpensBi(c, k)
      BY <3>1 DEF PeerOpensBi, TypeOK, ReaderStates
    <3>2. CASE PeerEndsAsk(c, k)
      BY <3>2 DEF PeerEndsAsk, TypeOK
    <3>3. CASE PeerStopsReply(c, k)
      BY <3>3 DEF PeerStopsReply, TypeOK
    <3> QED BY <2>3, <3>1, <3>2, <3>3
  <2> QED BY <1>4, <2>1, <2>2, <2>3 DEF Network
<1>5. ASSUME NEW c \in Conns, Proceed(c) PROVE TypeOK'
  <2>1. CASE Register(c)
    <3>1. TakeSession(c) /\ UNCHANGED <<peerVars, halves, streams, queue, ffi, history>>
      BY <2>1 DEF Register
    <3>2. task' \in [Conns -> TaskStates]
      BY <2>1 DEF Register, TaskStep, TypeOK, TaskStates
    <3>3. /\ id' \in [Conns -> 0..MaxSession] /\ nextSession' \in 1..(MaxSession + 1)
          /\ sessions' \in [SessionIds -> Conns \cup {None}]
      BY <3>1, TakeSessionType
    <3> QED BY <3>1, <3>2, <3>3 DEF TypeOK
  <2>2. CASE AnnounceOpened(c)
    <3>1. Emit(SessionOpened(id[c])) /\ UNCHANGED <<ids, peerVars, halves, maps, ffi, seen, taken>>
      BY <2>2 DEF AnnounceOpened
    <3>2. id[c] \in SessionIds
      BY <2>2, NumberedId DEF AnnounceOpened, TaskStep, Numbered
    <3>3. SessionOpened(id[c]) \in Events
      BY <3>2, SessionEventType
    <3>4. queue' \in Seq(Events) /\ Len(queue') <= Depth /\ dropped' \subseteq Events
      BY <3>1, <3>3, EmitType
    <3>5. task' \in [Conns -> TaskStates]
      BY <2>2 DEF AnnounceOpened, TaskStep, TypeOK, TaskStates
    <3> QED BY <3>1, <3>4, <3>5 DEF TypeOK
  <2>3. CASE ReadUni(c)
    <3>1. /\ Emit(StreamMessage(id[c])) \/ NoEmit
          /\ UNCHANGED <<ids, conn, ask, halves, maps, ffi, seen, taken>>
      BY <2>3 DEF ReadUni
    <3>2. id[c] \in SessionIds
      BY <2>3, NumberedId DEF ReadUni, TaskStep, Numbered
    <3>3. StreamMessage(id[c]) \in Events
      BY <3>2, SessionEventType
    <3>4. queue' \in Seq(Events) /\ Len(queue') <= Depth /\ dropped' \subseteq Events
      BY <3>1, <3>3, EmitType DEF NoEmit, TypeOK
    <3>5. task' \in [Conns -> TaskStates]
      BY <2>3 DEF ReadUni, TaskStep, TypeOK, TaskStates
    <3>6. uni' \in [Conns -> {"none", "open", "text", "junk"}]
      BY <2>3 DEF ReadUni, TypeOK
    <3> QED BY <3>1, <3>4, <3>5, <3>6 DEF TypeOK
  <2>4. ASSUME NEW k \in StreamIds, AnnounceStream(c, k) PROVE TypeOK'
    <3>1. Emit(StreamOpened(id[c], k)) /\ UNCHANGED <<ids, peerVars, reply, maps, ffi, seen, taken>>
      BY <2>4 DEF AnnounceStream
    <3>2. id[c] \in SessionIds
      BY <2>4, NumberedId DEF AnnounceStream, TaskStep, Numbered
    <3>3. StreamOpened(id[c], k) \in Events
      BY <3>2, StreamEventType
    <3>4. queue' \in Seq(Events) /\ Len(queue') <= Depth /\ dropped' \subseteq Events
      BY <3>1, <3>3, EmitType
    <3>5. task' \in [Conns -> TaskStates]
      BY <2>4 DEF AnnounceStream, TaskStep, TypeOK, TaskStates
    <3>6. reader' \in [Conns -> [StreamIds -> ReaderStates]]
      BY <2>4 DEF AnnounceStream, TypeOK, ReaderStates
    <3> QED BY <3>1, <3>4, <3>5, <3>6 DEF TypeOK
  <2>5. CASE ForgetSession(c)
    BY <2>5 DEF ForgetSession, TaskStep, TypeOK, TaskStates
  <2>6. CASE ForgetStreams(c)
    BY <2>6 DEF ForgetStreams, TaskStep, TypeOK, TaskStates
  <2>7. CASE AnnounceClosed(c)
    <3>1. Emit(SessionClosed(id[c])) /\ UNCHANGED <<ids, peerVars, halves, maps, ffi, seen, taken>>
      BY <2>7 DEF AnnounceClosed
    <3>2. id[c] \in SessionIds
      BY <2>7, NumberedId DEF AnnounceClosed, TaskStep, Numbered
    <3>3. SessionClosed(id[c]) \in Events
      BY <3>2, SessionEventType
    <3>4. queue' \in Seq(Events) /\ Len(queue') <= Depth /\ dropped' \subseteq Events
      BY <3>1, <3>3, EmitType
    <3>5. task' \in [Conns -> TaskStates]
      BY <2>7 DEF AnnounceClosed, TaskStep, TypeOK, TaskStates
    <3> QED BY <3>1, <3>4, <3>5 DEF TypeOK
  <2> QED BY <1>5, <2>1, <2>2, <2>3, <2>4, <2>5, <2>6, <2>7 DEF Proceed
<1>6. ASSUME NEW c \in Conns, Select(c) PROVE TypeOK'
  <2>1. CASE ReceiveDatagram(c)
    <3>1. Emit(Datagram(id[c])) /\ UNCHANGED <<ids, peerVars, halves, maps, ffi, seen, taken>>
      BY <2>1 DEF ReceiveDatagram
    <3>2. id[c] \in SessionIds
      BY <2>1, NumberedId DEF ReceiveDatagram, TaskStep, Numbered
    <3>3. Datagram(id[c]) \in Events
      BY <3>2, SessionEventType
    <3>4. queue' \in Seq(Events) /\ Len(queue') <= Depth /\ dropped' \subseteq Events
      BY <3>1, <3>3, EmitType
    <3>5. task' \in [Conns -> TaskStates]
      BY <2>1 DEF ReceiveDatagram, TaskStep, TypeOK, TaskStates
    <3> QED BY <3>1, <3>4, <3>5 DEF TypeOK
  <2>2. CASE AcceptUni(c)
    BY <2>2 DEF AcceptUni, TaskStep, TypeOK, TaskStates
  <2>4. CASE LoopReturns(c)
    BY <2>4 DEF LoopReturns, TaskStep, TypeOK, TaskStates
  <2>3. ASSUME NEW k \in StreamIds, AcceptBi(c, k) PROVE TypeOK'
    BY <2>3 DEF AcceptBi, TaskStep, TypeOK, TaskStates, ReaderStates
  <2> QED BY <1>6, <2>1, <2>2, <2>3, <2>4 DEF Select
<1>7. ASSUME NEW c \in Conns, Incoming(c) \/ Reject(c) \/ AcceptRequest(c) PROVE TypeOK'
  <2>1. task' \in [Conns -> TaskStates]
    <3>1. \E to \in {"request", "refused", "accepted"} : task' = [task EXCEPT ![c] = to]
      BY <1>7 DEF Incoming, Reject, AcceptRequest, TaskStep
    <3> QED BY <3>1 DEF TypeOK, TaskStates
  <2>2. conn' \in [Conns -> ConnStates]
    BY <1>7 DEF Incoming, Reject, AcceptRequest, TypeOK, ConnStates
  <2>3. UNCHANGED <<ids, uni, ask, halves, maps, queue, ffi, history>>
    BY <1>7 DEF Incoming, Reject, AcceptRequest
  <2> QED BY <2>1, <2>2, <2>3 DEF TypeOK
<1>8. ASSUME NEW c \in Conns, Connect(c) PROVE TypeOK'
  <2>1. /\ TakeSession(c) /\ Emit(SessionOpened(nextSession))
        /\ UNCHANGED <<uni, ask, halves, streams, ffi, seen, taken>>
    BY <1>8 DEF Connect
  <2>2. /\ nextSession \in SessionIds
        /\ id' \in [Conns -> 0..MaxSession] /\ nextSession' \in 1..(MaxSession + 1)
        /\ sessions' \in [SessionIds -> Conns \cup {None}]
    BY <2>1, TakeSessionType
  <2>3. SessionOpened(nextSession) \in Events
    BY <2>2, SessionEventType
  <2>4. queue' \in Seq(Events) /\ Len(queue') <= Depth /\ dropped' \subseteq Events
    BY <2>1, <2>3, EmitType
  <2>5. task' \in [Conns -> TaskStates] /\ conn' \in [Conns -> ConnStates]
    BY <1>8 DEF Connect, TaskStep, TypeOK, TaskStates, ConnStates
  <2> QED BY <2>1, <2>2, <2>4, <2>5 DEF TypeOK
<1>9. ASSUME NEW c \in Conns, NEW k \in StreamIds, Reader(c, k) PROVE TypeOK'
  <2>1. id[c] \in SessionIds
    BY <1>9, NumberedId DEF Reader, ReadToEnd, ReaderCloses
  <2>2. StreamData(id[c], k) \in Events /\ StreamClosed(id[c], k) \in Events
    BY <2>1, StreamEventType
  <2>3. /\ Emit(StreamData(id[c], k)) \/ Emit(StreamClosed(id[c], k)) \/ NoEmit
        /\ UNCHANGED <<task, ids, peerVars, reply, maps, ffi, seen, taken>>
    BY <1>9 DEF Reader, ReadToEnd, ReaderCloses
  <2>4. queue' \in Seq(Events) /\ Len(queue') <= Depth /\ dropped' \subseteq Events
    BY <2>2, <2>3, EmitType DEF NoEmit, TypeOK
  <2>5. reader' \in [Conns -> [StreamIds -> ReaderStates]]
    <3>1. \E at \in {"closing", "done"} : reader' = [reader EXCEPT ![c][k] = at]
      BY <1>9 DEF Reader, ReadToEnd, ReaderCloses
    <3> QED BY <3>1 DEF TypeOK, ReaderStates
  <2> QED BY <2>3, <2>4, <2>5 DEF TypeOK
<1>10. ASSUME NEW t \in Callers, Caller(t) PROVE TypeOK'
  <2>1. ASSUME NEW s \in SessionIds, SendLookup(t, s) \/ OpenStreamLookup(t, s)
        PROVE  TypeOK'
    <3>1. /\ UNCHANGED <<task, ids, peerVars, halves, maps, queue, phase, history>>
          /\ \E op \in {"send", "openStream"} :
               call' = [call EXCEPT ![t] = Looked(op, s, None, sessions[s])]
      BY <2>1 DEF SendLookup, OpenStreamLookup
    <3>2. sessions[s] \in Conns \cup {None}
      BY DEF TypeOK
    <3>3. \A op \in {"send", "openStream"} : Looked(op, s, None, sessions[s]) \in Calls
      BY <3>2, LookedType
    <3>4. call' \in [Callers -> Calls]
      BY <3>1, <3>3 DEF TypeOK
    <3> QED BY <3>1, <3>4 DEF TypeOK
  <2>2. ASSUME NEW s \in SessionIds, NEW k \in StreamIds, StreamSendLookup(t, s, k)
        PROVE  TypeOK'
    BY <2>2, LookedType DEF StreamSendLookup, TypeOK
  <2>3. ASSUME NEW s \in SessionIds, NEW k \in StreamIds, StreamCloseLookup(t, s, k)
        PROVE  TypeOK'
    BY <2>3, LookedType DEF StreamCloseLookup, TypeOK
  <2>4. CASE Finish(t)
    <3>1. \A status \in Statuses : Idle(call[t].late, status) \in Calls
      BY IdleType DEF TypeOK, Calls
    <3>2. \A status \in Statuses : Return(t, status) => call' \in [Callers -> Calls]
      BY <3>1 DEF Return, TypeOK
    <3>3. CASE SendWrite(t) \/ StreamWrite(t)
      <4>1. \E status \in Statuses : Return(t, status)
        <5>1. \/ \E status \in ConnAnswers(call[t].conn) : Return(t, status)
              \/ \E status \in HalfAnswers(call[t].conn, call[t].stream) : Return(t, status)
          BY <3>3 DEF SendWrite, StreamWrite
        <5> QED BY <5>1, AnswersAreStatuses
      <4>2. UNCHANGED <<task, ids, peerVars, halves, maps, queue, phase, history>>
        BY <3>3 DEF SendWrite, StreamWrite
      <4> QED BY <3>2, <4>1, <4>2 DEF TypeOK
    <3>4. CASE LockHalf(t)
      <4>1. [call[t] EXCEPT !.stage = "locked"] \in Calls
        <5>1. call[t] \in Calls
          BY DEF TypeOK
        <5> QED BY ONLY <5>1 DEF Calls
      <4>2. call' \in [Callers -> Calls]
        BY <3>4, <4>1 DEF LockHalf, TypeOK
      <4> QED BY <3>4, <4>2 DEF LockHalf, TypeOK
    <3>5. CASE StreamFinish(t)
      <4>1. call[t].conn \in Conns /\ call[t].stream \in StreamIds
        BY <3>5 DEF StreamFinish, Ownership, CallsOwn, Free
      <4>2. \E status \in Statuses : Return(t, status)
        <5>1. \E status \in HalfAnswers(call[t].conn, call[t].stream) : Return(t, status)
          BY <3>5 DEF StreamFinish
        <5> QED BY <5>1, AnswersAreStatuses
      <4>3. \/ reply' = reply
            \/ reply' = [reply EXCEPT ![call[t].conn][call[t].stream] = "finished"]
        BY <3>5 DEF StreamFinish
      <4>4. reply' \in [Conns -> [StreamIds -> {"open", "stopped", "finished"}]]
        <5>1. CASE reply' = reply
          BY <5>1 DEF TypeOK
        <5>2. CASE reply' = [reply EXCEPT ![call[t].conn][call[t].stream] = "finished"]
          BY <4>1, <5>2 DEF TypeOK
        <5> QED BY <4>3, <5>1, <5>2
      <4>5. UNCHANGED <<task, ids, peerVars, reader, maps, queue, phase, history>>
        BY <3>5 DEF StreamFinish
      <4> QED BY <3>2, <4>2, <4>4, <4>5 DEF TypeOK
    <3>6. CASE OpenStreamFinish(t)
      <4>1. call[t].conn \in Conns /\ call[t].session \in SessionIds
        BY <3>6 DEF OpenStreamFinish, Ownership, CallsOwn, Free
      <4>2. UNCHANGED <<task, ids, peerVars, reply, sessions, queue, phase, history>>
        BY <3>6 DEF OpenStreamFinish
      <4>3. \E status \in Statuses : Return(t, status)
        BY <3>6 DEF OpenStreamFinish, Statuses
      <4>4. \/ UNCHANGED <<reader, streams>>
            \/ \E k \in StreamIds :
                 /\ reader' = [reader EXCEPT ![call[t].conn][k] = "reading"]
                 /\ streams' = [streams EXCEPT ![call[t].session][k] = call[t].conn]
        BY <3>6 DEF OpenStreamFinish
      <4>5. /\ reader' \in [Conns -> [StreamIds -> ReaderStates]]
            /\ streams' \in [SessionIds -> [StreamIds -> Conns \cup {None}]]
        <5>1. CASE UNCHANGED <<reader, streams>>
          BY <5>1 DEF TypeOK
        <5>2. ASSUME NEW k \in StreamIds,
                     reader' = [reader EXCEPT ![call[t].conn][k] = "reading"],
                     streams' = [streams EXCEPT ![call[t].session][k] = call[t].conn]
              PROVE  /\ reader' \in [Conns -> [StreamIds -> ReaderStates]]
                     /\ streams' \in [SessionIds -> [StreamIds -> Conns \cup {None}]]
          <6>1. reader' \in [Conns -> [StreamIds -> ReaderStates]]
            BY <4>1, <5>2 DEF TypeOK, ReaderStates
          <6>2. streams' \in [SessionIds -> [StreamIds -> Conns \cup {None}]]
            BY <4>1, <5>2 DEF TypeOK
          <6> QED BY <6>1, <6>2
        <5> QED BY <4>4, <5>1, <5>2
      <4> QED BY <3>2, <4>2, <4>3, <4>5 DEF TypeOK
    <3> QED BY <2>4, <3>3, <3>4, <3>5, <3>6 DEF Finish
  <2> QED BY <1>10, <2>1, <2>2, <2>3, <2>4 DEF Caller
<1> QED BY <1>1, <1>2, <1>3, <1>4, <1>5, <1>6, <1>7, <1>8, <1>9, <1>10 DEF Next

(* No task, reader or peer changes what a caller is doing.                   *)
LEMMA OnlyCallersCall ==
  ASSUME [Next]_vars
  PROVE  UNCHANGED call \/ \E t \in Callers : Caller(t)
<1>1. ASSUME NEW c \in Conns,
             \/ Network(c) \/ Proceed(c) \/ Select(c)
             \/ Incoming(c) \/ Reject(c) \/ AcceptRequest(c) \/ Connect(c)
             \/ \E k \in StreamIds : Reader(c, k)
      PROVE  UNCHANGED call
  <2>1. CASE Network(c)
    BY <2>1 DEF Network, PeerCloses, PeerVanishes, IdleTimeout, ConnCloses, ConnStep,
       PeerSendsUni, PeerOpensBi, PeerEndsAsk, PeerStopsReply
  <2>2. CASE Proceed(c)
    BY <2>2 DEF Proceed, Register, AnnounceOpened, ReadUni, AnnounceStream, ForgetSession,
       ForgetStreams, AnnounceClosed
  <2>3. CASE Select(c)
    BY <2>3 DEF Select, ReceiveDatagram, AcceptUni, LoopReturns, AcceptBi
  <2>4. CASE Incoming(c) \/ Reject(c) \/ AcceptRequest(c) \/ Connect(c)
    BY <2>4 DEF Incoming, Reject, AcceptRequest, Connect
  <2>5. CASE \E k \in StreamIds : Reader(c, k)
    BY <2>5 DEF Reader, ReadToEnd, ReaderCloses
  <2> QED BY <1>1, <2>1, <2>2, <2>3, <2>4, <2>5
<1> QED BY <1>1 DEF Next, NextEvent, DropCloses, RuntimeGoes, vars

-----------------------------------------------------------------------------
(* Ownership *)

(* A task that moves on within the session it has, or before it has one,     *)
(* leaves the ids alone.                                                     *)
LEMMA MoveKeepsIds ==
  ASSUME TypeOK, IdsUnique, NEW c \in Conns, NEW from, NEW to, TaskStep(c, from, to),
         from \in Numbered <=> to \in Numbered, UNCHANGED ids
  PROVE  IdsUnique'
BY DEF TypeOK, IdsUnique, TaskStep

(* Taking the next number gives it to nobody else, and the new entry of the  *)
(* session map is under that number.                                         *)
LEMMA TakeKeepsOwnership ==
  ASSUME TypeOK, Ownership, NEW c \in Conns, TakeSession(c),
         task[c] \notin Numbered, NEW to \in Numbered, task' = [task EXCEPT ![c] = to],
         UNCHANGED <<reader, streams, call>>
  PROVE  Ownership'
<1> USE EndpointAssumption
<1>1. /\ id' = [id EXCEPT ![c] = nextSession] /\ nextSession' = nextSession + 1
      /\ sessions' = [sessions EXCEPT ![nextSession] = c]
      /\ nextSession \in SessionIds
  BY TakeSessionType DEF TakeSession
<1>2. id[c] = 0
  BY DEF Ownership, IdsUnique, TypeOK
<1>3. \A d \in Conns : id[d] \in Nat /\ nextSession \in Nat \ {0} /\ id[d] # nextSession
  BY DEF Ownership, IdsUnique, TypeOK
<1>4. \A d \in Conns : id[d] # 0 => id'[d] = id[d]
  BY <1>1, <1>2 DEF TypeOK
<1>5. IdsUnique'
  <2>1. (\A d \in Conns : id[d] # 0 <=> task[d] \in Numbered)'
    BY <1>1, <1>3 DEF Ownership, IdsUnique, TypeOK
  <2>2. (\A d \in Conns : id[d] < nextSession)'
    BY <1>1, <1>3 DEF Ownership, IdsUnique, TypeOK
  <2>3. (\A d, e \in Conns : id[d] = id[e] /\ id[d] # 0 => d = e)'
    BY <1>1, <1>3 DEF Ownership, IdsUnique, TypeOK
  <2> QED BY <2>1, <2>2, <2>3 DEF IdsUnique
<1>6. ReadersNumbered'
  BY <1>1, <1>3 DEF Ownership, ReadersNumbered, TypeOK
<1>7. MapsOwn'
  <2>1. (\A s \in SessionIds : sessions[s] # None => id[sessions[s]] = s)'
    BY <1>1, <1>4 DEF Ownership, MapsOwn, TypeOK, SessionIds
  <2>2. (\A s \in SessionIds, k \in StreamIds :
           streams[s][k] # None => id[streams[s][k]] = s)'
    BY <1>4 DEF Ownership, MapsOwn, TypeOK, SessionIds
  <2> QED BY <2>1, <2>2 DEF MapsOwn
<1>8. CallsOwn'
  BY <1>4 DEF Ownership, CallsOwn, Free, SessionIds
<1> QED BY <1>5, <1>6, <1>7, <1>8 DEF Ownership

(* A caller that looks up c under s names a session by its own connection.   *)
LEMMA LookupKeepsCalls ==
  ASSUME TypeOK, CallsOwn, UNCHANGED id, NEW t \in Callers,
         NEW op \in {"send", "streamSend", "streamClose", "openStream"},
         NEW s \in SessionIds, NEW k \in StreamIds \cup {None},
         op \in {"streamSend", "streamClose"} => k \in StreamIds,
         NEW c \in Conns \cup {None}, c # None => id[c] = s,
         call' = [call EXCEPT ![t] = Looked(op, s, k, c)]
  PROVE  CallsOwn'
<1> SUFFICES ASSUME NEW u \in Callers, ~Free(u)'
             PROVE  /\ call'[u].conn \in Conns /\ call'[u].session \in SessionIds
                    /\ id[call'[u].conn] = call'[u].session
                    /\ call'[u].op \in {"streamSend", "streamClose"} =>
                         call'[u].stream \in StreamIds
  BY DEF CallsOwn
<1>1. CASE u # t
  BY <1>1 DEF CallsOwn, Free, TypeOK
<1>2. CASE u = t
  <2>1. call'[t] = Looked(op, s, k, c)
    BY DEF TypeOK
  <2>2. c # None
    BY <1>2, <2>1 DEF Looked, Idle, Free
  <2> QED BY <1>2, <2>1, <2>2 DEF Looked
<1> QED BY <1>1, <1>2

(* A call that returns is no longer under way.                               *)
LEMMA ReturnKeepsCalls ==
  ASSUME TypeOK, CallsOwn, UNCHANGED id, NEW t \in Callers, NEW status, Return(t, status)
  PROVE  CallsOwn'
BY DEF TypeOK, CallsOwn, Return, Idle, Free

(* Every step of tasks, readers, callers and network keeps Ownership.        *)
LEMMA NextOwnership == Inv /\ [Next]_vars => Ownership'
<1> SUFFICES ASSUME TypeOK, Ownership, [Next]_vars PROVE Ownership'
  BY DEF Inv
<1> USE EndpointAssumption
<1> DEFINE owned == <<task, id, nextSession, reader, sessions, streams, call>>
<1>1. UNCHANGED owned => Ownership'
  BY DEF Ownership, IdsUnique, ReadersNumbered, MapsOwn, CallsOwn, Free
<1>2. UNCHANGED <<id, call>> => CallsOwn'
  BY DEF Ownership, CallsOwn, Free
<1>3. UNCHANGED <<id, sessions, streams>> => MapsOwn'
  BY DEF Ownership, MapsOwn
<1>4. UNCHANGED <<task, id, nextSession>> => IdsUnique'
  BY DEF Ownership, IdsUnique
<1>5. UNCHANGED <<id, reader>> => ReadersNumbered'
  BY DEF Ownership, ReadersNumbered
<1>6. CASE UNCHANGED vars \/ NextEvent
  BY <1>1, <1>6 DEF vars, NextEvent
<1>7. CASE DropCloses \/ RuntimeGoes
  <2>1. MapsOwn'
    BY <1>7 DEF DropCloses, RuntimeGoes, Ownership, MapsOwn
  <2> QED BY <1>2, <1>4, <1>5, <1>7, <2>1 DEF DropCloses, RuntimeGoes, Ownership
<1>8. ASSUME NEW c \in Conns, Network(c) PROVE Ownership'
  <2>1. CASE UNCHANGED owned
    BY <1>1, <2>1
  <2>2. ASSUME NEW k \in StreamIds, PeerOpensBi(c, k) PROVE Ownership'
    <3>1. ReadersNumbered'
      BY <2>2 DEF PeerOpensBi, Ownership, ReadersNumbered, TypeOK
    <3> QED BY <1>2, <1>3, <1>4, <2>2, <3>1 DEF PeerOpensBi, Ownership
  <2> QED BY <1>8, <2>1, <2>2 DEF Network, PeerCloses, PeerVanishes, IdleTimeout,
          ConnCloses, ConnStep, PeerSendsUni, PeerEndsAsk, PeerStopsReply
<1>9. ASSUME NEW c \in Conns, Proceed(c) PROVE Ownership'
  <2>1. CASE Register(c)
    BY <2>1, TakeKeepsOwnership DEF Register, TaskStep, Numbered
  <2>2. CASE AnnounceOpened(c) \/ ReadUni(c) \/ AnnounceClosed(c)
    <3>1. IdsUnique'
      BY <2>2, MoveKeepsIds DEF AnnounceOpened, ReadUni, AnnounceClosed, Numbered, Ownership
    <3> QED BY <1>2, <1>3, <1>5, <2>2, <3>1 DEF AnnounceOpened, ReadUni, AnnounceClosed,
            Ownership
  <2>3. ASSUME NEW k \in StreamIds, AnnounceStream(c, k) PROVE Ownership'
    <3>1. IdsUnique'
      BY <2>3, MoveKeepsIds DEF AnnounceStream, Numbered, Ownership
    <3>2. ReadersNumbered'
      BY <2>3 DEF AnnounceStream, Ownership, ReadersNumbered, TypeOK
    <3> QED BY <1>2, <1>3, <2>3, <3>1, <3>2 DEF AnnounceStream, Ownership
  <2>4. CASE ForgetSession(c)
    <3>1. IdsUnique'
      BY <2>4, MoveKeepsIds DEF ForgetSession, Numbered, Ownership
    <3>2. MapsOwn'
      BY <2>4 DEF ForgetSession, Ownership, MapsOwn, TypeOK
    <3> QED BY <1>2, <1>5, <2>4, <3>1, <3>2 DEF ForgetSession, Ownership
  <2>5. CASE ForgetStreams(c)
    <3>1. IdsUnique'
      BY <2>5, MoveKeepsIds DEF ForgetStreams, Numbered, Ownership
    <3>2. MapsOwn'
      BY <2>5 DEF ForgetStreams, Ownership, MapsOwn, TypeOK
    <3> QED BY <1>2, <1>5, <2>5, <3>1, <3>2 DEF ForgetStreams, Ownership
  <2> QED BY <1>9, <2>1, <2>2, <2>3, <2>4, <2>5 DEF Proceed
<1>10. ASSUME NEW c \in Conns, Select(c) PROVE Ownership'
  <2>1. CASE ReceiveDatagram(c) \/ AcceptUni(c) \/ LoopReturns(c)
    <3>1. IdsUnique'
      BY <2>1, MoveKeepsIds DEF ReceiveDatagram, AcceptUni, LoopReturns, Numbered, Ownership
    <3> QED BY <1>2, <1>3, <1>5, <2>1, <3>1 DEF ReceiveDatagram, AcceptUni, LoopReturns,
            Ownership
  <2>2. ASSUME NEW k \in StreamIds, AcceptBi(c, k) PROVE Ownership'
    <3>1. id[c] \in SessionIds
      BY <2>2, NumberedId DEF AcceptBi, TaskStep, Numbered
    <3>2. id[c] # 0
      BY <3>1 DEF SessionIds
    <3>3. IdsUnique'
      BY <2>2, MoveKeepsIds DEF AcceptBi, Numbered, Ownership
    <3>4. ReadersNumbered'
      BY <2>2, <3>2 DEF AcceptBi, Ownership, ReadersNumbered, TypeOK
    <3>5. MapsOwn'
      BY <2>2, <3>1 DEF AcceptBi, Ownership, MapsOwn, TypeOK
    <3> QED BY <1>2, <2>2, <3>3, <3>4, <3>5 DEF AcceptBi, Ownership
  <2> QED BY <1>10, <2>1, <2>2 DEF Select
<1>11. ASSUME NEW c \in Conns, Incoming(c) \/ Reject(c) \/ AcceptRequest(c) PROVE Ownership'
  <2>1. IdsUnique'
    BY <1>11, MoveKeepsIds DEF Incoming, Reject, AcceptRequest, Numbered, Ownership
  <2> QED BY <1>2, <1>3, <1>5, <1>11, <2>1 DEF Incoming, Reject, AcceptRequest, Ownership
<1>12. ASSUME NEW c \in Conns, Connect(c) PROVE Ownership'
  BY <1>12, TakeKeepsOwnership DEF Connect, TaskStep, Numbered
<1>13. ASSUME NEW c \in Conns, NEW k \in StreamIds, Reader(c, k) PROVE Ownership'
  <2>1. ReadersNumbered'
    BY <1>13 DEF Reader, ReadToEnd, ReaderCloses, Ownership, ReadersNumbered, TypeOK
  <2> QED BY <1>2, <1>3, <1>4, <1>13, <2>1 DEF Reader, ReadToEnd, ReaderCloses, Ownership
<1>14. ASSUME NEW t \in Callers, Caller(t) PROVE Ownership'
  <2>1. ASSUME NEW s \in SessionIds, SendLookup(t, s) \/ OpenStreamLookup(t, s)
        PROVE  Ownership'
    <3>1. sessions[s] \in Conns \cup {None} /\ (sessions[s] # None => id[sessions[s]] = s)
      BY DEF TypeOK, Ownership, MapsOwn
    <3>2. CallsOwn'
      BY <2>1, <3>1, LookupKeepsCalls DEF SendLookup, OpenStreamLookup, Ownership
    <3> QED BY <1>3, <1>4, <1>5, <2>1, <3>2 DEF SendLookup, OpenStreamLookup, Ownership
  <2>2. ASSUME NEW s \in SessionIds, NEW k \in StreamIds,
               StreamSendLookup(t, s, k) \/ StreamCloseLookup(t, s, k)
        PROVE  Ownership'
    <3>1. /\ streams[s][k] \in Conns \cup {None}
          /\ streams[s][k] # None => id[streams[s][k]] = s
      BY DEF TypeOK, Ownership, MapsOwn
    <3>2. CallsOwn'
      BY <2>2, <3>1, LookupKeepsCalls DEF StreamSendLookup, StreamCloseLookup, Ownership
    <3>3. MapsOwn'
      <4>1. UNCHANGED <<ids, sessions>>
        BY <2>2 DEF StreamSendLookup, StreamCloseLookup
      <4>2. CASE StreamSendLookup(t, s, k)
        BY <1>3, <4>1, <4>2 DEF StreamSendLookup
      <4>3. CASE streams' = [streams EXCEPT ![s][k] = None]
        BY <4>1, <4>3 DEF Ownership, MapsOwn, TypeOK
      <4> QED BY <2>2, <4>2, <4>3 DEF StreamCloseLookup
    <3> QED BY <1>4, <1>5, <2>2, <3>2, <3>3 DEF StreamSendLookup, StreamCloseLookup, Ownership
  <2>3. CASE SendWrite(t) \/ StreamWrite(t) \/ StreamFinish(t)
    <3>1. (\E status : Return(t, status)) /\ UNCHANGED <<task, ids, reader, maps>>
      BY <2>3 DEF SendWrite, StreamWrite, StreamFinish
    <3>2. CallsOwn'
      BY <3>1, ReturnKeepsCalls DEF Ownership
    <3> QED BY <1>3, <1>4, <1>5, <3>1, <3>2 DEF Ownership
  <2>4. CASE LockHalf(t)
    <3>1. CallsOwn'
      BY <2>4 DEF LockHalf, Ownership, CallsOwn, Free, TypeOK, Calls
    <3> QED BY <1>3, <1>4, <1>5, <2>4, <3>1 DEF LockHalf, Ownership
  <2>5. CASE OpenStreamFinish(t)
    <3>1. (\E status : Return(t, status)) /\ UNCHANGED <<task, ids, sessions>>
      BY <2>5 DEF OpenStreamFinish
    <3>2. CallsOwn'
      BY <3>1, ReturnKeepsCalls DEF Ownership
    <3>3. /\ call[t].conn \in Conns /\ call[t].session \in SessionIds
          /\ id[call[t].conn] = call[t].session
      BY <2>5 DEF OpenStreamFinish, Ownership, CallsOwn, Free
    <3>4. id[call[t].conn] # 0
      BY <3>3 DEF SessionIds
    <3>5. CASE UNCHANGED <<reader, streams>>
      BY <1>3, <1>4, <1>5, <3>1, <3>2, <3>5 DEF Ownership
    <3>6. ASSUME NEW k \in StreamIds,
                 reader' = [reader EXCEPT ![call[t].conn][k] = "reading"],
                 streams' = [streams EXCEPT ![call[t].session][k] = call[t].conn]
          PROVE  Ownership'
      <4>1. ReadersNumbered'
        BY <3>1, <3>3, <3>4, <3>6 DEF Ownership, ReadersNumbered, TypeOK
      <4>2. MapsOwn'
        BY <3>1, <3>3, <3>6 DEF Ownership, MapsOwn, TypeOK
      <4> QED BY <1>4, <3>1, <3>2, <4>1, <4>2 DEF Ownership
    <3> QED BY <2>5, <3>5, <3>6 DEF OpenStreamFinish
  <2> QED BY <1>14, <2>1, <2>2, <2>3, <2>4, <2>5 DEF Caller, Finish
<1> QED BY <1>6, <1>7, <1>8, <1>9, <1>10, <1>11, <1>12, <1>13, <1>14 DEF Next

-----------------------------------------------------------------------------
(* Type correctness, and answers that reach their own session *)

(* Inv holds in every reachable state of either role.                        *)
LEMMA InvHolds == Spec => []Inv
<1>1. Inv /\ [Next]_vars => Inv'
  BY NextType, NextOwnership DEF Inv
<1> QED BY InitInv, <1>1, PTL DEF Spec

(* Whatever tasks, readers, callers and the network do, the variables keep   *)
(* the shape the Rust types give them and the event queue never outgrows     *)
(* EVENT_QUEUE_DEPTH.                                                        *)
THEOREM TypeCorrect == Spec => []TypeOK
<1>1. Inv => TypeOK
  BY DEF Inv
<1> QED BY InvHolds, <1>1, PTL

(* A call of send, stream_send, stream_close or open_stream that is under    *)
(* way holds the connection that was given the session id it was made with,  *)
(* and no other connection ever gets that id.                                *)
THEOREM AnswersReachTheirSession == Spec => []AnswerReachesItsSession
<1>1. Inv => AnswerReachesItsSession
  <2> SUFFICES ASSUME Inv, NEW t \in Callers, ~Free(t)
               PROVE  {c \in Conns : id[c] = call[t].session} = {call[t].conn}
    BY DEF AnswerReachesItsSession
  <2>1. /\ call[t].conn \in Conns /\ call[t].session \in SessionIds
        /\ id[call[t].conn] = call[t].session
    BY DEF Inv, Ownership, CallsOwn
  <2>2. call[t].session # 0
    BY <2>1 DEF SessionIds
  <2>3. \A c \in Conns : id[c] = call[t].session => c = call[t].conn
    BY <2>1, <2>2 DEF Inv, Ownership, IdsUnique
  <2> QED BY <2>1, <2>3
<1> QED BY InvHolds, <1>1, PTL
=============================================================================
