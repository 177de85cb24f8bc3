------------------------- MODULE EndpointCloseProofs -------------------------
(***************************************************************************)
(* What becomes of streams and sessions the caller was told of, proved for *)
(* every instance of Endpoint.  In both roles stream_close gets hold of a  *)
(* stream at most once, a stream that was announced can be answered, Drop  *)
(* tells the peer of every session that was announced, and a message is    *)
(* reported when its sender has ended it.  On a server the entries of a    *)
(* session leave the maps before its sessionClosed can be polled, so that  *)
(* a call made after it is refused.                                        *)
(***************************************************************************)
EXTENDS EndpointProofs

USE DEF ids, peerVars, halves, maps, ffi, history

(* Streams that have been put into the map.                                  *)
Begun == {"accepted", "reading", "closing", "done"}

(* A stream that was taken is in the map no more, and its reader has left    *)
(* the states from which it could be put there again.                        *)
TakenOnce ==
  /\ \A s \in SessionIds, k \in StreamIds : streams[s][k] # None =>
       /\ <<streams[s][k], k>> \notin taken
       /\ reader[streams[s][k]][k] \in Begun
  /\ \A c \in Conns, k \in StreamIds : <<c, k>> \in taken => reader[c][k] \in Begun

(* A reader only moves on.                                                   *)
LEMMA ReadersMoveOn ==
  ASSUME TypeOK, TakenOnce, UNCHANGED <<streams, taken>>,
         \A c \in Conns, k \in StreamIds : reader[c][k] \in Begun => reader'[c][k] \in Begun
  PROVE  TakenOnce'
<1>1. (\A s \in SessionIds, k \in StreamIds : streams[s][k] # None =>
         /\ <<streams[s][k], k>> \notin taken
         /\ reader[streams[s][k]][k] \in Begun)'
  <2> SUFFICES ASSUME NEW s \in SessionIds, NEW k \in StreamIds, streams[s][k] # None
               PROVE  /\ <<streams[s][k], k>> \notin taken
                      /\ reader'[streams[s][k]][k] \in Begun
    OBVIOUS
  <2>1. streams[s][k] \in Conns
    BY DEF TypeOK
  <2> QED BY <2>1 DEF TakenOnce
<1>2. (\A c \in Conns, k \in StreamIds : <<c, k>> \in taken => reader[c][k] \in Begun)'
  BY DEF TakenOnce
<1> QED BY <1>1, <1>2 DEF TakenOnce

(* A stream that enters the map for the first time keeps TakenOnce.          *)
LEMMA InsertKeepsTaken ==
  ASSUME TypeOK, TakenOnce, NEW c \in Conns, NEW s \in SessionIds, NEW k \in StreamIds,
         reader[c][k] \notin Begun, NEW to \in Begun,
         reader' = [reader EXCEPT ![c][k] = to],
         streams' = [streams EXCEPT ![s][k] = c], UNCHANGED taken
  PROVE  TakenOnce'
<1>1. <<c, k>> \notin taken
  BY DEF TakenOnce
<1>2. \A d \in Conns, j \in StreamIds :
        reader'[d][j] = IF d = c /\ j = k THEN to ELSE reader[d][j]
  BY DEF TypeOK
<1>3. \A r \in SessionIds, j \in StreamIds :
        streams'[r][j] = IF r = s /\ j = k THEN c ELSE streams[r][j]
  BY DEF TypeOK
<1>4. (\A r \in SessionIds, j \in StreamIds : streams[r][j] # None =>
         /\ <<streams[r][j], j>> \notin taken
         /\ reader[streams[r][j]][j] \in Begun)'
  <2> SUFFICES ASSUME NEW r \in SessionIds, NEW j \in StreamIds, streams'[r][j] # None
               PROVE  /\ <<streams'[r][j], j>> \notin taken
                      /\ reader'[streams'[r][j]][j] \in Begun
    OBVIOUS
  <2>1. CASE r = s /\ j = k
    BY <1>1, <1>2, <1>3, <2>1
  <2>2. CASE ~(r = s /\ j = k)
    <3>1. streams'[r][j] = streams[r][j] /\ streams[r][j] \in Conns
      BY <1>3, <2>2 DEF TypeOK
    <3> QED BY <1>2, <3>1 DEF TakenOnce
  <2> QED BY <2>1, <2>2
<1>5. (\A d \in Conns, j \in StreamIds : <<d, j>> \in taken => reader[d][j] \in Begun)'
  BY <1>2 DEF TakenOnce
<1> QED BY <1>4, <1>5 DEF TakenOnce

(* Every step keeps TakenOnce.                                               *)
LEMMA NextTakenOnce ==
  ASSUME Inv, TakenOnce, [Next]_vars
  PROVE  TakenOnce'
<1> USE EndpointAssumption
<1>a. TypeOK /\ Ownership /\ IdsUnique /\ MapsOwn
  BY DEF Inv, Ownership
<1>1. UNCHANGED <<streams, reader, taken>> => TakenOnce'
  BY DEF TakenOnce
<1>2. CASE UNCHANGED vars \/ NextEvent \/ DropCloses \/ RuntimeGoes
  BY <1>1, <1>2 DEF vars, NextEvent, DropCloses, RuntimeGoes
<1>3. ASSUME NEW c \in Conns, Network(c) PROVE TakenOnce'
  <2>1. CASE UNCHANGED <<streams, reader, taken>>
    BY <1>1, <2>1
  <2>2. ASSUME NEW k \in StreamIds, PeerOpensBi(c, k) PROVE TakenOnce'
    BY <1>a, <2>2, ReadersMoveOn DEF PeerOpensBi, TypeOK, Begun
  <2> QED BY <1>3, <2>1, <2>2 DEF Network, PeerCloses, PeerVanishes, IdleTimeout,
          ConnCloses, ConnStep, PeerSendsUni, PeerEndsAsk, PeerStopsReply
<1>4. ASSUME NEW c \in Conns, Proceed(c) PROVE TakenOnce'
  <2>1. CASE Register(c) \/ AnnounceOpened(c) \/ ReadUni(c) \/ ForgetSession(c)
             \/ AnnounceClosed(c)
    BY <1>1, <2>1 DEF Register, AnnounceOpened, ReadUni, ForgetSession, AnnounceClosed
  <2>2. ASSUME NEW k \in StreamIds, AnnounceStream(c, k) PROVE TakenOnce'
    BY <1>a, <2>2, ReadersMoveOn DEF AnnounceStream, TypeOK, Begun
  <2>3. CASE ForgetStreams(c)
    <3>1. /\ streams' = [streams EXCEPT ![id[c]] = [k \in StreamIds |-> None]]
          /\ UNCHANGED <<reader, taken>>
      BY <2>3 DEF ForgetStreams
    <3>2. \A s \in SessionIds, k \in StreamIds :
            streams'[s][k] = None \/ streams'[s][k] = streams[s][k]
      BY <1>a, <3>1 DEF TypeOK
    <3> QED BY <3>1, <3>2 DEF TakenOnce
  <2> QED BY <1>4, <2>1, <2>2, <2>3 DEF Proceed
<1>5. ASSUME NEW c \in Conns, Select(c) PROVE TakenOnce'
  <2>1. CASE ReceiveDatagram(c) \/ AcceptUni(c) \/ LoopReturns(c)
    BY <1>1, <2>1 DEF ReceiveDatagram, AcceptUni, LoopReturns
  <2>2. ASSUME NEW k \in StreamIds, AcceptBi(c, k) PROVE TakenOnce'
    <3>1. id[c] \in SessionIds
      BY <1>a, <2>2, NumberedId DEF AcceptBi, TaskStep, Numbered
    <3>2. /\ reader[c][k] \notin Begun /\ reader' = [reader EXCEPT ![c][k] = "accepted"]
          /\ streams' = [streams EXCEPT ![id[c]][k] = c] /\ UNCHANGED taken
      BY <2>2 DEF AcceptBi, Begun
    <3>3. "accepted" \in Begun
      BY DEF Begun
    <3> QED BY <1>a, <3>1, <3>2, <3>3, InsertKeepsTaken
  <2> QED BY <1>5, <2>1, <2>2 DEF Select
<1>6. ASSUME NEW c \in Conns,
             Incoming(c) \/ Reject(c) \/ AcceptRequest(c) \/ Connect(c)
      PROVE  TakenOnce'
  BY <1>1, <1>6 DEF Incoming, Reject, AcceptRequest, Connect
<1>7. ASSUME NEW c \in Conns, NEW k \in StreamIds, Reader(c, k) PROVE TakenOnce'
  <2>1. \E to \in Begun : reader' = [reader EXCEPT ![c][k] = to]
    BY <1>7 DEF Reader, ReadToEnd, ReaderCloses, Begun
  <2>2. \A d \in Conns, j \in StreamIds : reader[d][j] \in Begun => reader'[d][j] \in Begun
    BY <1>a, <2>1 DEF TypeOK
  <2> QED BY <1>a, <1>7, <2>2, ReadersMoveOn DEF Reader, ReadToEnd, ReaderCloses
<1>8. ASSUME NEW t \in Callers, Caller(t) PROVE TakenOnce'
  <2>1. CASE UNCHANGED <<streams, reader, taken>>
    BY <1>1, <2>1
  <2>2. ASSUME NEW s \in SessionIds, NEW k \in StreamIds, StreamCloseLookup(t, s, k)
        PROVE  TakenOnce'
    <3> DEFINE c == streams[s][k]
    <3>1. /\ streams' = [streams EXCEPT ![s][k] = None] /\ UNCHANGED reader
          /\ taken' = IF c = None THEN taken ELSE taken \cup {<<c, k>>}
      BY <2>2 DEF StreamCloseLookup
    <3>2. \A r \in SessionIds, j \in StreamIds :
            streams'[r][j] = IF r = s /\ j = k THEN None ELSE streams[r][j]
      BY <1>a, <3>1 DEF TypeOK
    <3>3. (\A r \in SessionIds, j \in StreamIds : streams[r][j] # None =>
             /\ <<streams[r][j], j>> \notin taken
             /\ reader[streams[r][j]][j] \in Begun)'
      <4> SUFFICES ASSUME NEW r \in SessionIds, NEW j \in StreamIds, streams'[r][j] # None
                   PROVE  /\ <<streams[r][j], j>> \notin taken'
                          /\ reader[streams[r][j]][j] \in Begun
        BY <3>1, <3>2
      <4>1. ~(r = s /\ j = k) /\ streams[r][j] # None
        BY <3>2
      <4>2. c # None => <<streams[r][j], j>> # <<c, k>>
        BY <1>a, <4>1 DEF MapsOwn
      <4> QED BY <3>1, <4>1, <4>2 DEF TakenOnce
    <3>4. (\A d \in Conns, j \in StreamIds : <<d, j>> \in taken => reader[d][j] \in Begun)'
      BY <3>1 DEF TakenOnce
    <3> QED BY <3>3, <3>4 DEF TakenOnce
  <2>3. CASE OpenStreamFinish(t)
    <3>1. CASE UNCHANGED <<reader, streams>>
      BY <1>1, <2>3, <3>1 DEF OpenStreamFinish
    <3>2. ASSUME NEW k \in StreamIds, reader[call[t].conn][k] = "absent",
                 reader' = [reader EXCEPT ![call[t].conn][k] = "reading"],
                 streams' = [streams EXCEPT ![call[t].session][k] = call[t].conn]
          PROVE  TakenOnce'
      <4>1. call[t].conn \in Conns /\ call[t].session \in SessionIds /\ UNCHANGED taken
        BY <1>a, <2>3 DEF OpenStreamFinish, Ownership, CallsOwn, Free
      <4>2. "absent" \notin Begun /\ "reading" \in Begun
        BY DEF Begun
      <4> QED BY <1>a, <3>2, <4>1, <4>2, InsertKeepsTaken
    <3> QED BY <2>3, <3>1, <3>2 DEF OpenStreamFinish
  <2> QED BY <1>8, <2>1, <2>2, <2>3 DEF Caller, Finish, SendLookup, OpenStreamLookup,
          StreamSendLookup, SendWrite, LockHalf, StreamWrite, StreamFinish
<1> QED BY <1>2, <1>3, <1>4, <1>5, <1>6, <1>7, <1>8 DEF Next

(* Of the calls of stream_close that race for one stream, one gets hold of   *)
(* it; whatever is accepted, opened or swept meanwhile, no later one does.   *)
THEOREM StreamsCloseOnce == Spec => ClosedOnce
<1> DEFINE Once == \A t \in Callers :
                     /\ call'[t] # call[t]
                     /\ call'[t].op = "streamClose" /\ call'[t].stage = "holding"
                     => <<call'[t].conn, call'[t].stream>> \notin taken
<1>1. Init => TakenOnce
  BY DEF Init, TakenOnce
<1>2. Inv /\ TakenOnce /\ [Next]_vars => TakenOnce'
  BY NextTakenOnce
<1>3. Inv /\ TakenOnce /\ [Next]_vars => [Once]_vars
  <2> SUFFICES ASSUME Inv, TakenOnce, [Next]_vars, NEW t \in Callers, call'[t] # call[t],
                      call'[t].op = "streamClose", call'[t].stage = "holding"
               PROVE  <<call'[t].conn, call'[t].stream>> \notin taken
    OBVIOUS
  <2>1. PICK u \in Callers : Caller(u)
    BY OnlyCallersCall
  <2>2. ASSUME NEW r, call' = [call EXCEPT ![u] = r] PROVE u = t /\ call'[t] = r
    BY <2>2 DEF Inv, TypeOK
  <2>3. ASSUME NEW op, NEW s, NEW k, NEW c, op # "streamClose",
               call' = [call EXCEPT ![u] = Looked(op, s, k, c)]
        PROVE  FALSE
    BY <2>2, <2>3 DEF Looked, Idle
  <2>4. ASSUME NEW status, Return(u, status) PROVE FALSE
    BY <2>2, <2>4 DEF Return, Idle
  <2>5. ASSUME NEW s \in SessionIds, NEW k \in StreamIds, StreamCloseLookup(u, s, k)
        PROVE  <<call'[t].conn, call'[t].stream>> \notin taken
    <3>1. call'[t] = Looked("streamClose", s, k, streams[s][k])
      BY <2>2, <2>5 DEF StreamCloseLookup
    <3>2. /\ streams[s][k] # None
          /\ call'[t].conn = streams[s][k] /\ call'[t].stream = k
      BY <3>1 DEF Looked, Idle
    <3> QED BY <3>2 DEF TakenOnce
  <2>6. CASE LockHalf(u)
    <3>1. call' = [call EXCEPT ![u] = [call[u] EXCEPT !.stage = "locked"]] /\ call[u] \in Calls
      BY <2>6 DEF LockHalf, Inv, TypeOK
    <3>2. [call[u] EXCEPT !.stage = "locked"].stage = "locked"
      BY <3>1 DEF Calls
    <3> QED BY <2>2, <3>1, <3>2
  <2>7. ASSUME NEW s \in SessionIds, SendLookup(u, s) \/ OpenStreamLookup(u, s) PROVE FALSE
    BY <2>3, <2>7 DEF SendLookup, OpenStreamLookup
  <2>8. ASSUME NEW s \in SessionIds, NEW k \in StreamIds, StreamSendLookup(u, s, k) PROVE FALSE
    BY <2>3, <2>8 DEF StreamSendLookup
  <2>9. CASE SendWrite(u) \/ StreamWrite(u) \/ StreamFinish(u) \/ OpenStreamFinish(u)
    BY <2>4, <2>9 DEF SendWrite, StreamWrite, StreamFinish, OpenStreamFinish
  <2> QED BY <2>1, <2>5, <2>6, <2>7, <2>8, <2>9 DEF Caller, Finish
<1> QED BY InvHolds, <1>1, <1>2, <1>3, PTL DEF Spec, ClosedOnce

-----------------------------------------------------------------------------
(* What has been announced *)

(* A stream that was accepted or opened is in the map, or was taken out by     *)
(* stream_close, or the task of its session has swept.                         *)
StreamsKept ==
  \A c \in Conns, k \in StreamIds : reader[c][k] \in Begun =>
    \/ streams[id[c]][k] = c
    \/ <<c, k>> \in taken
    \/ task[c] \in {"swept", "done"}

(* What was announced was there first.                                         *)
StreamsTold ==
  \A s \in SessionIds, k \in StreamIds : Reported(StreamOpened(s, k)) =>
    \E c \in Conns : id[c] = s /\ reader[c][k] \in Begun
SessionsTold ==
  \A s \in SessionIds : Reported(SessionOpened(s)) => \E c \in Conns : id[c] = s

(* Until Drop, the session of a task in its loop is in the map; a task that    *)
(* has left the loop did so because its connection was over.                   *)
InLoop == {"registered", "serving", "readingUni", "announcing", "returned"}
LoopsMapped == phase = "up" => \A c \in Conns : task[c] \in InLoop => sessions[id[c]] = c

AfterLoop == {"returned", "forgotten", "swept", "done"}
LoopsEnd == \A c \in Conns : task[c] \in AfterLoop => Over(c)

Announced ==
  StreamsKept /\ StreamsTold /\ SessionsTold /\ LoopsMapped /\ LoopsEnd /\ AnnouncedIsTold

(* A task is given the next id, which it keeps for good, and one that has      *)
(* swept never comes back.                                                     *)
LEMMA IdsStay ==
  ASSUME Inv, [Next]_vars, NEW d \in Conns
  PROVE  /\ id[d] # 0 => id'[d] = id[d]
         /\ id'[d] \in {id[d], nextSession}
         /\ task[d] \in {"swept", "done"} => task'[d] \in {"swept", "done"}
<1> USE EndpointAssumption
<1> DEFINE Stays == /\ id[d] # 0 => id'[d] = id[d]
                    /\ id'[d] \in {id[d], nextSession}
                    /\ task[d] \in {"swept", "done"} => task'[d] \in {"swept", "done"}
<1>a. TypeOK /\ IdsUnique
  BY DEF Inv, Ownership
<1>1. UNCHANGED <<task, id>> => Stays
  OBVIOUS
<1>2. ASSUME NEW c \in Conns, NEW from, NEW to, TaskStep(c, from, to), UNCHANGED id,
             from # "done", from = "swept" => to = "done"
      PROVE  Stays
  BY <1>a, <1>2 DEF TaskStep, TypeOK
<1>3. ASSUME NEW c \in Conns, TakeSession(c), NEW from \in {"idle", "accepted"}, NEW to,
             TaskStep(c, from, to)
      PROVE  Stays
  <2>1. id[c] = 0
    BY <1>a, <1>3 DEF IdsUnique, Numbered, TaskStep
  <2> QED BY <1>a, <1>3, <2>1 DEF TakeSession, TaskStep, TypeOK
<1> HIDE DEF Stays
<1>4. CASE UNCHANGED vars \/ NextEvent \/ DropCloses \/ RuntimeGoes
  BY <1>1, <1>4 DEF vars, NextEvent, DropCloses, RuntimeGoes
<1>5. ASSUME NEW c \in Conns, Network(c) PROVE Stays
  BY <1>1, <1>5 DEF Network, PeerCloses, PeerVanishes, IdleTimeout, ConnCloses, ConnStep,
     PeerSendsUni, PeerOpensBi, PeerEndsAsk, PeerStopsReply
<1>6. ASSUME NEW c \in Conns, Proceed(c) PROVE Stays
  <2>1. CASE Register(c)
    BY <1>3, <2>1 DEF Register
  <2>2. CASE ~Register(c)
    BY <1>2, <1>6, <2>2 DEF Proceed, AnnounceOpened, ReadUni, AnnounceStream, ForgetSession,
       ForgetStreams, AnnounceClosed
  <2> QED BY <2>1, <2>2
<1>7. ASSUME NEW c \in Conns, Select(c) PROVE Stays
  BY <1>2, <1>7 DEF Select, ReceiveDatagram, AcceptUni, LoopReturns, AcceptBi
<1>8. ASSUME NEW c \in Conns, Incoming(c) \/ Reject(c) \/ AcceptRequest(c) PROVE Stays
  BY <1>2, <1>8 DEF Incoming, Reject, AcceptRequest
<1>9. ASSUME NEW c \in Conns, Connect(c) PROVE Stays
  BY <1>3, <1>9 DEF Connect
<1>10. ASSUME NEW c \in Conns, NEW k \in StreamIds, Reader(c, k) PROVE Stays
  BY <1>1, <1>10 DEF Reader, ReadToEnd, ReaderCloses
<1>11. ASSUME NEW t \in Callers, Caller(t) PROVE Stays
  BY <1>1, <1>11 DEF Caller, Finish, SendLookup, OpenStreamLookup, StreamSendLookup,
     StreamCloseLookup, SendWrite, LockHalf, StreamWrite, StreamFinish, OpenStreamFinish
<1> QED BY <1>4, <1>5, <1>6, <1>7, <1>8, <1>9, <1>10, <1>11 DEF Next, Stays

(* What becomes of a reader and of the entry of its stream when neither is     *)
(* put in nor taken out.                                                       *)
LEMMA ReadersKeepStreams ==
  ASSUME Inv, StreamsKept, [Next]_vars, UNCHANGED <<streams, taken>>,
         \A c \in Conns, k \in StreamIds : reader'[c][k] \in Begun => reader[c][k] \in Begun
  PROVE  StreamsKept'
<1> SUFFICES ASSUME NEW c \in Conns, NEW k \in StreamIds, reader'[c][k] \in Begun
             PROVE  \/ streams'[id'[c]][k] = c
                    \/ <<c, k>> \in taken'
                    \/ task'[c] \in {"swept", "done"}
  BY DEF StreamsKept
<1>1. reader[c][k] \in Begun
  OBVIOUS
<1>2. id[c] # 0
  BY <1>1 DEF Inv, Ownership, ReadersNumbered, Begun
<1>3. id'[c] = id[c] /\ (task[c] \in {"swept", "done"} => task'[c] \in {"swept", "done"})
  BY <1>2, IdsStay
<1> QED BY <1>1, <1>3 DEF StreamsKept

(* A stream that enters the map under the id of its session displaces nothing. *)
LEMMA InsertKeepsStreams ==
  ASSUME Inv, StreamsKept, NEW c \in Conns, id[c] \in SessionIds, NEW k \in StreamIds, NEW to,
         reader' = [reader EXCEPT ![c][k] = to],
         streams' = [streams EXCEPT ![id[c]][k] = c], UNCHANGED <<id, taken>>,
         \A d \in Conns : task[d] \in {"swept", "done"} => task'[d] \in {"swept", "done"}
  PROVE  StreamsKept'
<1> SUFFICES ASSUME NEW d \in Conns, NEW j \in StreamIds, reader'[d][j] \in Begun
             PROVE  \/ streams'[id[d]][j] = d
                    \/ <<d, j>> \in taken
                    \/ task'[d] \in {"swept", "done"}
  BY DEF StreamsKept
<1>1. reader'[d][j] = IF d = c /\ j = k THEN to ELSE reader[d][j]
  BY DEF Inv, TypeOK
<1>2. CASE d = c /\ j = k
  BY <1>2 DEF Inv, TypeOK
<1>3. CASE ~(d = c /\ j = k)
  <2>1. reader[d][j] \in Begun
    BY <1>1, <1>3
  <2>2. id[d] # 0
    BY <2>1 DEF Inv, Ownership, ReadersNumbered, Begun
  <2>3. id[d] \in SessionIds
    BY <2>2, EndpointAssumption DEF Inv, TypeOK, SessionIds
  <2>4. id[d] = id[c] => d = c
    BY <2>2 DEF Inv, Ownership, IdsUnique
  <2>5. streams'[id[d]][j] = streams[id[d]][j]
    BY <1>3, <2>3, <2>4 DEF Inv, TypeOK
  <2> QED BY <2>1, <2>5 DEF StreamsKept
<1> QED BY <1>2, <1>3

(* Every step keeps the streams that have begun.                               *)
LEMMA NextStreamsKept ==
  ASSUME Inv, StreamsKept, [Next]_vars
  PROVE  StreamsKept'
<1> USE EndpointAssumption
<1>a. TypeOK /\ Ownership /\ IdsUnique /\ ReadersNumbered
  BY DEF Inv, Ownership
<1>b. \A d \in Conns : task[d] \in {"swept", "done"} => task'[d] \in {"swept", "done"}
  BY IdsStay
<1>1. UNCHANGED <<streams, reader, taken>> => StreamsKept'
  BY ReadersKeepStreams
<1>2. CASE UNCHANGED vars \/ NextEvent \/ DropCloses \/ RuntimeGoes
  BY <1>1, <1>2 DEF vars, NextEvent, DropCloses, RuntimeGoes
<1>3. ASSUME NEW c \in Conns, Network(c) PROVE StreamsKept'
  <2>1. ASSUME NEW k \in StreamIds, PeerOpensBi(c, k) PROVE StreamsKept'
    <3>1. reader' = [reader EXCEPT ![c][k] = "arrived"] /\ UNCHANGED <<streams, taken>>
      BY <2>1 DEF PeerOpensBi
    <3>2. \A d \in Conns, j \in StreamIds : reader'[d][j] \in Begun => reader[d][j] \in Begun
      BY <1>a, <3>1 DEF TypeOK, Begun
    <3> QED BY <3>1, <3>2, ReadersKeepStreams
  <2> QED BY <1>1, <1>3, <2>1 DEF Network, PeerCloses, PeerVanishes, IdleTimeout, ConnCloses,
          ConnStep, PeerSendsUni, PeerEndsAsk, PeerStopsReply
<1>4. ASSUME NEW c \in Conns, Proceed(c) PROVE StreamsKept'
  <2>1. CASE Register(c) \/ AnnounceOpened(c) \/ ReadUni(c) \/ ForgetSession(c)
             \/ AnnounceClosed(c)
    BY <1>1, <2>1 DEF Register, AnnounceOpened, ReadUni, ForgetSession, AnnounceClosed
  <2>2. ASSUME NEW k \in StreamIds, AnnounceStream(c, k) PROVE StreamsKept'
    <3>1. /\ reader[c][k] = "accepted" /\ reader' = [reader EXCEPT ![c][k] = "reading"]
          /\ UNCHANGED <<streams, taken>>
      BY <2>2 DEF AnnounceStream
    <3>2. \A d \in Conns, j \in StreamIds : reader'[d][j] \in Begun => reader[d][j] \in Begun
      BY <1>a, <3>1 DEF TypeOK, Begun
    <3> QED BY <3>1, <3>2, ReadersKeepStreams
  <2>3. CASE ForgetStreams(c)
    <3>1. /\ streams' = [streams EXCEPT ![id[c]] = [k \in StreamIds |-> None]]
          /\ task' = [task EXCEPT ![c] = "swept"] /\ UNCHANGED <<id, reader, taken>>
          /\ task[c] = "forgotten"
      BY <2>3 DEF ForgetStreams, TaskStep
    <3> SUFFICES ASSUME NEW d \in Conns, NEW j \in StreamIds, reader[d][j] \in Begun
                 PROVE  \/ streams'[id[d]][j] = d
                        \/ <<d, j>> \in taken
                        \/ task'[d] \in {"swept", "done"}
      BY <3>1 DEF StreamsKept
    <3>2. CASE d = c
      BY <1>a, <3>1, <3>2 DEF TypeOK
    <3>3. CASE d # c
      <4>1. id[d] # 0
        BY <1>a DEF ReadersNumbered, Begun
      <4>2. id[d] # id[c]
        BY <1>a, <3>3, <4>1 DEF IdsUnique
      <4>3. id[d] \in SessionIds
        BY <1>a, <4>1 DEF TypeOK, SessionIds
      <4>4. streams'[id[d]] = streams[id[d]]
        BY <1>a, <3>1, <4>2, <4>3 DEF TypeOK
      <4> QED BY <1>b, <4>4 DEF StreamsKept
    <3> QED BY <3>2, <3>3
  <2> QED BY <1>4, <2>1, <2>2, <2>3 DEF Proceed
<1>5. ASSUME NEW c \in Conns, Select(c) PROVE StreamsKept'
  <2>1. CASE ReceiveDatagram(c) \/ AcceptUni(c) \/ LoopReturns(c)
    BY <1>1, <2>1 DEF ReceiveDatagram, AcceptUni, LoopReturns
  <2>2. ASSUME NEW k \in StreamIds, AcceptBi(c, k) PROVE StreamsKept'
    <3>1. id[c] \in SessionIds
      BY <1>a, <2>2, NumberedId DEF AcceptBi, TaskStep, Numbered
    <3>2. /\ reader' = [reader EXCEPT ![c][k] = "accepted"]
          /\ streams' = [streams EXCEPT ![id[c]][k] = c] /\ UNCHANGED <<id, taken>>
      BY <2>2 DEF AcceptBi
    <3> QED BY <1>b, <3>1, <3>2, InsertKeepsStreams
  <2> QED BY <1>5, <2>1, <2>2 DEF Select
<1>6. ASSUME NEW c \in Conns,
             Incoming(c) \/ Reject(c) \/ AcceptRequest(c) \/ Connect(c)
      PROVE  StreamsKept'
  BY <1>1, <1>6 DEF Incoming, Reject, AcceptRequest, Connect
<1>7. ASSUME NEW c \in Conns, NEW k \in StreamIds, Reader(c, k) PROVE StreamsKept'
  <2>1. /\ reader[c][k] \in Begun /\ UNCHANGED <<streams, taken>>
        /\ \E to \in Begun : reader' = [reader EXCEPT ![c][k] = to]
    BY <1>7 DEF Reader, ReadToEnd, ReaderCloses, Begun
  <2>2. \A d \in Conns, j \in StreamIds : reader'[d][j] \in Begun => reader[d][j] \in Begun
    BY <1>a, <2>1 DEF TypeOK
  <2> QED BY <2>1, <2>2, ReadersKeepStreams
<1>8. ASSUME NEW t \in Callers, Caller(t) PROVE StreamsKept'
  <2>1. CASE UNCHANGED <<streams, reader, taken>>
    BY <1>1, <2>1
  <2>2. ASSUME NEW s \in SessionIds, NEW k \in StreamIds, StreamCloseLookup(t, s, k)
        PROVE  StreamsKept'
    <3> DEFINE c == streams[s][k]
    <3>1. /\ streams' = [streams EXCEPT ![s][k] = None] /\ UNCHANGED <<task, id, reader>>
          /\ taken' = IF c = None THEN taken ELSE taken \cup {<<c, k>>}
      BY <2>2 DEF StreamCloseLookup
    <3> SUFFICES ASSUME NEW d \in Conns, NEW j \in StreamIds, reader[d][j] \in Begun
                 PROVE  \/ streams'[id[d]][j] = d
                        \/ <<d, j>> \in taken'
                        \/ task[d] \in {"swept", "done"}
      BY <3>1 DEF StreamsKept
    <3>2. id[d] \in SessionIds
      BY <1>a, NumberedId DEF Begun
    <3>3. streams'[id[d]][j] = IF id[d] = s /\ j = k THEN None ELSE streams[id[d]][j]
      BY <1>a, <3>1, <3>2 DEF TypeOK
    <3>4. d # None
      OBVIOUS
    <3> QED BY <3>1, <3>3, <3>4 DEF StreamsKept
  <2>3. CASE OpenStreamFinish(t)
    <3>1. CASE UNCHANGED <<reader, streams>>
      BY <1>1, <2>3, <3>1 DEF OpenStreamFinish
    <3>2. ASSUME NEW k \in StreamIds,
                 reader' = [reader EXCEPT ![call[t].conn][k] = "reading"],
                 streams' = [streams EXCEPT ![call[t].session][k] = call[t].conn]
          PROVE  StreamsKept'
      <4>1. /\ call[t].conn \in Conns /\ call[t].session \in SessionIds
            /\ id[call[t].conn] = call[t].session /\ UNCHANGED <<id, taken>>
        BY <1>a, <2>3 DEF OpenStreamFinish, Ownership, CallsOwn, Free
      <4> QED BY <1>b, <3>2, <4>1, InsertKeepsStreams
    <3> QED BY <2>3, <3>1, <3>2 DEF OpenStreamFinish
  <2> QED BY <1>8, <2>1, <2>2, <2>3 DEF Caller, Finish, SendLookup, OpenStreamLookup,
          StreamSendLookup, SendWrite, LockHalf, StreamWrite, StreamFinish
<1> QED BY <1>2, <1>3, <1>4, <1>5, <1>6, <1>7, <1>8 DEF Next

(* A stream that has begun is never accepted or opened again.                  *)
LEMMA BegunStays ==
  ASSUME Inv, [Next]_vars, NEW d \in Conns, NEW j \in StreamIds, reader[d][j] \in Begun
  PROVE  reader'[d][j] \in Begun
<1> USE EndpointAssumption
<1>a. TypeOK
  BY DEF Inv
<1>1. UNCHANGED reader => reader'[d][j] \in Begun
  OBVIOUS
<1>2. ASSUME NEW c, NEW k, NEW to, reader' = [reader EXCEPT ![c][k] = to],
             reader[c][k] \in Begun => to \in Begun
      PROVE  reader'[d][j] \in Begun
  BY <1>a, <1>2 DEF TypeOK
<1>3. CASE UNCHANGED vars \/ NextEvent \/ DropCloses \/ RuntimeGoes
  BY <1>1, <1>3 DEF vars, NextEvent, DropCloses, RuntimeGoes
<1>4. ASSUME NEW c \in Conns, Network(c) PROVE reader'[d][j] \in Begun
  BY <1>1, <1>2, <1>4 DEF Network, PeerCloses, PeerVanishes, IdleTimeout, ConnCloses, ConnStep,
     PeerSendsUni, PeerOpensBi, PeerEndsAsk, PeerStopsReply, Begun
<1>5. ASSUME NEW c \in Conns, Proceed(c) \/ Select(c) PROVE reader'[d][j] \in Begun
  BY <1>1, <1>2, <1>5 DEF Proceed, Register, AnnounceOpened, ReadUni, AnnounceStream,
     ForgetSession, ForgetStreams, AnnounceClosed, Select, ReceiveDatagram, AcceptUni,
     LoopReturns, AcceptBi, Begun
<1>6. ASSUME NEW c \in Conns,
             Incoming(c) \/ Reject(c) \/ AcceptRequest(c) \/ Connect(c)
      PROVE  reader'[d][j] \in Begun
  BY <1>1, <1>6 DEF Incoming, Reject, AcceptRequest, Connect
<1>7. ASSUME NEW c \in Conns, NEW k \in StreamIds, Reader(c, k) PROVE reader'[d][j] \in Begun
  BY <1>2, <1>7 DEF Reader, ReadToEnd, ReaderCloses, Begun
<1>8. ASSUME NEW t \in Callers, Caller(t) PROVE reader'[d][j] \in Begun
  <2>1. CASE OpenStreamFinish(t)
    <3>1. \/ UNCHANGED reader
          \/ \E k \in StreamIds : reader' = [reader EXCEPT ![call[t].conn][k] = "reading"]
      BY <2>1 DEF OpenStreamFinish
    <3>2. "reading" \in Begun
      BY DEF Begun
    <3> QED BY <1>1, <1>2, <3>1, <3>2
  <2>2. CASE ~OpenStreamFinish(t)
    BY <1>1, <1>8, <2>2 DEF Caller, Finish, SendLookup, OpenStreamLookup, StreamSendLookup,
       StreamCloseLookup, SendWrite, LockHalf, StreamWrite, StreamFinish
  <2> QED BY <2>1, <2>2
<1> QED BY <1>3, <1>4, <1>5, <1>6, <1>7, <1>8 DEF Next

(* Where a new report comes from: a task with its id, the stream that was just *)
(* put into the map, or a message that was read to its end.                    *)
LEMMA NewReports ==
  ASSUME Inv, [Next]_vars, NEW e, Reported(e)', ~Reported(e)
  PROVE  \/ e.kind \notin {"sessionOpened", "streamOpened", "streamData"}
         \/ \E c \in Conns : e = SessionOpened(id'[c])
         \/ \E c \in Conns, k \in StreamIds :
              e = StreamOpened(id[c], k) /\ reader[c][k] = "accepted"
         \/ \E c \in Conns, k \in StreamIds :
              e = StreamData(id[c], k) /\ ask[c][k] = "text"
<1> USE EndpointAssumption
<1>a. TypeOK
  BY DEF Inv
<1> DEFINE Told == \/ e.kind \notin {"sessionOpened", "streamOpened", "streamData"}
                   \/ \E c \in Conns : e = SessionOpened(id'[c])
                   \/ \E c \in Conns, k \in StreamIds :
                        e = StreamOpened(id[c], k) /\ reader[c][k] = "accepted"
                   \/ \E c \in Conns, k \in StreamIds :
                        e = StreamData(id[c], k) /\ ask[c][k] = "text"
<1>b. UNCHANGED <<queue, seen>> => FALSE
  BY DEF Reported
<1>c. ASSUME NEW f, Emit(f), UNCHANGED seen PROVE e = f
  BY <1>a, <1>c, EmitReports
<1>d. ASSUME NEW f, Emit(f), UNCHANGED seen,
             f.kind \notin {"sessionOpened", "streamOpened", "streamData"}
      PROVE  Told
  BY <1>c, <1>d
<1>e. ASSUME NEW c \in Conns, Emit(SessionOpened(id'[c])), UNCHANGED seen PROVE Told
  BY <1>c, <1>e
<1>f. ASSUME NEW c \in Conns, NEW k \in StreamIds, Emit(StreamOpened(id[c], k)),
             UNCHANGED seen, reader[c][k] = "accepted"
      PROVE  Told
  BY <1>c, <1>f
<1>g. \A s, k : /\ Datagram(s).kind = "datagram" /\ StreamMessage(s).kind = "streamMessage"
                /\ SessionClosed(s).kind = "sessionClosed"
                /\ StreamClosed(s, k).kind = "streamClosed"
  BY DEF Datagram, StreamMessage, SessionClosed, StreamClosed, Event
<1> HIDE DEF Told
<1>1. CASE UNCHANGED vars \/ DropCloses \/ RuntimeGoes
  BY <1>b, <1>1 DEF vars, DropCloses, RuntimeGoes
<1>2. CASE NextEvent
  BY <1>a, <1>2, PollReports
<1>3. ASSUME NEW c \in Conns, Network(c) PROVE Told
  BY <1>b, <1>3 DEF Network, PeerCloses, PeerVanishes, IdleTimeout, ConnCloses, ConnStep,
     PeerSendsUni, PeerOpensBi, PeerEndsAsk, PeerStopsReply
<1>4. ASSUME NEW c \in Conns, Proceed(c) PROVE Told
  <2>1. CASE Register(c) \/ ForgetSession(c) \/ ForgetStreams(c)
    BY <1>b, <2>1 DEF Register, ForgetSession, ForgetStreams
  <2>2. CASE AnnounceOpened(c)
    <3>1. Emit(SessionOpened(id[c])) /\ UNCHANGED <<id, seen>>
      BY <2>2 DEF AnnounceOpened
    <3> QED BY <1>e, <3>1
  <2>3. CASE ReadUni(c)
    <3>1. UNCHANGED seen /\ (Emit(StreamMessage(id[c])) \/ UNCHANGED queue)
      BY <2>3 DEF ReadUni, NoEmit
    <3> QED BY <1>b, <1>d, <1>g, <3>1
  <2>4. ASSUME NEW k \in StreamIds, AnnounceStream(c, k) PROVE Told
    BY <1>f, <2>4 DEF AnnounceStream
  <2>5. CASE AnnounceClosed(c)
    BY <1>d, <1>g, <2>5 DEF AnnounceClosed
  <2> QED BY <1>4, <2>1, <2>2, <2>3, <2>4, <2>5 DEF Proceed
<1>5. ASSUME NEW c \in Conns, Select(c) PROVE Told
  <2>1. CASE ReceiveDatagram(c)
    BY <1>d, <1>g, <2>1 DEF ReceiveDatagram
  <2>2. CASE ~ReceiveDatagram(c)
    BY <1>b, <1>5, <2>2 DEF Select, AcceptUni, LoopReturns, AcceptBi
  <2> QED BY <2>1, <2>2
<1>6. ASSUME NEW c \in Conns, Incoming(c) \/ Reject(c) \/ AcceptRequest(c) PROVE Told
  BY <1>b, <1>6 DEF Incoming, Reject, AcceptRequest
<1>7. ASSUME NEW c \in Conns, Connect(c) PROVE Told
  <2>1. /\ Emit(SessionOpened(nextSession)) /\ UNCHANGED seen
        /\ id' = [id EXCEPT ![c] = nextSession]
    BY <1>7 DEF Connect, TakeSession
  <2>2. id'[c] = nextSession
    BY <1>a, <2>1 DEF TypeOK
  <2> QED BY <1>c, <2>1, <2>2 DEF Told
<1>8. ASSUME NEW c \in Conns, NEW k \in StreamIds, Reader(c, k) PROVE Told
  <2>1. CASE ReadToEnd(c, k)
    <3>1. /\ UNCHANGED seen
          /\ (ask[c][k] = "text" /\ Emit(StreamData(id[c], k))) \/ UNCHANGED queue
      BY <2>1 DEF ReadToEnd, NoEmit
    <3> QED BY <1>b, <1>c, <3>1 DEF Told
  <2>2. CASE ReaderCloses(c, k)
    BY <1>d, <1>g, <2>2 DEF ReaderCloses
  <2> QED BY <1>8, <2>1, <2>2 DEF Reader
<1>9. ASSUME NEW t \in Callers, Caller(t) PROVE Told
  BY <1>b, <1>9 DEF Caller, Finish, SendLookup, OpenStreamLookup, StreamSendLookup,
     StreamCloseLookup, SendWrite, LockHalf, StreamWrite, StreamFinish, OpenStreamFinish
<1> QED BY <1>1, <1>2, <1>3, <1>4, <1>5, <1>6, <1>7, <1>8, <1>9 DEF Next, Told

(* So what is reported as opened was there first, and stays known.             *)
LEMMA NextTold ==
  ASSUME Inv, Inv', StreamsTold, SessionsTold, [Next]_vars
  PROVE  StreamsTold' /\ SessionsTold'
<1> USE EndpointAssumption
<1>1. ASSUME NEW s \in SessionIds, NEW k \in StreamIds, Reported(StreamOpened(s, k))'
      PROVE  \E c \in Conns : id'[c] = s /\ reader'[c][k] \in Begun
  <2>1. \E c \in Conns : id[c] = s /\ reader[c][k] \in Begun
    <3>1. CASE Reported(StreamOpened(s, k))
      BY <3>1 DEF StreamsTold
    <3>2. CASE ~Reported(StreamOpened(s, k))
      <4> DEFINE e == StreamOpened(s, k)
      <4>1. /\ e.kind = "streamOpened" /\ e.session = s /\ e.stream = k
            /\ \A r : SessionOpened(r).kind = "sessionOpened"
            /\ \A r, j : StreamOpened(r, j).session = r /\ StreamOpened(r, j).stream = j
            /\ \A r, j : StreamData(r, j).kind = "streamData"
        BY DEF StreamOpened, SessionOpened, StreamData, Event
      <4>2. Reported(e)' /\ ~Reported(e)
        BY <1>1, <3>2 DEF StreamOpened, Event
      <4> HIDE DEF e
      <4>3. PICK c \in Conns, j \in StreamIds :
              e = StreamOpened(id[c], j) /\ reader[c][j] = "accepted"
        BY <4>1, <4>2, NewReports
      <4> QED BY <4>1, <4>3 DEF Begun
    <3> QED BY <3>1, <3>2
  <2>2. PICK c \in Conns : id[c] = s /\ reader[c][k] \in Begun
    BY <2>1
  <2>3. id[c] # 0
    BY <2>2 DEF SessionIds
  <2>4. id'[c] = s
    BY <2>2, <2>3, IdsStay
  <2> QED BY <2>2, <2>4, BegunStays
<1>2. ASSUME NEW s \in SessionIds, Reported(SessionOpened(s))'
      PROVE  \E c \in Conns : id'[c] = s
  <2>1. CASE Reported(SessionOpened(s))
    <3>1. PICK c \in Conns : id[c] = s
      BY <2>1 DEF SessionsTold
    <3>2. id[c] # 0
      BY <3>1 DEF SessionIds
    <3> QED BY <3>1, <3>2, IdsStay
  <2>2. CASE ~Reported(SessionOpened(s))
    <3> DEFINE e == SessionOpened(s)
    <3>1. /\ e.kind = "sessionOpened" /\ e.session = s
          /\ \A r : SessionOpened(r).session = r
          /\ \A r, j : StreamOpened(r, j).kind = "streamOpened"
          /\ \A r, j : StreamData(r, j).kind = "streamData"
      BY DEF StreamOpened, SessionOpened, StreamData, Event
    <3>2. Reported(e)' /\ ~Reported(e)
      BY <1>2, <2>2 DEF SessionOpened, Event
    <3> HIDE DEF e
    <3>3. PICK c \in Conns : e = SessionOpened(id'[c])
      BY <3>1, <3>2, NewReports
    <3> QED BY <3>1, <3>3
  <2> QED BY <2>1, <2>2
<1>3. StreamsTold'
  BY <1>1 DEF StreamsTold, StreamOpened, Event
<1>4. SessionsTold'
  BY <1>2 DEF SessionsTold, SessionOpened, Event
<1> QED BY <1>3, <1>4

(* The connection of a task that has its id never comes back to life, and one  *)
(* that is over stays over.                                                    *)
LEMMA ConnsEnd ==
  ASSUME Inv, [Next]_vars, NEW d \in Conns, id[d] # 0
  PROVE  /\ conn'[d] = "live" => conn[d] = "live"
         /\ Over(d) => Over(d)'
<1> USE EndpointAssumption
<1>a. TypeOK /\ task[d] \in Numbered
  BY DEF Inv, Ownership, IdsUnique
<1> DEFINE Ends == /\ conn'[d] = "live" => conn[d] = "live"
                   /\ conn[d] \in {"ended", "closed"} => conn'[d] \in {"ended", "closed"}
<1>1. UNCHANGED conn => Ends
  OBVIOUS
<1>2. ASSUME NEW c \in Conns, AcceptRequest(c) \/ Connect(c) PROVE Ends
  <2>1. task[c] \notin Numbered /\ conn' = [conn EXCEPT ![c] = "live"]
    BY <1>2 DEF AcceptRequest, Connect, TaskStep, Numbered
  <2>2. c # d
    BY <1>a, <2>1
  <2> QED BY <1>a, <2>1, <2>2 DEF TypeOK
<1>3. ASSUME NEW c \in Conns, NEW from, NEW to, ConnStep(c, from, to), to # "live",
             from = "ended" => to = "closed", from # "closed"
      PROVE  Ends
  BY <1>a, <1>3 DEF ConnStep, TypeOK
<1>4. ASSUME DropCloses PROVE Ends
  BY <1>4 DEF DropCloses
<1> HIDE DEF Ends
<1>5. ASSUME UNCHANGED vars \/ NextEvent \/ RuntimeGoes PROVE Ends
  BY <1>1, <1>5 DEF vars, NextEvent, RuntimeGoes
<1>6. ASSUME NEW c \in Conns, Network(c) PROVE Ends
  BY <1>1, <1>3, <1>6 DEF Network, PeerCloses, PeerVanishes, IdleTimeout, ConnCloses,
     PeerSendsUni, PeerOpensBi, PeerEndsAsk, PeerStopsReply
<1>7. ASSUME NEW c \in Conns, Proceed(c) \/ Select(c) \/ Incoming(c) \/ Reject(c) PROVE Ends
  BY <1>1, <1>7 DEF Proceed, Register, AnnounceOpened, ReadUni, AnnounceStream, ForgetSession,
     ForgetStreams, AnnounceClosed, Select, ReceiveDatagram, AcceptUni, LoopReturns, AcceptBi,
     Incoming, Reject
<1>8. ASSUME NEW c \in Conns, NEW k \in StreamIds, Reader(c, k) PROVE Ends
  BY <1>1, <1>8 DEF Reader, ReadToEnd, ReaderCloses
<1>9. ASSUME NEW t \in Callers, Caller(t) PROVE Ends
  BY <1>1, <1>9 DEF Caller, Finish, SendLookup, OpenStreamLookup, StreamSendLookup,
     StreamCloseLookup, SendWrite, LockHalf, StreamWrite, StreamFinish, OpenStreamFinish
<1>10. Ends
  BY <1>2, <1>4, <1>5, <1>6, <1>7, <1>8, <1>9 DEF Next
<1> QED BY <1>10 DEF Ends, Over

(* A task leaves its loop when the connection is over, and only then.          *)
LEMMA NextLoopsEnd ==
  ASSUME Inv, LoopsEnd, [Next]_vars
  PROVE  LoopsEnd'
<1> USE EndpointAssumption
<1>a. TypeOK /\ IdsUnique
  BY DEF Inv, Ownership
<1>1. ASSUME NEW c \in Conns, LoopReturns(c) PROVE LoopsEnd'
  <2>1. task' = [task EXCEPT ![c] = "returned"] /\ Over(c) /\ UNCHANGED conn
    BY <1>1 DEF LoopReturns, TaskStep
  <2> QED BY <1>a, <2>1 DEF LoopsEnd, Over, TypeOK
<1>2. ASSUME \A c \in Conns : task'[c] \in AfterLoop => task[c] \in AfterLoop
      PROVE  LoopsEnd'
  <2> SUFFICES ASSUME NEW c \in Conns, task'[c] \in AfterLoop PROVE Over(c)'
    BY DEF LoopsEnd
  <2>1. task[c] \in AfterLoop
    BY <1>2
  <2>2. id[c] # 0
    BY <1>a, <2>1 DEF IdsUnique, Numbered, AfterLoop
  <2> QED BY <2>1, <2>2, ConnsEnd DEF LoopsEnd
<1>3. UNCHANGED task => LoopsEnd'
  BY <1>2
<1>4. ASSUME NEW c \in Conns, NEW from, NEW to, TaskStep(c, from, to),
             to \in AfterLoop => from \in AfterLoop
      PROVE  LoopsEnd'
  BY <1>a, <1>2, <1>4 DEF TaskStep, TypeOK
<1>5. CASE UNCHANGED vars \/ NextEvent \/ DropCloses \/ RuntimeGoes
  BY <1>3, <1>5 DEF vars, NextEvent, DropCloses, RuntimeGoes
<1>6. ASSUME NEW c \in Conns, Network(c) PROVE LoopsEnd'
  BY <1>3, <1>6 DEF Network, PeerCloses, PeerVanishes, IdleTimeout, ConnCloses, ConnStep,
     PeerSendsUni, PeerOpensBi, PeerEndsAsk, PeerStopsReply
<1>7. ASSUME NEW c \in Conns, Proceed(c) PROVE LoopsEnd'
  BY <1>4, <1>7 DEF Proceed, Register, AnnounceOpened, ReadUni, AnnounceStream, ForgetSession,
     ForgetStreams, AnnounceClosed, AfterLoop
<1>8. ASSUME NEW c \in Conns, Select(c) PROVE LoopsEnd'
  BY <1>1, <1>4, <1>8 DEF Select, ReceiveDatagram, AcceptUni, AcceptBi, AfterLoop
<1>9. ASSUME NEW c \in Conns,
             Incoming(c) \/ Reject(c) \/ AcceptRequest(c) \/ Connect(c)
      PROVE  LoopsEnd'
  BY <1>4, <1>9 DEF Incoming, Reject, AcceptRequest, Connect, AfterLoop
<1>10. ASSUME NEW c \in Conns, NEW k \in StreamIds, Reader(c, k) PROVE LoopsEnd'
  BY <1>3, <1>10 DEF Reader, ReadToEnd, ReaderCloses
<1>11. ASSUME NEW t \in Callers, Caller(t) PROVE LoopsEnd'
  BY <1>3, <1>11 DEF Caller, Finish, SendLookup, OpenStreamLookup, StreamSendLookup,
     StreamCloseLookup, SendWrite, LockHalf, StreamWrite, StreamFinish, OpenStreamFinish
<1> QED BY <1>5, <1>6, <1>7, <1>8, <1>9, <1>10, <1>11 DEF Next

(* Only the task itself, or Drop, takes a session out of the map.              *)
LEMMA NextLoopsMapped ==
  ASSUME Inv, LoopsMapped, [Next]_vars
  PROVE  LoopsMapped'
<1> USE EndpointAssumption
<1>a. TypeOK /\ Ownership /\ IdsUnique
  BY DEF Inv, Ownership
<1>1. UNCHANGED <<task, id, sessions, phase>> => LoopsMapped'
  BY DEF LoopsMapped
<1>2. ASSUME NEW c \in Conns, NEW from, NEW to, TaskStep(c, from, to),
             to \in InLoop => from \in InLoop, UNCHANGED <<id, sessions, phase>>
      PROVE  LoopsMapped'
  BY <1>a, <1>2 DEF LoopsMapped, TaskStep, TypeOK
<1>3. ASSUME NEW c \in Conns, TakeSession(c), NEW from, NEW to, TaskStep(c, from, to),
             UNCHANGED phase
      PROVE  LoopsMapped'
  <2> SUFFICES ASSUME phase = "up", NEW d \in Conns, task'[d] \in InLoop
               PROVE  sessions'[id'[d]] = d
    BY <1>3 DEF LoopsMapped
  <2>1. /\ id' = [id EXCEPT ![c] = nextSession] /\ nextSession \in SessionIds
        /\ sessions' = [sessions EXCEPT ![nextSession] = c]
        /\ task' = [task EXCEPT ![c] = to]
    BY <1>a, <1>3, TakeSessionType DEF TakeSession, TaskStep
  <2>2. CASE d = c
    BY <1>a, <2>1, <2>2 DEF TypeOK
  <2>3. CASE d # c
    <3>1. task[d] \in InLoop /\ id'[d] = id[d]
      BY <1>a, <2>1, <2>3 DEF TypeOK
    <3>2. id[d] < nextSession /\ id[d] \in Nat /\ nextSession \in Nat
      BY <1>a, <2>1 DEF IdsUnique, TypeOK, SessionIds
    <3>3. id[d] # nextSession
      BY <3>2
    <3>4. id[d] \in SessionIds
      BY <1>a, <3>1, NumberedId DEF InLoop, Numbered
    <3> QED BY <1>a, <2>1, <3>1, <3>3, <3>4 DEF LoopsMapped, TypeOK
  <2> QED BY <2>2, <2>3
<1>4. ASSUME NEW c \in Conns, ForgetSession(c) PROVE LoopsMapped'
  <2> SUFFICES ASSUME phase = "up", NEW d \in Conns, task'[d] \in InLoop
               PROVE  sessions'[id[d]] = d
    BY <1>4 DEF LoopsMapped, ForgetSession
  <2>1. /\ sessions' = [sessions EXCEPT ![id[c]] = None] /\ task[c] = "returned"
        /\ task' = [task EXCEPT ![c] = "forgotten"]
    BY <1>4 DEF ForgetSession, TaskStep
  <2>2. d # c /\ task[d] \in InLoop
    BY <1>a, <2>1 DEF TypeOK, InLoop
  <2>3. id[d] \in SessionIds /\ id[d] # 0
    BY <1>a, <2>2, NumberedId DEF InLoop, Numbered, SessionIds
  <2>4. id[d] # id[c]
    BY <1>a, <2>2, <2>3 DEF IdsUnique
  <2> QED BY <1>a, <2>1, <2>2, <2>3, <2>4 DEF LoopsMapped, TypeOK
<1>5. CASE DropCloses \/ RuntimeGoes
  BY <1>5 DEF DropCloses, RuntimeGoes, LoopsMapped
<1>6. CASE UNCHANGED vars \/ NextEvent
  BY <1>1, <1>6 DEF vars, NextEvent
<1>7. ASSUME NEW c \in Conns, Network(c) PROVE LoopsMapped'
  BY <1>1, <1>7 DEF Network, PeerCloses, PeerVanishes, IdleTimeout, ConnCloses, ConnStep,
     PeerSendsUni, PeerOpensBi, PeerEndsAsk, PeerStopsReply
<1>8. ASSUME NEW c \in Conns, Proceed(c) PROVE LoopsMapped'
  <2>1. CASE Register(c)
    BY <1>3, <2>1 DEF Register
  <2>2. CASE AnnounceOpened(c) \/ ReadUni(c) \/ (\E k \in StreamIds : AnnounceStream(c, k))
             \/ ForgetStreams(c) \/ AnnounceClosed(c)
    BY <1>2, <2>2 DEF AnnounceOpened, ReadUni, AnnounceStream, ForgetStreams, AnnounceClosed,
       InLoop
  <2> QED BY <1>4, <1>8, <2>1, <2>2 DEF Proceed
<1>9. ASSUME NEW c \in Conns, Select(c) PROVE LoopsMapped'
  BY <1>2, <1>9 DEF Select, ReceiveDatagram, AcceptUni, LoopReturns, AcceptBi, InLoop
<1>10. ASSUME NEW c \in Conns, Incoming(c) \/ Reject(c) \/ AcceptRequest(c)
       PROVE  LoopsMapped'
  BY <1>2, <1>10 DEF Incoming, Reject, AcceptRequest, InLoop
<1>11. ASSUME NEW c \in Conns, Connect(c) PROVE LoopsMapped'
  BY <1>3, <1>11 DEF Connect
<1>12. ASSUME NEW c \in Conns, NEW k \in StreamIds, Reader(c, k) PROVE LoopsMapped'
  BY <1>1, <1>12 DEF Reader, ReadToEnd, ReaderCloses
<1>13. ASSUME NEW t \in Callers, Caller(t) PROVE LoopsMapped'
  BY <1>1, <1>13 DEF Caller, Finish, SendLookup, OpenStreamLookup, StreamSendLookup,
     StreamCloseLookup, SendWrite, LockHalf, StreamWrite, StreamFinish, OpenStreamFinish
<1> QED BY <1>5, <1>6, <1>7, <1>8, <1>9, <1>10, <1>11, <1>12, <1>13 DEF Next

(* Nothing is polled, and nothing goes up again, once Drop has begun.          *)
LEMMA DropIsForGood ==
  ASSUME [Next]_vars
  PROVE  /\ phase # "up" => phase' # "up" /\ UNCHANGED seen
         /\ phase' # phase => DropCloses \/ RuntimeGoes
         /\ seen' # seen => NextEvent
<1>1. ASSUME NEW c \in Conns, Network(c) \/ Proceed(c) \/ Select(c) PROVE UNCHANGED <<phase, seen>>
  BY <1>1 DEF Network, PeerCloses, PeerVanishes, IdleTimeout, ConnCloses, ConnStep,
     PeerSendsUni, PeerOpensBi, PeerEndsAsk, PeerStopsReply, Proceed, Register, AnnounceOpened,
     ReadUni, AnnounceStream, ForgetSession, ForgetStreams, AnnounceClosed, Select,
     ReceiveDatagram, AcceptUni, LoopReturns, AcceptBi
<1>2. ASSUME NEW c \in Conns,
             \/ Incoming(c) \/ Reject(c) \/ AcceptRequest(c) \/ Connect(c)
             \/ \E k \in StreamIds : Reader(c, k)
      PROVE  UNCHANGED <<phase, seen>>
  BY <1>2 DEF Incoming, Reject, AcceptRequest, Connect, Reader, ReadToEnd, ReaderCloses
<1>3. ASSUME NEW t \in Callers, Caller(t) PROVE UNCHANGED <<phase, seen>>
  BY <1>3 DEF Caller, Finish, SendLookup, OpenStreamLookup, StreamSendLookup, StreamCloseLookup,
     SendWrite, LockHalf, StreamWrite, StreamFinish, OpenStreamFinish
<1> QED BY <1>1, <1>2, <1>3 DEF Next, NextEvent, DropCloses, RuntimeGoes, vars

(* Drop closes every session that is in the map, and that is every one the     *)
(* caller has heard of whose connection may still be live.                     *)
LEMMA NextAnnouncedIsTold ==
  ASSUME Inv, Announced, [Next]_vars
  PROVE  AnnouncedIsTold'
<1> USE EndpointAssumption
<1>a. TypeOK /\ IdsUnique
  BY DEF Inv, Ownership
<1> SUFFICES ASSUME phase' # "up", NEW c \in Conns, id'[c] # 0,
                    SessionOpened(id'[c]) \in seen', conn'[c] = "live"
             PROVE  FALSE
  BY DEF AnnouncedIsTold, SessionOpened, Event
<1>1. CASE phase = "up"
  <2>1. DropCloses
    BY <1>1, DropIsForGood DEF RuntimeGoes
  <2>2. /\ conn' = [d \in Conns |-> IF \E s \in SessionIds : sessions[s] = d
                                    THEN "closed" ELSE conn[d]]
        /\ UNCHANGED <<id, seen>>
    BY <2>1 DEF DropCloses
  <2>3. conn[c] = "live" /\ \A s \in SessionIds : sessions[s] # c
    BY <2>2
  <2>4. task[c] \in Numbered
    BY <1>a, <2>2 DEF IdsUnique
  <2>5. task[c] \notin AfterLoop
    BY <2>3 DEF Announced, LoopsEnd, Over
  <2>6. task[c] \in InLoop
    BY <2>4, <2>5 DEF Numbered, InLoop, AfterLoop
  <2>7. id[c] \in SessionIds
    BY <1>a, <2>4, NumberedId DEF Inv
  <2> QED BY <1>1, <2>3, <2>6, <2>7 DEF Announced, LoopsMapped
<1>2. CASE phase # "up"
  <2>1. seen' = seen
    BY <1>2, DropIsForGood
  <2>2. CASE id[c] # 0
    <3>1. id'[c] = id[c] /\ conn[c] = "live"
      BY <2>2, IdsStay, ConnsEnd
    <3> QED BY <1>2, <2>1, <2>2, <3>1 DEF Announced, AnnouncedIsTold, SessionOpened, Event
  <2>3. CASE id[c] = 0
    <3>1. id'[c] = nextSession
      BY <2>3, IdsStay
    <3>2. SessionOpened(nextSession) \in seen
      BY <2>1, <3>1 DEF SessionOpened, Event
    <3>3. Reported(SessionOpened(nextSession))
      BY <3>2 DEF Reported
    <3>4. nextSession \in SessionIds
      BY <3>2, <1>a DEF TypeOK, Events, SessionOpened, Event
    <3>5. PICK d \in Conns : id[d] = nextSession
      BY <3>3, <3>4 DEF Announced, SessionsTold
    <3>6. id[d] < nextSession /\ id[d] \in Nat
      BY <1>a DEF IdsUnique, TypeOK
    <3> QED BY <3>5, <3>6
  <2> QED BY <2>2, <2>3
<1> QED BY <1>1, <1>2

(* What has been announced is there, and stays so.                             *)
LEMMA AnnouncedHolds == Spec => [](Inv /\ Announced)
<1>1. Init => Announced
  BY DEF Init, Announced, StreamsKept, StreamsTold, SessionsTold, LoopsMapped, LoopsEnd,
     AnnouncedIsTold, Reported, Begun, InLoop, AfterLoop
<1>2. ASSUME Inv, Inv', Announced, [Next]_vars PROVE Announced'
  <2>1. StreamsKept /\ StreamsTold /\ SessionsTold /\ LoopsMapped /\ LoopsEnd
    BY <1>2 DEF Announced
  <2>2. StreamsKept'
    BY <1>2, <2>1, NextStreamsKept
  <2>3. StreamsTold' /\ SessionsTold'
    BY <1>2, <2>1, NextTold
  <2>4. LoopsMapped' /\ LoopsEnd'
    BY <1>2, <2>1, NextLoopsMapped, NextLoopsEnd
  <2>5. AnnouncedIsTold'
    BY <1>2, NextAnnouncedIsTold
  <2> QED BY <2>2, <2>3, <2>4, <2>5 DEF Announced
<1> QED BY InvHolds, <1>1, <1>2, PTL DEF Spec

(* A stream whose streamOpened was queued or polled is in the map, so that it  *)
(* can be answered, until stream_close takes it or its session is swept.       *)
THEOREM AnnouncedStreamsAreKept == Spec => []AnnouncedStreamIsKept
<1>1. Inv /\ Announced => AnnouncedStreamIsKept
  <2> SUFFICES ASSUME Inv, Announced, NEW c \in Conns, NEW k \in StreamIds, id[c] # 0,
                      Reported(StreamOpened(id[c], k))
               PROVE  \/ streams[id[c]][k] = c
                      \/ <<c, k>> \in taken
                      \/ task[c] \in {"swept", "done"}
    BY DEF AnnouncedStreamIsKept
  <2>1. id[c] \in SessionIds
    BY EndpointAssumption DEF Inv, TypeOK, SessionIds
  <2>2. PICK d \in Conns : id[d] = id[c] /\ reader[d][k] \in Begun
    BY <2>1 DEF Announced, StreamsTold
  <2>3. d = c
    BY <2>2 DEF Inv, Ownership, IdsUnique
  <2> QED BY <2>2, <2>3 DEF Announced, StreamsKept
<1> QED BY AnnouncedHolds, <1>1, PTL

(* Drop leaves no peer behind that believes in a session the caller has heard  *)
(* of, however the tasks go on accepting and registering meanwhile.            *)
THEOREM DropTellsTheAnnounced == Spec => []AnnouncedIsTold
<1>1. Announced => AnnouncedIsTold
  BY DEF Announced
<1> QED BY AnnouncedHolds, <1>1, PTL

-----------------------------------------------------------------------------
(* What a stream carries *)

(* streamData is reported only of a message that the peer has ended.           *)
DataTold ==
  \A s \in SessionIds, k \in StreamIds : Reported(StreamData(s, k)) =>
    \E c \in Conns : id[c] = s /\ ask[c][k] = "text"

(* What was polled stays polled.                                               *)
LEMMA SeenStays ==
  ASSUME [Next]_vars
  PROVE  seen \subseteq seen'
<1>1. NextEvent => seen \subseteq seen'
  BY DEF NextEvent
<1>2. ASSUME UNCHANGED vars \/ DropCloses \/ RuntimeGoes PROVE UNCHANGED seen
  BY <1>2 DEF vars, DropCloses, RuntimeGoes
<1>3. ASSUME NEW c \in Conns, Network(c) PROVE UNCHANGED seen
  BY <1>3 DEF Network, PeerCloses, PeerVanishes, IdleTimeout, ConnCloses, ConnStep,
     PeerSendsUni, PeerOpensBi, PeerEndsAsk, PeerStopsReply
<1>4. ASSUME NEW c \in Conns, Proceed(c) \/ Select(c) PROVE UNCHANGED seen
  BY <1>4 DEF Proceed, Register, AnnounceOpened, ReadUni, AnnounceStream, ForgetSession,
     ForgetStreams, AnnounceClosed, Select, ReceiveDatagram, AcceptUni, LoopReturns, AcceptBi
<1>5. ASSUME NEW c \in Conns, Incoming(c) \/ Reject(c) \/ AcceptRequest(c) \/ Connect(c)
      PROVE  UNCHANGED seen
  BY <1>5 DEF Incoming, Reject, AcceptRequest, Connect
<1>6. ASSUME NEW c \in Conns, NEW k \in StreamIds, Reader(c, k) PROVE UNCHANGED seen
  BY <1>6 DEF Reader, ReadToEnd, ReaderCloses
<1>7. ASSUME NEW t \in Callers, Caller(t) PROVE UNCHANGED seen
  BY <1>7 DEF Caller, Finish, SendLookup, OpenStreamLookup, StreamSendLookup,
     StreamCloseLookup, SendWrite, LockHalf, StreamWrite, StreamFinish, OpenStreamFinish
<1> QED BY <1>1, <1>2, <1>3, <1>4, <1>5, <1>6, <1>7 DEF Next

(* A half that has ended stays so; ours is finished by a stream_close that     *)
(* holds it.                                                                   *)
LEMMA HalvesStay ==
  ASSUME Inv, [Next]_vars, NEW d \in Conns, NEW j \in StreamIds
  PROVE  /\ ask[d][j] = "text" => ask'[d][j] = "text"
         /\ reply[d][j] = "finished" => reply'[d][j] = "finished"
         /\ reply'[d][j] = "finished" =>
              \/ reply[d][j] = "finished"
              \/ \E t \in Callers : /\ call[t].op = "streamClose" /\ ~Free(t)
                                    /\ call[t].conn = d /\ call[t].stream = j
<1> USE EndpointAssumption
<1>a. TypeOK /\ CallsOwn
  BY DEF Inv, Ownership
<1> DEFINE Closing == \E t \in Callers : /\ call[t].op = "streamClose" /\ ~Free(t)
                                        /\ call[t].conn = d /\ call[t].stream = j
           Stays == /\ ask[d][j] = "text" => ask'[d][j] = "text"
                    /\ reply[d][j] = "finished" => reply'[d][j] = "finished"
                    /\ reply'[d][j] = "finished" => reply[d][j] = "finished" \/ Closing
<1>1. UNCHANGED <<ask, reply>> => Stays
  OBVIOUS
<1>2. ASSUME NEW c \in Conns, NEW k \in StreamIds, PeerEndsAsk(c, k) PROVE Stays
  BY <1>a, <1>2 DEF PeerEndsAsk, TypeOK
<1>3. ASSUME NEW c \in Conns, NEW k \in StreamIds, PeerStopsReply(c, k) PROVE Stays
  BY <1>a, <1>3 DEF PeerStopsReply, TypeOK
<1>4. ASSUME NEW t \in Callers, StreamFinish(t) PROVE Stays
  <2>1. call[t].op = "streamClose" /\ ~Free(t) /\ UNCHANGED ask
    BY <1>4 DEF StreamFinish, Free
  <2>2. call[t].conn \in Conns /\ call[t].stream \in StreamIds
    BY <1>a, <2>1 DEF CallsOwn
  <2>3. reply' \in {reply, [reply EXCEPT ![call[t].conn][call[t].stream] = "finished"]}
    BY <1>4 DEF StreamFinish
  <2>4. CASE call[t].conn = d /\ call[t].stream = j
    <3>1. Closing
      BY <2>1, <2>4
    <3>2. reply'[d][j] = reply[d][j] \/ reply'[d][j] = "finished"
      BY <1>a, <2>2, <2>3, <2>4 DEF TypeOK
    <3> QED BY <2>1, <3>1, <3>2
  <2>5. CASE ~(call[t].conn = d /\ call[t].stream = j)
    <3>1. ASSUME NEW c \in Conns, NEW k \in StreamIds, ~(c = d /\ k = j),
                 reply' = [reply EXCEPT ![c][k] = "finished"]
          PROVE  reply'[d][j] = reply[d][j]
      BY <1>a, <3>1 DEF TypeOK
    <3>2. reply'[d][j] = reply[d][j]
      BY <2>2, <2>3, <2>5, <3>1
    <3> QED BY <2>1, <3>2
  <2> QED BY <2>4, <2>5
<1> HIDE DEF Stays
<1>5. ASSUME UNCHANGED vars \/ NextEvent \/ DropCloses \/ RuntimeGoes PROVE Stays
  BY <1>1, <1>5 DEF vars, NextEvent, DropCloses, RuntimeGoes
<1>6. ASSUME NEW c \in Conns, Network(c) PROVE Stays
  BY <1>1, <1>2, <1>3, <1>6 DEF Network, PeerCloses, PeerVanishes, IdleTimeout, ConnCloses,
     ConnStep, PeerSendsUni, PeerOpensBi
<1>7. ASSUME NEW c \in Conns, Proceed(c) \/ Select(c) PROVE Stays
  BY <1>1, <1>7 DEF Proceed, Register, AnnounceOpened, ReadUni, AnnounceStream, ForgetSession,
     ForgetStreams, AnnounceClosed, Select, ReceiveDatagram, AcceptUni, LoopReturns, AcceptBi
<1>8. ASSUME NEW c \in Conns, Incoming(c) \/ Reject(c) \/ AcceptRequest(c) \/ Connect(c)
      PROVE  Stays
  BY <1>1, <1>8 DEF Incoming, Reject, AcceptRequest, Connect
<1>9. ASSUME NEW c \in Conns, NEW k \in StreamIds, Reader(c, k) PROVE Stays
  BY <1>1, <1>9 DEF Reader, ReadToEnd, ReaderCloses
<1>10. ASSUME NEW t \in Callers, Caller(t) PROVE Stays
  BY <1>1, <1>4, <1>10 DEF Caller, Finish, SendLookup, OpenStreamLookup, StreamSendLookup,
     StreamCloseLookup, SendWrite, LockHalf, StreamWrite, OpenStreamFinish
<1> QED BY <1>5, <1>6, <1>7, <1>8, <1>9, <1>10 DEF Next, Stays

(* At either end no message is reported that was not ended by its sender.      *)
LEMMA DataHolds == Spec => [](Inv /\ DataTold)
<1>1. Init => DataTold
  BY DEF Init, DataTold, Reported
<1>2. ASSUME Inv, DataTold, [Next]_vars PROVE DataTold'
  <2> USE EndpointAssumption
  <2>1. ASSUME NEW s \in SessionIds, NEW k \in StreamIds, Reported(StreamData(s, k))'
        PROVE  \E c \in Conns : id'[c] = s /\ ask'[c][k] = "text"
    <3>1. \E c \in Conns : id[c] = s /\ ask[c][k] = "text"
      <4>1. CASE Reported(StreamData(s, k))
        BY <1>2, <4>1 DEF DataTold
      <4>2. CASE ~Reported(StreamData(s, k))
        <5> DEFINE e == StreamData(s, k)
        <5>1. /\ e.kind = "streamData" /\ e.session = s /\ e.stream = k
              /\ \A r : SessionOpened(r).kind = "sessionOpened"
              /\ \A r, j : StreamOpened(r, j).kind = "streamOpened"
              /\ \A r, j : StreamData(r, j).session = r /\ StreamData(r, j).stream = j
          BY DEF StreamOpened, SessionOpened, StreamData, Event
        <5>2. Reported(e)' /\ ~Reported(e)
          BY <2>1, <4>2 DEF StreamData, Event
        <5> HIDE DEF e
        <5>3. PICK c \in Conns, j \in StreamIds :
                e = StreamData(id[c], j) /\ ask[c][j] = "text"
          BY <1>2, <5>1, <5>2, NewReports
        <5> QED BY <5>1, <5>3
      <4> QED BY <4>1, <4>2
    <3>2. PICK c \in Conns : id[c] = s /\ ask[c][k] = "text"
      BY <3>1
    <3>3. id[c] # 0
      BY <3>2 DEF SessionIds
    <3> QED BY <1>2, <3>2, <3>3, IdsStay, HalvesStay
  <2> QED BY <2>1 DEF DataTold, StreamData, Event
<1> QED BY InvHolds, <1>1, <1>2, PTL DEF Spec

-----------------------------------------------------------------------------
(* Calls after sessionClosed, on a server.  A client's task does not sweep its *)
(* streams, and there the property fails (run client_late_write).              *)

(* Tasks that have not yet taken their session out of the map.               *)
Mapped == {"registered", "serving", "readingUni", "announcing", "returned"}

(* What the maps still hold belongs to a task that has not swept it.         *)
MapsLive ==
  /\ \A s \in SessionIds : sessions[s] # None => task[sessions[s]] \in Mapped
  /\ \A s \in SessionIds, k \in StreamIds :
       streams[s][k] # None => task[streams[s][k]] \in Mapped \cup {"forgotten"}

(* sessionClosed is the last thing a session's task does.                    *)
ClosedIsDone ==
  \A s \in SessionIds :
    Reported(SessionClosed(s)) => \E c \in Conns : id[c] = s /\ task[c] = "done"

(* open_stream is not among a server's calls.                                *)
NoOpenStream == \A t \in Callers : call[t].op # "openStream"

(* The inductive invariant behind LateCallRefused.                           *)
ServerInv == Inv /\ MapsLive /\ ClosedIsDone /\ NoOpenStream /\ LateCallRefused

(* Before anything happened there is nothing in the maps and no call.        *)
LEMMA InitServerInv == Init => ServerInv
<1> SUFFICES ASSUME Init PROVE ServerInv
  OBVIOUS
<1>1. MapsLive
  BY DEF Init, MapsLive
<1>2. ClosedIsDone
  BY DEF Init, ClosedIsDone, Reported
<1>3. NoOpenStream /\ LateCallRefused
  BY DEF Init, NoOpenStream, LateCallRefused, Free, Idle
<1> QED BY InitInv, <1>1, <1>2, <1>3 DEF ServerInv

(* A task that moves within the part of its life in which it has entries, or *)
(* within the parts in which it has none, leaves the maps live.              *)
LEMMA MoveKeepsMaps ==
  ASSUME TypeOK, MapsLive, NEW c \in Conns, NEW from, NEW to, TaskStep(c, from, to),
         from \in Mapped => to \in Mapped, from # "forgotten", UNCHANGED maps
  PROVE  MapsLive'
<1>1. (\A s \in SessionIds : sessions[s] # None => task[sessions[s]] \in Mapped)'
  BY DEF TypeOK, MapsLive, TaskStep
<1>2. (\A s \in SessionIds, k \in StreamIds :
         streams[s][k] # None => task[streams[s][k]] \in Mapped \cup {"forgotten"})'
  BY DEF TypeOK, MapsLive, TaskStep
<1> QED BY <1>1, <1>2 DEF MapsLive

(* On a server, every step keeps the maps free of what was swept.            *)
LEMMA NextMapsLive ==
  ASSUME Role = "server", Inv, MapsLive, NoOpenStream, [Next]_vars
  PROVE  MapsLive'
<1> USE EndpointAssumption
<1>a. TypeOK /\ Ownership /\ IdsUnique /\ MapsOwn
  BY DEF Inv, Ownership
<1>1. UNCHANGED <<task, sessions, streams>> => MapsLive'
  BY DEF MapsLive
<1>2. CASE UNCHANGED vars \/ NextEvent
  BY <1>1, <1>2 DEF vars, NextEvent
<1>3. CASE DropCloses \/ RuntimeGoes
  BY <1>3 DEF DropCloses, RuntimeGoes, MapsLive
<1>4. ASSUME NEW c \in Conns, Network(c) PROVE MapsLive'
  BY <1>1, <1>4 DEF Network, PeerCloses, PeerVanishes, IdleTimeout, ConnCloses, ConnStep,
     PeerSendsUni, PeerOpensBi, PeerEndsAsk, PeerStopsReply
<1>5. ASSUME NEW c \in Conns, Proceed(c) PROVE MapsLive'
  <2>1. CASE Register(c)
    <3>1. /\ task' = [task EXCEPT ![c] = "registered"] /\ UNCHANGED streams
          /\ sessions' = [sessions EXCEPT ![nextSession] = c]
      BY <2>1 DEF Register, TaskStep, TakeSession
    <3>2. (\A s \in SessionIds : sessions[s] # None => task[sessions[s]] \in Mapped)'
      BY <1>a, <3>1 DEF TypeOK, MapsLive, Mapped
    <3>3. (\A s \in SessionIds, k \in StreamIds :
             streams[s][k] # None => task[streams[s][k]] \in Mapped \cup {"forgotten"})'
      BY <1>a, <3>1 DEF TypeOK, MapsLive, Mapped
    <3> QED BY <3>2, <3>3 DEF MapsLive
  <2>2. CASE AnnounceOpened(c) \/ ReadUni(c)
    BY <1>a, <2>2, MoveKeepsMaps DEF AnnounceOpened, ReadUni, Mapped
  <2>3. ASSUME NEW k \in StreamIds, AnnounceStream(c, k) PROVE MapsLive'
    BY <1>a, <2>3, MoveKeepsMaps DEF AnnounceStream, Mapped
  <2>4. CASE ForgetSession(c)
    <3>1. /\ task[c] = "returned" /\ task' = [task EXCEPT ![c] = "forgotten"]
          /\ sessions' = [sessions EXCEPT ![id[c]] = None] /\ UNCHANGED streams
      BY <2>4 DEF ForgetSession, TaskStep
    <3>2. (\A s \in SessionIds : sessions[s] # None => task[sessions[s]] \in Mapped)'
      BY <1>a, <3>1 DEF TypeOK, MapsLive, MapsOwn
    <3>3. (\A s \in SessionIds, k \in StreamIds :
             streams[s][k] # None => task[streams[s][k]] \in Mapped \cup {"forgotten"})'
      BY <1>a, <3>1 DEF TypeOK, MapsLive
    <3> QED BY <3>2, <3>3 DEF MapsLive
  <2>5. CASE ForgetStreams(c)
    <3>1. /\ task[c] = "forgotten" /\ task' = [task EXCEPT ![c] = "swept"]
          /\ streams' = [streams EXCEPT ![id[c]] = [k \in StreamIds |-> None]]
          /\ UNCHANGED sessions
      BY <2>5 DEF ForgetStreams, TaskStep
    <3>2. (\A s \in SessionIds : sessions[s] # None => task[sessions[s]] \in Mapped)'
      BY <1>a, <3>1 DEF TypeOK, MapsLive, Mapped
    <3>3. (\A s \in SessionIds, k \in StreamIds :
             streams[s][k] # None => task[streams[s][k]] \in Mapped \cup {"forgotten"})'
      BY <1>a, <3>1 DEF TypeOK, MapsLive, MapsOwn
    <3> QED BY <3>2, <3>3 DEF MapsLive
  <2>6. CASE AnnounceClosed(c)
    BY <1>a, <2>6, MoveKeepsMaps DEF AnnounceClosed, Mapped
  <2> QED BY <1>5, <2>1, <2>2, <2>3, <2>4, <2>5, <2>6 DEF Proceed
<1>6. ASSUME NEW c \in Conns, Select(c) PROVE MapsLive'
  <2>1. CASE ReceiveDatagram(c) \/ AcceptUni(c) \/ LoopReturns(c)
    BY <1>a, <2>1, MoveKeepsMaps DEF ReceiveDatagram, AcceptUni, LoopReturns, Mapped
  <2>2. ASSUME NEW k \in StreamIds, AcceptBi(c, k) PROVE MapsLive'
    <3>1. /\ task' = [task EXCEPT ![c] = "announcing"] /\ UNCHANGED sessions
          /\ streams' = [streams EXCEPT ![id[c]][k] = c]
      BY <2>2 DEF AcceptBi, TaskStep
    <3>2. (\A s \in SessionIds : sessions[s] # None => task[sessions[s]] \in Mapped)'
      BY <1>a, <3>1 DEF TypeOK, MapsLive, Mapped
    <3>3. (\A s \in SessionIds, j \in StreamIds :
             streams[s][j] # None => task[streams[s][j]] \in Mapped \cup {"forgotten"})'
      BY <1>a, <3>1 DEF TypeOK, MapsLive, Mapped
    <3> QED BY <3>2, <3>3 DEF MapsLive
  <2> QED BY <1>6, <2>1, <2>2 DEF Select
<1>7. ASSUME NEW c \in Conns,
             Incoming(c) \/ Reject(c) \/ AcceptRequest(c) \/ Connect(c)
      PROVE  MapsLive'
  BY <1>a, <1>7, MoveKeepsMaps DEF Incoming, Reject, AcceptRequest, Connect, Mapped
<1>8. ASSUME NEW c \in Conns, NEW k \in StreamIds, Reader(c, k) PROVE MapsLive'
  BY <1>1, <1>8 DEF Reader, ReadToEnd, ReaderCloses
<1>9. ASSUME NEW t \in Callers, Caller(t) PROVE MapsLive'
  <2>1. CASE UNCHANGED <<task, sessions, streams>>
    BY <1>1, <2>1
  <2>2. ASSUME NEW s \in SessionIds, NEW k \in StreamIds, StreamCloseLookup(t, s, k)
        PROVE  MapsLive'
    <3>1. /\ UNCHANGED <<task, sessions>>
          /\ streams' = [streams EXCEPT ![s][k] = None]
      BY <2>2 DEF StreamCloseLookup
    <3> QED BY <1>a, <3>1 DEF TypeOK, MapsLive
  <2>3. ~OpenStreamFinish(t)
    BY DEF NoOpenStream, OpenStreamFinish
  <2> QED BY <1>9, <2>1, <2>2, <2>3 DEF Caller, Finish, SendLookup, OpenStreamLookup,
          StreamSendLookup, SendWrite, LockHalf, StreamWrite, StreamFinish
<1> QED BY <1>2, <1>3, <1>4, <1>5, <1>6, <1>7, <1>8, <1>9 DEF Next

(* ClosedIsDone survives a step that reports no new sessionClosed and leaves *)
(* the tasks that are done as they are.                                      *)
LEMMA KeepsClosed ==
  ASSUME ClosedIsDone,
         \A c \in Conns : task[c] = "done" => task'[c] = "done" /\ id'[c] = id[c],
         \A s \in SessionIds : Reported(SessionClosed(s))' => Reported(SessionClosed(s))
  PROVE  ClosedIsDone'
BY DEF ClosedIsDone, SessionClosed, Event

(* emit of any other event reports no new sessionClosed.                     *)
LEMMA EmitsOther ==
  ASSUME TypeOK, NEW e, Emit(e), e.kind # "sessionClosed", UNCHANGED seen
  PROVE  \A s \in SessionIds : Reported(SessionClosed(s))' => Reported(SessionClosed(s))
<1> SUFFICES ASSUME NEW s \in SessionIds, Reported(SessionClosed(s))'
             PROVE  Reported(SessionClosed(s))
  OBVIOUS
<1>1. SessionClosed(s).kind = "sessionClosed"
  BY DEF SessionClosed, Event
<1>2. Reported(SessionClosed(s)) \/ SessionClosed(s) = e
  BY EmitReports DEF SessionClosed, Event
<1> QED BY <1>1, <1>2

(* A task that is done stays done.                                           *)
LEMMA MoveKeepsDone ==
  ASSUME TypeOK, NEW c \in Conns, NEW from, NEW to, TaskStep(c, from, to),
         from # "done", UNCHANGED id
  PROVE  \A d \in Conns : task[d] = "done" => task'[d] = "done" /\ id'[d] = id[d]
BY DEF TypeOK, TaskStep

(* On a server, sessionClosed is reported by a task that is then done.       *)
LEMMA NextClosedIsDone ==
  ASSUME Role = "server", Inv, ClosedIsDone, [Next]_vars
  PROVE  ClosedIsDone'
<1> USE EndpointAssumption
<1>a. TypeOK /\ Ownership
  BY DEF Inv
<1> DEFINE Quiet == \A s \in SessionIds :
                      Reported(SessionClosed(s))' => Reported(SessionClosed(s))
           Still == \A d \in Conns : task[d] = "done" => task'[d] = "done" /\ id'[d] = id[d]
<1>1. Quiet /\ Still => ClosedIsDone'
  BY KeepsClosed
<1>2. UNCHANGED <<queue, seen>> => Quiet
  BY DEF Reported, SessionClosed, Event
<1>3. UNCHANGED <<task, id>> => Still
  OBVIOUS
<1> HIDE DEF Quiet, Still
<1>4. CASE UNCHANGED vars \/ DropCloses \/ RuntimeGoes
  BY <1>1, <1>2, <1>3, <1>4 DEF vars, DropCloses, RuntimeGoes
<1>5. CASE NextEvent
  <2>1. UNCHANGED <<task, id>>
    BY <1>5 DEF NextEvent
  <2>2. Quiet
    BY <1>5, <1>a, PollReports DEF Quiet
  <2> QED BY <1>1, <1>3, <2>1, <2>2
<1>6. ASSUME NEW c \in Conns, Network(c) PROVE ClosedIsDone'
  BY <1>1, <1>2, <1>3, <1>6 DEF Network, PeerCloses, PeerVanishes, IdleTimeout, ConnCloses,
     ConnStep, PeerSendsUni, PeerOpensBi, PeerEndsAsk, PeerStopsReply
<1>7. ASSUME NEW c \in Conns, Proceed(c) PROVE ClosedIsDone'
  <2>1. CASE Register(c)
    <3>1. Still
      BY <1>a, <2>1 DEF Register, TaskStep, TakeSession, TypeOK, Still
    <3> QED BY <1>1, <1>2, <2>1, <3>1 DEF Register
  <2>2. CASE AnnounceOpened(c)
    <3>1. Still
      BY <1>a, <2>2, MoveKeepsDone DEF AnnounceOpened, Still
    <3>2. Quiet
      BY <1>a, <2>2, EmitsOther DEF AnnounceOpened, SessionOpened, Event, Quiet
    <3> QED BY <1>1, <3>1, <3>2
  <2>3. CASE ReadUni(c)
    <3>1. Still
      BY <1>a, <2>3, MoveKeepsDone DEF ReadUni, Still
    <3>2. StreamMessage(id[c]).kind # "sessionClosed"
      BY DEF StreamMessage, Event
    <3>3. (Emit(StreamMessage(id[c])) \/ NoEmit) /\ UNCHANGED seen
      BY <2>3 DEF ReadUni
    <3>4. Quiet
      BY <1>a, <1>2, <3>2, <3>3, EmitsOther DEF NoEmit, Quiet
    <3> QED BY <1>1, <3>1, <3>4
  <2>4. ASSUME NEW k \in StreamIds, AnnounceStream(c, k) PROVE ClosedIsDone'
    <3>1. Still
      BY <1>a, <2>4, MoveKeepsDone DEF AnnounceStream, Still
    <3>2. Quiet
      BY <1>a, <2>4, EmitsOther DEF AnnounceStream, StreamOpened, Event, Quiet
    <3> QED BY <1>1, <3>1, <3>2
  <2>5. CASE ForgetSession(c) \/ ForgetStreams(c)
    <3>1. Still
      BY <1>a, <2>5, MoveKeepsDone DEF ForgetSession, ForgetStreams, Still
    <3> QED BY <1>1, <1>2, <2>5, <3>1 DEF ForgetSession, ForgetStreams
  <2>6. CASE AnnounceClosed(c)
    <3>1. Still /\ task'[c] = "done" /\ id'[c] = id[c]
      BY <1>a, <2>6, MoveKeepsDone DEF AnnounceClosed, TaskStep, TypeOK, Still
    <3>2. ASSUME NEW s \in SessionIds, Reported(SessionClosed(s))'
          PROVE  \E d \in Conns : id'[d] = s /\ task'[d] = "done"
      <4>1. Reported(SessionClosed(s)) \/ SessionClosed(s) = SessionClosed(id[c])
        BY <1>a, <2>6, <3>2, EmitReports DEF AnnounceClosed, SessionClosed, Event
      <4>2. CASE Reported(SessionClosed(s))
        BY <3>1, <4>2 DEF ClosedIsDone, Still
      <4>3. CASE SessionClosed(s) = SessionClosed(id[c])
        BY <3>1, <4>3 DEF SessionClosed, Event
      <4> QED BY <4>1, <4>2, <4>3
    <3> QED BY <3>2 DEF ClosedIsDone, SessionClosed, Event
  <2> QED BY <1>7, <2>1, <2>2, <2>3, <2>4, <2>5, <2>6 DEF Proceed
<1>8. ASSUME NEW c \in Conns, Select(c) PROVE ClosedIsDone'
  <2>1. CASE ReceiveDatagram(c)
    <3>1. Still
      BY <1>a, <2>1, MoveKeepsDone DEF ReceiveDatagram, Still
    <3>2. Quiet
      BY <1>a, <2>1, EmitsOther DEF ReceiveDatagram, Datagram, Event, Quiet
    <3> QED BY <1>1, <3>1, <3>2
  <2>2. CASE AcceptUni(c) \/ LoopReturns(c) \/ \E k \in StreamIds : AcceptBi(c, k)
    <3>1. Still
      BY <1>a, <2>2, MoveKeepsDone DEF AcceptUni, LoopReturns, AcceptBi, Still
    <3> QED BY <1>1, <1>2, <2>2, <3>1 DEF AcceptUni, LoopReturns, AcceptBi
  <2> QED BY <1>8, <2>1, <2>2 DEF Select
<1>9. ASSUME NEW c \in Conns,
             Incoming(c) \/ Reject(c) \/ AcceptRequest(c) \/ Connect(c)
      PROVE  ClosedIsDone'
  <2>1. Still
    BY <1>a, <1>9, MoveKeepsDone DEF Incoming, Reject, AcceptRequest, Connect, Still
  <2> QED BY <1>1, <1>2, <1>9, <2>1 DEF Incoming, Reject, AcceptRequest, Connect
<1>10. ASSUME NEW c \in Conns, NEW k \in StreamIds, Reader(c, k) PROVE ClosedIsDone'
  <2>1. StreamData(id[c], k).kind # "sessionClosed" /\ StreamClosed(id[c], k).kind # "sessionClosed"
    BY DEF StreamData, StreamClosed, Event
  <2>2. /\ Emit(StreamData(id[c], k)) \/ Emit(StreamClosed(id[c], k)) \/ NoEmit
        /\ UNCHANGED <<task, id, seen>>
    BY <1>10 DEF Reader, ReadToEnd, ReaderCloses
  <2>3. Quiet
    BY <1>a, <1>2, <2>1, <2>2, EmitsOther DEF NoEmit, Quiet
  <2> QED BY <1>1, <1>3, <2>2, <2>3
<1>11. ASSUME NEW t \in Callers, Caller(t) PROVE ClosedIsDone'
  BY <1>1, <1>2, <1>3, <1>11 DEF Caller, Finish, SendLookup, OpenStreamLookup,
     StreamSendLookup, StreamCloseLookup, SendWrite, LockHalf, StreamWrite, StreamFinish,
     OpenStreamFinish
<1> QED BY <1>4, <1>5, <1>6, <1>7, <1>8, <1>9, <1>10, <1>11 DEF Next

(* The maps have nothing left under a session whose sessionClosed was        *)
(* reported.                                                                 *)
LEMMA ClosedIsUnmapped ==
  ASSUME Inv, MapsLive, ClosedIsDone, NEW s \in SessionIds, Reported(SessionClosed(s))
  PROVE  sessions[s] = None /\ \A k \in StreamIds : streams[s][k] = None
<1>a. TypeOK /\ IdsUnique /\ MapsOwn
  BY DEF Inv, Ownership
<1>b. s # 0
  BY DEF SessionIds
<1>1. PICK c \in Conns : id[c] = s /\ task[c] = "done"
  BY DEF ClosedIsDone
<1>2. sessions[s] = None
  <2> SUFFICES ASSUME sessions[s] # None PROVE FALSE
    OBVIOUS
  <2>1. sessions[s] \in Conns /\ id[sessions[s]] = s
    BY <1>a DEF TypeOK, MapsOwn
  <2>2. sessions[s] = c
    BY <1>a, <1>b, <1>1, <2>1 DEF IdsUnique
  <2> QED BY <1>1, <2>2 DEF MapsLive, Mapped
<1>3. ASSUME NEW k \in StreamIds, streams[s][k] # None PROVE FALSE
  <2>1. streams[s][k] \in Conns /\ id[streams[s][k]] = s
    BY <1>a, <1>3 DEF TypeOK, MapsOwn
  <2>2. streams[s][k] = c
    BY <1>a, <1>b, <1>1, <2>1 DEF IdsUnique
  <2> QED BY <1>1, <1>3, <2>2 DEF MapsLive, Mapped
<1> QED BY <1>2, <1>3

(* A lookup by a caller that has read sessionClosed finds nothing.           *)
LEMMA LookupKeepsLate ==
  ASSUME Inv, LateCallRefused, NoOpenStream, NEW t \in Callers,
         NEW op \in {"send", "streamSend", "streamClose"}, NEW s \in SessionIds, NEW k, NEW c,
         SessionClosed(s) \in seen => c = None,
         call' = [call EXCEPT ![t] = Looked(op, s, k, c)]
  PROVE  LateCallRefused' /\ NoOpenStream'
<1>1. \A u \in Callers : call'[u] = IF u = t THEN Looked(op, s, k, c) ELSE call[u]
  BY DEF Inv, TypeOK
<1>2. LET now == Looked(op, s, k, c)
      IN  /\ now.late => now.stage = "idle" /\ now.result = "unknownHandle"
          /\ now.op # "openStream"
  BY DEF Looked, Idle
<1>3. LateCallRefused'
  BY <1>1, <1>2 DEF LateCallRefused, Free
<1>4. NoOpenStream'
  BY <1>1, <1>2 DEF NoOpenStream
<1> QED BY <1>3, <1>4

(* On a server, every step of a caller keeps LateCallRefused.                *)
LEMMA NextLateCall ==
  ASSUME Role = "server", ServerInv, [Next]_vars
  PROVE  LateCallRefused' /\ NoOpenStream'
<1> USE EndpointAssumption
<1>a. TypeOK /\ Inv /\ MapsLive /\ ClosedIsDone /\ NoOpenStream /\ LateCallRefused
  BY DEF ServerInv, Inv
<1>1. CASE UNCHANGED call
  BY <1>a, <1>1 DEF LateCallRefused, NoOpenStream, Free
<1>2. ASSUME NEW t \in Callers, Caller(t) PROVE LateCallRefused' /\ NoOpenStream'
  <2>1. ASSUME NEW s \in SessionIds, SendLookup(t, s) \/ OpenStreamLookup(t, s)
        PROVE  LateCallRefused' /\ NoOpenStream'
    <3>1. SessionClosed(s) \in seen => sessions[s] = None
      BY <1>a, ClosedIsUnmapped DEF Reported
    <3>2. call' = [call EXCEPT ![t] = Looked("send", s, None, sessions[s])]
      BY <2>1 DEF SendLookup, OpenStreamLookup
    <3> QED BY <1>a, <3>1, <3>2, LookupKeepsLate
  <2>2. ASSUME NEW s \in SessionIds, NEW k \in StreamIds,
               StreamSendLookup(t, s, k) \/ StreamCloseLookup(t, s, k)
        PROVE  LateCallRefused' /\ NoOpenStream'
    <3>1. SessionClosed(s) \in seen => streams[s][k] = None
      BY <1>a, ClosedIsUnmapped DEF Reported
    <3>2. \E op \in {"streamSend", "streamClose"} :
            call' = [call EXCEPT ![t] = Looked(op, s, k, streams[s][k])]
      BY <2>2 DEF StreamSendLookup, StreamCloseLookup
    <3> QED BY <1>a, <3>1, <3>2, LookupKeepsLate
  <2>3. CASE SendWrite(t) \/ StreamWrite(t) \/ StreamFinish(t)
    <3>1. ~call[t].late
      BY <1>a, <2>3 DEF LateCallRefused, Free, SendWrite, StreamWrite, StreamFinish
    <3>2. \E status : call' = [call EXCEPT ![t] = Idle(call[t].late, status)]
      BY <2>3 DEF SendWrite, StreamWrite, StreamFinish, Return
    <3>3. \A u \in Callers : \/ call'[u] = call[u]
                             \/ ~call'[u].late /\ call'[u].op # "openStream"
      BY <1>a, <3>1, <3>2 DEF TypeOK, Idle
    <3> QED BY <1>a, <3>3 DEF LateCallRefused, NoOpenStream, Free
  <2>4. CASE LockHalf(t)
    <3>1. call[t] \in Calls /\ ~call[t].late
      BY <1>a, <2>4 DEF TypeOK, LateCallRefused, Free, LockHalf
    <3>2. call' = [call EXCEPT ![t].stage = "locked"]
      BY <2>4 DEF LockHalf
    <3>3. \A u \in Callers : \/ call'[u] = call[u]
                             \/ ~call'[u].late /\ call'[u].op = call[u].op
      BY <1>a, <3>1, <3>2 DEF TypeOK, Calls
    <3> QED BY <1>a, <3>3 DEF LateCallRefused, NoOpenStream, Free
  <2>5. ~OpenStreamFinish(t)
    BY <1>a DEF NoOpenStream, OpenStreamFinish
  <2> QED BY <1>2, <2>1, <2>2, <2>3, <2>4, <2>5 DEF Caller, Finish
<1> QED BY <1>1, <1>2, OnlyCallersCall

(* On a server, once a poll has returned the sessionClosed of a session, no  *)
(* send, stream_send or stream_close for it is accepted: both maps are       *)
(* cleared before the event is emitted, whatever the callers, the readers    *)
(* and the other sessions do in between.                                     *)
THEOREM LateCallsAreRefused ==
  ASSUME Role = "server"
  PROVE  Spec => []LateCallRefused
<1>1. ServerInv /\ [Next]_vars => ServerInv'
  <2> SUFFICES ASSUME ServerInv, [Next]_vars PROVE ServerInv'
    OBVIOUS
  <2>1. Inv /\ MapsLive /\ ClosedIsDone /\ NoOpenStream
    BY DEF ServerInv
  <2>2. Inv'
    BY <2>1, NextType, NextOwnership DEF Inv
  <2>3. MapsLive'
    BY <2>1, NextMapsLive
  <2>4. ClosedIsDone'
    BY <2>1, NextClosedIsDone
  <2>5. LateCallRefused' /\ NoOpenStream'
    BY NextLateCall
  <2> QED BY <2>2, <2>3, <2>4, <2>5 DEF ServerInv
<1>2. ServerInv => LateCallRefused
  BY DEF ServerInv
<1> QED BY InitServerInv, <1>1, <1>2, PTL DEF Spec
=============================================================================
