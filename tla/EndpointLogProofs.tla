-------------------------- MODULE EndpointLogProofs --------------------------
(***************************************************************************)
(* Endpoint implements EventLog, proved for both roles and every instance; *)
(* with that, the order of events is EventLog's (EventLogProofs).          *)
(***************************************************************************)
EXTENDS EndpointProofs, EndpointLog

USE DEF ids, peerVars, halves, maps, ffi, history

(* open_stream is the client's, and a client's task is never seen between    *)
(* the entry of its session and the announcement.                            *)
RoleInv ==
  /\ \A t \in Callers : call[t].op = "openStream" => Role = "client"
  /\ Role = "client" => \A c \in Conns : task[c] \notin {"request", "accepted", "registered"}

(* The life that a task, or a reader, gives to what it serves.               *)
TaskLife(at)   == CASE at = "done" -> "over"
                    [] at \in Numbered \ {"registered", "done"} -> "open"
                    [] OTHER -> "unborn"
ReaderLife(at) == CASE at = "reading" -> "open" [] at = "closing" -> "read"
                    [] at = "done" -> "over" [] OTHER -> "unborn"

(* A session lives as long as the one task that holds its id, a stream as    *)
(* long as the reader of that task.                                          *)
SessionsRead ==
  \A s \in SessionIds :
    /\ \A c \in Conns : id[c] = s => SessionLife(s) = TaskLife(task[c])
    /\ (\A c \in Conns : id[c] # s) => SessionLife(s) = "unborn"
StreamsRead ==
  \A s \in SessionIds, k \in StreamIds :
    /\ \A c \in Conns : id[c] = s => StreamLife(s, k) = ReaderLife(reader[c][k])
    /\ (\A c \in Conns : id[c] # s) => StreamLife(s, k) = "unborn"

(* The life of a session can be read off one task.                           *)
LEMMA SessionLifeIs == Inv => SessionsRead
<1> SUFFICES ASSUME Inv, NEW s \in SessionIds
             PROVE  /\ \A c \in Conns : id[c] = s => SessionLife(s) = TaskLife(task[c])
                    /\ (\A c \in Conns : id[c] # s) => SessionLife(s) = "unborn"
  BY DEF SessionsRead
<1>1. ASSUME NEW c \in Conns, id[c] = s PROVE SessionLife(s) = TaskLife(task[c])
  <2>1. id[c] # 0
    BY <1>1 DEF SessionIds
  <2>2. task[c] \in Numbered /\ \A d \in Conns : id[d] = s => d = c
    BY <1>1, <2>1 DEF Inv, Ownership, IdsUnique
  <2>3. CASE task[c] = "done"
    BY <1>1, <2>2, <2>3 DEF SessionLife, TaskLife
  <2>4. CASE task[c] = "registered"
    BY <1>1, <2>2, <2>4 DEF SessionLife, TaskLife
  <2>5. CASE task[c] \in Numbered \ {"registered", "done"}
    BY <1>1, <2>2, <2>5 DEF SessionLife, TaskLife
  <2> QED BY <2>2, <2>3, <2>4, <2>5
<1>2. ASSUME \A c \in Conns : id[c] # s PROVE SessionLife(s) = "unborn"
  BY <1>2 DEF SessionLife
<1> QED BY <1>1, <1>2

(* The life of a stream can be read off one reader.                          *)
LEMMA StreamLifeIs == Inv => StreamsRead
<1> SUFFICES ASSUME Inv, NEW s \in SessionIds, NEW k \in StreamIds
             PROVE  /\ \A c \in Conns : id[c] = s => StreamLife(s, k) = ReaderLife(reader[c][k])
                    /\ (\A c \in Conns : id[c] # s) => StreamLife(s, k) = "unborn"
  BY DEF StreamsRead
<1>1. ASSUME NEW c \in Conns, id[c] = s PROVE StreamLife(s, k) = ReaderLife(reader[c][k])
  <2>1. id[c] # 0
    BY <1>1 DEF SessionIds
  <2>2. \A d \in Conns : id[d] = s => d = c
    BY <1>1, <2>1 DEF Inv, Ownership, IdsUnique
  <2>3. CASE reader[c][k] = "reading"
    BY <1>1, <2>2, <2>3 DEF StreamLife, ReaderLife
  <2>4. CASE reader[c][k] = "closing"
    BY <1>1, <2>2, <2>4 DEF StreamLife, ReaderLife
  <2>5. CASE reader[c][k] = "done"
    BY <1>1, <2>2, <2>5 DEF StreamLife, ReaderLife
  <2>6. CASE reader[c][k] \notin {"reading", "closing", "done"}
    BY <1>1, <2>2, <2>6 DEF StreamLife, ReaderLife
  <2> QED BY <2>3, <2>4, <2>5, <2>6
<1>2. ASSUME \A c \in Conns : id[c] # s PROVE StreamLife(s, k) = "unborn"
  BY <1>2 DEF StreamLife
<1> QED BY <1>1, <1>2

(* The same of the next state.                                               *)
LEMMA LivesAreNext ==
  ASSUME Inv'
  PROVE  SessionsRead' /\ StreamsRead'
BY SessionLifeIs, StreamLifeIs, PTL

-----------------------------------------------------------------------------
(* How lives move *)

(* They stand still when no task, or no reader, changes what it gives.       *)
LEMMA LivesStay ==
  ASSUME Inv, Inv', UNCHANGED id
  PROVE  /\ (\A c \in Conns : TaskLife(task'[c]) = TaskLife(task[c])) => UNCHANGED SessionLives
         /\ (\A c \in Conns, k \in StreamIds :
               ReaderLife(reader'[c][k]) = ReaderLife(reader[c][k])) => UNCHANGED StreamLives
<1>1. ASSUME \A c \in Conns : TaskLife(task'[c]) = TaskLife(task[c]), NEW s \in SessionIds
      PROVE  SessionLife(s)' = SessionLife(s)
  BY <1>1, SessionLifeIs, LivesAreNext DEF SessionsRead
<1>2. ASSUME \A c \in Conns, k \in StreamIds :
               ReaderLife(reader'[c][k]) = ReaderLife(reader[c][k]),
             NEW s \in SessionIds, NEW k \in StreamIds
      PROVE  StreamLife(s, k)' = StreamLife(s, k)
  BY <1>2, StreamLifeIs, LivesAreNext DEF StreamsRead
<1> QED BY <1>1, <1>2 DEF SessionLives, StreamLives

(* A task moves the life of its own session and no other.                    *)
LEMMA TaskMoves ==
  ASSUME Inv, Inv', NEW c \in Conns, NEW from \in Numbered, NEW to, TaskStep(c, from, to),
         UNCHANGED id
  PROVE  /\ id[c] \in SessionIds /\ SessionLives[id[c]] = TaskLife(from)
         /\ SessionLives' = [SessionLives EXCEPT ![id[c]] = TaskLife(to)]
<1>1. id[c] \in SessionIds /\ task[c] = from
  BY NumberedId DEF TaskStep, Inv
<1>2. /\ task'[c] = to /\ \A d \in Conns : d # c => task'[d] = task[d] /\ id[d] # id[c]
  BY <1>1 DEF Inv, TypeOK, Ownership, IdsUnique, TaskStep, SessionIds
<1>3. SessionLife(id[c]) = TaskLife(from)
  BY <1>1, SessionLifeIs DEF SessionsRead
<1>4. ASSUME NEW s \in SessionIds
      PROVE  SessionLife(s)' = IF s = id[c] THEN TaskLife(to) ELSE SessionLife(s)
  <2>1. CASE s = id[c]
    BY <1>2, <2>1, LivesAreNext DEF SessionsRead, StreamsRead
  <2>2. CASE s # id[c]
    <3>1. \A d \in Conns : id[d] = s => task'[d] = task[d]
      BY <1>2, <2>2
    <3> QED BY <2>2, <3>1, SessionLifeIs, LivesAreNext DEF SessionsRead
  <2> QED BY <2>1, <2>2
<1> QED BY <1>1, <1>3, <1>4 DEF SessionLives

ReaderStep(c, k, from, to) ==
  reader[c][k] = from /\ reader' = [reader EXCEPT ![c][k] = to]

(* A reader moves the life of its own stream and no other.                   *)
LEMMA ReaderMoves ==
  ASSUME Inv, Inv', NEW c \in Conns, NEW k \in StreamIds, NEW from, NEW to,
         ReaderStep(c, k, from, to), UNCHANGED id, id[c] \in SessionIds
  PROVE  /\ StreamLives[id[c]][k] = ReaderLife(from)
         /\ StreamLives' = [StreamLives EXCEPT ![id[c]][k] = ReaderLife(to)]
<1>1. \A d \in Conns, j \in StreamIds :
        reader'[d][j] = IF d = c /\ j = k THEN to ELSE reader[d][j]
  BY DEF Inv, TypeOK, ReaderStep
<1>2. \A d \in Conns : d # c => id[d] # id[c]
  BY DEF Inv, Ownership, IdsUnique, SessionIds
<1>3. StreamLife(id[c], k) = ReaderLife(from)
  BY StreamLifeIs DEF StreamsRead, ReaderStep
<1>4. ASSUME NEW s \in SessionIds, NEW j \in StreamIds
      PROVE  StreamLife(s, j)' = IF s = id[c] /\ j = k THEN ReaderLife(to) ELSE StreamLife(s, j)
  <2>1. CASE s = id[c] /\ j = k
    BY <1>1, <2>1, LivesAreNext DEF SessionsRead, StreamsRead
  <2>2. CASE ~(s = id[c] /\ j = k)
    <3>1. \A d \in Conns : id[d] = s => reader'[d][j] = reader[d][j]
      BY <1>1, <1>2, <2>2
    <3> QED BY <2>2, <3>1, StreamLifeIs, LivesAreNext DEF StreamsRead
  <2> QED BY <2>1, <2>2
<1> QED BY <1>3, <1>4 DEF StreamLives

(* A session that is entered was unborn, and so were its streams.            *)
LEMMA TakeMoves ==
  ASSUME Inv, Inv', NEW c \in Conns, TakeSession(c), task[c] \notin Numbered, NEW to,
         task' = [task EXCEPT ![c] = to], UNCHANGED reader
  PROVE  /\ nextSession \in SessionIds /\ SessionLives[nextSession] = "unborn"
         /\ SessionLives' = [SessionLives EXCEPT ![nextSession] = TaskLife(to)]
         /\ UNCHANGED StreamLives
<1>1. PICK s \in SessionIds : s = nextSession
  BY TakeSessionType DEF Inv
<1>2. /\ id[c] = 0 /\ \A d \in Conns : id[d] # s
      /\ \A d \in Conns : id'[d] = IF d = c THEN s ELSE id[d]
      /\ \A d \in Conns : task'[d] = IF d = c THEN to ELSE task[d]
  BY <1>1, EndpointAssumption DEF Inv, TypeOK, Ownership, IdsUnique, TakeSession
<1>3. \A k \in StreamIds : ReaderLife(reader[c][k]) = "unborn"
  BY <1>2 DEF Inv, Ownership, ReadersNumbered, ReaderLife
<1>4. SessionLife(s) = "unborn" /\ SessionLife(s)' = TaskLife(to)
  BY <1>1, <1>2, SessionLifeIs, LivesAreNext DEF SessionsRead
<1>5. ASSUME NEW r \in SessionIds, r # s PROVE SessionLife(r)' = SessionLife(r)
  <2>1. \A d \in Conns : id'[d] = r <=> id[d] = r
    BY <1>2, <1>5 DEF SessionIds
  <2>2. \A d \in Conns : id[d] = r => task'[d] = task[d]
    BY <1>2 DEF SessionIds
  <2> QED BY <2>1, <2>2, SessionLifeIs, LivesAreNext DEF SessionsRead
<1>6. ASSUME NEW r \in SessionIds, NEW k \in StreamIds
      PROVE  StreamLife(r, k)' = StreamLife(r, k)
  <2>1. CASE r = s
    BY <1>1, <1>2, <1>3, <2>1, StreamLifeIs, LivesAreNext DEF StreamsRead
  <2>2. CASE r # s
    <3>1. \A d \in Conns : id'[d] = r <=> id[d] = r
      BY <1>2, <2>2 DEF SessionIds
    <3> QED BY <3>1, StreamLifeIs, LivesAreNext DEF StreamsRead
  <2> QED BY <2>1, <2>2
<1> QED BY <1>1, <1>4, <1>5, <1>6 DEF SessionLives, StreamLives

-----------------------------------------------------------------------------
(* Roles *)

(* A caller's step leaves the roles as they are.                             *)
LEMMA CallerKeepsRole ==
  ASSUME Inv, RoleInv, NEW t \in Callers, Caller(t)
  PROVE  RoleInv'
<1>1. UNCHANGED task
  BY DEF Caller, Finish, SendLookup, OpenStreamLookup, StreamSendLookup, StreamCloseLookup,
     SendWrite, LockHalf, StreamWrite, StreamFinish, OpenStreamFinish
<1>2. ASSUME NEW r, call' = [call EXCEPT ![t] = r], r.op = "openStream" => Role = "client"
      PROVE  RoleInv'
  BY <1>1, <1>2 DEF Inv, TypeOK, RoleInv
<1>3. ASSUME NEW op, NEW s, NEW k, NEW c, call' = [call EXCEPT ![t] = Looked(op, s, k, c)],
             op = "openStream" => Role = "client"
      PROVE  RoleInv'
  <2>1. Looked(op, s, k, c).op = "openStream" => op = "openStream"
    BY DEF Looked, Idle
  <2> QED BY <1>2, <1>3, <2>1
<1>4. ASSUME NEW status, Return(t, status) PROVE RoleInv'
  <2>1. Idle(call[t].late, status).op # "openStream"
    BY DEF Idle
  <2> QED BY <1>2, <1>4, <2>1 DEF Return
<1>5. CASE LockHalf(t)
  <2>1. call' = [call EXCEPT ![t] = [call[t] EXCEPT !.stage = "locked"]] /\ call[t] \in Calls
    BY <1>5 DEF LockHalf, Inv, TypeOK
  <2>2. [call[t] EXCEPT !.stage = "locked"].op = call[t].op
    BY <2>1 DEF Calls
  <2> QED BY <1>2, <2>1, <2>2 DEF RoleInv
<1>6. ASSUME NEW s \in SessionIds, SendLookup(t, s) \/ OpenStreamLookup(t, s) PROVE RoleInv'
  BY <1>3, <1>6 DEF SendLookup, OpenStreamLookup
<1>7. ASSUME NEW s \in SessionIds, NEW k \in StreamIds,
             StreamSendLookup(t, s, k) \/ StreamCloseLookup(t, s, k)
      PROVE  RoleInv'
  BY <1>3, <1>7 DEF StreamSendLookup, StreamCloseLookup
<1>8. CASE SendWrite(t) \/ StreamWrite(t) \/ StreamFinish(t) \/ OpenStreamFinish(t)
  BY <1>4, <1>8 DEF SendWrite, StreamWrite, StreamFinish, OpenStreamFinish
<1> QED BY <1>5, <1>6, <1>7, <1>8 DEF Caller, Finish

(* Every step leaves the roles as they are.                                  *)
LEMMA NextRoleInv ==
  ASSUME Inv, RoleInv, [Next]_vars
  PROVE  RoleInv'
<1> USE EndpointAssumption
<1>1. UNCHANGED <<task, call>> => RoleInv'
  BY DEF RoleInv
<1>2. ASSUME NEW c \in Conns, NEW from, NEW to, TaskStep(c, from, to), UNCHANGED call,
             to \in {"request", "accepted", "registered"} =>
               Role = "server" \/ from \in {"request", "accepted", "registered"}
      PROVE  RoleInv'
  BY <1>2 DEF Inv, TypeOK, RoleInv, TaskStep
<1>3. CASE UNCHANGED vars \/ NextEvent \/ DropCloses \/ RuntimeGoes
  BY <1>1, <1>3 DEF vars, NextEvent, DropCloses, RuntimeGoes
<1>4. ASSUME NEW c \in Conns, Network(c) \/ \E k \in StreamIds : Reader(c, k) PROVE RoleInv'
  BY <1>1, <1>4 DEF Network, PeerCloses, PeerVanishes, IdleTimeout, ConnCloses, ConnStep,
     PeerSendsUni, PeerOpensBi, PeerEndsAsk, PeerStopsReply, Reader, ReadToEnd, ReaderCloses
<1>5. ASSUME NEW c \in Conns, Proceed(c) PROVE RoleInv'
  <2>1. CASE Register(c) \/ AnnounceOpened(c) \/ ReadUni(c) \/ ForgetSession(c) \/ ForgetStreams(c)
    BY <1>2, <2>1 DEF Register, AnnounceOpened, ReadUni, ForgetSession, ForgetStreams
  <2>2. CASE AnnounceClosed(c) \/ \E k \in StreamIds : AnnounceStream(c, k)
    BY <1>2, <2>2 DEF AnnounceClosed, AnnounceStream
  <2> QED BY <1>5, <2>1, <2>2 DEF Proceed
<1>6. ASSUME NEW c \in Conns, Select(c) PROVE RoleInv'
  BY <1>2, <1>6 DEF Select, ReceiveDatagram, AcceptUni, LoopReturns, AcceptBi
<1>7. ASSUME NEW c \in Conns,
             Incoming(c) \/ Reject(c) \/ AcceptRequest(c) \/ Connect(c)
      PROVE  RoleInv'
  BY <1>2, <1>7 DEF Incoming, Reject, AcceptRequest, Connect
<1> QED BY <1>3, <1>4, <1>5, <1>6, <1>7, CallerKeepsRole DEF Next

-----------------------------------------------------------------------------
(* Endpoint implements EventLog *)

(* The log speaks of the same sessions and the same events.                  *)
LEMMA LogSpeaks ==
  /\ Log!SessionIds = SessionIds
  /\ \A s : /\ Log!SessionOpened(s) = SessionOpened(s) /\ Log!SessionClosed(s) = SessionClosed(s)
            /\ Log!Datagram(s) = Datagram(s) /\ Log!StreamMessage(s) = StreamMessage(s)
  /\ \A s, k : /\ Log!StreamOpened(s, k) = StreamOpened(s, k)
               /\ Log!StreamData(s, k) = StreamData(s, k)
               /\ Log!StreamClosed(s, k) = StreamClosed(s, k)
BY DEF Log!SessionIds, SessionIds, Log!SessionOpened, SessionOpened, Log!SessionClosed,
   SessionClosed, Log!Datagram, Datagram, Log!StreamMessage, StreamMessage, Log!StreamOpened,
   StreamOpened, Log!StreamData, StreamData, Log!StreamClosed, StreamClosed, Log!Event, Event

(* emit is an offer.                                                         *)
LEMMA EmitOffers ==
  ASSUME NEW e, Emit(e), UNCHANGED seen
  PROVE  Log!Offer(e)
BY DEF Emit, Log!Offer

(* A step that moves no life and emits nothing is invisible in the log.      *)
LEMMA SilentStutters ==
  ASSUME UNCHANGED <<SessionLives, StreamLives, queue, seen, dropped>>
  PROVE  [Log!Next]_(Log!vars)
BY DEF Log!vars

(* Every step of a task is a step of the log, or none.                       *)
LEMMA ProceedKeepsLog ==
  ASSUME Inv, Inv', NEW c \in Conns, Proceed(c)
  PROVE  [Log!Next]_(Log!vars)
<1> USE EndpointAssumption
<1>1. UNCHANGED <<id, reader>> => UNCHANGED StreamLives
  BY LivesStay
<1>2. /\ TaskLife("registered") = "unborn" /\ TaskLife("done") = "over"
      /\ \A at \in Numbered \ {"registered", "done"} : TaskLife(at) = "open"
  BY DEF TaskLife
<1>3. CASE Register(c)
  <2>1. /\ SessionLives' = [SessionLives EXCEPT ![nextSession] = TaskLife("registered")]
        /\ SessionLives[nextSession] = "unborn" /\ UNCHANGED StreamLives
    BY <1>3, TakeMoves DEF Register, TaskStep, Numbered
  <2>2. UNCHANGED SessionLives
    BY <1>2, <2>1 DEF SessionLives
  <2> QED BY <1>3, <2>1, <2>2, SilentStutters DEF Register
<1>4. CASE AnnounceOpened(c)
  <2>1. /\ id[c] \in SessionIds /\ SessionLives[id[c]] = TaskLife("registered")
        /\ SessionLives' = [SessionLives EXCEPT ![id[c]] = TaskLife("serving")]
    BY <1>4, TaskMoves DEF AnnounceOpened, Numbered
  <2>2. Log!Offer(SessionOpened(id[c])) /\ UNCHANGED StreamLives
    BY <1>1, <1>4, EmitOffers DEF AnnounceOpened
  <2>3. Log!SessionOpens(id[c])
    BY <1>2, <2>1, <2>2, LogSpeaks DEF Log!SessionOpens, Log!SessionStep, Numbered
  <2> QED BY <2>1, <2>3, LogSpeaks DEF Log!Next
<1>5. CASE ReadUni(c)
  <2>1. /\ id[c] \in SessionIds /\ SessionLives[id[c]] = TaskLife("readingUni")
        /\ SessionLives' = [SessionLives EXCEPT ![id[c]] = TaskLife("serving")]
    BY <1>5, TaskMoves DEF ReadUni, Numbered
  <2>2. SessionLives[id[c]] = "open" /\ UNCHANGED <<SessionLives, StreamLives, seen>>
    BY <1>1, <1>2, <1>5, <2>1 DEF ReadUni, SessionLives, Numbered
  <2>3. CASE NoEmit
    BY <2>2, <2>3, SilentStutters DEF NoEmit
  <2>4. CASE Emit(StreamMessage(id[c]))
    <3>1. Log!SessionSays(id[c])
      BY <2>2, <2>4, EmitOffers, LogSpeaks DEF Log!SessionSays, Log!lives
    <3> QED BY <2>1, <3>1, LogSpeaks DEF Log!Next
  <2> QED BY <1>5, <2>3, <2>4 DEF ReadUni
<1>6. ASSUME NEW k \in StreamIds, AnnounceStream(c, k) PROVE [Log!Next]_(Log!vars)
  <2>1. /\ id[c] \in SessionIds /\ SessionLives[id[c]] = TaskLife("announcing")
        /\ SessionLives' = [SessionLives EXCEPT ![id[c]] = TaskLife("serving")]
    BY <1>6, TaskMoves DEF AnnounceStream, Numbered
  <2>2. SessionLives[id[c]] = "open" /\ UNCHANGED SessionLives
    BY <1>2, <2>1 DEF SessionLives, Numbered
  <2>3. /\ StreamLives[id[c]][k] = ReaderLife("accepted")
        /\ StreamLives' = [StreamLives EXCEPT ![id[c]][k] = ReaderLife("reading")]
    <3>1. ReaderStep(c, k, "accepted", "reading") /\ UNCHANGED id
      BY <1>6 DEF AnnounceStream, ReaderStep
    <3> QED BY <2>1, <3>1, ReaderMoves
  <2>4. ReaderLife("accepted") = "unborn" /\ ReaderLife("reading") = "open"
    BY DEF ReaderLife
  <2>5. Log!Offer(StreamOpened(id[c], k))
    BY <1>6, EmitOffers DEF AnnounceStream
  <2>6. Log!StreamOpens(id[c], k)
    BY <2>2, <2>3, <2>4, <2>5, LogSpeaks DEF Log!StreamOpens, Log!StreamStep
  <2> QED BY <2>1, <2>6, LogSpeaks DEF Log!Next
<1>7. CASE ForgetSession(c) \/ ForgetStreams(c)
  <2>1. PICK from, to \in {"returned", "forgotten", "swept"} : TaskStep(c, from, to)
    BY <1>7 DEF ForgetSession, ForgetStreams
  <2>2. UNCHANGED <<id, reader, queue, seen, dropped>>
    BY <1>7 DEF ForgetSession, ForgetStreams
  <2>3. /\ id[c] \in SessionIds /\ SessionLives[id[c]] = TaskLife(from)
        /\ SessionLives' = [SessionLives EXCEPT ![id[c]] = TaskLife(to)]
    BY <2>1, <2>2, TaskMoves DEF Numbered
  <2>4. UNCHANGED SessionLives
    BY <1>2, <2>3 DEF SessionLives, Numbered
  <2> QED BY <1>1, <2>2, <2>4, SilentStutters
<1>8. CASE AnnounceClosed(c)
  <2>1. PICK from \in {"swept", "forgotten"} : TaskStep(c, from, "done")
    BY <1>8 DEF AnnounceClosed
  <2>2. /\ id[c] \in SessionIds /\ SessionLives[id[c]] = TaskLife(from)
        /\ SessionLives' = [SessionLives EXCEPT ![id[c]] = TaskLife("done")]
    BY <1>8, <2>1, TaskMoves DEF AnnounceClosed, Numbered
  <2>3. Log!Offer(SessionClosed(id[c])) /\ UNCHANGED StreamLives
    BY <1>1, <1>8, EmitOffers DEF AnnounceClosed
  <2>4. Log!SessionEnds(id[c])
    BY <1>2, <2>2, <2>3, LogSpeaks DEF Log!SessionEnds, Log!SessionStep, Numbered
  <2> QED BY <2>2, <2>4, LogSpeaks DEF Log!Next
<1> QED BY <1>3, <1>4, <1>5, <1>6, <1>7, <1>8 DEF Proceed

(* So is every turn of session_loop.                                         *)
LEMMA SelectKeepsLog ==
  ASSUME Inv, Inv', NEW c \in Conns, Select(c)
  PROVE  [Log!Next]_(Log!vars)
<1> USE EndpointAssumption
<1>1. PICK to \in {"serving", "readingUni", "returned", "announcing"} : TaskStep(c, "serving", to)
  BY DEF Select, ReceiveDatagram, AcceptUni, LoopReturns, AcceptBi
<1>2. UNCHANGED <<id, seen>>
  BY DEF Select, ReceiveDatagram, AcceptUni, LoopReturns, AcceptBi
<1>3. /\ id[c] \in SessionIds /\ SessionLives[id[c]] = TaskLife("serving")
      /\ SessionLives' = [SessionLives EXCEPT ![id[c]] = TaskLife(to)]
  BY <1>1, <1>2, TaskMoves DEF Numbered
<1>4. SessionLives[id[c]] = "open" /\ UNCHANGED SessionLives
  BY <1>3 DEF TaskLife, SessionLives, Numbered
<1>5. UNCHANGED reader => UNCHANGED StreamLives
  BY <1>2, LivesStay
<1>6. CASE ReceiveDatagram(c)
  <2>1. Log!Offer(Datagram(id[c])) /\ UNCHANGED StreamLives
    BY <1>5, <1>6, EmitOffers DEF ReceiveDatagram
  <2>2. Log!SessionSays(id[c])
    BY <1>4, <2>1, LogSpeaks DEF Log!SessionSays, Log!lives
  <2> QED BY <1>3, <2>2, LogSpeaks DEF Log!Next
<1>7. CASE AcceptUni(c) \/ LoopReturns(c)
  BY <1>4, <1>5, <1>7, SilentStutters DEF AcceptUni, LoopReturns
<1>8. ASSUME NEW k \in StreamIds, AcceptBi(c, k) PROVE [Log!Next]_(Log!vars)
  <2>1. /\ reader[c][k] = "arrived" /\ reader' = [reader EXCEPT ![c][k] = "accepted"]
        /\ UNCHANGED <<queue, dropped>>
    BY <1>8 DEF AcceptBi
  <2>2. \A d \in Conns, j \in StreamIds : ReaderLife(reader'[d][j]) = ReaderLife(reader[d][j])
    BY <2>1 DEF ReaderLife, Inv, TypeOK
  <2>3. UNCHANGED StreamLives
    BY <1>2, <2>2, LivesStay
  <2> QED BY <1>2, <1>4, <2>1, <2>3, SilentStutters
<1> QED BY <1>6, <1>7, <1>8 DEF Select

(* So is every step of a reader.                                             *)
LEMMA ReaderKeepsLog ==
  ASSUME Inv, Inv', NEW c \in Conns, NEW k \in StreamIds, Reader(c, k)
  PROVE  [Log!Next]_(Log!vars)
<1>1. UNCHANGED <<task, id, seen>> /\ id[c] \in SessionIds
  BY NumberedId DEF Inv, Reader, ReadToEnd, ReaderCloses
<1>2. UNCHANGED SessionLives
  BY <1>1, LivesStay
<1>3. /\ ReaderLife("reading") = "open" /\ ReaderLife("closing") = "read"
      /\ ReaderLife("done") = "over"
  BY DEF ReaderLife
<1>4. CASE ReadToEnd(c, k)
  <2>1. ReaderStep(c, k, "reading", "closing")
    BY <1>4 DEF ReadToEnd, ReaderStep
  <2>2. Log!StreamStep(id[c], k, "open", "read")
    BY <1>1, <1>3, <2>1, ReaderMoves DEF Log!StreamStep
  <2>3. Log!Offer(StreamData(id[c], k)) \/ Log!Silent
    BY <1>1, <1>4, EmitOffers DEF ReadToEnd, NoEmit, Log!Silent
  <2>4. Log!StreamReads(id[c], k)
    BY <1>2, <2>2, <2>3, LogSpeaks DEF Log!StreamReads
  <2> QED BY <1>1, <2>4, LogSpeaks DEF Log!Next
<1>5. CASE ReaderCloses(c, k)
  <2>1. ReaderStep(c, k, "closing", "done")
    BY <1>5 DEF ReaderCloses, ReaderStep
  <2>2. Log!StreamStep(id[c], k, "read", "over")
    BY <1>1, <1>3, <2>1, ReaderMoves DEF Log!StreamStep
  <2>3. Log!Offer(StreamClosed(id[c], k))
    BY <1>1, <1>5, EmitOffers DEF ReaderCloses
  <2>4. Log!StreamEnds(id[c], k)
    BY <1>2, <2>2, <2>3, LogSpeaks DEF Log!StreamEnds
  <2> QED BY <1>1, <2>4, LogSpeaks DEF Log!Next
<1> QED BY <1>4, <1>5 DEF Reader

(* Of the callers, only open_stream is visible in the log: its stream opens, *)
(* unannounced, in a session that was opened.                                *)
LEMMA CallerKeepsLog ==
  ASSUME Inv, Inv', RoleInv, NEW t \in Callers, Caller(t)
  PROVE  [Log!Next]_(Log!vars)
<1>1. UNCHANGED <<task, id, queue, seen, dropped>>
  BY DEF Caller, Finish, SendLookup, OpenStreamLookup, StreamSendLookup, StreamCloseLookup,
     SendWrite, LockHalf, StreamWrite, StreamFinish, OpenStreamFinish
<1>2. UNCHANGED SessionLives
  BY <1>1, LivesStay
<1>3. CASE UNCHANGED reader
  BY <1>1, <1>2, <1>3, LivesStay, SilentStutters
<1>4. CASE OpenStreamFinish(t) /\ reader' # reader
  <2> DEFINE c == call[t].conn
  <2>1. c \in Conns /\ call[t].session \in SessionIds /\ id[c] = call[t].session
    BY <1>4 DEF Inv, Ownership, CallsOwn, OpenStreamFinish, Free
  <2>2. PICK k \in StreamIds : ReaderStep(c, k, "absent", "reading")
    BY <1>4 DEF OpenStreamFinish, ReaderStep
  <2>3. /\ StreamLives[id[c]][k] = ReaderLife("absent")
        /\ StreamLives' = [StreamLives EXCEPT ![id[c]][k] = ReaderLife("reading")]
    BY <1>1, <2>1, <2>2, ReaderMoves
  <2>4. Log!StreamStep(id[c], k, "unborn", "open")
    BY <2>3 DEF ReaderLife, Log!StreamStep
  <2>5. task[c] \in Numbered /\ task[c] # "registered"
    BY <1>4, <2>1 DEF Inv, Ownership, IdsUnique, SessionIds, RoleInv, OpenStreamFinish
  <2>6. SessionLives[id[c]] # "unborn"
    <3>1. SessionLife(id[c]) = TaskLife(task[c])
      BY <2>1, SessionLifeIs DEF SessionsRead
    <3> QED BY <2>1, <2>5, <3>1 DEF TaskLife, SessionLives
  <2>7. Log!Silent
    BY <1>1 DEF Log!Silent
  <2>8. Log!StreamOpens(id[c], k)
    BY <1>2, <2>4, <2>6, <2>7 DEF Log!StreamOpens
  <2> QED BY <2>1, <2>8, LogSpeaks DEF Log!Next
<1> QED BY <1>3, <1>4 DEF Caller, Finish, SendLookup, OpenStreamLookup, StreamSendLookup,
        StreamCloseLookup, SendWrite, LockHalf, StreamWrite, StreamFinish

(* Every step of an endpoint is a step of the log, or none.                  *)
LEMMA NextKeepsLog ==
  ASSUME Inv, Inv', RoleInv, [Next]_vars
  PROVE  [Log!Next]_(Log!vars)
<1>1. UNCHANGED <<task, id>> => UNCHANGED SessionLives
  BY LivesStay
<1>2. UNCHANGED <<id, reader>> => UNCHANGED StreamLives
  BY LivesStay
<1>3. CASE NextEvent
  <2>1. UNCHANGED <<SessionLives, StreamLives>>
    BY <1>1, <1>2, <1>3 DEF NextEvent
  <2>2. Log!Poll
    BY <1>3, <2>1 DEF NextEvent, Log!Poll, Log!lives
  <2> QED BY <2>2 DEF Log!Next
<1>4. CASE UNCHANGED vars \/ DropCloses \/ RuntimeGoes
  BY <1>1, <1>2, <1>4, SilentStutters DEF vars, DropCloses, RuntimeGoes
<1>5. ASSUME NEW c \in Conns, Network(c) PROVE [Log!Next]_(Log!vars)
  <2>1. UNCHANGED <<task, id, queue, seen, dropped>>
    BY <1>5 DEF Network, PeerCloses, PeerVanishes, IdleTimeout, ConnCloses, ConnStep,
       PeerSendsUni, PeerOpensBi, PeerEndsAsk, PeerStopsReply
  <2>2. \A d \in Conns, j \in StreamIds : ReaderLife(reader'[d][j]) = ReaderLife(reader[d][j])
    <3>1. CASE UNCHANGED reader
      BY <3>1
    <3>2. ASSUME NEW k \in StreamIds, PeerOpensBi(c, k)
          PROVE  \A d \in Conns, j \in StreamIds :
                   ReaderLife(reader'[d][j]) = ReaderLife(reader[d][j])
      BY <3>2 DEF PeerOpensBi, ReaderLife, Inv, TypeOK
    <3> QED BY <1>5, <3>1, <3>2 DEF Network, PeerCloses, PeerVanishes, IdleTimeout,
            ConnCloses, ConnStep, PeerSendsUni, PeerEndsAsk, PeerStopsReply
  <2>3. UNCHANGED StreamLives
    BY <2>1, <2>2, LivesStay
  <2> QED BY <1>1, <2>1, <2>3, SilentStutters
<1>6. ASSUME NEW c \in Conns, Incoming(c) \/ Reject(c) \/ AcceptRequest(c)
      PROVE  [Log!Next]_(Log!vars)
  <2>1. UNCHANGED <<id, reader, queue, seen, dropped>>
    BY <1>6 DEF Incoming, Reject, AcceptRequest
  <2>2. PICK from, to \in {"idle", "request", "refused", "accepted"} : TaskStep(c, from, to)
    BY <1>6 DEF Incoming, Reject, AcceptRequest
  <2>3. \A at \in {"idle", "request", "refused", "accepted"} : TaskLife(at) = "unborn"
    BY DEF TaskLife, Numbered
  <2>4. \A d \in Conns : TaskLife(task'[d]) = TaskLife(task[d])
    BY <2>2, <2>3 DEF TaskStep, Inv, TypeOK
  <2>5. UNCHANGED SessionLives
    BY <2>1, <2>4, LivesStay
  <2> QED BY <1>2, <2>1, <2>5, SilentStutters
<1>7. ASSUME NEW c \in Conns, Connect(c) PROVE [Log!Next]_(Log!vars)
  <2>1. /\ task[c] \notin Numbered /\ task' = [task EXCEPT ![c] = "serving"]
        /\ TakeSession(c) /\ UNCHANGED <<reader, seen>>
    BY <1>7 DEF Connect, TaskStep, Numbered
  <2>2. /\ nextSession \in SessionIds /\ SessionLives[nextSession] = "unborn"
        /\ SessionLives' = [SessionLives EXCEPT ![nextSession] = TaskLife("serving")]
        /\ UNCHANGED StreamLives
    BY <2>1, TakeMoves
  <2>3. TaskLife("serving") = "open"
    BY DEF TaskLife, Numbered
  <2>4. Log!Offer(SessionOpened(nextSession))
    BY <1>7, <2>1, EmitOffers DEF Connect
  <2>5. Log!SessionOpens(nextSession)
    BY <2>2, <2>3, <2>4, LogSpeaks DEF Log!SessionOpens, Log!SessionStep
  <2> QED BY <2>2, <2>5, LogSpeaks DEF Log!Next
<1> QED BY <1>3, <1>4, <1>5, <1>6, <1>7, ProceedKeepsLog, SelectKeepsLog, ReaderKeepsLog,
        CallerKeepsLog DEF Next

(* Before anything happened every session and every stream is unborn.        *)
LEMMA InitKeepsLog == Init => Log!Init
<1> SUFFICES ASSUME Init PROVE Log!Init
  OBVIOUS
<1>1. \A s \in SessionIds : SessionLife(s) = "unborn"
  BY DEF Init, SessionLife, SessionIds
<1>2. \A s \in SessionIds, k \in StreamIds : StreamLife(s, k) = "unborn"
  BY DEF Init, StreamLife, SessionIds
<1> QED BY <1>1, <1>2, LogSpeaks DEF Init, Log!Init, SessionLives, StreamLives

(* An endpoint, server or client, keeps the log that EventLog describes:     *)
(* each session and each stream is told of in the order of its one life, an  *)
(* event is lost only to a full queue, and none appears that the life of a   *)
(* session does not account for.                                             *)
THEOREM EndpointKeepsLog == Spec => KeepsLog
<1>1. Init => RoleInv
  BY DEF Init, RoleInv, Idle
<1>2. Inv /\ RoleInv /\ [Next]_vars => RoleInv'
  BY NextRoleInv
<1>3. Inv /\ Inv' /\ RoleInv /\ [Next]_vars => [Log!Next]_(Log!vars)
  BY NextKeepsLog
<1> QED BY InvHolds, InitKeepsLog, <1>1, <1>2, <1>3, PTL DEF Spec, KeepsLog, Log!Spec

-----------------------------------------------------------------------------
(* What the log promises, of Endpoint *)

LogProofs == INSTANCE EventLogProofs WITH session <- SessionLives, stream <- StreamLives

(* The log that an endpoint keeps is the one EventLogProofs speaks of.       *)
LEMMA SameLog == KeepsLog => LogProofs!Spec
<1> USE DEF
  Log!SessionIds, LogProofs!SessionIds, Log!Event, LogProofs!Event, Log!SessionOpened,
     LogProofs!SessionOpened, Log!SessionClosed, LogProofs!SessionClosed, Log!Datagram,
     LogProofs!Datagram, Log!StreamMessage, LogProofs!StreamMessage, Log!StreamOpened,
     LogProofs!StreamOpened, Log!StreamData, LogProofs!StreamData, Log!StreamClosed,
     LogProofs!StreamClosed
<1>1. Log!Init => LogProofs!Init
  BY DEF Log!Init, LogProofs!Init
<1>2. [Log!Next]_(Log!vars) => [LogProofs!Next]_(LogProofs!vars)
  BY DEF Log!vars, LogProofs!vars,
     Log!Next, LogProofs!Next, Log!Poll, LogProofs!Poll, Log!SessionOpens,
     LogProofs!SessionOpens, Log!SessionSays, LogProofs!SessionSays, Log!SessionEnds,
     LogProofs!SessionEnds, Log!StreamOpens, LogProofs!StreamOpens, Log!StreamReads,
     LogProofs!StreamReads, Log!StreamEnds, LogProofs!StreamEnds, Log!SessionStep,
     LogProofs!SessionStep, Log!StreamStep, LogProofs!StreamStep, Log!Offer,
     LogProofs!Offer, Log!Silent, LogProofs!Silent, Log!lives, LogProofs!lives
<1> QED BY <1>1, <1>2, PTL DEF KeepsLog, Log!Spec, LogProofs!Spec

(* And so are the orders.                                                    *)
LEMMA SameOrders ==
  LogProofs!StreamEventOrder /\ LogProofs!SessionEventOrder =>
    StreamEventOrder /\ SessionEventOrder
<1>1. LogProofs!StreamEventOrder => StreamEventOrder
  BY DEF StreamEventOrder,
     Log!StreamEventOrder, LogProofs!StreamEventOrder, Log!NeverAfter,
     LogProofs!NeverAfter, Log!SessionIds, LogProofs!SessionIds, Log!Event,
     LogProofs!Event, Log!SessionOpened, LogProofs!SessionOpened, Log!SessionClosed,
     LogProofs!SessionClosed, Log!Datagram, LogProofs!Datagram, Log!StreamMessage,
     LogProofs!StreamMessage, Log!StreamOpened, LogProofs!StreamOpened, Log!StreamData,
     LogProofs!StreamData, Log!StreamClosed, LogProofs!StreamClosed
<1>2. LogProofs!SessionEventOrder => SessionEventOrder
  BY DEF SessionEventOrder,
     Log!SessionEventOrder, LogProofs!SessionEventOrder, Log!NeverAfter,
     LogProofs!NeverAfter, Log!Kinds, LogProofs!Kinds, Log!SessionIds,
     LogProofs!SessionIds, Log!Event, LogProofs!Event, Log!SessionOpened,
     LogProofs!SessionOpened, Log!SessionClosed, LogProofs!SessionClosed, Log!Datagram,
     LogProofs!Datagram, Log!StreamMessage, LogProofs!StreamMessage, Log!StreamOpened,
     LogProofs!StreamOpened, Log!StreamData, LogProofs!StreamData, Log!StreamClosed,
     LogProofs!StreamClosed
<1> QED BY <1>1, <1>2

(* Whatever the session task, the readers and the callers of a stream do, a  *)
(* poll returns its streamOpened before its streamData and its streamData    *)
(* before its streamClosed.                                                  *)
THEOREM StreamsInOrder == Spec => []StreamEventOrder
<1>1. LogProofs!Spec => [](LogProofs!StreamEventOrder /\ LogProofs!SessionEventOrder)
  BY LogProofs!LogIsOrdered
<1> QED BY EndpointKeepsLog, SameLog, SameOrders, <1>1, PTL

(* No poll returns an event of a session before its sessionOpened, nor one   *)
(* of session_loop's after its sessionClosed.                                *)
THEOREM SessionsInOrder == Spec => []SessionEventOrder
<1>1. LogProofs!Spec => [](LogProofs!StreamEventOrder /\ LogProofs!SessionEventOrder)
  BY LogProofs!LogIsOrdered
<1> QED BY EndpointKeepsLog, SameLog, SameOrders, <1>1, PTL
=============================================================================
