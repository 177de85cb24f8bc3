------------------------------ MODULE Endpoint ------------------------------
(***************************************************************************)
(* One live endpoint of rust/src/transport.rs: the `sessions` and          *)
(* `streams` maps, the bounded event queue, one task per connection (the   *)
(* body spawned by accept_loop, or by connect for a client), one reader    *)
(* task per bidirectional stream, and the caller threads that enter        *)
(* through the C ABI.  Every step between two points where another task    *)
(* or thread can run is an action of its own: the maps are locked for one  *)
(* statement at a time, and a caller keeps what it looked up after the     *)
(* lock is released.                                                       *)
(*                                                                         *)
(* QUIC itself (wtransport, quinn) is external: `conn`, `uni`, `ask` and   *)
(* `reply` say only what the code in src/ can observe of it.               *)
(***************************************************************************)
EXTENDS EventKinds

CONSTANTS
  Conns,        \* connections, each with the task that serves it
  WrongPath,    \* those of them that ask for another path than config.path
  BiConns,      \* those whose peer opens bidirectional streams,
  UniConns,     \* sends unidirectional ones,
  DatagramConns,\* sends datagrams
  Callers,      \* threads inside send, stream_send, stream_close, open_stream
  Depth,        \* EVENT_QUEUE_DEPTH
  Role          \* "server" (start) or "client" (connect)

ASSUME EndpointAssumption ==
  /\ WrongPath \subseteq Conns
  /\ Depth \in Nat \ {0}
  /\ MaxSession \in Nat \ {0}
  /\ Role \in {"server", "client"}
  /\ BiConns \cup UniConns \cup DatagramConns \subseteq Conns
  /\ None \notin Conns \cup StreamIds \cup {"ok", "peerGone", "unknownHandle"}

VARIABLES
  task,         \* where the task of a connection stands
  id,           \* session id the task holds, 0 before it took one
  nextSession,  \* next_session of accept_loop
  conn,         \* the connection, as the library reports it
  uni,          \* the unidirectional stream the peer is sending, if any
  ask,          \* peer's half of a bidirectional stream
  reply,        \* our half: the SendStream behind its tokio mutex
  reader,       \* where read_bi_stream stands for a stream
  sessions,     \* Endpoint.sessions: session id -> connection
  streams,      \* Endpoint.streams: (session, stream) -> SendStream
  queue,        \* Endpoint.events, the sync_channel
  call,         \* what each caller thread is doing
  phase,        \* "up", "closing" while Drop runs, "gone" with the runtime
  seen,         \* history: events next_event has returned
  dropped,      \* history: events emit threw away
  taken         \* history: SendStreams stream_close took out of the map

ids      == <<id, nextSession>>
peerVars == <<conn, uni, ask>>
halves   == <<reply, reader>>
maps     == <<sessions, streams>>
ffi      == <<call, phase>>
history  == <<seen, dropped, taken>>
vars     == <<task, ids, peerVars, halves, maps, queue, ffi, history>>

-----------------------------------------------------------------------------
(* The event queue *)

\* Mutant: an unbounded channel.
EmitUnbounded(e) == queue' = Append(queue, e) /\ UNCHANGED dropped

\* Mutant: the head of a full queue makes room.
EmitOldest(e) ==
  /\ queue' = Append(IF Len(queue) < Depth THEN queue ELSE Tail(queue), e)
  /\ dropped' = IF Len(queue) < Depth THEN dropped ELSE dropped \cup {Head(queue)}

\* emit: try_send, and an event that finds the queue full is the one lost.
Emit(e) ==
  \/ /\ Len(queue) < Depth
     /\ queue' = Append(queue, e)
     /\ UNCHANGED dropped
  \/ /\ Len(queue) >= Depth
     /\ dropped' = dropped \cup {e}
     /\ UNCHANGED queue

NoEmit == UNCHANGED <<queue, dropped>>

\* next_event, called by rk_quic_server_poll.  A wait that expires returns
\* None and changes nothing.
NextEvent ==
  /\ phase = "up"
  /\ queue # <<>>
  /\ queue' = Tail(queue)
  /\ seen' = seen \cup {Head(queue)}
  /\ UNCHANGED <<task, ids, peerVars, halves, maps, ffi, dropped, taken>>

-----------------------------------------------------------------------------
(* The peer and the network *)

\* The runtime is there to run tasks and to speak for the connections.
Running == phase # "gone"

\* "vanished": gone without a close, not noticed yet.  "ended": the session is
\* over and receiving fails, while the connection may still take a write.
\* "closed": the library refuses everything.
ConnStates == {"none", "live", "vanished", "ended", "closed"}
Over(c)    == conn[c] \in {"ended", "closed"}

PeerOpensBi(c, k) ==
  /\ c \in BiConns
  /\ Running /\ conn[c] = "live" /\ reader[c][k] = "absent"
  /\ reader' = [reader EXCEPT ![c][k] = "arrived"]
  /\ UNCHANGED <<task, ids, peerVars, reply, maps, queue, ffi, history>>

\* The peer ends its half: "text" is a whole UTF-8 message, "junk" one that is
\* not UTF-8, or a reset.
PeerEndsAsk(c, k) ==
  /\ Running /\ conn[c] = "live" /\ reader[c][k] # "absent" /\ ask[c][k] = "open"
  /\ \E how \in {"text", "junk"} : ask' = [ask EXCEPT ![c][k] = how]
  /\ UNCHANGED <<task, ids, conn, uni, halves, maps, queue, ffi, history>>

\* The peer no longer wants the answer (STOP_SENDING).
PeerStopsReply(c, k) ==
  /\ Running /\ conn[c] = "live" /\ reader[c][k] # "absent" /\ reply[c][k] = "open"
  /\ reply' = [reply EXCEPT ![c][k] = "stopped"]
  /\ UNCHANGED <<task, ids, peerVars, reader, maps, queue, ffi, history>>

PeerSendsUni(c) ==
  /\ c \in UniConns
  /\ Running /\ conn[c] = "live"
  /\ \/ uni[c] = "none" /\ uni' = [uni EXCEPT ![c] = "open"]
     \/ /\ uni[c] = "open"
        /\ \E how \in {"text", "junk"} : uni' = [uni EXCEPT ![c] = how]
  /\ UNCHANGED <<task, ids, conn, ask, halves, maps, queue, ffi, history>>

ConnStep(c, from, to) ==
  /\ Running /\ conn[c] = from
  /\ conn' = [conn EXCEPT ![c] = to]
  /\ UNCHANGED <<task, ids, uni, ask, halves, maps, queue, ffi, history>>

PeerCloses(c)   == ConnStep(c, "live", "ended")
PeerVanishes(c) == ConnStep(c, "live", "vanished")
IdleTimeout(c)  == ConnStep(c, "vanished", "closed")
ConnCloses(c)   == ConnStep(c, "ended", "closed")

-----------------------------------------------------------------------------
(* The task of one connection: accept_loop's spawned body, or connect's *)

TaskStep(c, from, to) == Running /\ task[c] = from /\ task' = [task EXCEPT ![c] = to]

\* endpoint.accept() yields a connection and a task is spawned for it.
Incoming(c) ==
  /\ Role = "server"
  /\ TaskStep(c, "idle", "request")
  /\ UNCHANGED <<ids, peerVars, halves, maps, queue, ffi, history>>

\* The handshake failed, the path is another one (not_found), or accept failed:
\* the task returns without an event.
Reject(c) ==
  /\ TaskStep(c, "request", "refused")
  /\ UNCHANGED <<ids, peerVars, halves, maps, queue, ffi, history>>

\* request.accept() succeeded: the peer has its session.
AcceptRequest(c) ==
  /\ c \notin WrongPath
  /\ TaskStep(c, "request", "accepted")
  /\ conn' = [conn EXCEPT ![c] = "live"]
  /\ UNCHANGED <<ids, uni, ask, halves, maps, queue, ffi, history>>

\* Mutant: the counter is read and never advanced.
TakeSessionTwice(c) ==
  /\ id' = [id EXCEPT ![c] = nextSession]
  /\ sessions' = [sessions EXCEPT ![nextSession] = c]
  /\ UNCHANGED nextSession

\* Mutant: the session is announced without having been entered in the map.
TakeSessionOnly(c) ==
  /\ nextSession <= MaxSession
  /\ id' = [id EXCEPT ![c] = nextSession]
  /\ nextSession' = nextSession + 1
  /\ UNCHANGED sessions

TakeSession(c) ==
  /\ nextSession <= MaxSession
  /\ id' = [id EXCEPT ![c] = nextSession]
  /\ nextSession' = nextSession + 1
  /\ sessions' = [sessions EXCEPT ![nextSession] = c]

\* fetch_add and the insert; the id is private to the task until the insert.
Register(c) ==
  /\ TaskStep(c, "accepted", "registered")
  /\ TakeSession(c)
  /\ UNCHANGED <<peerVars, halves, streams, queue, ffi, history>>

\* Mutant: the session is entered and never announced.
AnnounceOpenedNot(c) ==
  /\ TaskStep(c, "registered", "serving")
  /\ UNCHANGED <<ids, peerVars, halves, maps, queue, ffi, history>>

AnnounceOpened(c) ==
  /\ TaskStep(c, "registered", "serving")
  /\ Emit(SessionOpened(id[c]))
  /\ UNCHANGED <<ids, peerVars, halves, maps, ffi, seen, taken>>

\* connect: the session is entered and announced before the endpoint is in the
\* registry, so no caller can be between the two.
Connect(c) ==
  /\ Role = "client" /\ phase = "up"
  /\ \A d \in Conns : task[d] = "idle"
  /\ TaskStep(c, "idle", "serving")
  /\ conn' = [conn EXCEPT ![c] = "live"]
  /\ TakeSession(c)
  /\ Emit(SessionOpened(nextSession))
  /\ UNCHANGED <<uni, ask, halves, streams, ffi, seen, taken>>

-----------------------------------------------------------------------------
(* session_loop: one turn of select!, any branch that is ready.  A datagram  *)
(* that is not UTF-8 changes nothing.                                        *)

ReceiveDatagram(c) ==
  /\ c \in DatagramConns
  /\ TaskStep(c, "serving", "serving")
  /\ conn[c] # "closed"
  /\ Emit(Datagram(id[c]))
  /\ UNCHANGED <<ids, peerVars, halves, maps, ffi, seen, taken>>

\* accept_uni: the message is read to its end inside the loop.
AcceptUni(c) ==
  /\ TaskStep(c, "serving", "readingUni")
  /\ uni[c] # "none"
  /\ UNCHANGED <<ids, peerVars, halves, maps, queue, ffi, history>>

ReadUni(c) ==
  /\ TaskStep(c, "readingUni", "serving")
  /\ uni' = [uni EXCEPT ![c] = "none"]
  /\ \/ uni[c] = "text" /\ Emit(StreamMessage(id[c]))
     \/ (uni[c] = "junk" \/ Over(c)) /\ NoEmit
  /\ UNCHANGED <<ids, conn, ask, halves, maps, ffi, seen, taken>>

\* accept_bi: our half enters the map, then the stream is announced and its
\* reader spawned.
AcceptBi(c, k) ==
  /\ TaskStep(c, "serving", "announcing")
  /\ reader[c][k] = "arrived"
  /\ streams' = [streams EXCEPT ![id[c]][k] = c]
  /\ reader' = [reader EXCEPT ![c][k] = "accepted"]
  /\ UNCHANGED <<ids, peerVars, reply, sessions, queue, ffi, history>>

\* Mutant: the reader is never spawned.
AnnounceStreamOnly(c, k) ==
  /\ TaskStep(c, "announcing", "serving")
  /\ reader[c][k] = "accepted"
  /\ reader' = [reader EXCEPT ![c][k] = "done"]
  /\ Emit(StreamOpened(id[c], k))
  /\ UNCHANGED <<ids, peerVars, reply, maps, ffi, seen, taken>>

AnnounceStream(c, k) ==
  /\ TaskStep(c, "announcing", "serving")
  /\ reader[c][k] = "accepted"
  /\ reader' = [reader EXCEPT ![c][k] = "reading"]
  /\ Emit(StreamOpened(id[c], k))
  /\ UNCHANGED <<ids, peerVars, reply, maps, ffi, seen, taken>>

\* Mutant: an error is answered by another turn of the loop.
LoopContinues(c) == TaskStep(c, "serving", "serving") /\ Over(c) /\ UNCHANGED vars

\* One of the three receives failed: the loop returns the reason.
LoopReturns(c) ==
  /\ TaskStep(c, "serving", "returned")
  /\ Over(c)
  /\ UNCHANGED <<ids, peerVars, halves, maps, queue, ffi, history>>

\* Mutant: the session stays in the map.
ForgetNothing(c) ==
  /\ TaskStep(c, "returned", "forgotten")
  /\ UNCHANGED <<ids, peerVars, halves, maps, queue, ffi, history>>

ForgetSession(c) ==
  /\ TaskStep(c, "returned", "forgotten")
  /\ sessions' = [sessions EXCEPT ![id[c]] = None]
  /\ UNCHANGED <<ids, peerVars, halves, streams, queue, ffi, history>>

\* Mutant: the retain is left out.
ForgetStreamsNot(c) ==
  /\ TaskStep(c, "forgotten", "swept")
  /\ UNCHANGED <<ids, peerVars, halves, maps, queue, ffi, history>>

\* streams.retain(..): only the server's task does it.
ForgetStreams(c) ==
  /\ Role = "server"
  /\ TaskStep(c, "forgotten", "swept")
  /\ streams' = [streams EXCEPT ![id[c]] = [k \in StreamIds |-> None]]
  /\ UNCHANGED <<ids, peerVars, halves, sessions, queue, ffi, history>>

\* Mutant: the end is announced inside the loop, before the loop returns.
AnnounceClosedInLoop(c) ==
  /\ TaskStep(c, "serving", "serving") /\ Over(c)
  /\ Emit(SessionClosed(id[c]))
  /\ UNCHANGED <<ids, peerVars, halves, maps, ffi, seen, taken>>

AnnounceClosed(c) ==
  /\ TaskStep(c, IF Role = "server" THEN "swept" ELSE "forgotten", "done")
  /\ Emit(SessionClosed(id[c]))
  /\ UNCHANGED <<ids, peerVars, halves, maps, ffi, seen, taken>>

-----------------------------------------------------------------------------
(* read_bi_stream, a task of its own per stream *)

\* Mutant: what has arrived so far is reported as the message.
ReadSoFar(c, k) ==
  /\ Running /\ reader[c][k] = "reading"
  /\ reader' = [reader EXCEPT ![c][k] = "closing"]
  /\ Emit(StreamData(id[c], k))
  /\ UNCHANGED <<task, ids, peerVars, reply, maps, ffi, seen, taken>>

ReadToEnd(c, k) ==
  /\ Running /\ reader[c][k] = "reading"
  /\ reader' = [reader EXCEPT ![c][k] = "closing"]
  /\ \/ ask[c][k] = "text" /\ Emit(StreamData(id[c], k))
     \/ (ask[c][k] = "junk" \/ Over(c)) /\ NoEmit
  /\ UNCHANGED <<task, ids, peerVars, reply, maps, ffi, seen, taken>>

\* Mutant: streamClosed is reported without waiting for the read.
ReaderClosesEarly(c, k) ==
  /\ Running /\ reader[c][k] = "reading"
  /\ Emit(StreamClosed(id[c], k))
  /\ UNCHANGED <<task, ids, peerVars, halves, maps, ffi, seen, taken>>

ReaderCloses(c, k) ==
  /\ Running /\ reader[c][k] = "closing"
  /\ reader' = [reader EXCEPT ![c][k] = "done"]
  /\ Emit(StreamClosed(id[c], k))
  /\ UNCHANGED <<task, ids, peerVars, reply, maps, ffi, seen, taken>>

-----------------------------------------------------------------------------
(* Callers: send, stream_send, stream_close, open_stream *)

Statuses == {"ok", "peerGone", "unknownHandle"}

\* No call is under way; `result` is the status the last one returned, and
\* `late` (history) whether its caller had already read the sessionClosed of
\* the session it named.
Idle(late, status) ==
  [op |-> "none", session |-> None, stream |-> None, conn |-> None,
   late |-> late, stage |-> "idle", result |-> status]

\* A call that looked c up: None is unknownHandle, anything else is kept (the
\* clone outlives the lock).
Looked(op, s, k, c) ==
  IF c = None
  THEN Idle(SessionClosed(s) \in seen, "unknownHandle")
  ELSE [op |-> op, session |-> s, stream |-> k, conn |-> c,
        late |-> SessionClosed(s) \in seen, stage |-> "holding", result |-> None]

Free(t) == call[t].stage = "idle"

Return(t, status) == call' = [call EXCEPT ![t] = Idle(call[t].late, status)]

\* What a write, or opening a stream, on this connection may answer.
ConnAnswers(c) ==
  CASE conn[c] = "closed" -> {"peerGone"}
    [] conn[c] = "ended"  -> {"ok", "peerGone"}
    [] OTHER              -> {"ok"}

HalfAnswers(c, k) == IF reply[c][k] = "open" THEN ConnAnswers(c) ELSE {"peerGone"}

SendLookup(t, s) ==
  /\ phase = "up" /\ Free(t)
  /\ call' = [call EXCEPT ![t] = Looked("send", s, None, sessions[s])]
  /\ UNCHANGED <<task, ids, peerVars, halves, maps, queue, phase, history>>

SendWrite(t) ==
  /\ call[t].op = "send" /\ call[t].stage = "holding"
  /\ \E status \in ConnAnswers(call[t].conn) : Return(t, status)
  /\ UNCHANGED <<task, ids, peerVars, halves, maps, queue, phase, history>>

\* Mutant: the stream is taken out of the map instead of being shared.
StreamSendTakes(t, s, k) ==
  /\ phase = "up" /\ Free(t)
  /\ call' = [call EXCEPT ![t] = Looked("streamSend", s, k, streams[s][k])]
  /\ streams' = [streams EXCEPT ![s][k] = None]
  /\ UNCHANGED <<task, ids, peerVars, halves, sessions, queue, phase, history>>

StreamSendLookup(t, s, k) ==
  /\ phase = "up" /\ Free(t)
  /\ call' = [call EXCEPT ![t] = Looked("streamSend", s, k, streams[s][k])]
  /\ UNCHANGED <<task, ids, peerVars, halves, maps, queue, phase, history>>

\* Mutant: the entry is looked up and left in the map.
StreamCloseKeeps(t, s, k) ==
  /\ phase = "up" /\ Free(t)
  /\ call' = [call EXCEPT ![t] = Looked("streamClose", s, k, streams[s][k])]
  /\ taken' = IF streams[s][k] = None THEN taken
                                      ELSE taken \cup {<<streams[s][k], k>>}
  /\ UNCHANGED <<task, ids, peerVars, halves, maps, queue, phase, seen, dropped>>

\* stream_close takes the entry out of the map in the same locked statement.
StreamCloseLookup(t, s, k) ==
  /\ phase = "up" /\ Free(t)
  /\ call' = [call EXCEPT ![t] = Looked("streamClose", s, k, streams[s][k])]
  /\ streams' = [streams EXCEPT ![s][k] = None]
  /\ taken' = IF streams[s][k] = None THEN taken
                                      ELSE taken \cup {<<streams[s][k], k>>}
  /\ UNCHANGED <<task, ids, peerVars, halves, sessions, queue, phase, seen, dropped>>

\* Mutant: a waiter is stopped by another waiter too.
LockHalfAlone(t) ==
  /\ call[t].op \in {"streamSend", "streamClose"} /\ call[t].stage = "holding"
  /\ \A u \in Callers \ {t} : call[u].conn # call[t].conn
  /\ call' = [call EXCEPT ![t].stage = "locked"]
  /\ UNCHANGED <<task, ids, peerVars, halves, maps, queue, phase, history>>

\* stream.lock().await: the tokio mutex around the SendStream.
LockHalf(t) ==
  /\ call[t].op \in {"streamSend", "streamClose"} /\ call[t].stage = "holding"
  /\ \A u \in Callers : ~ /\ call[u].stage = "locked"
                          /\ call[u].conn = call[t].conn
                          /\ call[u].stream = call[t].stream
  /\ call' = [call EXCEPT ![t].stage = "locked"]
  /\ UNCHANGED <<task, ids, peerVars, halves, maps, queue, phase, history>>

StreamWrite(t) ==
  /\ call[t].op = "streamSend" /\ call[t].stage = "locked"
  /\ \E status \in HalfAnswers(call[t].conn, call[t].stream) : Return(t, status)
  /\ UNCHANGED <<task, ids, peerVars, halves, maps, queue, phase, history>>

StreamFinish(t) ==
  /\ call[t].op = "streamClose" /\ call[t].stage = "locked"
  /\ \E status \in HalfAnswers(call[t].conn, call[t].stream) :
       /\ Return(t, status)
       /\ reply' = IF status = "ok"
                   THEN [reply EXCEPT ![call[t].conn][call[t].stream] = "finished"]
                   ELSE reply
  /\ UNCHANGED <<task, ids, peerVars, reader, maps, queue, phase, history>>

\* open_stream is offered by the client half only.
OpenStreamLookup(t, s) ==
  /\ phase = "up" /\ Role = "client" /\ Free(t)
  /\ call' = [call EXCEPT ![t] = Looked("openStream", s, None, sessions[s])]
  /\ UNCHANGED <<task, ids, peerVars, halves, maps, queue, phase, history>>

\* The two awaits, then the insert and the spawn of the reader, whatever has
\* become of the session since the lookup.
OpenStreamFinish(t) ==
  /\ call[t].op = "openStream" /\ call[t].stage = "holding"
  /\ \/ /\ "ok" \in ConnAnswers(call[t].conn)
        /\ \E k \in StreamIds :
             /\ reader[call[t].conn][k] = "absent"
             /\ reader' = [reader EXCEPT ![call[t].conn][k] = "reading"]
             /\ streams' = [streams EXCEPT ![call[t].session][k] = call[t].conn]
        /\ Return(t, "ok")
     \/ /\ "peerGone" \in ConnAnswers(call[t].conn)
        /\ Return(t, "peerGone")
        /\ UNCHANGED <<reader, streams>>
  /\ UNCHANGED <<task, ids, peerVars, reply, sessions, queue, phase, history>>

\* Drop for Endpoint, on the thread that gave up the last Arc, so no caller is
\* inside and none will come.  The mapped sessions are drained and closed under
\* the lock; the tasks still run.
DropCloses ==
  /\ phase = "up" /\ \A t \in Callers : Free(t)
  /\ Role = "client" => \E c \in Conns : task[c] # "idle"
  /\ conn' = [c \in Conns |-> IF \E s \in SessionIds : sessions[s] = c
                              THEN "closed" ELSE conn[c]]
  /\ sessions' = [s \in SessionIds |-> None]
  /\ phase' = "closing"
  /\ UNCHANGED <<task, ids, uni, ask, halves, streams, queue, call, history>>

\* shutdown_background: the runtime goes, and every task with it.
RuntimeGoes ==
  /\ phase = "closing"
  /\ phase' = "gone"
  /\ UNCHANGED <<task, ids, peerVars, halves, maps, queue, call, history>>

-----------------------------------------------------------------------------
(* Specification *)

Init ==
  /\ task = [c \in Conns |-> "idle"]
  /\ id = [c \in Conns |-> 0]
  /\ nextSession = 1
  /\ conn = [c \in Conns |-> "none"]
  /\ uni = [c \in Conns |-> "none"]
  /\ ask = [c \in Conns |-> [k \in StreamIds |-> "open"]]
  /\ reply = [c \in Conns |-> [k \in StreamIds |-> "open"]]
  /\ reader = [c \in Conns |-> [k \in StreamIds |-> "absent"]]
  /\ sessions = [s \in SessionIds |-> None]
  /\ streams = [s \in SessionIds |-> [k \in StreamIds |-> None]]
  /\ queue = <<>>
  /\ call = [t \in Callers |-> Idle(FALSE, None)]
  /\ phase = "up"
  /\ seen = {} /\ dropped = {} /\ taken = {}

Network(c) ==
  \/ PeerCloses(c) \/ PeerVanishes(c) \/ IdleTimeout(c) \/ ConnCloses(c)
  \/ PeerSendsUni(c)
  \/ \E k \in StreamIds : PeerOpensBi(c, k) \/ PeerEndsAsk(c, k) \/ PeerStopsReply(c, k)

\* What the task does next when it is not waiting in select!.
Proceed(c) ==
  \/ Register(c) \/ AnnounceOpened(c) \/ ReadUni(c)
  \/ \E k \in StreamIds : AnnounceStream(c, k)
  \/ ForgetSession(c) \/ ForgetStreams(c) \/ AnnounceClosed(c)

Select(c) ==
  \/ ReceiveDatagram(c) \/ AcceptUni(c) \/ LoopReturns(c)
  \/ \E k \in StreamIds : AcceptBi(c, k)

Reader(c, k) == ReadToEnd(c, k) \/ ReaderCloses(c, k)

\* The second half of a call, after the lookup.
Finish(t) ==
  SendWrite(t) \/ LockHalf(t) \/ StreamWrite(t) \/ StreamFinish(t) \/ OpenStreamFinish(t)

Caller(t) ==
  \/ \E s \in SessionIds : SendLookup(t, s) \/ OpenStreamLookup(t, s)
  \/ \E s \in SessionIds, k \in StreamIds : StreamSendLookup(t, s, k) \/ StreamCloseLookup(t, s, k)
  \/ Finish(t)

Next ==
  \/ NextEvent \/ DropCloses \/ RuntimeGoes
  \/ \E c \in Conns :
       \/ Network(c) \/ Proceed(c) \/ Select(c)
       \/ Incoming(c) \/ Reject(c) \/ AcceptRequest(c) \/ Connect(c)
       \/ \E k \in StreamIds : Reader(c, k)
  \/ \E t \in Callers : Caller(t)

Spec == Init /\ [][Next]_vars

(* Fairness.  The tokio runtime polls every ready task and the poll isolate   *)
(* never stops calling next_event.  select! polls its branches in random      *)
(* order, so a branch that is ready again and again is taken (SF).  QUIC      *)
(* closes a silent connection after max_idle_timeout.  A write on a live      *)
(* connection may wait for the peer for ever; on a closed one it fails, and   *)
(* the tokio mutex serves its waiters in order (SF).  Nothing is assumed of   *)
(* the peer.                                                                  *)
OnClosed(t) == call[t].conn # None /\ conn[call[t].conn] = "closed"

Fairness ==
  /\ WF_vars(NextEvent)
  /\ \A c \in Conns :
       /\ WF_vars(Proceed(c))
       /\ WF_vars(LoopReturns(c))
       /\ WF_vars(IdleTimeout(c) \/ ConnCloses(c))
       /\ \A k \in StreamIds :
            /\ SF_vars(AcceptBi(c, k))
            /\ WF_vars(Reader(c, k))
  /\ \A t \in Callers : SF_vars(OnClosed(t) /\ Finish(t))

LiveSpec == Spec /\ Fairness

-----------------------------------------------------------------------------
(* Properties *)

TaskStates   == {"idle", "request", "refused", "accepted", "registered", "serving",
                 "readingUni", "announcing", "returned", "forgotten", "swept", "done"}
ReaderStates == {"absent", "arrived", "accepted", "reading", "closing", "done"}

Calls == [op : {"none", "send", "streamSend", "streamClose", "openStream"},
          session : SessionIds \cup {None}, stream : StreamIds \cup {None},
          conn : Conns \cup {None}, late : BOOLEAN,
          stage : {"idle", "holding", "locked"},
          result : Statuses \cup {None}]

(* Every variable keeps the shape the Rust types give it, and the event       *)
(* queue never outgrows EVENT_QUEUE_DEPTH.                                    *)
TypeOK ==
  /\ task \in [Conns -> TaskStates]
  /\ id \in [Conns -> 0..MaxSession]
  /\ nextSession \in 1..(MaxSession + 1)
  /\ conn \in [Conns -> ConnStates]
  /\ uni \in [Conns -> {"none", "open", "text", "junk"}]
  /\ ask \in [Conns -> [StreamIds -> {"open", "text", "junk"}]]
  /\ reply \in [Conns -> [StreamIds -> {"open", "stopped", "finished"}]]
  /\ reader \in [Conns -> [StreamIds -> ReaderStates]]
  /\ sessions \in [SessionIds -> Conns \cup {None}]
  /\ streams \in [SessionIds -> [StreamIds -> Conns \cup {None}]]
  /\ queue \in Seq(Events) /\ Len(queue) <= Depth
  /\ call \in [Callers -> Calls]
  /\ phase \in {"up", "closing", "gone"}
  /\ seen \subseteq Events /\ dropped \subseteq Events
  /\ taken \subseteq Conns \X StreamIds

(* Once a poll has returned sessionClosed, every send, stream_send and        *)
(* stream_close for that session is refused with unknownHandle: the maps are  *)
(* cleared before the event is emitted, so no write is accepted into a        *)
(* connection whose end the caller has read about.                            *)
LateCallRefused ==
  \A t \in Callers :
    call[t].late => Free(t) /\ call[t].result = "unknownHandle"

(* A call addressed to a session works on the one connection that was ever    *)
(* given that id: an answer never reaches another peer, whatever was          *)
(* registered or forgotten between the lookup and the write.                  *)
AnswerReachesItsSession ==
  \A t \in Callers :
    ~Free(t) => {c \in Conns : id[c] = call[t].session} = {call[t].conn}

Reported(e) == e \in seen \/ \E i \in 1..Len(queue) : queue[i] = e

(* A stream that has been announced can be answered: it is in the map until   *)
(* stream_close takes it or its session's task sweeps it.                     *)
AnnouncedStreamIsKept ==
  \A c \in Conns, k \in StreamIds :
    id[c] # 0 /\ Reported(StreamOpened(id[c], k)) =>
      \/ streams[id[c]][k] = c
      \/ <<c, k>> \in taken
      \/ task[c] \in {"swept", "done"}

(* stream_close gets hold of a stream at most once: of two racing closes the  *)
(* second is unknownHandle, never a second finish.                            *)
ClosedOnce ==
  [][\A t \in Callers :
       /\ call'[t] # call[t]
       /\ call'[t].op = "streamClose" /\ call'[t].stage = "holding"
       => <<call'[t].conn, call'[t].stream>> \notin taken]_vars

(* Drop tells every peer whose session the caller has heard of: none of them  *)
(* is left behind with a connection it believes to be live, although tasks go *)
(* on accepting and registering while Drop runs.                              *)
AnnouncedIsTold ==
  phase # "up" => \A c \in Conns :
    id[c] # 0 /\ SessionOpened(id[c]) \in seen => conn[c] # "live"

(* A peer that vanished without a close is noticed: its session and its       *)
(* streams leave the maps and sessionClosed is polled, unless the queue was   *)
(* full when it was emitted or the endpoint is dropped.                       *)
VanishedIsReported ==
  \A c \in Conns :
    conn[c] = "vanished" ~>
      \/ /\ \A s \in SessionIds : sessions[s] # c
         /\ \A s \in SessionIds, k \in StreamIds : streams[s][k] # c
         /\ SessionClosed(id[c]) \in seen \cup dropped
      \/ phase # "up"

(* A whole question from a live peer is polled as streamData, unless the      *)
(* queue was full, the session ends, or the session loop is reading a         *)
(* unidirectional message that the peer does not finish.                      *)
QuestionIsDelivered ==
  \A c \in Conns, k \in StreamIds :
    conn[c] = "live" /\ ask[c][k] = "text" ~>
      \/ StreamData(id[c], k) \in seen \cup dropped
      \/ conn[c] # "live" \/ phase # "up"
      \/ task[c] = "readingUni" /\ uni[c] = "open"

(* A call that waits on a closed connection comes back, also when it waits    *)
(* for the stream's lock behind other calls.                                  *)
CallOnClosedReturns ==
  \A t \in Callers :
    call[t].stage \in {"holding", "locked"} /\ OnClosed(t) ~> Free(t)

(* The claim of transport.rs:41: a full queue loses its oldest event and      *)
(* takes the new one.                                                         *)
OldestIsDropped ==
  [][\A e \in dropped' \ dropped : e = Head(queue)]_vars
=============================================================================
