------------------------------ MODULE Exchange ------------------------------
(***************************************************************************)
(* A client endpoint and a server endpoint that talk to each other, the    *)
(* exchange the package is for (README.md, rust/tests/client_to_server.rs):*)
(* the client opens a stream and finishes a question in it, the server     *)
(* reads the question, answers into the same stream and finishes it.       *)
(* One of them may stop, and the network may fail, at any time.            *)
(*                                                                         *)
(* Both ends are instances of Endpoint, whose peer may do anything; here   *)
(* the peer of each does what the other end did.  The client's variables   *)
(* are those of Endpoint with a c in front.                                *)
(***************************************************************************)
EXTENDS EventKinds

CONSTANTS Conns, Depth, ServerCallers, ClientCallers

ASSUME ExchangeAssumption ==
  /\ Depth \in Nat \ {0}
  /\ MaxSession \in Nat \ {0}
  /\ None \notin Conns \cup StreamIds \cup {"ok", "peerGone", "unknownHandle"}

VARIABLES
  task, id, nextSession, conn, uni, ask, reply, reader, sessions, streams,
  queue, call, phase, seen, dropped, taken,
  ctask, cid, cnextSession, cconn, cuni, cask, creply, creader, csessions, cstreams,
  cqueue, ccall, cphase, cseen, cdropped, ctaken

S == INSTANCE Endpoint WITH
  Role <- "server", Callers <- ServerCallers,
  WrongPath <- {}, BiConns <- Conns, UniConns <- {}, DatagramConns <- {}

C == INSTANCE Endpoint WITH
  Role <- "client", Callers <- ClientCallers,
  WrongPath <- {}, BiConns <- {}, UniConns <- {}, DatagramConns <- {},
  task <- ctask, id <- cid, nextSession <- cnextSession, conn <- cconn, uni <- cuni,
  ask <- cask, reply <- creply, reader <- creader, sessions <- csessions,
  streams <- cstreams, queue <- cqueue, call <- ccall, phase <- cphase,
  seen <- cseen, dropped <- cdropped, taken <- ctaken

serverVars ==
  <<task, id, nextSession, conn, uni, ask, reply, reader, sessions, streams,
    queue, call, phase, seen, dropped, taken>>
clientVars ==
  <<ctask, cid, cnextSession, cconn, cuni, cask, creply, creader, csessions, cstreams,
    cqueue, ccall, cphase, cseen, cdropped, ctaken>>
vars == <<serverVars, clientVars>>

-----------------------------------------------------------------------------
(* The network: what one end did reaches the other.  A stream has one id at  *)
(* both ends; a session has one at each.                                     *)

\* The server accepted the session; connect returns.
Connected(c) == conn[c] = "live" /\ C!Connect(c) /\ UNCHANGED serverVars

StreamArrives(c, k) == creader[c][k] # "absent" /\ S!PeerOpensBi(c, k) /\ UNCHANGED clientVars

QuestionEnds(c, k) ==
  /\ creply[c][k] = "finished"
  /\ S!PeerEndsAsk(c, k) /\ ask'[c][k] = "text"
  /\ UNCHANGED clientVars

AnswerEnds(c, k) ==
  /\ reply[c][k] = "finished"
  /\ C!PeerEndsAsk(c, k) /\ cask'[c][k] = "text"
  /\ UNCHANGED serverVars

\* Drop closed the connection and the other end is told, or Drop missed it and
\* it goes silent with the runtime.  A close that is lost is a partition first.
ClientLeft(c) ==
  /\ cphase # "up"
  /\ cconn[c] = "closed" /\ S!PeerCloses(c)
  /\ UNCHANGED clientVars

ServerLeft(c) ==
  /\ phase # "up"
  /\ \/ conn[c] = "closed" /\ C!PeerCloses(c)
     \/ phase = "gone" /\ conn[c] = "live" /\ C!PeerVanishes(c)
  /\ UNCHANGED serverVars

\* The network is lost: neither end hears of the other again.
Partition(c) == S!PeerVanishes(c) /\ C!PeerVanishes(c)

\* connect was given up, or failed after the server had accepted.
NeverConnects(c) == ctask[c] = "idle" /\ S!PeerVanishes(c) /\ UNCHANGED clientVars

\* The library at one end closes what is over.
ServerTimeout(c) == (S!IdleTimeout(c) \/ S!ConnCloses(c)) /\ UNCHANGED clientVars
ClientTimeout(c) == (C!IdleTimeout(c) \/ C!ConnCloses(c)) /\ UNCHANGED serverVars

-----------------------------------------------------------------------------
(* The two applications *)

\* The client waits for its session, opens a stream and then finishes its
\* question in it.
Asks(t) ==
  /\ \/ \E s \in SessionIds :
          /\ \A c \in Conns, k \in StreamIds : creader[c][k] = "absent"
          /\ SessionOpened(s) \in cseen /\ SessionClosed(s) \notin cseen
          /\ C!OpenStreamLookup(t, s)
     \/ \E s \in SessionIds, k \in StreamIds :
          cstreams[s][k] # None /\ C!StreamCloseLookup(t, s, k)
  /\ UNCHANGED serverVars

\* The server answers a question it has read, into the stream it came in.
Answers(t) ==
  /\ \E s \in SessionIds, k \in StreamIds :
       /\ StreamData(s, k) \in seen
       /\ streams[s][k] # None
       /\ S!StreamCloseLookup(t, s, k)
  /\ UNCHANGED clientVars

ClientFinishes(t) == C!Finish(t) /\ UNCHANGED serverVars
ServerFinishes(t) == S!Finish(t) /\ UNCHANGED clientVars

ClientPolls == C!NextEvent /\ UNCHANGED serverVars
ServerPolls == S!NextEvent /\ UNCHANGED clientVars

\* Bound: only one of them is stopped.
ClientStops == phase = "up" /\ (C!DropCloses \/ C!RuntimeGoes) /\ UNCHANGED serverVars
ServerStops == cphase = "up" /\ (S!DropCloses \/ S!RuntimeGoes) /\ UNCHANGED clientVars

-----------------------------------------------------------------------------
(* The tasks at both ends *)

Accepts(c) == (S!Incoming(c) \/ S!Reject(c) \/ S!AcceptRequest(c)) /\ UNCHANGED clientVars
ServerTask(c) == (S!Proceed(c) \/ S!Select(c)) /\ UNCHANGED clientVars
ClientTask(c) == (C!Proceed(c) \/ C!Select(c)) /\ UNCHANGED serverVars
ServerReader(c, k) == S!Reader(c, k) /\ UNCHANGED clientVars
ClientReader(c, k) == C!Reader(c, k) /\ UNCHANGED serverVars

-----------------------------------------------------------------------------
(* Specification *)

Init == S!Init /\ C!Init

\* What goes on by itself.
Progress ==
  \/ ClientPolls \/ ServerPolls
  \/ \E t \in ServerCallers : Answers(t) \/ ServerFinishes(t)
  \/ \E c \in Conns :
       \/ ClientLeft(c) \/ ServerLeft(c) \/ ServerTimeout(c) \/ ClientTimeout(c)
       \/ ServerTask(c) \/ ClientTask(c)
       \/ \E k \in StreamIds :
            \/ StreamArrives(c, k) \/ QuestionEnds(c, k) \/ AnswerEnds(c, k)
            \/ ServerReader(c, k) \/ ClientReader(c, k)

Next ==
  \/ Progress
  \/ ClientStops \/ ServerStops
  \/ \E t \in ClientCallers : Asks(t) \/ ClientFinishes(t)
  \/ \E c \in Conns : Accepts(c) \/ Connected(c) \/ NeverConnects(c) \/ Partition(c)

Spec == Init /\ [][Next]_vars

(* Fairness.  As in Endpoint for the tasks, the readers, the polls and the    *)
(* idle timeout; the server application answers every question it reads; and  *)
(* while the connection lives the network delivers, so a call that waits for  *)
(* the other end comes back.  A session and a stream live once, so each step  *)
(* of Progress is taken a bounded number of times, and weak fairness of them  *)
(* together is weak fairness of each.  A client may try to open streams for   *)
(* ever, so its calls are on their own.  Nothing makes a client connect or    *)
(* ask, a server accept, or either end stop.                                  *)
LiveSpec ==
  /\ Spec
  /\ WF_vars(Progress)
  /\ \A t \in ClientCallers : WF_vars(ClientFinishes(t))

-----------------------------------------------------------------------------
(* Properties *)

\* Both ends are up and the connection has not failed.
Sound(c) == phase = "up" /\ cphase = "up" /\ conn[c] = "live" /\ cconn[c] = "live"

(* What a client reads as an answer was sent by a server that had read the    *)
(* whole question: read_bi_stream reports a message at its end only, at both  *)
(* ends.                                                                      *)
AnswerHasQuestion ==
  \A c \in Conns, k \in StreamIds :
    cid[c] # 0 /\ StreamData(cid[c], k) \in cseen =>
      creply[c][k] = "finished" /\ StreamData(id[c], k) \in seen

(* A question that the client has finished is answered, unless one of the two *)
(* queues was full when it came to streamData, the connection fails or an end *)
(* is stopped.                                                                *)
QuestionIsAnswered ==
  \A c \in Conns, k \in StreamIds :
    creply[c][k] = "finished" ~>
      \/ StreamData(cid[c], k) \in cseen \cup cdropped
      \/ StreamData(id[c], k) \in dropped
      \/ ~Sound(c)

(* No client believes itself connected to a server that never saw it: the     *)
(* session is announced on the server too, unless that is stopped first.      *)
BothSidesOpen ==
  \A c \in Conns :
    cid[c] # 0 ~> phase # "up" \/ SessionOpened(id[c]) \in seen \cup dropped

(* When one end is stopped the other reports the end of the session, whether  *)
(* it is told or has to find out, unless it is stopped as well.               *)
StopIsHeard ==
  \A c \in Conns :
    /\ cphase = "gone" ~> phase # "up" \/ SessionClosed(id[c]) \in seen \cup dropped
    /\ phase = "gone" /\ cid[c] # 0 ~>
         cphase # "up" \/ SessionClosed(cid[c]) \in cseen \cup cdropped
=============================================================================
