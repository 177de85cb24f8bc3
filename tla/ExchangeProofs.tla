--------------------------- MODULE ExchangeProofs ---------------------------
(***************************************************************************)
(* An answer that a client reads was given to a question that the server   *)
(* had read whole, proved for every number of connections, streams and     *)
(* callers at both ends.  What each end does by itself is taken from       *)
(* EndpointCloseProofs, once for the server and once for the client.       *)
(***************************************************************************)
EXTENDS Exchange, TLAPS

Server == INSTANCE EndpointCloseProofs WITH
  Role <- "server", Callers <- ServerCallers,
  WrongPath <- {}, BiConns <- Conns, UniConns <- {}, DatagramConns <- {}

Client == INSTANCE EndpointCloseProofs WITH
  Role <- "client", Callers <- ClientCallers,
  WrongPath <- {}, BiConns <- {}, UniConns <- {}, DatagramConns <- {},
  task <- ctask, id <- cid, nextSession <- cnextSession, conn <- cconn, uni <- cuni,
  ask <- cask, reply <- creply, reader <- creader, sessions <- csessions,
  streams <- cstreams, queue <- cqueue, call <- ccall, phase <- cphase,
  seen <- cseen, dropped <- cdropped, taken <- ctaken

(* Both ends satisfy what Endpoint assumes of its constants.                 *)
LEMMA EndsAssume == Server!EndpointAssumption /\ Client!EndpointAssumption
<1>1. Server!EndpointAssumption
  BY ExchangeAssumption DEF Server!EndpointAssumption
<1>2. Client!EndpointAssumption
  BY ExchangeAssumption DEF Client!EndpointAssumption
<1> QED BY <1>1, <1>2

(* EndpointCloseProofs speaks of the very server that takes part in the exchange. *)
LEMMA SameServer ==
  /\ S!Init => Server!Init
  /\ S!Next => Server!Next
  /\ S!vars = Server!vars
<1>1. S!Init => Server!Init
  BY DEF S!Init, Server!Init, S!SessionIds, Server!SessionIds, S!Idle, Server!Idle
<1>2. S!Next => Server!Next
  BY DEF S!Next, Server!Next, S!NextEvent, Server!NextEvent, S!DropCloses, Server!DropCloses,
     S!RuntimeGoes, Server!RuntimeGoes, S!Network, Server!Network, S!Proceed, Server!Proceed,
     S!Select, Server!Select, S!Incoming, Server!Incoming, S!Reject, Server!Reject,
     S!AcceptRequest, Server!AcceptRequest, S!Connect, Server!Connect, S!Reader, Server!Reader,
     S!Caller, Server!Caller, S!ids, Server!ids, S!peerVars, Server!peerVars, S!halves,
     Server!halves, S!maps, Server!maps, S!ffi, Server!ffi, S!Free, Server!Free, S!SessionIds,
     Server!SessionIds, S!history, Server!history, S!PeerCloses, Server!PeerCloses,
     S!PeerVanishes, Server!PeerVanishes, S!IdleTimeout, Server!IdleTimeout, S!ConnCloses,
     Server!ConnCloses, S!PeerSendsUni, Server!PeerSendsUni, S!PeerOpensBi, Server!PeerOpensBi,
     S!PeerEndsAsk, Server!PeerEndsAsk, S!PeerStopsReply, Server!PeerStopsReply, S!Register,
     Server!Register, S!AnnounceOpened, Server!AnnounceOpened, S!ReadUni, Server!ReadUni,
     S!AnnounceStream, Server!AnnounceStream, S!ForgetSession, Server!ForgetSession,
     S!ForgetStreams, Server!ForgetStreams, S!AnnounceClosed, Server!AnnounceClosed,
     S!ReceiveDatagram, Server!ReceiveDatagram, S!AcceptUni, Server!AcceptUni, S!LoopReturns,
     Server!LoopReturns, S!AcceptBi, Server!AcceptBi, S!TaskStep, Server!TaskStep,
     S!TakeSession, Server!TakeSession, S!Emit, Server!Emit, S!SessionOpened,
     Server!SessionOpened, S!ReadToEnd, Server!ReadToEnd, S!ReaderCloses, Server!ReaderCloses,
     S!SendLookup, Server!SendLookup, S!OpenStreamLookup, Server!OpenStreamLookup,
     S!StreamSendLookup, Server!StreamSendLookup, S!StreamCloseLookup, Server!StreamCloseLookup,
     S!Finish, Server!Finish, S!ConnStep, Server!ConnStep, S!Running, Server!Running,
     S!StreamMessage, Server!StreamMessage, S!Over, Server!Over, S!NoEmit, Server!NoEmit,
     S!StreamOpened, Server!StreamOpened, S!SessionClosed, Server!SessionClosed, S!Datagram,
     Server!Datagram, S!Event, Server!Event, S!StreamData, Server!StreamData, S!StreamClosed,
     Server!StreamClosed, S!Looked, Server!Looked, S!SendWrite, Server!SendWrite, S!LockHalf,
     Server!LockHalf, S!StreamWrite, Server!StreamWrite, S!StreamFinish, Server!StreamFinish,
     S!OpenStreamFinish, Server!OpenStreamFinish, S!Idle, Server!Idle, S!ConnAnswers,
     Server!ConnAnswers, S!Return, Server!Return, S!HalfAnswers, Server!HalfAnswers
<1>3. S!vars = Server!vars
  BY DEF S!vars, Server!vars, S!ids, Server!ids, S!peerVars, Server!peerVars, S!halves,
     Server!halves, S!maps, Server!maps, S!ffi, Server!ffi, S!history, Server!history
<1> QED BY <1>1, <1>2, <1>3

(* EndpointCloseProofs speaks of the very client that takes part in the exchange. *)
LEMMA SameClient ==
  /\ C!Init => Client!Init
  /\ C!Next => Client!Next
  /\ C!vars = Client!vars
<1>1. C!Init => Client!Init
  BY DEF C!Init, Client!Init, C!SessionIds, Client!SessionIds, C!Idle, Client!Idle
<1>2. C!Next => Client!Next
  BY DEF C!Next, Client!Next, C!NextEvent, Client!NextEvent, C!DropCloses, Client!DropCloses,
     C!RuntimeGoes, Client!RuntimeGoes, C!Network, Client!Network, C!Proceed, Client!Proceed,
     C!Select, Client!Select, C!Incoming, Client!Incoming, C!Reject, Client!Reject,
     C!AcceptRequest, Client!AcceptRequest, C!Connect, Client!Connect, C!Reader, Client!Reader,
     C!Caller, Client!Caller, C!ids, Client!ids, C!peerVars, Client!peerVars, C!halves,
     Client!halves, C!maps, Client!maps, C!ffi, Client!ffi, C!Free, Client!Free, C!SessionIds,
     Client!SessionIds, C!history, Client!history, C!PeerCloses, Client!PeerCloses,
     C!PeerVanishes, Client!PeerVanishes, C!IdleTimeout, Client!IdleTimeout, C!ConnCloses,
     Client!ConnCloses, C!PeerSendsUni, Client!PeerSendsUni, C!PeerOpensBi, Client!PeerOpensBi,
     C!PeerEndsAsk, Client!PeerEndsAsk, C!PeerStopsReply, Client!PeerStopsReply, C!Register,
     Client!Register, C!AnnounceOpened, Client!AnnounceOpened, C!ReadUni, Client!ReadUni,
     C!AnnounceStream, Client!AnnounceStream, C!ForgetSession, Client!ForgetSession,
     C!ForgetStreams, Client!ForgetStreams, C!AnnounceClosed, Client!AnnounceClosed,
     C!ReceiveDatagram, Client!ReceiveDatagram, C!AcceptUni, Client!AcceptUni, C!LoopReturns,
     Client!LoopReturns, C!AcceptBi, Client!AcceptBi, C!TaskStep, Client!TaskStep,
     C!TakeSession, Client!TakeSession, C!Emit, Client!Emit, C!SessionOpened,
     Client!SessionOpened, C!ReadToEnd, Client!ReadToEnd, C!ReaderCloses, Client!ReaderCloses,
     C!SendLookup, Client!SendLookup, C!OpenStreamLookup, Client!OpenStreamLookup,
     C!StreamSendLookup, Client!StreamSendLookup, C!StreamCloseLookup, Client!StreamCloseLookup,
     C!Finish, Client!Finish, C!ConnStep, Client!ConnStep, C!Running, Client!Running,
     C!StreamMessage, Client!StreamMessage, C!Over, Client!Over, C!NoEmit, Client!NoEmit,
     C!StreamOpened, Client!StreamOpened, C!SessionClosed, Client!SessionClosed, C!Datagram,
     Client!Datagram, C!Event, Client!Event, C!StreamData, Client!StreamData, C!StreamClosed,
     Client!StreamClosed, C!Looked, Client!Looked, C!SendWrite, Client!SendWrite, C!LockHalf,
     Client!LockHalf, C!StreamWrite, Client!StreamWrite, C!StreamFinish, Client!StreamFinish,
     C!OpenStreamFinish, Client!OpenStreamFinish, C!Idle, Client!Idle, C!ConnAnswers,
     Client!ConnAnswers, C!Return, Client!Return, C!HalfAnswers, Client!HalfAnswers
<1>3. C!vars = Client!vars
  BY DEF C!vars, Client!vars, C!ids, Client!ids, C!peerVars, Client!peerVars, C!halves,
     Client!halves, C!maps, Client!maps, C!ffi, Client!ffi, C!history, Client!history
<1> QED BY <1>1, <1>2, <1>3

(* A step of the exchange is a step of either end, of both, or of none.      *)
LEMMA EndsStep ==
  ASSUME [Next]_vars
  PROVE  [Server!Next]_(Server!vars) /\ [Client!Next]_(Client!vars)
<1> DEFINE Moves == (UNCHANGED serverVars \/ S!Next) /\ (UNCHANGED clientVars \/ C!Next)
<1>1. ASSUME UNCHANGED vars PROVE Moves
  BY <1>1 DEF vars
<1>2. ASSUME ClientPolls \/ ServerPolls \/ ClientStops \/ ServerStops PROVE Moves
  BY <1>2 DEF ClientPolls, ServerPolls, ClientStops, ServerStops, S!Next, C!Next
<1>3. ASSUME NEW t \in ServerCallers, Answers(t) \/ ServerFinishes(t) PROVE Moves
  <2>1. S!Caller(t) /\ UNCHANGED clientVars
    BY <1>3 DEF Answers, ServerFinishes, S!Caller, S!SessionIds, SessionIds
  <2> QED BY <2>1 DEF S!Next
<1>4. ASSUME NEW t \in ClientCallers, Asks(t) \/ ClientFinishes(t) PROVE Moves
  <2>1. C!Caller(t) /\ UNCHANGED serverVars
    BY <1>4 DEF Asks, ClientFinishes, C!Caller, C!SessionIds, SessionIds
  <2> QED BY <2>1 DEF C!Next
<1>5. ASSUME NEW c \in Conns,
             \/ ClientLeft(c) \/ ServerLeft(c) \/ Partition(c) \/ NeverConnects(c)
             \/ ServerTimeout(c) \/ ClientTimeout(c)
      PROVE  Moves
  <2>1. /\ UNCHANGED serverVars \/ S!Network(c)
        /\ UNCHANGED clientVars \/ C!Network(c)
    BY <1>5 DEF ClientLeft, ServerLeft, Partition, NeverConnects, ServerTimeout, ClientTimeout,
       S!Network, C!Network
  <2> QED BY <2>1 DEF S!Next, C!Next
<1>6. ASSUME NEW c \in Conns, Accepts(c) \/ Connected(c) \/ ServerTask(c) \/ ClientTask(c)
      PROVE  Moves
  BY <1>6 DEF Accepts, Connected, ServerTask, ClientTask, S!Next, C!Next
<1>7. ASSUME NEW c \in Conns, NEW k \in StreamIds,
             StreamArrives(c, k) \/ QuestionEnds(c, k) \/ AnswerEnds(c, k)
      PROVE  Moves
  <2>1. /\ UNCHANGED serverVars \/ S!Network(c)
        /\ UNCHANGED clientVars \/ C!Network(c)
    BY <1>7 DEF StreamArrives, QuestionEnds, AnswerEnds, S!Network, C!Network
  <2> QED BY <2>1 DEF S!Next, C!Next
<1>8. ASSUME NEW c \in Conns, NEW k \in StreamIds, ServerReader(c, k) \/ ClientReader(c, k)
      PROVE  Moves
  BY <1>8 DEF ServerReader, ClientReader, S!Next, C!Next
<1> HIDE DEF Moves
<1>9. Moves
  BY <1>1, <1>2, <1>3, <1>4, <1>5, <1>6, <1>7, <1>8 DEF Next, Progress
<1>10. UNCHANGED serverVars => UNCHANGED Server!vars
  BY DEF serverVars, Server!vars, Server!ids, Server!peerVars, Server!halves, Server!maps,
     Server!ffi, Server!history
<1>11. UNCHANGED clientVars => UNCHANGED Client!vars
  BY DEF clientVars, Client!vars, Client!ids, Client!peerVars, Client!halves, Client!maps,
     Client!ffi, Client!history
<1> QED BY <1>9, <1>10, <1>11, SameServer, SameClient DEF Moves

(* So each end keeps what it keeps by itself.                                *)
EndsInv == Server!Inv /\ Server!DataTold /\ Client!Inv /\ Client!DataTold

LEMMA EndsHold == Spec => []EndsInv
<1>1. Init => Server!Init /\ Client!Init
  BY SameServer, SameClient DEF Init
<1>2. [Next]_vars => [Server!Next]_(Server!vars) /\ [Client!Next]_(Client!vars)
  BY EndsStep
<1>3. Spec => Server!Spec /\ Client!Spec
  BY <1>1, <1>2, PTL DEF Spec, Server!Spec, Client!Spec
<1>4. Server!Spec => [](Server!Inv /\ Server!DataTold)
  BY EndsAssume, Server!DataHolds
<1>5. Client!Spec => [](Client!Inv /\ Client!DataTold)
  BY EndsAssume, Client!DataHolds
<1> QED BY <1>3, <1>4, <1>5, PTL DEF EndsInv

-----------------------------------------------------------------------------
(* Question and answer *)

(* What one end reads as a message the other has finished.                   *)
MessagesAreWhole ==
  \A c \in Conns, k \in StreamIds :
    /\ ask[c][k] = "text" => creply[c][k] = "finished"
    /\ cask[c][k] = "text" => reply[c][k] = "finished"

(* The server finishes its half, and is about to, only where it has polled   *)
(* the question.                                                             *)
AnswersAreOwed ==
  /\ \A c \in Conns, k \in StreamIds :
       reply[c][k] = "finished" => id[c] # 0 /\ StreamData(id[c], k) \in seen
  /\ \A t \in ServerCallers :
       call[t].op = "streamClose" => StreamData(call[t].session, call[t].stream) \in seen

(* A message ends at one end only because it was finished at the other, and  *)
(* the server calls only to answer.                                          *)
LEMMA WhoEndsWhat ==
  ASSUME [Next]_vars
  PROVE  /\ UNCHANGED ask \/ \E c \in Conns, k \in StreamIds : QuestionEnds(c, k)
         /\ UNCHANGED cask \/ \E c \in Conns, k \in StreamIds : AnswerEnds(c, k)
         /\ UNCHANGED call \/ \E t \in ServerCallers : Answers(t) \/ ServerFinishes(t)
<1> USE DEF serverVars, clientVars, S!ids, S!peerVars, S!halves, S!maps, S!ffi, S!history,
            C!ids, C!peerVars, C!halves, C!maps, C!ffi, C!history
<1> DEFINE Ends == /\ UNCHANGED ask \/ \E c \in Conns, k \in StreamIds : QuestionEnds(c, k)
                   /\ UNCHANGED cask \/ \E c \in Conns, k \in StreamIds : AnswerEnds(c, k)
                   /\ UNCHANGED call \/ \E t \in ServerCallers : Answers(t) \/ ServerFinishes(t)
<1>a. UNCHANGED <<ask, cask, call>> => Ends
  OBVIOUS
<1>1. ASSUME UNCHANGED vars PROVE Ends
  BY <1>1 DEF vars
<1>2. ASSUME ClientPolls \/ ServerPolls \/ ClientStops \/ ServerStops PROVE Ends
  BY <1>2 DEF ClientPolls, ServerPolls, ClientStops, ServerStops, S!NextEvent, C!NextEvent,
     S!DropCloses, S!RuntimeGoes, C!DropCloses, C!RuntimeGoes
<1>3. ASSUME NEW t \in ServerCallers, Answers(t) \/ ServerFinishes(t) PROVE Ends
  <2>1. UNCHANGED <<ask, cask>>
    BY <1>3 DEF Answers, ServerFinishes, S!StreamCloseLookup, S!Finish, S!SendWrite, S!LockHalf,
       S!StreamWrite, S!StreamFinish, S!OpenStreamFinish
  <2> QED BY <1>3, <2>1
<1>4. ASSUME NEW t \in ClientCallers, Asks(t) \/ ClientFinishes(t) PROVE Ends
  <2>1. UNCHANGED <<ask, cask, call>>
    BY <1>4 DEF Asks, ClientFinishes, C!OpenStreamLookup, C!StreamCloseLookup, C!Finish,
       C!SendWrite, C!LockHalf, C!StreamWrite, C!StreamFinish, C!OpenStreamFinish
  <2> QED BY <1>a, <2>1
<1> HIDE DEF Ends
<1>5. ASSUME NEW c \in Conns,
             \/ ClientLeft(c) \/ ServerLeft(c) \/ Partition(c) \/ NeverConnects(c)
             \/ ServerTimeout(c) \/ ClientTimeout(c)
      PROVE  Ends
  BY <1>a, <1>5 DEF ClientLeft, ServerLeft, Partition, NeverConnects, ServerTimeout,
     ClientTimeout, S!PeerCloses, S!PeerVanishes, S!IdleTimeout, S!ConnCloses, S!ConnStep,
     C!PeerCloses, C!PeerVanishes, C!IdleTimeout, C!ConnCloses, C!ConnStep
<1>6. ASSUME NEW c \in Conns, Accepts(c) \/ Connected(c) PROVE Ends
  BY <1>a, <1>6 DEF Accepts, Connected, S!Incoming, S!Reject, S!AcceptRequest, C!Connect
<1>7. ASSUME NEW c \in Conns, ServerTask(c) PROVE Ends
  <2>1. UNCHANGED <<ask, cask, call>>
    BY <1>7 DEF ServerTask, S!Proceed, S!Register, S!AnnounceOpened, S!ReadUni, S!AnnounceStream,
       S!ForgetSession, S!ForgetStreams, S!AnnounceClosed, S!Select, S!ReceiveDatagram,
       S!AcceptUni, S!LoopReturns, S!AcceptBi
  <2> QED BY <1>a, <2>1
<1>8. ASSUME NEW c \in Conns, ClientTask(c) PROVE Ends
  <2>1. UNCHANGED <<ask, cask, call>>
    BY <1>8 DEF ClientTask, C!Proceed, C!Register, C!AnnounceOpened, C!ReadUni, C!AnnounceStream,
       C!ForgetSession, C!ForgetStreams, C!AnnounceClosed, C!Select, C!ReceiveDatagram,
       C!AcceptUni, C!LoopReturns, C!AcceptBi
  <2> QED BY <1>a, <2>1
<1>9. ASSUME NEW c \in Conns, NEW k \in StreamIds, StreamArrives(c, k) PROVE Ends
  BY <1>a, <1>9 DEF StreamArrives, S!PeerOpensBi
<1>10. ASSUME NEW c \in Conns, NEW k \in StreamIds, QuestionEnds(c, k) PROVE Ends
  BY <1>10 DEF QuestionEnds, S!PeerEndsAsk, Ends
<1>11. ASSUME NEW c \in Conns, NEW k \in StreamIds, AnswerEnds(c, k) PROVE Ends
  BY <1>11 DEF AnswerEnds, C!PeerEndsAsk, Ends
<1>12. ASSUME NEW c \in Conns, NEW k \in StreamIds, ServerReader(c, k) \/ ClientReader(c, k)
       PROVE  Ends
  BY <1>a, <1>12 DEF ServerReader, ClientReader, S!Reader, S!ReadToEnd, S!ReaderCloses,
     C!Reader, C!ReadToEnd, C!ReaderCloses
<1>13. Ends
  BY <1>1, <1>2, <1>3, <1>4, <1>5, <1>6, <1>7, <1>8, <1>9, <1>10, <1>11, <1>12
     DEF Next, Progress
<1> QED BY <1>13 DEF Ends

(* Nothing that was finished is undone at either end, and the half of the   *)
(* server is finished by a call that holds it.                               *)
LEMMA EndsGoOn ==
  ASSUME EndsInv, [Next]_vars, NEW c \in Conns, NEW k \in StreamIds
  PROVE  /\ reply[c][k] = "finished" => reply'[c][k] = "finished"
         /\ creply[c][k] = "finished" => creply'[c][k] = "finished"
         /\ id[c] # 0 => id'[c] = id[c]
         /\ reply'[c][k] = "finished" =>
              \/ reply[c][k] = "finished"
              \/ \E t \in ServerCallers : /\ call[t].op = "streamClose" /\ ~Server!Free(t)
                                          /\ call[t].conn = c /\ call[t].stream = k
<1>1. [Server!Next]_(Server!vars) /\ [Client!Next]_(Client!vars) /\ Server!Inv /\ Client!Inv
  BY EndsStep DEF EndsInv
<1>2. id[c] # 0 => id'[c] = id[c]
  BY <1>1, EndsAssume, Server!IdsStay
<1>3. /\ reply[c][k] = "finished" => reply'[c][k] = "finished"
      /\ reply'[c][k] = "finished" =>
           \/ reply[c][k] = "finished"
           \/ \E t \in ServerCallers : /\ call[t].op = "streamClose" /\ ~Server!Free(t)
                                       /\ call[t].conn = c /\ call[t].stream = k
  BY <1>1, EndsAssume, Server!HalvesStay
<1>4. creply[c][k] = "finished" => creply'[c][k] = "finished"
  BY <1>1, EndsAssume, Client!HalvesStay
<1> QED BY <1>2, <1>3, <1>4

(* Every step keeps messages whole.                                          *)
LEMMA NextWhole ==
  ASSUME EndsInv, MessagesAreWhole, [Next]_vars
  PROVE  MessagesAreWhole'
<1> SUFFICES ASSUME NEW c \in Conns, NEW k \in StreamIds
             PROVE  /\ ask'[c][k] = "text" => creply'[c][k] = "finished"
                    /\ cask'[c][k] = "text" => reply'[c][k] = "finished"
  BY DEF MessagesAreWhole
<1>a. /\ ask \in [Conns -> [StreamIds -> {"open", "text", "junk"}]]
      /\ cask \in [Conns -> [StreamIds -> {"open", "text", "junk"}]]
  BY DEF EndsInv, Server!Inv, Server!TypeOK, Client!Inv, Client!TypeOK
<1>1. ask'[c][k] = "text" => creply[c][k] = "finished"
  <2>1. CASE UNCHANGED ask
    BY <2>1 DEF MessagesAreWhole
  <2>2. ASSUME NEW d \in Conns, NEW j \in StreamIds, QuestionEnds(d, j)
        PROVE  ask'[c][k] = "text" => creply[c][k] = "finished"
    <3>1. creply[d][j] = "finished" /\ \E how : ask' = [ask EXCEPT ![d][j] = how]
      BY <2>2 DEF QuestionEnds, S!PeerEndsAsk
    <3> QED BY <1>a, <3>1 DEF MessagesAreWhole
  <2> QED BY <2>1, <2>2, WhoEndsWhat
<1>2. cask'[c][k] = "text" => reply[c][k] = "finished"
  <2>1. CASE UNCHANGED cask
    BY <2>1 DEF MessagesAreWhole
  <2>2. ASSUME NEW d \in Conns, NEW j \in StreamIds, AnswerEnds(d, j)
        PROVE  cask'[c][k] = "text" => reply[c][k] = "finished"
    <3>1. reply[d][j] = "finished" /\ \E how : cask' = [cask EXCEPT ![d][j] = how]
      BY <2>2 DEF AnswerEnds, C!PeerEndsAsk
    <3> QED BY <1>a, <3>1 DEF MessagesAreWhole
  <2> QED BY <2>1, <2>2, WhoEndsWhat
<1> QED BY <1>1, <1>2, EndsGoOn

(* Every step leaves answers to questions that were polled.                  *)
LEMMA NextOwed ==
  ASSUME EndsInv, AnswersAreOwed, [Next]_vars
  PROVE  AnswersAreOwed'
<1>a. /\ call \in [ServerCallers -> Server!Calls] /\ Server!CallsOwn
      /\ id \in [Conns -> 0..MaxSession]
  BY DEF EndsInv, Server!Inv, Server!TypeOK, Server!Ownership
<1>b. seen \subseteq seen'
  BY EndsStep, EndsAssume, Server!SeenStays
<1>1. ASSUME NEW c \in Conns, NEW k \in StreamIds, reply'[c][k] = "finished"
      PROVE  id'[c] # 0 /\ StreamData(id'[c], k) \in seen'
  <2>1. id[c] # 0 /\ StreamData(id[c], k) \in seen
    <3>1. CASE reply[c][k] = "finished"
      BY <3>1 DEF AnswersAreOwed
    <3>2. ASSUME NEW t \in ServerCallers, call[t].op = "streamClose", ~Server!Free(t),
                 call[t].conn = c, call[t].stream = k
          PROVE  id[c] # 0 /\ StreamData(id[c], k) \in seen
      <4>1. call[t].session \in Server!SessionIds /\ id[c] = call[t].session
        BY <1>a, <3>2 DEF Server!CallsOwn
      <4>2. id[c] # 0
        BY <4>1 DEF Server!SessionIds
      <4> QED BY <3>2, <4>1, <4>2 DEF AnswersAreOwed
    <3> QED BY <1>1, <3>1, <3>2, EndsGoOn
  <2>2. id'[c] = id[c]
    BY <2>1, EndsGoOn
  <2> QED BY <1>b, <2>1, <2>2
<1>2. ASSUME NEW t \in ServerCallers, call'[t].op = "streamClose"
      PROVE  StreamData(call'[t].session, call'[t].stream) \in seen'
  <2>1. CASE UNCHANGED call
    BY <1>b, <1>2, <2>1 DEF AnswersAreOwed
  <2>2. ASSUME NEW u \in ServerCallers, Answers(u)
        PROVE  StreamData(call'[t].session, call'[t].stream) \in seen'
    <3>1. PICK s \in SessionIds, k \in StreamIds :
            /\ StreamData(s, k) \in seen /\ streams[s][k] # None
            /\ S!StreamCloseLookup(u, s, k)
      BY <2>2 DEF Answers
    <3>2. call' = [call EXCEPT ![u] = S!Looked("streamClose", s, k, streams[s][k])]
      BY <3>1 DEF S!StreamCloseLookup
    <3>3. /\ S!Looked("streamClose", s, k, streams[s][k]).session = s
          /\ S!Looked("streamClose", s, k, streams[s][k]).stream = k
      BY <3>1 DEF S!Looked
    <3>4. CASE t = u
      BY <1>a, <1>b, <3>1, <3>2, <3>3, <3>4
    <3>5. CASE t # u
      BY <1>a, <1>b, <1>2, <3>2, <3>5 DEF AnswersAreOwed
    <3> QED BY <3>4, <3>5
  <2>3. ASSUME NEW u \in ServerCallers, ServerFinishes(u)
        PROVE  StreamData(call'[t].session, call'[t].stream) \in seen'
    <3>1. \/ \E status : call' = [call EXCEPT ![u] = S!Idle(call[u].late, status)]
          \/ call' = [call EXCEPT ![u].stage = "locked"]
      BY <2>3 DEF ServerFinishes, S!Finish, S!SendWrite, S!LockHalf, S!StreamWrite,
         S!StreamFinish, S!OpenStreamFinish, S!Return
    <3>2. \A late, status : S!Idle(late, status).op = "none"
      BY DEF S!Idle
    <3>3. /\ call[t].op = "streamClose"
          /\ call'[t].session = call[t].session /\ call'[t].stream = call[t].stream
      BY <1>a, <1>2, <3>1, <3>2 DEF Server!Calls
    <3> QED BY <1>b, <3>3 DEF AnswersAreOwed
  <2> QED BY <2>1, <2>2, <2>3, WhoEndsWhat
<1> QED BY <1>1, <1>2 DEF AnswersAreOwed, StreamData, Event

(* Whatever either end and the network do, an answer that the client polls   *)
(* was finished by a server that had polled the question, which the client   *)
(* had finished: read_bi_stream reports no part of a message.                *)
THEOREM AnswersHaveQuestions == Spec => []AnswerHasQuestion
<1>1. Init => MessagesAreWhole /\ AnswersAreOwed
  BY DEF Init, S!Init, C!Init, S!Idle, MessagesAreWhole, AnswersAreOwed
<1>2. EndsInv /\ MessagesAreWhole /\ AnswersAreOwed /\ [Next]_vars =>
        MessagesAreWhole' /\ AnswersAreOwed'
  BY NextWhole, NextOwed
<1>3. EndsInv /\ MessagesAreWhole /\ AnswersAreOwed => AnswerHasQuestion
  <2> SUFFICES ASSUME EndsInv, MessagesAreWhole, AnswersAreOwed,
                      NEW c \in Conns, NEW k \in StreamIds, cid[c] # 0,
                      StreamData(cid[c], k) \in cseen
               PROVE  creply[c][k] = "finished" /\ StreamData(id[c], k) \in seen
    BY DEF AnswerHasQuestion
  <2>1. cask[c][k] = "text"
    <3>1. cid[c] \in Client!SessionIds /\ Client!IdsUnique
      BY ExchangeAssumption DEF EndsInv, Client!Inv, Client!TypeOK, Client!Ownership,
         Client!SessionIds
    <3>2. Client!Reported(Client!StreamData(cid[c], k))
      BY DEF Client!Reported, Client!StreamData, Client!Event, StreamData, Event
    <3>3. PICK d \in Conns : cid[d] = cid[c] /\ cask[d][k] = "text"
      BY <3>1, <3>2 DEF EndsInv, Client!DataTold
    <3> QED BY <3>1, <3>3 DEF Client!IdsUnique
  <2>2. id[c] # 0 /\ StreamData(id[c], k) \in seen
    BY <2>1 DEF MessagesAreWhole, AnswersAreOwed
  <2>3. ask[c][k] = "text"
    <3>1. id[c] \in Server!SessionIds /\ Server!IdsUnique
      BY <2>2, ExchangeAssumption DEF EndsInv, Server!Inv, Server!TypeOK, Server!Ownership,
         Server!SessionIds
    <3>2. Server!Reported(Server!StreamData(id[c], k))
      BY <2>2 DEF Server!Reported, Server!StreamData, Server!Event, StreamData, Event
    <3>3. PICK d \in Conns : id[d] = id[c] /\ ask[d][k] = "text"
      BY <3>1, <3>2 DEF EndsInv, Server!DataTold
    <3> QED BY <2>2, <3>1, <3>3 DEF Server!IdsUnique
  <2> QED BY <2>2, <2>3 DEF MessagesAreWhole
<1> QED BY EndsHold, <1>1, <1>2, <1>3, PTL DEF Spec
=============================================================================
