------------------------------ MODULE Isolates ------------------------------
(***************************************************************************)
(* The Dart half of one endpoint (lib/src/server_io.dart, client_io.dart,  *)
(* endpoint_io.dart): the isolate of the caller, which owns QuicServer or  *)
(* QuicClient and its CommandChannel; the command isolate, which makes the *)
(* short native calls one at a time; and the poll isolate.  Isolates share *)
(* nothing and talk through ports, which deliver in order.                 *)
(*                                                                         *)
(* Calls are the futures the application holds.  StartCall is the command  *)
(* start (or connect) issues before there is an object to call, and Stops  *)
(* are the calls of stop (or close).                                       *)
(***************************************************************************)
EXTENDS Startup

CONSTANTS
  Sends,        \* calls of send, sendOn, closeStream, openStream
  Stops,        \* calls of stop or close
  StartCall,    \* the start or connect command
  Setups,       \* <<candidate paths, configuration>> to start with
  MaxEvents,    \* bound on the events polled
  None

Calls == Sends \cup Stops \cup {StartCall}

\* What a future can complete with.
Answers == {"ok", "refused", "notRunning", "unsupported", "invalidArgument",
            "badCertificate", "portInUse", "bindFailed", "peerGone", "panic"}

ASSUME IsolatesAssumption ==
  /\ Sends \cap Stops = {}
  /\ StartCall \notin Sends \cup Stops
  /\ \A s \in Setups : s \in CandidateLists \X (Servers(Int) \cup Clients(Int))
  /\ MaxEvents \in Nat
  /\ None \notin Calls \cup Answers \cup {"killed"}
  /\ "killed" \notin Calls

VARIABLES
  library,      \* candidatePaths, and what is found there
  config,       \* what the endpoint is to be started with
  object,       \* QuicServer: "starting", "open", "failed", "disposed"
  stopped,      \* _stopped
  nextId,       \* _nextId
  pending,      \* _pending: pairs <<id, call>>
  inbox,        \* envelopes <<id, call>> on their way to the command isolate
  replies,      \* replies <<id, status>> on their way back
  worker,       \* the call the command isolate is inside, None or "killed"
  endpoint,     \* the native endpoint behind `handle`: "none", "live", "stopped"
  poller,       \* the poll isolate: "none", "between", "inside", "holding" an
                \* event, "ended"
  polled,       \* events polled so far; they are numbered in that order
  port,         \* eventPort: events posted and not yet dispatched
  listener,     \* whoever listens to `events`: "none" yet, "some", "left"
  heard,        \* events a listener was given
  answer,       \* what each future completed with, None before
  native        \* history: what the native call made for it returned

channel == <<nextId, pending, inbox, replies>>
events == <<polled, port, listener, heard>>
setup == <<library, config>>
vars == <<setup, object, stopped, channel, worker, endpoint, poller, events, answer, native>>

\* "refused" stands for every status of a native call other than ok.
Statuses == {"ok", "refused"}

-----------------------------------------------------------------------------
(* The caller's isolate *)

\* Mutant: the id does not advance.
PostSameId(c) ==
  /\ pending' = pending \cup {<<nextId, c>>}
  /\ inbox' = Append(inbox, <<nextId, c>>)
  /\ UNCHANGED <<nextId, replies>>

\* CommandChannel.send: an id, a completer in _pending, an envelope.
Post(c) ==
  /\ nextId' = nextId + 1
  /\ pending' = pending \cup {<<nextId, c>>}
  /\ inbox' = Append(inbox, <<nextId, c>>)
  /\ UNCHANGED replies

Made(c) == answer[c] # None \/ \E p \in pending : p[2] = c

\* QuicServer.start / QuicClient.connect: CommandChannel.spawn probes for the
\* library, and spawns and posts only if there is one to use.
Start ==
  /\ object = "starting" /\ ~Made(StartCall)
  /\ \/ /\ isUsable(probeNativeLibrary(library))
        /\ Post(StartCall)
        /\ UNCHANGED answer
     \/ /\ ~isUsable(probeNativeLibrary(library))
        /\ answer' = [answer EXCEPT ![StartCall] = "unsupported"]
        /\ UNCHANGED channel
  /\ UNCHANGED <<object, stopped, worker, endpoint, poller, native, events, setup>>

\* The start command was answered: the object is handed out and the poll
\* isolate spawned, or the channel is disposed of.
Started ==
  /\ object = "starting" /\ answer[StartCall] # None
  /\ IF answer[StartCall] = "ok"
     THEN object' = "open" /\ poller' = "between" /\ UNCHANGED worker
     ELSE object' = "failed" /\ worker' = "killed" /\ UNCHANGED poller
  /\ UNCHANGED <<stopped, channel, endpoint, answer, native, events, setup>>

\* send, sendOn, closeStream, openStream.
Call(c) ==
  /\ object \in {"open", "disposed"} /\ ~Made(c)
  /\ \/ /\ stopped
        /\ answer' = [answer EXCEPT ![c] = "notRunning"]
        /\ UNCHANGED channel
     \/ /\ ~stopped
        /\ Post(c)
        /\ UNCHANGED answer
  /\ UNCHANGED <<object, stopped, worker, endpoint, poller, native, events, setup>>

\* Mutant: the command isolate is killed while the stop command is on its way.
DisposeEarly ==
  /\ object = "open" /\ stopped
  /\ object' = "disposed"
  /\ worker' = "killed"
  /\ answer' = [c \in Calls |-> IF \E p \in pending : p[2] = c THEN "notRunning" ELSE answer[c]]
  /\ pending' = {}
  /\ UNCHANGED <<stopped, nextId, inbox, replies, endpoint, poller, native, events, setup>>

\* Mutant: _stopped is set only when the stop has been answered.
StopUnmarked(c) ==
  /\ object \in {"open", "disposed"} /\ ~Made(c) /\ ~stopped
  /\ Post(c)
  /\ UNCHANGED <<object, stopped, worker, endpoint, poller, answer, native, events, setup>>

\* What a second stop answers, and a second close.
Again == IF config.kind = "server" THEN "notRunning" ELSE "ok"

\* stop / close, up to the await: _stopped is set before the command is sent.
Stop(c) ==
  /\ object \in {"open", "disposed"} /\ ~Made(c)
  /\ \/ /\ stopped
        /\ answer' = [answer EXCEPT ![c] = Again]
        /\ UNCHANGED <<stopped, channel>>
     \/ /\ ~stopped
        /\ stopped' = TRUE
        /\ Post(c)
        /\ UNCHANGED answer
  /\ UNCHANGED <<object, worker, endpoint, poller, native, events, setup>>

\* Mutant: a reply is handed to every call in flight.
DeliverToAll ==
  /\ replies # <<>> /\ object \in {"starting", "open"}
  /\ LET reply == Head(replies) IN
       answer' = [c \in Calls |-> IF \E p \in pending : p[2] = c THEN reply[2] ELSE answer[c]]
  /\ pending' = {}
  /\ replies' = Tail(replies)
  /\ UNCHANGED <<object, stopped, nextId, inbox, worker, endpoint, poller, native, events, setup>>

\* The listener of the reply port: the completer with the reply's id, if it is
\* still there.
Deliver ==
  /\ replies # <<>> /\ object \in {"starting", "open"}
  /\ LET reply == Head(replies)
         mine == {p \in pending : p[1] = reply[1]}
     IN /\ answer' = [c \in Calls |-> IF \E p \in mine : p[2] = c THEN reply[2] ELSE answer[c]]
        /\ pending' = pending \ mine
  /\ replies' = Tail(replies)
  /\ UNCHANGED <<object, stopped, nextId, inbox, worker, endpoint, poller, native, events, setup>>

\* The rest of stop: the poll isolate is sent a kill and the channel disposed
\* of.  Calls still pending are completed with notRunning.
Dispose ==
  /\ object = "open" /\ stopped
  /\ \A p \in pending : p[2] \notin Stops
  /\ object' = "disposed"
  /\ worker' = "killed"
  /\ answer' = [c \in Calls |-> IF \E p \in pending : p[2] = c THEN "notRunning" ELSE answer[c]]
  /\ pending' = {}
  /\ UNCHANGED <<stopped, nextId, inbox, replies, endpoint, poller, native, events, setup>>

-----------------------------------------------------------------------------
(* The command isolate: _commandLoop, one envelope at a time *)

Take ==
  /\ worker = None /\ inbox # <<>>
  /\ worker' = Head(inbox)[2]
  /\ UNCHANGED <<object, stopped, channel, endpoint, poller, answer, native, events, setup>>

\* Mutant: a reply overtakes the replies before it.
DoneAhead(status) ==
  /\ worker \in Calls
  /\ native' = [native EXCEPT ![worker] = status]
  /\ replies' = <<<<Head(inbox)[1], status>>>> \o replies
  /\ inbox' = Tail(inbox)
  /\ worker' = None
  /\ UNCHANGED <<object, stopped, nextId, pending, poller, answer, events, setup>>

\* The native call returns and its status goes back under the same id.
Done(status) ==
  /\ worker \in Calls
  /\ native' = [native EXCEPT ![worker] = status]
  /\ replies' = Append(replies, <<Head(inbox)[1], status>>)
  /\ inbox' = Tail(inbox)
  /\ worker' = None
  /\ UNCHANGED <<object, stopped, nextId, pending, poller, answer, events, setup>>

\* StartCommand or ConnectCommand.
Opened ==
  IF config.kind = "server" THEN rk_quic_server_start(config)
                            ELSE rk_quic_client_connect(config)

\* Without bindings the loop answers unsupported to whatever is asked.
RunStart ==
  /\ worker = StartCall
  /\ \/ /\ openBindings(library)
        /\ Done(Opened)
        /\ endpoint' = IF Opened = "ok" THEN "live" ELSE "none"
     \/ /\ ~openBindings(library)
        /\ Done("unsupported")
        /\ UNCHANGED endpoint

\* Mutant: a command that is not answered.
RunSendSilent ==
  /\ worker \in Sends
  /\ \E status \in Statuses : native' = [native EXCEPT ![worker] = status]
  /\ inbox' = Tail(inbox)
  /\ worker' = None
  /\ UNCHANGED <<object, stopped, nextId, pending, replies, endpoint, poller, answer, events, setup>>

RunSend ==
  /\ worker \in Sends
  /\ \E status \in Statuses : Done(status)
  /\ UNCHANGED endpoint

RunStop ==
  /\ worker \in Stops
  /\ IF endpoint = "live" THEN Done("ok") ELSE Done("notRunning")
  /\ endpoint' = "stopped"

-----------------------------------------------------------------------------
(* The poll isolate: pollLoop *)

\* One native poll begins; a handle that is gone ends the loop.
PollBegin ==
  /\ poller = "between"
  /\ poller' = IF endpoint = "live" THEN "inside" ELSE "ended"
  /\ UNCHANGED <<object, stopped, channel, worker, endpoint, answer, native, events, setup>>

\* Mutant: the poll has no timeout and comes back only with an event.
PollEndUntimed ==
  /\ poller = "inside" /\ endpoint = "live"
  /\ poller' = "between"
  /\ UNCHANGED <<object, stopped, channel, worker, endpoint, answer, native, events, setup>>

\* It comes back with wouldBlock or with an event.  Any other status ends the
\* loop: a panic, which may have cost the event that was taken.
PollEnd ==
  /\ poller = "inside"
  /\ \/ poller' \in {"between", "ended"} /\ UNCHANGED polled
     \/ poller' \in {"holding", "ended"} /\ polled < MaxEvents /\ polled' = polled + 1
  /\ UNCHANGED <<object, stopped, channel, worker, endpoint, port, listener, heard, answer, native, setup>>

\* request.events.send(json).
PostEvent ==
  /\ poller = "holding"
  /\ poller' = "between"
  /\ port' = Append(port, polled)
  /\ UNCHANGED <<object, stopped, channel, worker, endpoint, polled, listener, heard, answer, native, setup>>

\* The kill takes effect at some time after stop sent it, but not inside a
\* native call; until then the loop goes on.
Killed ==
  /\ object = "disposed" /\ poller \in {"between", "holding"}
  /\ poller' = "ended"
  /\ UNCHANGED <<object, stopped, channel, worker, endpoint, events, answer, native, setup>>

-----------------------------------------------------------------------------
(* The event stream.  The port keeps what arrives until asBroadcastStream is  *)
(* first listened to, and dispatches in order from then on; an event that     *)
(* finds no listener left is gone.  Nothing closes the port.                  *)

Listen ==
  /\ object \in {"open", "disposed"} /\ listener = "none"
  /\ listener' = "some"
  /\ UNCHANGED <<object, stopped, channel, worker, endpoint, poller, polled, port, heard, answer, native, setup>>

Cancel ==
  /\ listener = "some"
  /\ listener' = "left"
  /\ UNCHANGED <<object, stopped, channel, worker, endpoint, poller, polled, port, heard, answer, native, setup>>

\* Mutant: a stream that is broadcast from the start.
HearAtOnce ==
  /\ port # <<>>
  /\ port' = Tail(port)
  /\ heard' = IF listener = "some" THEN Append(heard, Head(port)) ELSE heard
  /\ UNCHANGED <<object, stopped, channel, worker, endpoint, poller, polled, listener, answer, native, setup>>

\* Mutant: stop closes the port.
HearWhileOpen ==
  /\ port # <<>> /\ listener # "none" /\ object # "disposed"
  /\ port' = Tail(port)
  /\ heard' = IF listener = "some" THEN Append(heard, Head(port)) ELSE heard
  /\ UNCHANGED <<object, stopped, channel, worker, endpoint, poller, polled, listener, answer, native, setup>>

Hear ==
  /\ port # <<>> /\ listener # "none"
  /\ port' = Tail(port)
  /\ heard' = IF listener = "some" THEN Append(heard, Head(port)) ELSE heard
  /\ UNCHANGED <<object, stopped, channel, worker, endpoint, poller, polled, listener, answer, native, setup>>

-----------------------------------------------------------------------------
(* Specification *)

Init ==
  /\ \E s \in Setups : library = s[1] /\ config = s[2]
  /\ object = "starting" /\ stopped = FALSE
  /\ nextId = 0 /\ pending = {} /\ inbox = <<>> /\ replies = <<>>
  /\ worker = None /\ endpoint = "none" /\ poller = "none"
  /\ polled = 0 /\ port = <<>> /\ listener = "none" /\ heard = <<>>
  /\ answer = [c \in Calls |-> None]
  /\ native = [c \in Calls |-> None]

Worker == Take \/ RunStart \/ RunSend \/ RunStop
Poller == PollBegin \/ PollEnd \/ PostEvent

Next ==
  \/ Start \/ Started \/ Deliver \/ Dispose \/ Worker \/ Poller
  \/ Killed \/ Listen \/ Cancel \/ Hear
  \/ \E c \in Sends : Call(c)
  \/ \E c \in Stops : Stop(c)

Spec == Init /\ [][Next]_vars

(* Fairness.  Every isolate goes on with what it has received, and the poll   *)
(* returns within pollSlice.  The second half of stop follows its reply.      *)
(* Nothing is assumed of a native send, which may wait for its peer.          *)
LiveSpec ==
  /\ Spec
  /\ WF_vars(Start) /\ WF_vars(Started) /\ WF_vars(Deliver) /\ WF_vars(Dispose)
  /\ WF_vars(Take \/ RunStart \/ RunStop)
  /\ WF_vars(Poller) /\ WF_vars(Hear)

-----------------------------------------------------------------------------
(* Properties *)

Numbered(S) == {<<i, x>> : i \in 0..nextId, x \in S}

(* Every variable keeps its shape, and _pending pairs ids and calls off.      *)
TypeOK ==
  /\ <<library, config>> \in Setups
  /\ object \in {"starting", "open", "failed", "disposed"}
  /\ stopped \in BOOLEAN /\ nextId \in Nat
  /\ pending \subseteq Numbered(Calls)
  /\ \A p, q \in pending : p[1] = q[1] \/ p[2] = q[2] => p = q
  /\ \A i \in 1..Len(inbox) : inbox[i] \in Numbered(Calls)
  /\ \A i \in 1..Len(replies) : replies[i] \in Numbered(Answers)
  /\ worker \in Calls \cup {None, "killed"}
  /\ endpoint \in {"none", "live", "stopped"}
  /\ poller \in {"none", "between", "inside", "holding", "ended"}
  /\ polled \in 0..MaxEvents /\ listener \in {"none", "some", "left"}
  /\ \A i \in 1..Len(port) : port[i] \in 1..polled
  /\ \A i \in 1..Len(heard) : heard[i] \in 1..polled
  /\ answer \in [Calls -> Answers \cup {None}]
  /\ native \in [Calls -> Answers \cup {None}]

(* However calls overlap, a future completes with what its own native call    *)
(* returned; an answer that no native call gave is given only once stop was   *)
(* called, or to a start without a library, and then nothing was done.        *)
AnswerIsOwn ==
  \A c \in Calls : answer[c] # None =>
    \/ answer[c] = native[c]
    \/ native[c] = None /\ (stopped \/ c = StartCall)

Promise == INSTANCE Futures WITH
  Opening <- StartCall, Closings <- Stops, Statuses <- Answers,
  next <- nextId, waiting <- pending, result <- native, closing <- stopped

(* Isolates implements Futures: over two ports and a worker that knows        *)
(* nothing of completers, calls are carried out and answered in the order     *)
(* they were made, and stop is the last of them.                              *)
CallsInOrder == Promise!Spec

(* The orphan path of dispose finds nothing: ports deliver in order and       *)
(* _stopped closes the door, so when stop is answered every earlier call is.  *)
NoOrphans ==
  [][object = "open" /\ object' = "disposed" => pending = {}]_vars

(* Once the native endpoint is stopped the command isolate makes no further   *)
(* call on its handle.                                                        *)
NoCallAfterStop ==
  [][\A c \in Sends : native'[c] # native[c] => endpoint = "live"]_vars

(* Every future completes, as long as no native send holds the command        *)
(* isolate for ever: one send that waits for its peer delays all other calls, *)
(* stop included.                                                             *)
EveryCallAnswered ==
  []<>(worker \notin Sends) =>
    \A c \in Calls : Made(c) ~> answer[c] # None

(* A stopped endpoint's poll isolate ends, however late the kill comes: the   *)
(* poll returns within its slice and the next one finds the handle unknown.   *)
PollerEnds == endpoint = "stopped" ~> poller = "ended"

\* What is wrong with a setup, judged by itself.  A hash with signs in it is not
\* among them: it passes for one without (HashOrSentence in ClientConfig).
Faults ==
  LET idle == inMilliseconds(config.idle)
      server == config.kind = "server"
  IN {fault \in {"library", "scalar", "idleRange", "hash", "hashCut", "certificate",
                 "keyUnusable", "port", "host", "peer"} :
        CASE fault = "library"     -> ~openBindings(library)
          [] fault = "scalar"      -> IF server
                                      THEN ~config.bindAddress \/ ~config.path \/ idle < 1000
                                      ELSE ~config.url \/ idle <= 0
          [] fault = "idleRange"   -> idle > MaxIdle
          [] fault = "hash"        -> ~server /\ config.hash = "other"
          [] fault = "hashCut"     -> ~server /\ config.hash = "cut"
          [] fault = "certificate" -> server /\ (\/ config.chain # "good"
                                                \/ config.key \notin {"good", "unusable"})
          [] fault = "keyUnusable" -> server /\ config.key = "unusable"
          [] fault = "port"        -> config.host = "portTaken"
          [] fault = "host"        -> config.host \notin {"good", "portTaken"}
          [] fault = "peer"        -> ~server /\ config.peer # "good"}

\* The statuses that may tell of a fault.  What the library says of a peer that
\* cannot be reached or trusted decides between two.
Tells(fault) ==
  CASE fault = "library"                           -> {"unsupported"}
    [] fault \in {"scalar", "idleRange", "hash"}   -> {"invalidArgument"}
    [] fault = "certificate"                       -> {"badCertificate"}
    [] fault \in {"hashCut", "keyUnusable"}        -> {"panic"}
    [] fault = "port"                              -> {"portInUse"}
    [] fault = "host"                              -> {"bindFailed"}
    [] fault = "peer"                              -> {"badCertificate", "peerGone"}

(* Whatever is wrong at once: start and connect succeed exactly when nothing  *)
(* is, and a refusal tells of a fault that is there, a panic of a hash cut in *)
(* a character or of a key that only the library looks into.  Nothing is      *)
(* bound and nobody connected to for a setup that is at fault in itself, and  *)
(* a slip in a server's scalars is named before its certificates (the upper   *)
(* end of the idle timeout is left to the library, after the identity).       *)
StartTellsWhy ==
  LET told == answer[StartCall] IN
  told # None =>
    /\ told = "ok" <=> Faults = {}
    /\ told # "ok" => \E fault \in Faults : told \in Tells(fault)
    /\ told \in {"portInUse", "bindFailed", "peerGone"} => Faults \subseteq {"port", "host", "peer"}
    /\ config.kind = "server" /\ "scalar" \in Faults => told \in {"unsupported", "invalidArgument"}

(* However late the application listens, it hears every event from the first  *)
(* on, in the order they were polled, until it cancels; what a kill or a      *)
(* failed poll can lose is the one event the poll isolate has in hand.        *)
HeardInOrder ==
  LET upTo(n) == [i \in 1..n |-> i] IN
  /\ heard = upTo(Len(heard))
  /\ listener # "left" =>
       \/ heard \o port = upTo(polled)
       \/ poller \in {"holding", "ended"} /\ heard \o port = upTo(polled - 1)

(* Whoever listens hears every event that was polled, from before the first   *)
(* listen and from before a stop as well, since stop leaves the port open;    *)
(* unless they cancel, or the event was in the hands of the poll isolate when *)
(* it was killed or its poll failed.                                          *)
EveryEventHeard ==
  \A n \in 1..MaxEvents :
    polled >= n /\ listener = "some" ~>
      \/ Len(heard) >= n
      \/ listener = "left"
      \/ poller = "ended" /\ n > Len(heard) + Len(port)

(* The claim of native_probe.dart:64: where the probe says the library is     *)
(* usable, calls into it can be made.                                         *)
UsableMeansSupported ==
  isUsable(probeNativeLibrary(library)) => answer[StartCall] # "unsupported"
=============================================================================
