------------------------------ MODULE Boundary ------------------------------
(***************************************************************************)
(* What crosses the C ABI (rust/src/server_ffi.rs, client_ffi.rs, ffi.rs,  *)
(* lib.rs; lib/src/bindings_io.dart, quic_event.dart): statuses by name,   *)
(* the detail of a failure through a slot of the operating system thread,  *)
(* and strings that one side allocates and the other hands back.           *)
(*                                                                         *)
(* An endpoint has two isolates.  The command isolate makes one native     *)
(* call per turn and may run each turn on another thread; the poll isolate *)
(* is one turn that lasts.  What the calls do inside is in Endpoint and    *)
(* Registry; here they choose among the outcomes they can have.            *)
(***************************************************************************)
EXTENDS Integers, Sequences

CONSTANTS
  Endpoints,    \* QuicServer and QuicClient objects
  OsThreads,    \* threads the isolates of the process run on
  Entries,      \* the native calls the command isolates make
  Events,       \* the events a poll may find
  MaxCalls,     \* bound on the native calls that return something
  None

Isolates == Endpoints \X {"commands", "poll"}
Calls == 1..MaxCalls

ASSUME BoundaryAssumption ==
  /\ Entries \subseteq {"serverStart", "clientConnect", "openStream", "sessionSend",
                        "streamSend", "streamClose", "serverStop"}
  /\ MaxCalls \in Nat \ {0}
  /\ None \notin OsThreads \cup Calls

VARIABLES
  nextCall,     \* names the next call and the string it may allocate
  life,         \* of the native endpoint: "none", "live", "stopped"
  slot,         \* LAST_ERROR of each thread: the call that set it, or None
  heap,         \* strings allocated by the native side and not freed
  frees,        \* history: how often each string was handed back
  isolate,      \* where each isolate is in its turn
  replies,      \* what the command isolates answered
  popped,       \* history: the events taken from each endpoint's queue
  heard         \* the events the Dart side of each endpoint was given

vars == <<nextCall, life, slot, heap, frees, isolate, replies, popped, heard>>

\* An isolate outside a turn; a killed or finished one never has another.
Resting(stage) ==
  [stage |-> stage, thread |-> None, call |-> None, entry |-> None,
   status |-> None, text |-> None]

Free(t) == \A i \in Isolates : isolate[i].thread # t

-----------------------------------------------------------------------------
(* Names *)

\* Status::name_with_nul and the enum RkQuicStatus.
NativeStatuses == {"ok", "invalidArgument", "unknownHandle", "portInUse", "bindFailed",
                   "badCertificate", "peerGone", "wouldBlock", "notRunning", "panic",
                   "unsupported"}
DartStatuses == NativeStatuses \cup {"unrecognised"}

statusFromWireName(name) == IF name \in DartStatuses THEN name ELSE "unrecognised"

\* The variants of Event and the fields they carry.
FieldsOf(variant) ==
  CASE variant = "SessionOpened" -> {"session_id", "authority", "path"}
    [] variant = "SessionClosed" -> {"session_id", "reason"}
    [] variant \in {"Datagram", "StreamMessage"} -> {"session_id", "utf8"}
    [] variant \in {"StreamOpened", "StreamClosed"} -> {"session_id", "stream_id"}
    [] variant = "StreamData" -> {"session_id", "stream_id", "utf8"}
    [] variant = "EndpointError" -> {"message"}

\* Ids are numbers and everything else is text, with the JSON type they get.
ValuesOf(field) ==
  IF field \in {"session_id", "stream_id"} THEN {"int"} \X Int ELSE {"text"} \X STRING

Variants == {"SessionOpened", "SessionClosed", "Datagram", "StreamMessage", "StreamOpened",
             "StreamData", "StreamClosed", "EndpointError"}

\* serde's rename_all and rename_all_fields: names travel in camelCase.
WireKind(variant) ==
  CASE variant = "SessionOpened" -> "sessionOpened"
    [] variant = "SessionClosed" -> "sessionClosed"
    [] variant = "Datagram" -> "datagram"
    [] variant = "StreamMessage" -> "streamMessage"
    [] variant = "StreamOpened" -> "streamOpened"
    [] variant = "StreamData" -> "streamData"
    [] variant = "StreamClosed" -> "streamClosed"
    [] variant = "EndpointError" -> "endpointError"

\* Mutant: rename_all without rename_all_fields.
WireFieldSnake(field) == field

WireField(field) ==
  CASE field = "session_id" -> "sessionId"
    [] field = "stream_id" -> "streamId"
    [] OTHER -> field

\* serde_json::to_string: the tag and the fields.  A value keeps its JSON type.
Encode(event) ==
  [key \in {"kind"} \cup {WireField(f) : f \in FieldsOf(event.variant)} |->
     IF key = "kind" THEN <<"text", WireKind(event.variant)>>
     ELSE event[CHOOSE f \in FieldsOf(event.variant) : WireField(f) = key]]

ASSUME EventsAssumption ==
  \A event \in Events :
    /\ event.variant \in Variants
    /\ \A f \in FieldsOf(event.variant) : event[f] \in ValuesOf(f)
    /\ Encode(event) # None

\* QuicEvent.fromJson: by kind; a field that is absent or of another type reads
\* as -1 or as the empty text.
fromJson(json) ==
  LET number(key) == IF key \in DOMAIN json /\ json[key][1] = "int" THEN json[key] ELSE <<"int", -1>>
      text(key) == IF key \in DOMAIN json /\ json[key][1] = "text" THEN json[key] ELSE <<"text", "">>
      kind == json["kind"][2]
  IN CASE kind = "sessionOpened" ->
            [class |-> "SessionOpened", sessionId |-> number("sessionId"),
             authority |-> text("authority"), path |-> text("path")]
       [] kind = "sessionClosed" ->
            [class |-> "SessionClosed", sessionId |-> number("sessionId"), reason |-> text("reason")]
       [] kind = "datagram" ->
            [class |-> "DatagramReceived", sessionId |-> number("sessionId"), message |-> text("utf8")]
       [] kind = "streamMessage" ->
            [class |-> "StreamMessageReceived", sessionId |-> number("sessionId"), message |-> text("utf8")]
       [] kind = "streamOpened" ->
            [class |-> "StreamOpened", sessionId |-> number("sessionId"), streamId |-> number("streamId")]
       [] kind = "streamData" ->
            [class |-> "StreamData", sessionId |-> number("sessionId"),
             streamId |-> number("streamId"), message |-> text("utf8")]
       [] kind = "streamClosed" ->
            [class |-> "StreamClosed", sessionId |-> number("sessionId"), streamId |-> number("streamId")]
       [] kind = "endpointError" -> [class |-> "EndpointError", message |-> text("message")]
       [] OTHER -> [class |-> "UnknownQuicEvent", kind |-> kind, raw |-> json]

-----------------------------------------------------------------------------
(* The native calls.  An outcome is a status and whether a detail was set. *)

Plain(statuses) == {[status |-> s, detail |-> FALSE] : s \in statuses}
Detailed(statuses) == {[status |-> s, detail |-> TRUE] : s \in statuses}

\* guard: a panic comes back as a status, with the slot as the body left it.
guard(outcomes) == outcomes \cup Plain({"panic"})

\* rk_quic_server_start and rk_quic_client_connect: every refusal is explained.
ServerStart ==
  guard(Plain({"ok"}) \cup Detailed({"invalidArgument", "badCertificate", "portInUse", "bindFailed"}))
ClientConnect ==
  guard(Plain({"ok"}) \cup Detailed({"invalidArgument", "badCertificate", "peerGone", "bindFailed"}))

\* rk_quic_client_open_stream explains as well; the calls on a session or a
\* stream explain only a payload that is not text.  unknownHandle is here a
\* session or a stream: the endpoint of a command is live.
OpenStream == guard(Plain({"ok"}) \cup Detailed({"unknownHandle", "peerGone"}))
SessionSend == guard(Plain({"ok", "unknownHandle", "peerGone"}) \cup Detailed({"invalidArgument"}))
StreamSend == guard(Plain({"ok", "unknownHandle", "peerGone"}) \cup Detailed({"invalidArgument"}))
StreamClose == guard(Plain({"ok", "unknownHandle", "peerGone"}))
ServerStop == guard(Plain({"ok"}))

Outcomes(entry) ==
  CASE entry = "serverStart" -> ServerStart
    [] entry = "clientConnect" -> ClientConnect
    [] entry = "openStream" -> OpenStream
    [] entry = "sessionSend" -> SessionSend
    [] entry = "streamSend" -> StreamSend
    [] entry = "streamClose" -> StreamClose
    [] entry = "serverStop" -> ServerStop

\* Mutant: the slot is not cleared on entry.
EnterUncleared(t, n, detail) == slot' = [slot EXCEPT ![t] = IF detail THEN n ELSE @]

\* clear_last_error first, set_last_error on the way out of some refusals.
Enter(t, n, detail) == slot' = [slot EXCEPT ![t] = IF detail THEN n ELSE None]

-----------------------------------------------------------------------------
(* The command isolate *)

Opens == {"serverStart", "clientConnect"}

\* One command of _commandLoop, up to the return of its native call.  There is
\* an object to call once the poll isolate was spawned.
Command(e, t, entry) ==
  /\ isolate[<<e, "commands">>].stage = "idle" /\ Free(t)
  /\ nextCall \in Calls
  /\ IF entry \in Opens THEN life[e] = "none" ELSE isolate[<<e, "poll">>].stage # "none"
  /\ \E o \in Outcomes(entry) :
       LET status == statusFromWireName(o.status)
           done == \/ status = "ok" /\ entry # "serverStart"
                   \/ entry = "serverStop"
       IN /\ Enter(t, nextCall, o.detail)
          /\ isolate' = [isolate EXCEPT ![<<e, "commands">>] =
               [stage |-> IF done THEN "answer" ELSE IF status = "ok" THEN "started" ELSE "failed",
                thread |-> t, call |-> nextCall, entry |-> entry, status |-> status, text |-> None]]
          /\ life' = CASE entry \in Opens /\ status = "ok" -> [life EXCEPT ![e] = "live"]
                       [] entry = "serverStop" /\ status = "ok" -> [life EXCEPT ![e] = "stopped"]
                       [] OTHER -> life
  /\ nextCall' = nextCall + 1
  /\ UNCHANGED <<heap, frees, replies, popped, heard>>

\* After a start the port is asked for; the status of that call is not looked at.
LocalPort(e) ==
  LET w == isolate[<<e, "commands">>] IN
  /\ w.stage = "started"
  /\ Enter(w.thread, w.call, FALSE)
  /\ isolate' = [isolate EXCEPT ![<<e, "commands">>].stage = "answer"]
  /\ UNCHANGED <<nextCall, life, heap, frees, replies, popped, heard>>

\* rk_quic_last_error: takes the detail out of this thread's slot.
LastError(e) ==
  LET w == isolate[<<e, "commands">>] IN
  /\ w.stage = "failed"
  /\ heap' = [heap EXCEPT ![w.call] = slot[w.thread]]
  /\ slot' = [slot EXCEPT ![w.thread] = None]
  /\ isolate' = [isolate EXCEPT ![<<e, "commands">>].stage =
                   IF slot[w.thread] = None THEN "answer" ELSE "copy"]
  /\ UNCHANGED <<nextCall, life, frees, replies, popped, heard>>

\* The reply is sent and the turn ends; a refused start and every stop are
\* followed by dispose.
Answer(e) ==
  LET w == isolate[<<e, "commands">>] IN
  /\ w.stage = "answer"
  /\ replies' = replies \cup {
       [call |-> w.call, entry |-> w.entry, status |-> w.status, detail |-> w.text]}
  /\ isolate' = [isolate EXCEPT ![<<e, "commands">>] =
       Resting(IF w.entry = "serverStop" \/ (w.entry \in Opens /\ w.status # "ok")
               THEN "ended" ELSE "idle")]
  /\ UNCHANGED <<nextCall, life, slot, heap, frees, popped, heard>>

-----------------------------------------------------------------------------
(* Strings: toDartString, then rk_quic_string_free *)

Copy(i) ==
  /\ isolate[i].stage = "copy"
  /\ isolate' = [isolate EXCEPT ![i].stage = "free", ![i].text = heap[isolate[i].call]]
  /\ UNCHANGED <<nextCall, life, slot, heap, frees, replies, popped, heard>>

\* Mutant: the command loop frees the detail that takeLastError has freed.
StringFreeTwice(i) ==
  LET n == isolate[i].call
      again == i[2] = "commands" /\ frees[n] = 0
  IN /\ isolate[i].stage = "free"
     /\ heap' = [heap EXCEPT ![n] = None]
     /\ frees' = [frees EXCEPT ![n] = @ + 1]
     /\ isolate' = [isolate EXCEPT ![i].stage =
                      IF again THEN "free" ELSE IF i[2] = "poll" THEN "post" ELSE "answer"]
     /\ UNCHANGED <<nextCall, life, slot, replies, popped, heard>>

StringFree(i) ==
  /\ isolate[i].stage = "free"
  /\ heap' = [heap EXCEPT ![isolate[i].call] = None]
  /\ frees' = [frees EXCEPT ![isolate[i].call] = @ + 1]
  /\ isolate' = [isolate EXCEPT ![i].stage = IF i[2] = "poll" THEN "post" ELSE "answer"]
  /\ UNCHANGED <<nextCall, life, slot, replies, popped, heard>>

-----------------------------------------------------------------------------
(* The poll isolate *)

\* It is spawned once start or connect was answered with a handle.
Spawn(e, t) ==
  /\ isolate[<<e, "poll">>].stage = "none" /\ Free(t)
  /\ life[e] = "live" /\ isolate[<<e, "commands">>].entry \notin Opens
  /\ isolate' = [isolate EXCEPT ![<<e, "poll">>] = [Resting("polling") EXCEPT !.thread = t]]
  /\ UNCHANGED <<nextCall, life, slot, heap, frees, replies, popped, heard>>

\* rk_quic_server_poll finds its endpoint, or the loop ends.
PollEnter(e) ==
  LET p == isolate[<<e, "poll">>] IN
  /\ p.stage = "polling"
  /\ Enter(p.thread, None, FALSE)
  /\ isolate' = [isolate EXCEPT ![<<e, "poll">>] =
       IF life[e] = "live" THEN [p EXCEPT !.stage = "inside"] ELSE Resting("ended")]
  /\ UNCHANGED <<nextCall, life, heap, frees, replies, popped, heard>>

\* It returns with an event, whose JSON it has allocated.
PollEvent(e, event) ==
  LET p == isolate[<<e, "poll">>] IN
  /\ p.stage = "inside" /\ nextCall \in Calls
  /\ heap' = [heap EXCEPT ![nextCall] = Encode(event)]
  /\ popped' = [popped EXCEPT ![e] = Append(@, event)]
  /\ isolate' = [isolate EXCEPT ![<<e, "poll">>] = [p EXCEPT !.stage = "copy", !.call = nextCall]]
  /\ nextCall' = nextCall + 1
  /\ UNCHANGED <<life, slot, frees, replies, heard>>

\* It returns with wouldBlock.
PollNothing(e) ==
  /\ isolate[<<e, "poll">>].stage = "inside"
  /\ isolate' = [isolate EXCEPT ![<<e, "poll">>].stage = "polling"]
  /\ UNCHANGED <<nextCall, life, slot, heap, frees, replies, popped, heard>>

\* It returns with panic: an event that was taken and could not be serialised,
\* which is explained, or a caught panic before or after one was taken.  The
\* event is lost, and the loop ends without taking the detail.
PollPanics(e, lost) ==
  LET p == isolate[<<e, "poll">>] IN
  /\ p.stage = "inside" /\ nextCall \in Calls
  /\ \E explained \in BOOLEAN :
       /\ explained => lost # <<>>
       /\ Enter(p.thread, nextCall, explained)
  /\ popped' = [popped EXCEPT ![e] = @ \o lost]
  /\ nextCall' = nextCall + 1
  /\ isolate' = [isolate EXCEPT ![<<e, "poll">>] = Resting("panicked")]
  /\ UNCHANGED <<life, heap, frees, replies, heard>>

\* The JSON is sent to the owner's isolate, which decodes it.
Post(e) ==
  LET p == isolate[<<e, "poll">>] IN
  /\ p.stage = "post"
  /\ heard' = [heard EXCEPT ![e] = Append(@, fromJson(p.text))]
  /\ isolate' = [isolate EXCEPT ![<<e, "poll">>] = [Resting("polling") EXCEPT !.thread = p.thread]]
  /\ UNCHANGED <<nextCall, life, slot, heap, frees, replies, popped>>

\* stop was answered and kills the poll isolate, which takes effect between two
\* native calls.
Kill(e) ==
  LET p == isolate[<<e, "poll">>] IN
  /\ isolate[<<e, "commands">>].stage = "ended"
  /\ p.stage \in {"polling", "copy", "free", "post"}
  /\ isolate' = [isolate EXCEPT ![<<e, "poll">>] = [Resting("killed") EXCEPT !.call = p.call]]
  /\ UNCHANGED <<nextCall, life, slot, heap, frees, replies, popped, heard>>

-----------------------------------------------------------------------------
(* Specification *)

Init ==
  /\ nextCall = 1
  /\ life = [e \in Endpoints |-> "none"]
  /\ slot = [t \in OsThreads |-> None]
  /\ heap = [n \in Calls |-> None]
  /\ frees = [n \in Calls |-> 0]
  /\ isolate = [i \in Isolates |-> Resting(IF i[2] = "poll" THEN "none" ELSE "idle")]
  /\ replies = {}
  /\ popped = [e \in Endpoints |-> <<>>]
  /\ heard = [e \in Endpoints |-> <<>>]

Next ==
  \/ \E e \in Endpoints, t \in OsThreads :
       \/ \E entry \in Entries : Command(e, t, entry)
       \/ Spawn(e, t)
  \/ \E e \in Endpoints :
       \/ LocalPort(e) \/ LastError(e) \/ Answer(e)
       \/ \E event \in Events : PollEvent(e, event) \/ PollPanics(e, <<event>>)
       \/ PollEnter(e) \/ PollNothing(e) \/ PollPanics(e, <<>>) \/ Post(e) \/ Kill(e)
  \/ \E i \in Isolates : Copy(i) \/ StringFree(i)

Spec == Init /\ [][Next]_vars

-----------------------------------------------------------------------------
(* Properties *)

(* On whatever thread an isolate runs its turn, and whatever an earlier call  *)
(* left in the slot of that thread: a detail explains the call it is given    *)
(* with, and a refused start, connect or openStream has one.                  *)
DetailIsOwn ==
  \A r \in replies :
    /\ r.detail \in {None, r.call}
    /\ r.entry \in Opens \cup {"openStream"} /\ r.status \notin {"ok", "panic"} => r.detail = r.call

(* Whoever copies or frees a native string has one that is still allocated,   *)
(* none is freed twice, and none is forgotten: only the kill of a poll        *)
(* isolate leaves one behind, the one it was holding.                         *)
StringsAreReturned ==
  /\ \A i \in Isolates :
       isolate[i].stage \in {"copy", "free"} => heap[isolate[i].call] # None
  /\ \A n \in Calls : frees[n] <= 1
  /\ \A n \in Calls : heap[n] # None =>
       /\ frees[n] = 0
       /\ \E i \in Isolates :
            isolate[i].call = n /\ isolate[i].stage \in {"copy", "free", "killed"}

\* A Dart event has the class, the ids and the texts of a native one.
DartField(field) ==
  CASE field = "session_id" -> "sessionId"
    [] field = "stream_id" -> "streamId"
    [] field = "utf8" -> "message"
    [] OTHER -> field

Tells(dart, event) ==
  /\ dart.class = (CASE event.variant = "Datagram" -> "DatagramReceived"
                     [] event.variant = "StreamMessage" -> "StreamMessageReceived"
                     [] OTHER -> event.variant)
  /\ \A f \in FieldsOf(event.variant) : dart[DartField(f)] = event[f]

(* Dart hears every event that left the queue, in that order, once, and       *)
(* unchanged by the two encodings; at most the last one is missing, while the *)
(* poll isolate carries it, or because the isolate was killed with it or the  *)
(* native side lost it in a panic, which ends the loop.                       *)
EventsArrive ==
  \A e \in Endpoints :
    /\ \A n \in 1..Len(heard[e]) : Tells(heard[e][n], popped[e][n])
    /\ \/ Len(heard[e]) = Len(popped[e])
       \/ /\ Len(heard[e]) + 1 = Len(popped[e])
          /\ isolate[<<e, "poll">>].stage \in {"copy", "free", "post", "killed", "panicked"}
=============================================================================
