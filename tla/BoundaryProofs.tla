--------------------------- MODULE BoundaryProofs ---------------------------
(***************************************************************************)
(* Proofs about Boundary: what crosses the C ABI arrives whole and belongs *)
(* to the call it is given with, for any number of endpoints, threads and  *)
(* calls and for events with any ids and texts.                            *)
(***************************************************************************)
EXTENDS Boundary, TLAPS

-----------------------------------------------------------------------------
(* The encodings *)

(* No two fields of an event get the same JSON name, and none is called kind.  *)
LEMMA NamesApart ==
  ASSUME NEW v \in Variants, NEW f \in FieldsOf(v), NEW g \in FieldsOf(v)
  PROVE  (WireField(f) = WireField(g) => f = g) /\ WireField(f) # "kind"
<1> DEFINE names == {"session_id", "authority", "path", "reason", "utf8", "stream_id", "message"}
<1>1. f \in names /\ g \in names
  BY DEF Variants, FieldsOf
<1> QED BY <1>1 DEF WireField

(* What serde_json writes for an event: the kind, and its fields under their   *)
(* JSON names.                                                                 *)
LEMMA EncodeIs ==
  ASSUME NEW event \in Events
  PROVE  /\ DOMAIN Encode(event) = {"kind"} \cup {WireField(f) : f \in FieldsOf(event.variant)}
         /\ Encode(event)["kind"] = <<"text", WireKind(event.variant)>>
         /\ \A f \in FieldsOf(event.variant) : Encode(event)[WireField(f)] = event[f]
<1> DEFINE v == event.variant
           F == FieldsOf(v)
           keys == {"kind"} \cup {WireField(f) : f \in F}
           at(key) == CHOOSE f \in F : WireField(f) = key
           json == [key \in keys |->
                      IF key = "kind" THEN <<"text", WireKind(v)>> ELSE event[at(key)]]
<1>1. v \in Variants
  BY EventsAssumption DEF EventsAssumption
<1>2. Encode(event) = json
  BY DEF Encode
<1>3. ASSUME NEW f \in F PROVE WireField(f) # "kind" /\ at(WireField(f)) = f
  BY <1>1, NamesApart
<1> HIDE DEF v, F, at
<1>4. DOMAIN json = keys /\ json["kind"] = <<"text", WireKind(v)>>
  OBVIOUS
<1>5. \A f \in F : json[WireField(f)] = event[f]
  BY <1>3
<1> QED BY <1>2, <1>4, <1>5 DEF v, F

(* QuicEvent.fromJson undoes the native serialisation: whatever the ids and    *)
(* the texts of an event are, the Dart event has them all.                     *)
LEMMA Decoded ==
  ASSUME NEW event \in Events
  PROVE  Tells(fromJson(Encode(event)), event)
<1> DEFINE v == event.variant
           json == Encode(event)
           Holds(key, f, type) ==
             key \in DOMAIN json /\ json[key] = event[f] /\ json[key][1] = type
<1>1. v \in Variants /\ \A f \in FieldsOf(v) : event[f] \in ValuesOf(f)
  BY EventsAssumption DEF EventsAssumption
<1>2. /\ DOMAIN json = {"kind"} \cup {WireField(f) : f \in FieldsOf(v)}
      /\ json["kind"] = <<"text", WireKind(v)>>
      /\ \A f \in FieldsOf(v) : json[WireField(f)] = event[f]
  BY EncodeIs
<1>3. json["kind"][2] = WireKind(v)
  BY <1>2
<1> HIDE DEF json
<1>4. \A f \in FieldsOf(v) :
        Holds(WireField(f), f, IF f \in {"session_id", "stream_id"} THEN "int" ELSE "text")
  BY <1>1, <1>2 DEF ValuesOf
<1>5. CASE v = "SessionOpened"
  <2>1. /\ FieldsOf(v) = {"session_id", "authority", "path"}
        /\ WireKind(v) = "sessionOpened"
    BY <1>5 DEF FieldsOf, WireKind
  <2>2. /\ Holds("sessionId", "session_id", "int")
        /\ Holds("authority", "authority", "text")
        /\ Holds("path", "path", "text")
    BY <1>4, <2>1 DEF WireField
  <2>3. fromJson(json) =
          [class |-> "SessionOpened", sessionId |-> event["session_id"],
           authority |-> event["authority"], path |-> event["path"]]
    BY <1>3, <2>1, <2>2 DEF fromJson
  <2>4. Tells(fromJson(json), event)
    BY <1>5, <2>1, <2>3 DEF Tells, DartField
  <2> QED BY <2>4 DEF json
<1>6. CASE v = "SessionClosed"
  <2>1. /\ FieldsOf(v) = {"session_id", "reason"}
        /\ WireKind(v) = "sessionClosed"
    BY <1>6 DEF FieldsOf, WireKind
  <2>2. /\ Holds("sessionId", "session_id", "int")
        /\ Holds("reason", "reason", "text")
    BY <1>4, <2>1 DEF WireField
  <2>3. fromJson(json) =
          [class |-> "SessionClosed", sessionId |-> event["session_id"],
           reason |-> event["reason"]]
    BY <1>3, <2>1, <2>2 DEF fromJson
  <2>4. Tells(fromJson(json), event)
    BY <1>6, <2>1, <2>3 DEF Tells, DartField
  <2> QED BY <2>4 DEF json
<1>7. CASE v = "Datagram"
  <2>1. /\ FieldsOf(v) = {"session_id", "utf8"}
        /\ WireKind(v) = "datagram"
    BY <1>7 DEF FieldsOf, WireKind
  <2>2. /\ Holds("sessionId", "session_id", "int")
        /\ Holds("utf8", "utf8", "text")
    BY <1>4, <2>1 DEF WireField
  <2>3. fromJson(json) =
          [class |-> "DatagramReceived", sessionId |-> event["session_id"],
           message |-> event["utf8"]]
    BY <1>3, <2>1, <2>2 DEF fromJson
  <2>4. Tells(fromJson(json), event)
    BY <1>7, <2>1, <2>3 DEF Tells, DartField
  <2> QED BY <2>4 DEF json
<1>8. CASE v = "StreamMessage"
  <2>1. /\ FieldsOf(v) = {"session_id", "utf8"}
        /\ WireKind(v) = "streamMessage"
    BY <1>8 DEF FieldsOf, WireKind
  <2>2. /\ Holds("sessionId", "session_id", "int")
        /\ Holds("utf8", "utf8", "text")
    BY <1>4, <2>1 DEF WireField
  <2>3. fromJson(json) =
          [class |-> "StreamMessageReceived", sessionId |-> event["session_id"],
           message |-> event["utf8"]]
    BY <1>3, <2>1, <2>2 DEF fromJson
  <2>4. Tells(fromJson(json), event)
    BY <1>8, <2>1, <2>3 DEF Tells, DartField
  <2> QED BY <2>4 DEF json
<1>9. CASE v = "StreamOpened"
  <2>1. /\ FieldsOf(v) = {"session_id", "stream_id"}
        /\ WireKind(v) = "streamOpened"
    BY <1>9 DEF FieldsOf, WireKind
  <2>2. /\ Holds("sessionId", "session_id", "int")
        /\ Holds("streamId", "stream_id", "int")
    BY <1>4, <2>1 DEF WireField
  <2>3. fromJson(json) =
          [class |-> "StreamOpened", sessionId |-> event["session_id"],
           streamId |-> event["stream_id"]]
    BY <1>3, <2>1, <2>2 DEF fromJson
  <2>4. Tells(fromJson(json), event)
    BY <1>9, <2>1, <2>3 DEF Tells, DartField
  <2> QED BY <2>4 DEF json
<1>10. CASE v = "StreamClosed"
  <2>1. /\ FieldsOf(v) = {"session_id", "stream_id"}
        /\ WireKind(v) = "streamClosed"
    BY <1>10 DEF FieldsOf, WireKind
  <2>2. /\ Holds("sessionId", "session_id", "int")
        /\ Holds("streamId", "stream_id", "int")
    BY <1>4, <2>1 DEF WireField
  <2>3. fromJson(json) =
          [class |-> "StreamClosed", sessionId |-> event["session_id"],
           streamId |-> event["stream_id"]]
    BY <1>3, <2>1, <2>2 DEF fromJson
  <2>4. Tells(fromJson(json), event)
    BY <1>10, <2>1, <2>3 DEF Tells, DartField
  <2> QED BY <2>4 DEF json
<1>11. CASE v = "StreamData"
  <2>1. /\ FieldsOf(v) = {"session_id", "stream_id", "utf8"}
        /\ WireKind(v) = "streamData"
    BY <1>11 DEF FieldsOf, WireKind
  <2>2. /\ Holds("sessionId", "session_id", "int")
        /\ Holds("streamId", "stream_id", "int")
        /\ Holds("utf8", "utf8", "text")
    BY <1>4, <2>1 DEF WireField
  <2>3. fromJson(json) =
          [class |-> "StreamData", sessionId |-> event["session_id"],
           streamId |-> event["stream_id"], message |-> event["utf8"]]
    BY <1>3, <2>1, <2>2 DEF fromJson
  <2>4. Tells(fromJson(json), event)
    BY <1>11, <2>1, <2>3 DEF Tells, DartField
  <2> QED BY <2>4 DEF json
<1>12. CASE v = "EndpointError"
  <2>1. /\ FieldsOf(v) = {"message"}
        /\ WireKind(v) = "endpointError"
    BY <1>12 DEF FieldsOf, WireKind
  <2>2. Holds("message", "message", "text")
    BY <1>4, <2>1 DEF WireField
  <2>3. fromJson(json) =
          [class |-> "EndpointError", message |-> event["message"]]
    BY <1>3, <2>1, <2>2 DEF fromJson
  <2>4. Tells(fromJson(json), event)
    BY <1>12, <2>1, <2>3 DEF Tells, DartField
  <2> QED BY <2>4 DEF json
<1> QED
  BY <1>1, <1>5, <1>6, <1>7, <1>8, <1>9, <1>10, <1>11, <1>12 DEF Variants

-----------------------------------------------------------------------------
(* The inductive invariant *)

\* What a text can be: nothing, the detail of a call, or the JSON of an event.
Texts == Calls \cup {None} \cup {Encode(event) : event \in Events}

Turns ==
  [stage : {"none", "idle", "started", "failed", "copy", "free", "answer", "polling", "inside",
            "post", "ended", "killed", "panicked"},
   thread : OsThreads \cup {None}, call : Calls \cup {None}, entry : Entries \cup {None},
   status : DartStatuses \cup {None}, text : Texts]

TurnType ==
  /\ nextCall \in Nat \ {0}
  /\ slot \in [OsThreads -> Calls \cup {None}]
  /\ heap \in [Calls -> Texts]
  /\ frees \in [Calls -> Nat]
  /\ isolate \in [Isolates -> Turns]
  /\ popped \in [Endpoints -> Seq(Events)]
  /\ heard \in [Endpoints -> Seq({fromJson(Encode(event)) : event \in Events})]

\* No thread runs two turns, no call belongs to two isolates, and no string was
\* freed under the name of a call to come.
Apart ==
  /\ \A i, j \in Isolates :
       isolate[i].thread # None /\ isolate[i].thread = isolate[j].thread => i = j
  /\ \A i, j \in Isolates :
       isolate[i].call # None /\ isolate[i].call = isolate[j].call => i = j
  /\ \A i \in Isolates : isolate[i].call # None => isolate[i].call < nextCall
  /\ \A n \in Calls : n >= nextCall => frees[n] = 0

\* The refusals that always come with a detail.
Explained(w) == w.entry \in Opens \cup {"openStream"} /\ w.status \notin {"ok", "panic"}

\* Between the return of a native call and the reply, the detail of the call is
\* in the slot of the thread, then on the heap, then in the isolate.
CommandTurn(w) ==
  /\ w.stage \in {"idle", "started", "failed", "copy", "free", "answer", "ended"}
  /\ w.stage \notin {"idle", "ended"} => w.thread \in OsThreads /\ w.call \in Calls
  /\ w.stage = "started" => w.status = "ok" /\ w.text = None
  /\ w.stage = "failed" =>
       /\ w.text = None /\ slot[w.thread] \in {None, w.call} /\ frees[w.call] = 0
       /\ Explained(w) => slot[w.thread] = w.call
  /\ w.stage = "copy" => heap[w.call] = w.call
  /\ w.stage = "free" => w.text = w.call
  /\ w.stage = "answer" =>
       /\ w.text \in {None, w.call}
       /\ Explained(w) => w.text = w.call

\* Between the return of a poll and the post, the last event taken from the
\* queue is on the heap, then in the isolate; until then Dart has not heard it.
PollTurn(p, out, in) ==
  /\ p.stage \in {"none", "polling", "inside", "copy", "free", "post", "ended", "killed",
                  "panicked"}
  /\ p.stage \in {"polling", "inside", "copy", "free", "post"} => p.thread \in OsThreads
  /\ p.stage \in {"copy", "free", "post"} => Len(in) + 1 = Len(out) /\ p.call \in Calls
  /\ p.stage = "copy" => heap[p.call] = Encode(out[Len(out)])
  /\ p.stage \in {"free", "post"} => p.text = Encode(out[Len(out)])
  /\ p.stage \in {"none", "polling", "inside", "ended"} => Len(in) = Len(out)
  /\ p.stage \in {"killed", "panicked"} => Len(in) \in {Len(out), Len(out) - 1}
  /\ \A n \in 1..Len(in) : in[n] = fromJson(Encode(out[n]))

BoundaryInv ==
  /\ TurnType
  /\ Apart
  /\ \A e \in Endpoints : CommandTurn(isolate[<<e, "commands">>])
  /\ \A e \in Endpoints : PollTurn(isolate[<<e, "poll">>], popped[e], heard[e])
  /\ StringsAreReturned
  /\ DetailIsOwn

(* An isolate is one of the two of an endpoint, and in one of their stages.    *)
LEMMA WhoseTurn ==
  ASSUME BoundaryInv, NEW i \in Isolates
  PROVE  \E e \in Endpoints :
           \/ i = <<e, "commands">> /\ CommandTurn(isolate[i])
           \/ i = <<e, "poll">> /\ PollTurn(isolate[i], popped[e], heard[e])
BY DEF Isolates, BoundaryInv

(* One isolate takes its turn.  A thread it writes to is its own or free, a    *)
(* string it allocates has a new name: the others' turns are undisturbed.      *)
LEMMA OthersUndisturbed ==
  ASSUME BoundaryInv,
         NEW i \in Isolates, NEW r \in Turns,
         isolate' = [isolate EXCEPT ![i] = r],
         \A t \in OsThreads : slot'[t] = slot[t] \/ t = isolate[i].thread \/ Free(t),
         \A n \in Calls : heap'[n] = heap[n] \/ n = isolate[i].call \/ n = nextCall,
         \A n \in Calls : frees'[n] = frees[n] \/ n = isolate[i].call,
         \A e \in Endpoints :
           <<e, "poll">> # i => popped'[e] = popped[e] /\ heard'[e] = heard[e]
  PROVE  \A e \in Endpoints :
           /\ <<e, "commands">> # i => CommandTurn(isolate[<<e, "commands">>])'
           /\ <<e, "poll">> # i => PollTurn(isolate[<<e, "poll">>], popped[e], heard[e])'
<1>1. ASSUME NEW j \in Isolates, j # i
      PROVE  /\ isolate'[j] = isolate[j]
             /\ isolate[j].thread \in OsThreads =>
                  slot'[isolate[j].thread] = slot[isolate[j].thread]
             /\ isolate[j].call \in Calls =>
                  /\ heap'[isolate[j].call] = heap[isolate[j].call]
                  /\ frees'[isolate[j].call] = frees[isolate[j].call]
  <2>1. isolate'[j] = isolate[j]
    BY <1>1 DEF BoundaryInv, TurnType
  <2>2. ASSUME isolate[j].thread \in OsThreads
        PROVE  slot'[isolate[j].thread] = slot[isolate[j].thread]
    <3>1. isolate[j].thread # None /\ ~Free(isolate[j].thread)
      BY <2>2, BoundaryAssumption DEF BoundaryAssumption, Free
    <3>2. isolate[j].thread # isolate[i].thread
      BY <1>1, <3>1 DEF BoundaryInv, Apart
    <3> QED BY <2>2, <3>1, <3>2
  <2>3. ASSUME isolate[j].call \in Calls
        PROVE  /\ heap'[isolate[j].call] = heap[isolate[j].call]
               /\ frees'[isolate[j].call] = frees[isolate[j].call]
    <3>1. isolate[j].call # None
      BY <2>3, BoundaryAssumption DEF BoundaryAssumption
    <3>2. isolate[j].call # isolate[i].call
      BY <1>1, <3>1 DEF BoundaryInv, Apart
    <3>3. isolate[j].call < nextCall /\ isolate[j].call \in Int /\ nextCall \in Int
      BY <2>3, <3>1, BoundaryAssumption DEF BoundaryAssumption, BoundaryInv, Apart, TurnType, Calls
    <3>4. isolate[j].call # nextCall
      BY <3>3
    <3> QED BY <2>3, <3>2, <3>4
  <2> QED BY <2>1, <2>2, <2>3
<1>2. ASSUME NEW e \in Endpoints, <<e, "commands">> # i
      PROVE  CommandTurn(isolate[<<e, "commands">>])'
  <2> DEFINE j == <<e, "commands">>
             w == isolate[j]
  <2>1. j \in Isolates
    BY DEF Isolates
  <2>2. CommandTurn(w)
    BY DEF BoundaryInv
  <2>3. /\ isolate'[j] = w
        /\ w.thread \in OsThreads => slot'[w.thread] = slot[w.thread]
        /\ w.call \in Calls => heap'[w.call] = heap[w.call] /\ frees'[w.call] = frees[w.call]
    BY <1>1, <1>2, <2>1
  <2> HIDE DEF w
  <2> QED BY <2>2, <2>3 DEF CommandTurn, Explained
<1>3. ASSUME NEW e \in Endpoints, <<e, "poll">> # i
      PROVE  PollTurn(isolate[<<e, "poll">>], popped[e], heard[e])'
  <2> DEFINE j == <<e, "poll">>
             p == isolate[j]
  <2>1. j \in Isolates
    BY DEF Isolates
  <2>2. PollTurn(p, popped[e], heard[e])
    BY DEF BoundaryInv
  <2>3. /\ isolate'[j] = p
        /\ p.call \in Calls => heap'[p.call] = heap[p.call]
        /\ popped'[e] = popped[e] /\ heard'[e] = heard[e]
    BY <1>1, <1>3, <2>1
  <2> HIDE DEF p
  <2> QED BY <2>2, <2>3 DEF PollTurn
<1> QED BY <1>2, <1>3

(* An isolate keeps its thread, gives it up or takes a free one; it keeps its  *)
(* call, gives it up or takes the next one: nothing is shared afterwards.      *)
LEMMA StayApart ==
  ASSUME BoundaryInv,
         NEW i \in Isolates, NEW r \in Turns,
         isolate' = [isolate EXCEPT ![i] = r],
         r.thread \in {None, isolate[i].thread} \/ Free(r.thread),
         \/ r.call \in {None, isolate[i].call} /\ nextCall' \in {nextCall, nextCall + 1}
         \/ r.call = nextCall /\ nextCall' = nextCall + 1,
         \A n \in Calls : frees'[n] = frees[n] \/ n = isolate[i].call
  PROVE  Apart'
<1>1. /\ \A j \in Isolates : isolate'[j] = IF j = i THEN r ELSE isolate[j]
      /\ nextCall \in Int
  BY DEF BoundaryInv, TurnType
<1>2. \A j, k \in Isolates :
        isolate'[j].thread # None /\ isolate'[j].thread = isolate'[k].thread => j = k
  BY <1>1 DEF BoundaryInv, Apart, Free
<1>3. \A j \in Isolates : isolate[j].call # None => isolate[j].call \in Int
  BY BoundaryAssumption DEF BoundaryAssumption, BoundaryInv, TurnType, Turns, Calls
<1>4. \A j \in Isolates : isolate[j].call # None =>
        isolate[j].call < nextCall /\ isolate[j].call # nextCall /\ isolate[j].call < nextCall + 1
  BY <1>1, <1>3 DEF BoundaryInv, Apart
<1>5. \A j, k \in Isolates :
        isolate'[j].call # None /\ isolate'[j].call = isolate'[k].call => j = k
  BY <1>1, <1>4 DEF BoundaryInv, Apart
<1>6. nextCall < nextCall + 1
  BY <1>1
<1>7. \A j \in Isolates : isolate'[j].call # None => isolate'[j].call < nextCall'
  BY <1>1, <1>4, <1>6
<1>8. ASSUME NEW n \in Calls, n >= nextCall' PROVE frees'[n] = 0
  <2>1. n \in Int /\ n >= nextCall
    BY <1>1, <1>8, BoundaryAssumption DEF Calls, BoundaryAssumption
  <2>2. n # isolate[i].call
    <3> SUFFICES ASSUME n = isolate[i].call PROVE FALSE
      OBVIOUS
    <3>1. n < nextCall
      BY <1>4, <1>8, BoundaryAssumption DEF BoundaryAssumption
    <3> QED BY <1>1, <2>1, <3>1
  <2> QED BY <2>1, <2>2 DEF BoundaryInv, Apart
<1> QED BY <1>2, <1>5, <1>7, <1>8 DEF Apart

(* A string stays with the isolate that has it until it is freed: the turn of  *)
(* an isolate that holds none, or that goes on holding its own, loses none; it *)
(* takes from nobody else, and frees no string but the one it holds.           *)
LEMMA StayReturned ==
  ASSUME BoundaryInv,
         NEW i \in Isolates, NEW r \in Turns,
         isolate' = [isolate EXCEPT ![i] = r],
         \A n \in Calls : heap'[n] # None =>
           \/ r.call = n /\ r.stage \in {"copy", "free", "killed"}
           \/ /\ heap[n] # None
              /\ \/ isolate[i].stage \notin {"copy", "free", "killed"}
                 \/ isolate[i].call # n,
         \A n \in Calls : heap'[n] = heap[n] \/ n = isolate[i].call \/ n = nextCall,
         frees' \in [Calls -> Nat],
         \A n \in Calls :
           \/ frees'[n] = frees[n]
           \/ /\ n = isolate[i].call /\ isolate[i].stage = "free" /\ heap'[n] = None
              /\ frees'[n] = frees[n] + 1,
         \A n \in Calls : heap'[n] # None => heap[n] # None \/ frees[n] = 0,
         r.stage \in {"copy", "free"} => heap'[r.call] # None
  PROVE  StringsAreReturned'
<1>1. \A j \in Isolates : isolate'[j] = IF j = i THEN r ELSE isolate[j]
  BY DEF BoundaryInv, TurnType
<1>2. ASSUME NEW n \in Calls, heap'[n] # None
      PROVE  \E j \in Isolates :
               isolate'[j].call = n /\ isolate'[j].stage \in {"copy", "free", "killed"}
  <2>1. CASE r.call = n /\ r.stage \in {"copy", "free", "killed"}
    BY <1>1, <2>1
  <2>2. CASE /\ heap[n] # None
             /\ \/ isolate[i].stage \notin {"copy", "free", "killed"}
                \/ isolate[i].call # n
    <3>1. PICK j \in Isolates :
            isolate[j].call = n /\ isolate[j].stage \in {"copy", "free", "killed"}
      BY <2>2 DEF BoundaryInv, StringsAreReturned
    <3>2. j # i
      BY <2>2, <3>1
    <3> QED BY <1>1, <3>1, <3>2
  <2> QED BY <1>2, <2>1, <2>2
<1>3. ASSUME NEW n \in Calls PROVE frees'[n] <= 1 /\ (heap'[n] # None => frees'[n] = 0)
  <2>1. CASE frees'[n] = frees[n]
    BY <2>1 DEF BoundaryInv, StringsAreReturned
  <2>2. CASE /\ n = isolate[i].call /\ isolate[i].stage = "free" /\ heap'[n] = None
             /\ frees'[n] = frees[n] + 1
    <3>1. frees[n] = 0
      BY <2>2 DEF BoundaryInv, StringsAreReturned
    <3> QED BY <2>2, <3>1
  <2> QED BY <2>1, <2>2
<1>4. ASSUME NEW j \in Isolates, isolate'[j].stage \in {"copy", "free"}
      PROVE  heap'[isolate'[j].call] # None
  <2>1. CASE j = i
    BY <1>1, <2>1, <1>4
  <2>2. CASE j # i
    <3> DEFINE n == isolate[j].call
    <3>1. isolate'[j] = isolate[j] /\ isolate[j].stage \in {"copy", "free"}
      BY <1>1, <1>4, <2>2
    <3>2. n \in Calls
      BY <3>1, WhoseTurn DEF CommandTurn, PollTurn
    <3>3. n # None /\ n \in Int /\ nextCall \in Int
      BY <3>2, BoundaryAssumption DEF BoundaryAssumption, Calls, BoundaryInv, TurnType
    <3>4. n # isolate[i].call /\ n < nextCall
      BY <2>2, <3>3 DEF BoundaryInv, Apart
    <3>5. heap[n] # None
      BY <3>1 DEF BoundaryInv, StringsAreReturned
    <3> HIDE DEF n
    <3>6. heap'[n] = heap[n]
      BY <3>2, <3>3, <3>4
    <3> QED BY <3>1, <3>5, <3>6 DEF n
  <2> QED BY <2>1, <2>2
<1> QED BY <1>2, <1>3, <1>4 DEF StringsAreReturned

(* What is left to show of one turn: its own types, and its own stage.         *)
LEMMA OneTurn ==
  ASSUME BoundaryInv,
         NEW i \in Isolates, NEW r \in Turns,
         isolate' = [isolate EXCEPT ![i] = r],
         r.thread \in {None, isolate[i].thread} \/ Free(r.thread),
         \/ r.call \in {None, isolate[i].call} /\ nextCall' \in {nextCall, nextCall + 1}
         \/ r.call = nextCall /\ nextCall' = nextCall + 1,
         slot' \in [OsThreads -> Calls \cup {None}],
         \A t \in OsThreads : slot'[t] = slot[t] \/ t = isolate[i].thread \/ Free(t),
         heap' \in [Calls -> Texts],
         \A n \in Calls : heap'[n] = heap[n] \/ n = isolate[i].call \/ n = nextCall,
         \A n \in Calls : heap'[n] # None =>
           \/ r.call = n /\ r.stage \in {"copy", "free", "killed"}
           \/ /\ heap[n] # None
              /\ \/ isolate[i].stage \notin {"copy", "free", "killed"}
                 \/ isolate[i].call # n,
         frees' \in [Calls -> Nat],
         \A n \in Calls :
           \/ frees'[n] = frees[n]
           \/ /\ n = isolate[i].call /\ isolate[i].stage = "free" /\ heap'[n] = None
              /\ frees'[n] = frees[n] + 1,
         \A n \in Calls : heap'[n] # None => heap[n] # None \/ frees[n] = 0,
         r.stage \in {"copy", "free"} => heap'[r.call] # None,
         popped' \in [Endpoints -> Seq(Events)],
         heard' \in [Endpoints -> Seq({fromJson(Encode(event)) : event \in Events})],
         \A e \in Endpoints :
           <<e, "poll">> # i => popped'[e] = popped[e] /\ heard'[e] = heard[e],
         \A e \in Endpoints :
           /\ <<e, "commands">> = i => CommandTurn(isolate[<<e, "commands">>])'
           /\ <<e, "poll">> = i => PollTurn(isolate[<<e, "poll">>], popped[e], heard[e])',
         DetailIsOwn'
  PROVE  BoundaryInv'
<1>1. nextCall' \in Nat \ {0} /\ isolate' \in [Isolates -> Turns]
  BY DEF BoundaryInv, TurnType
<1>2. TurnType' /\ \A n \in Calls : frees'[n] = frees[n] \/ n = isolate[i].call
  BY <1>1 DEF TurnType
<1>3. \A e \in Endpoints :
        /\ <<e, "commands">> # i => CommandTurn(isolate[<<e, "commands">>])'
        /\ <<e, "poll">> # i => PollTurn(isolate[<<e, "poll">>], popped[e], heard[e])'
  BY <1>2, OthersUndisturbed
<1>4. Apart'
  BY <1>2, StayApart
<1>5. StringsAreReturned'
  BY StayReturned
<1> QED BY <1>2, <1>3, <1>4, <1>5 DEF BoundaryInv

-----------------------------------------------------------------------------
(* The command isolate *)

(* An outcome without a detail, and one with: what can be told of each.        *)
LEMMA PlainIs ==
  ASSUME NEW S, NEW o \in Plain(S)
  PROVE  o.status \in S /\ o.detail \in BOOLEAN
<1>1. PICK s \in S : o = [status |-> s, detail |-> FALSE]
  BY DEF Plain
<1>2. o.status = s /\ o.detail = FALSE
  BY <1>1
<1> QED BY <1>2

(* An outcome for which set_last_error was called.                             *)
LEMMA DetailedIs ==
  ASSUME NEW S, NEW o \in Detailed(S)
  PROVE  o.status \in S /\ o.detail \in BOOLEAN /\ o.detail
<1>1. PICK s \in S : o = [status |-> s, detail |-> TRUE]
  BY DEF Detailed
<1>2. o.status = s /\ o.detail = TRUE
  BY <1>1
<1> QED BY <1>2

(* The native calls: a refused start, connect or openStream sets a detail      *)
(* unless it panicked, and every status has a name Dart knows.                 *)
LEMMA OutcomesAre ==
  ASSUME NEW entry \in Entries, NEW o \in Outcomes(entry)
  PROVE  /\ o.status \in NativeStatuses /\ o.detail \in BOOLEAN
         /\ entry \in Opens \cup {"openStream"} /\ o.status \notin {"ok", "panic"} => o.detail
<1>1. entry \in {"serverStart", "clientConnect", "openStream", "sessionSend",
                 "streamSend", "streamClose", "serverStop"}
  BY BoundaryAssumption DEF BoundaryAssumption
<1>2. CASE entry = "serverStart"
  <2>1. \/ o \in Plain({"ok"}) \/ o \in Plain({"panic"})
        \/ o \in Detailed({"invalidArgument", "badCertificate", "portInUse", "bindFailed"})
    BY <1>2 DEF Outcomes, ServerStart, guard
  <2> QED BY <2>1, PlainIs, DetailedIs DEF NativeStatuses
<1>3. CASE entry = "clientConnect"
  <2>1. \/ o \in Plain({"ok"}) \/ o \in Plain({"panic"})
        \/ o \in Detailed({"invalidArgument", "badCertificate", "peerGone", "bindFailed"})
    BY <1>3 DEF Outcomes, ClientConnect, guard
  <2> QED BY <2>1, PlainIs, DetailedIs DEF NativeStatuses
<1>4. CASE entry = "openStream"
  <2>1. \/ o \in Plain({"ok"}) \/ o \in Plain({"panic"})
        \/ o \in Detailed({"unknownHandle", "peerGone"})
    BY <1>4 DEF Outcomes, OpenStream, guard
  <2> QED BY <2>1, PlainIs, DetailedIs DEF NativeStatuses
<1>5. CASE entry = "sessionSend"
  <2>1. \/ o \in Plain({"ok", "unknownHandle", "peerGone"}) \/ o \in Plain({"panic"})
        \/ o \in Detailed({"invalidArgument"})
    BY <1>5 DEF Outcomes, SessionSend, guard
  <2> QED BY <1>5, <2>1, PlainIs, DetailedIs DEF NativeStatuses, Opens
<1>6. CASE entry = "streamSend"
  <2>1. \/ o \in Plain({"ok", "unknownHandle", "peerGone"}) \/ o \in Plain({"panic"})
        \/ o \in Detailed({"invalidArgument"})
    BY <1>6 DEF Outcomes, StreamSend, guard
  <2> QED BY <1>6, <2>1, PlainIs, DetailedIs DEF NativeStatuses, Opens
<1>7. CASE entry = "streamClose"
  <2>1. \/ o \in Plain({"ok", "unknownHandle", "peerGone"}) \/ o \in Plain({"panic"})
    BY <1>7 DEF Outcomes, StreamClose, guard
  <2> QED BY <1>7, <2>1, PlainIs DEF NativeStatuses, Opens
<1>8. CASE entry = "serverStop"
  <2>1. \/ o \in Plain({"ok"}) \/ o \in Plain({"panic"})
    BY <1>8 DEF Outcomes, ServerStop, guard
  <2> QED BY <1>8, <2>1, PlainIs DEF NativeStatuses, Opens
<1> QED BY <1>1, <1>2, <1>3, <1>4, <1>5, <1>6, <1>7, <1>8

(* A command returns from its native call, with the detail in the slot.        *)
LEMMA CommandKeeps ==
  ASSUME BoundaryInv, NEW e \in Endpoints, NEW t \in OsThreads, NEW entry \in Entries,
         Command(e, t, entry)
  PROVE  BoundaryInv'
<1> DEFINE i == <<e, "commands">>
<1>1. PICK o \in Outcomes(entry) :
        LET status == statusFromWireName(o.status)
            done == \/ status = "ok" /\ entry # "serverStart"
                    \/ entry = "serverStop"
        IN /\ Enter(t, nextCall, o.detail)
           /\ isolate' = [isolate EXCEPT ![i] =
                [stage |-> IF done THEN "answer" ELSE IF status = "ok" THEN "started" ELSE "failed",
                 thread |-> t, call |-> nextCall, entry |-> entry, status |-> status,
                 text |-> None]]
  BY DEF Command
<1>2. /\ o.status \in NativeStatuses /\ o.detail \in BOOLEAN
      /\ entry \in Opens \cup {"openStream"} /\ o.status \notin {"ok", "panic"} => o.detail
  BY OutcomesAre
<1> DEFINE stage == IF (o.status = "ok" /\ entry # "serverStart") \/ entry = "serverStop"
                    THEN "answer" ELSE IF o.status = "ok" THEN "started" ELSE "failed"
           r == [stage |-> stage, thread |-> t, call |-> nextCall, entry |-> entry,
                 status |-> o.status, text |-> None]
<1>3. isolate' = [isolate EXCEPT ![i] = r] /\ Enter(t, nextCall, o.detail)
  BY <1>1, <1>2 DEF statusFromWireName, DartStatuses
<1>4. /\ isolate[i].stage = "idle" /\ Free(t) /\ nextCall \in Calls
      /\ nextCall' = nextCall + 1 /\ UNCHANGED <<heap, frees, replies, popped, heard>>
  BY DEF Command
<1>5. i \in Isolates /\ stage \in {"answer", "started", "failed"}
  BY DEF Isolates
<1>6. r \in Turns
  BY <1>2, <1>4, <1>5 DEF Turns, Texts, DartStatuses
<1>7. /\ r.thread = t /\ r.call = nextCall /\ r.stage = stage /\ r.text = None
      /\ r.entry = entry /\ r.status = o.status
  OBVIOUS
<1> HIDE DEF r, i
<1>8. slot' = [slot EXCEPT ![t] = IF o.detail THEN nextCall ELSE None]
  BY <1>3 DEF Enter
<1>9. /\ slot' \in [OsThreads -> Calls \cup {None}]
      /\ \A u \in OsThreads : slot'[u] = slot[u] \/ Free(u)
      /\ slot'[t] = IF o.detail THEN nextCall ELSE None
  BY <1>4, <1>8 DEF BoundaryInv, TurnType
<1>10. isolate'[i] = r
  BY <1>3, <1>5 DEF BoundaryInv, TurnType
<1>11. CommandTurn(isolate[i])'
  <2>1. frees'[nextCall] = 0
    BY <1>4, BoundaryAssumption DEF BoundaryInv, TurnType, Apart, Calls, BoundaryAssumption
  <2> QED BY <1>2, <1>4, <1>7, <1>9, <1>10, <2>1 DEF CommandTurn, Explained, Opens
<1>12. \A d \in Endpoints :
         /\ <<d, "commands">> = i => CommandTurn(isolate[<<d, "commands">>])'
         /\ <<d, "poll">> # i
  BY <1>11 DEF i
<1>13. /\ heap' \in [Calls -> Texts] /\ popped' \in [Endpoints -> Seq(Events)]
       /\ heard' \in [Endpoints -> Seq({fromJson(Encode(event)) : event \in Events})]
       /\ frees' \in [Calls -> Nat] /\ DetailIsOwn'
  BY <1>4 DEF BoundaryInv, TurnType, DetailIsOwn
<1> QED BY <1>3, <1>4, <1>5, <1>6, <1>7, <1>9, <1>12, <1>13, OneTurn

(* What a turn that leaves the strings, the queues and the replies alone keeps. *)
LEMMA Untouched ==
  ASSUME BoundaryInv
  PROVE  /\ UNCHANGED heap => heap' \in [Calls -> Texts]
         /\ UNCHANGED frees => frees' \in [Calls -> Nat]
         /\ UNCHANGED slot => slot' \in [OsThreads -> Calls \cup {None}]
         /\ UNCHANGED popped => popped' \in [Endpoints -> Seq(Events)]
         /\ UNCHANGED heard =>
              heard' \in [Endpoints -> Seq({fromJson(Encode(event)) : event \in Events})]
         /\ UNCHANGED replies => DetailIsOwn'
BY DEF BoundaryInv, TurnType, DetailIsOwn

(* The port is asked for after a start: a cleared slot explains nothing.       *)
LEMMA LocalPortKeeps ==
  ASSUME BoundaryInv, NEW e \in Endpoints, LocalPort(e)
  PROVE  BoundaryInv'
<1> DEFINE i == <<e, "commands">>
           w == isolate[i]
           r == [w EXCEPT !.stage = "answer"]
<1>1. i \in Isolates /\ w \in Turns /\ CommandTurn(w)
  BY DEF Isolates, BoundaryInv, TurnType
<1>2. /\ w.stage = "started" /\ slot' = [slot EXCEPT ![w.thread] = None]
      /\ isolate' = [isolate EXCEPT ![i] = r]
      /\ UNCHANGED <<nextCall, heap, frees, replies, popped, heard>>
  BY DEF LocalPort, Enter
<1>3. /\ r \in Turns /\ r.stage = "answer" /\ r.thread = w.thread /\ r.call = w.call
      /\ r.entry = w.entry /\ r.status = w.status /\ r.text = w.text
  BY <1>1 DEF Turns
<1> HIDE DEF r, w, i
<1>4. w.thread \in OsThreads /\ w.call \in Calls /\ w.status = "ok" /\ w.text = None
  BY <1>1, <1>2 DEF CommandTurn
<1>5. /\ slot' \in [OsThreads -> Calls \cup {None}]
      /\ \A t \in OsThreads : slot'[t] = slot[t] \/ t = w.thread
  BY <1>2 DEF BoundaryInv, TurnType
<1>6. isolate'[i] = r
  BY <1>1, <1>2 DEF BoundaryInv, TurnType
<1>7. CommandTurn(isolate[i])'
  BY <1>3, <1>4, <1>6 DEF CommandTurn, Explained
<1>8. \A d \in Endpoints :
        /\ <<d, "commands">> = i => CommandTurn(isolate[<<d, "commands">>])'
        /\ <<d, "poll">> # i
  BY <1>7 DEF i
<1> QED BY <1>1, <1>2, <1>3, <1>5, <1>8, Untouched, OneTurn DEF w

(* The detail moves from the slot of the thread to the heap.                   *)
LEMMA LastErrorKeeps ==
  ASSUME BoundaryInv, NEW e \in Endpoints, LastError(e)
  PROVE  BoundaryInv'
<1> DEFINE i == <<e, "commands">>
           w == isolate[i]
           stage == IF slot[w.thread] = None THEN "answer" ELSE "copy"
           r == [w EXCEPT !.stage = stage]
<1>1. i \in Isolates /\ w \in Turns /\ CommandTurn(w)
  BY DEF Isolates, BoundaryInv, TurnType
<1>2. /\ w.stage = "failed" /\ slot' = [slot EXCEPT ![w.thread] = None]
      /\ heap' = [heap EXCEPT ![w.call] = slot[w.thread]]
      /\ isolate' = [isolate EXCEPT ![i] = r]
      /\ UNCHANGED <<nextCall, frees, replies, popped, heard>>
  BY DEF LastError
<1>3. /\ r \in Turns /\ r.stage = stage /\ r.thread = w.thread /\ r.call = w.call
      /\ r.entry = w.entry /\ r.status = w.status /\ r.text = w.text
  BY <1>1 DEF Turns
<1> HIDE DEF r, w, i
<1>4. /\ w.thread \in OsThreads /\ w.call \in Calls /\ w.text = None
      /\ slot[w.thread] \in {None, w.call} /\ (Explained(w) => slot[w.thread] = w.call)
      /\ w.call # None /\ frees[w.call] = 0
  BY <1>1, <1>2, BoundaryAssumption DEF CommandTurn, BoundaryAssumption
<1>5. /\ slot' \in [OsThreads -> Calls \cup {None}]
      /\ \A t \in OsThreads : slot'[t] = slot[t] \/ t = w.thread
  BY <1>2 DEF BoundaryInv, TurnType
<1>6. /\ isolate'[i] = r /\ heap'[w.call] = slot[w.thread]
      /\ heap' \in [Calls -> Texts]
      /\ \A n \in Calls : heap'[n] = heap[n] \/ n = w.call
  BY <1>1, <1>2, <1>4 DEF BoundaryInv, TurnType, Texts
<1>7. CommandTurn(isolate[i])'
  BY <1>3, <1>4, <1>6 DEF CommandTurn, Explained
<1>8. \A d \in Endpoints :
        /\ <<d, "commands">> = i => CommandTurn(isolate[<<d, "commands">>])'
        /\ <<d, "poll">> # i
  BY <1>7 DEF i
<1>9. \A n \in Calls : heap'[n] # None =>
        \/ r.call = n /\ r.stage \in {"copy", "free", "killed"}
        \/ heap[n] # None /\ w.stage \notin {"copy", "free", "killed"}
  BY <1>2, <1>3, <1>6
<1>10. /\ \A n \in Calls : heap'[n] # None => heap[n] # None \/ frees[n] = 0
       /\ r.stage \in {"copy", "free"} => heap'[r.call] # None
  BY <1>3, <1>4, <1>6
<1> QED BY <1>1, <1>2, <1>3, <1>5, <1>6, <1>8, <1>9, <1>10, Untouched, OneTurn DEF w

(* The reply carries the detail the isolate holds, and that is its own.        *)
LEMMA AnswerKeeps ==
  ASSUME BoundaryInv, NEW e \in Endpoints, Answer(e)
  PROVE  BoundaryInv'
<1> DEFINE i == <<e, "commands">>
           w == isolate[i]
           stage == IF w.entry = "serverStop" \/ (w.entry \in Opens /\ w.status # "ok")
                    THEN "ended" ELSE "idle"
           r == Resting(stage)
           reply == [call |-> w.call, entry |-> w.entry, status |-> w.status, detail |-> w.text]
<1>1. i \in Isolates /\ w \in Turns /\ CommandTurn(w)
  BY DEF Isolates, BoundaryInv, TurnType
<1>2. /\ w.stage = "answer" /\ isolate' = [isolate EXCEPT ![i] = r]
      /\ replies' = replies \cup {reply}
      /\ UNCHANGED <<nextCall, slot, heap, frees, popped, heard>>
  BY DEF Answer
<1>3. r \in Turns /\ r.stage = stage /\ r.thread = None /\ r.call = None
  BY DEF Turns, Resting, Texts
<1>4. /\ reply.detail = w.text /\ reply.call = w.call /\ reply.entry = w.entry
      /\ reply.status = w.status
  OBVIOUS
<1> HIDE DEF r, w, i, reply
<1>5. w.text \in {None, w.call} /\ (Explained(w) => w.text = w.call)
  BY <1>1, <1>2 DEF CommandTurn
<1>6. isolate'[i] = r
  BY <1>1, <1>2 DEF BoundaryInv, TurnType
<1>7. CommandTurn(isolate[i])'
  BY <1>3, <1>6 DEF CommandTurn
<1>8. \A d \in Endpoints :
        /\ <<d, "commands">> = i => CommandTurn(isolate[<<d, "commands">>])'
        /\ <<d, "poll">> # i
  BY <1>7 DEF i
<1>9. DetailIsOwn'
  BY <1>2, <1>4, <1>5 DEF BoundaryInv, DetailIsOwn, Explained
<1> QED BY <1>1, <1>2, <1>3, <1>8, <1>9, Untouched, OneTurn DEF w

-----------------------------------------------------------------------------
(* Strings and the poll isolate *)

(* toDartString: the text leaves the heap for the isolate.                     *)
LEMMA CopyKeeps ==
  ASSUME BoundaryInv, NEW i \in Isolates, Copy(i)
  PROVE  BoundaryInv'
<1> DEFINE w == isolate[i]
           r == [w EXCEPT !.stage = "free", !.text = heap[w.call]]
<1>1. w \in Turns
  BY DEF BoundaryInv, TurnType
<1>2. /\ w.stage = "copy" /\ isolate' = [isolate EXCEPT ![i] = r]
      /\ UNCHANGED <<nextCall, slot, heap, frees, replies, popped, heard>>
  BY DEF Copy
<1>3. PICK e \in Endpoints :
        \/ i = <<e, "commands">> /\ CommandTurn(w)
        \/ i = <<e, "poll">> /\ PollTurn(w, popped[e], heard[e])
  BY WhoseTurn
<1>4. w.call \in Calls
  BY <1>2, <1>3 DEF CommandTurn, PollTurn
<1>5. heap[w.call] \in Texts
  BY <1>4 DEF BoundaryInv, TurnType
<1>6. /\ r \in Turns /\ r.stage = "free" /\ r.thread = w.thread /\ r.call = w.call
      /\ r.entry = w.entry /\ r.status = w.status /\ r.text = heap[w.call]
  BY <1>1, <1>5 DEF Turns
<1> HIDE DEF r, w
<1>7. isolate'[i] = r
  BY <1>2 DEF BoundaryInv, TurnType
<1>8. ASSUME i = <<e, "commands">>, CommandTurn(w) PROVE CommandTurn(isolate[i])'
  BY <1>2, <1>6, <1>7, <1>8 DEF CommandTurn, Explained
<1>9. ASSUME i = <<e, "poll">>, PollTurn(w, popped[e], heard[e])
      PROVE  PollTurn(isolate[i], popped[e], heard[e])'
  BY <1>2, <1>6, <1>7, <1>9 DEF PollTurn
<1>10. \A d \in Endpoints :
         /\ <<d, "commands">> = i => CommandTurn(isolate[<<d, "commands">>])'
         /\ <<d, "poll">> = i => PollTurn(isolate[<<d, "poll">>], popped[d], heard[d])'
  BY <1>3, <1>8, <1>9
<1>11. \A n \in Calls : heap'[n] # None =>
         \/ r.call = n /\ r.stage \in {"copy", "free", "killed"}
         \/ heap[n] # None /\ w.call # n
  BY <1>2, <1>6
<1>12. heap'[r.call] # None
  BY <1>2, <1>6 DEF w, BoundaryInv, StringsAreReturned
<1> QED BY <1>2, <1>6, <1>10, <1>11, <1>12, Untouched, OneTurn DEF w

(* rk_quic_string_free: the string is gone, and only this isolate had it.      *)
LEMMA StringFreeKeeps ==
  ASSUME BoundaryInv, NEW i \in Isolates, StringFree(i)
  PROVE  BoundaryInv'
<1> DEFINE w == isolate[i]
           stage == IF i[2] = "poll" THEN "post" ELSE "answer"
           r == [w EXCEPT !.stage = stage]
<1>1. w \in Turns
  BY DEF BoundaryInv, TurnType
<1>2. /\ w.stage = "free" /\ heap' = [heap EXCEPT ![w.call] = None]
      /\ frees' = [frees EXCEPT ![w.call] = @ + 1]
      /\ isolate' = [isolate EXCEPT ![i] = r]
      /\ UNCHANGED <<nextCall, slot, replies, popped, heard>>
  BY DEF StringFree
<1>3. PICK e \in Endpoints :
        \/ i = <<e, "commands">> /\ CommandTurn(w)
        \/ i = <<e, "poll">> /\ PollTurn(w, popped[e], heard[e])
  BY WhoseTurn
<1>4. /\ r \in Turns /\ r.stage = stage /\ r.thread = w.thread /\ r.call = w.call
      /\ r.entry = w.entry /\ r.status = w.status /\ r.text = w.text
  BY <1>1 DEF Turns
<1>5. /\ i = <<e, "commands">> => stage = "answer"
      /\ i = <<e, "poll">> => stage = "post"
  OBVIOUS
<1> HIDE DEF r, w, stage
<1>6. /\ isolate'[i] = r /\ heap' \in [Calls -> Texts]
      /\ \A n \in Calls : heap'[n] = IF n = w.call THEN None ELSE heap[n]
      /\ frees' \in [Calls -> Nat]
      /\ \A n \in Calls : frees'[n] = IF n = w.call THEN frees[n] + 1 ELSE frees[n]
  <2>1. /\ isolate'[i] = r /\ heap' \in [Calls -> Texts]
        /\ \A n \in Calls : heap'[n] = IF n = w.call THEN None ELSE heap[n]
    BY <1>2 DEF BoundaryInv, TurnType, Texts
  <2>2. frees \in [Calls -> Nat]
    BY DEF BoundaryInv, TurnType
  <2> QED BY <1>2, <2>1, <2>2
<1>7. ASSUME i = <<e, "commands">>, CommandTurn(w) PROVE CommandTurn(isolate[i])'
  BY <1>2, <1>4, <1>5, <1>6, <1>7 DEF CommandTurn, Explained
<1>8. ASSUME i = <<e, "poll">>, PollTurn(w, popped[e], heard[e])
      PROVE  PollTurn(isolate[i], popped[e], heard[e])'
  BY <1>2, <1>4, <1>5, <1>6, <1>8 DEF PollTurn
<1>9. \A d \in Endpoints :
        /\ <<d, "commands">> = i => CommandTurn(isolate[<<d, "commands">>])'
        /\ <<d, "poll">> = i => PollTurn(isolate[<<d, "poll">>], popped[d], heard[d])'
  BY <1>3, <1>7, <1>8
<1>10. r.stage \notin {"copy", "free"}
  BY <1>3, <1>4, <1>5
<1> QED BY <1>2, <1>4, <1>6, <1>9, <1>10, Untouched, OneTurn DEF w

(* The poll isolate starts on a thread nobody runs on.                         *)
LEMMA SpawnKeeps ==
  ASSUME BoundaryInv, NEW e \in Endpoints, NEW t \in OsThreads, Spawn(e, t)
  PROVE  BoundaryInv'
<1> DEFINE i == <<e, "poll">>
           r == [Resting("polling") EXCEPT !.thread = t]
<1>1. i \in Isolates /\ PollTurn(isolate[i], popped[e], heard[e])
  BY DEF Isolates, BoundaryInv
<1>2. /\ isolate[i].stage = "none" /\ Free(t) /\ isolate' = [isolate EXCEPT ![i] = r]
      /\ UNCHANGED <<nextCall, slot, heap, frees, replies, popped, heard>>
  BY DEF Spawn
<1>3. r \in Turns /\ r.stage = "polling" /\ r.thread = t /\ r.call = None
  BY DEF Turns, Resting, Texts
<1> HIDE DEF r, i
<1>4. isolate'[i] = r
  BY <1>1, <1>2 DEF BoundaryInv, TurnType
<1>5. PollTurn(isolate[i], popped[e], heard[e])'
  BY <1>1, <1>2, <1>3, <1>4 DEF PollTurn
<1>6. \A d \in Endpoints :
        /\ <<d, "commands">> # i
        /\ <<d, "poll">> = i => PollTurn(isolate[<<d, "poll">>], popped[d], heard[d])'
  BY <1>5 DEF i
<1> QED BY <1>1, <1>2, <1>3, <1>6, Untouched, OneTurn

(* A poll goes inside or ends the loop, with the slot of its thread cleared.   *)
LEMMA PollEnterKeeps ==
  ASSUME BoundaryInv, NEW e \in Endpoints, PollEnter(e)
  PROVE  BoundaryInv'
<1> DEFINE i == <<e, "poll">>
           p == isolate[i]
           r == IF life[e] = "live" THEN [p EXCEPT !.stage = "inside"] ELSE Resting("ended")
<1>1. i \in Isolates /\ p \in Turns /\ PollTurn(p, popped[e], heard[e])
  BY DEF Isolates, BoundaryInv, TurnType
<1>2. /\ p.stage = "polling" /\ slot' = [slot EXCEPT ![p.thread] = None]
      /\ isolate' = [isolate EXCEPT ![i] = r]
      /\ UNCHANGED <<nextCall, heap, frees, replies, popped, heard>>
  BY DEF PollEnter, Enter
<1>3. /\ r \in Turns /\ r.stage \in {"inside", "ended"} /\ r.thread \in {None, p.thread}
      /\ r.stage = "inside" => r.thread = p.thread
      /\ r.call \in {None, p.call}
  BY <1>1 DEF Turns, Resting, Texts
<1> HIDE DEF r, p, i
<1>4. /\ isolate'[i] = r /\ slot' \in [OsThreads -> Calls \cup {None}]
      /\ \A t \in OsThreads : slot'[t] = slot[t] \/ t = p.thread
  BY <1>1, <1>2 DEF BoundaryInv, TurnType
<1>5. PollTurn(isolate[i], popped[e], heard[e])'
  BY <1>1, <1>2, <1>3, <1>4 DEF PollTurn
<1>6. \A d \in Endpoints :
        /\ <<d, "commands">> # i
        /\ <<d, "poll">> = i => PollTurn(isolate[<<d, "poll">>], popped[d], heard[d])'
  BY <1>5 DEF i
<1> QED BY <1>1, <1>2, <1>3, <1>4, <1>6, Untouched, OneTurn DEF p

(* A poll returns an event: its JSON is on the heap under a new name.          *)
LEMMA PollEventKeeps ==
  ASSUME BoundaryInv, NEW e \in Endpoints, NEW event \in Events, PollEvent(e, event)
  PROVE  BoundaryInv'
<1> DEFINE i == <<e, "poll">>
           p == isolate[i]
           r == [p EXCEPT !.stage = "copy", !.call = nextCall]
           out == popped[e]
           in == heard[e]
<1>1. i \in Isolates /\ p \in Turns /\ PollTurn(p, out, in)
  BY DEF Isolates, BoundaryInv, TurnType
<1>2. /\ p.stage = "inside" /\ nextCall \in Calls
      /\ heap' = [heap EXCEPT ![nextCall] = Encode(event)]
      /\ popped' = [popped EXCEPT ![e] = Append(out, event)]
      /\ isolate' = [isolate EXCEPT ![i] = r]
      /\ nextCall' = nextCall + 1
      /\ UNCHANGED <<slot, frees, replies, heard>>
  BY DEF PollEvent
<1>3. r \in Turns /\ r.stage = "copy" /\ r.thread = p.thread /\ r.call = nextCall
  BY <1>1, <1>2 DEF Turns
<1>4. out \in Seq(Events) /\ popped \in [Endpoints -> Seq(Events)] /\ Len(in) \in Int
  BY DEF BoundaryInv, TurnType
<1> HIDE DEF r, p, i, out, in
<1>5. /\ Append(out, event) \in Seq(Events) /\ Len(Append(out, event)) = Len(out) + 1
      /\ \A n \in 1..Len(out) : Append(out, event)[n] = out[n]
      /\ Append(out, event)[Len(out) + 1] = event /\ Len(out) \in Int
  BY <1>4
<1>6. /\ popped' \in [Endpoints -> Seq(Events)] /\ popped'[e] = Append(out, event)
      /\ \A d \in Endpoints : d # e => popped'[d] = popped[d]
  BY <1>2, <1>4, <1>5
<1>7. /\ isolate'[i] = r /\ heap' \in [Calls -> Texts] /\ heap'[nextCall] = Encode(event)
      /\ \A n \in Calls : heap'[n] = heap[n] \/ n = nextCall
  BY <1>1, <1>2 DEF BoundaryInv, TurnType, Texts
<1>8. Len(in) = Len(out) /\ (\A n \in 1..Len(in) : in[n] = fromJson(Encode(out[n])))
      /\ p.thread \in OsThreads
  BY <1>1, <1>2 DEF PollTurn
<1>9. PollTurn(isolate[i], popped[e], heard[e])'
  <2>1. \A n \in 1..Len(in) : in[n] = fromJson(Encode(Append(out, event)[n]))
    BY <1>5, <1>8
  <2>2. heap'[nextCall] = Encode(Append(out, event)[Len(Append(out, event))])
    BY <1>5, <1>7
  <2>3. heard'[e] = in
    BY <1>2 DEF in
  <2> QED BY <1>2, <1>3, <1>5, <1>6, <1>7, <1>8, <2>1, <2>2, <2>3 DEF PollTurn
<1>10. \A d \in Endpoints :
         /\ <<d, "commands">> # i
         /\ <<d, "poll">> = i => PollTurn(isolate[<<d, "poll">>], popped[d], heard[d])'
         /\ <<d, "poll">> # i => popped'[d] = popped[d] /\ heard'[d] = heard[d]
  BY <1>2, <1>6, <1>9 DEF i
<1>11. \A n \in Calls : heap'[n] # None =>
         \/ r.call = n /\ r.stage \in {"copy", "free", "killed"}
         \/ heap[n] # None /\ p.stage \notin {"copy", "free", "killed"}
  BY <1>2, <1>3, <1>7
<1>12. frees[nextCall] = 0 /\ Encode(event) # None
  BY <1>2, BoundaryAssumption, EventsAssumption
     DEF BoundaryInv, TurnType, Apart, Calls, BoundaryAssumption, EventsAssumption
<1>13. /\ \A n \in Calls : heap'[n] # None => heap[n] # None \/ frees[n] = 0
       /\ heap'[r.call] # None
  BY <1>3, <1>7, <1>12
<1> QED BY <1>1, <1>2, <1>3, <1>6, <1>7, <1>10, <1>11, <1>13, Untouched, OneTurn DEF p

(* A poll returns nothing.                                                     *)
LEMMA PollNothingKeeps ==
  ASSUME BoundaryInv, NEW e \in Endpoints, PollNothing(e)
  PROVE  BoundaryInv'
<1> DEFINE i == <<e, "poll">>
           p == isolate[i]
           r == [p EXCEPT !.stage = "polling"]
<1>1. i \in Isolates /\ p \in Turns /\ PollTurn(p, popped[e], heard[e])
  BY DEF Isolates, BoundaryInv, TurnType
<1>2. /\ p.stage = "inside" /\ isolate' = [isolate EXCEPT ![i] = r]
      /\ UNCHANGED <<nextCall, slot, heap, frees, replies, popped, heard>>
  BY DEF PollNothing
<1>3. r \in Turns /\ r.stage = "polling" /\ r.thread = p.thread /\ r.call = p.call
  BY <1>1 DEF Turns
<1> HIDE DEF r, p, i
<1>4. isolate'[i] = r
  BY <1>1, <1>2 DEF BoundaryInv, TurnType
<1>5. PollTurn(isolate[i], popped[e], heard[e])'
  BY <1>1, <1>2, <1>3, <1>4 DEF PollTurn
<1>6. \A d \in Endpoints :
        /\ <<d, "commands">> # i
        /\ <<d, "poll">> = i => PollTurn(isolate[<<d, "poll">>], popped[d], heard[d])'
  BY <1>5 DEF i
<1> QED BY <1>1, <1>2, <1>3, <1>6, Untouched, OneTurn DEF p

(* A poll panics and the loop ends: an event it had taken is not heard.        *)
LEMMA PollPanicsKeeps ==
  ASSUME BoundaryInv, NEW e \in Endpoints, NEW lost,
         lost = <<>> \/ \E event \in Events : lost = <<event>>,
         PollPanics(e, lost)
  PROVE  BoundaryInv'
<1> DEFINE i == <<e, "poll">>
           p == isolate[i]
           r == Resting("panicked")
           out == popped[e]
           in == heard[e]
<1>1. i \in Isolates /\ p \in Turns /\ PollTurn(p, out, in)
  BY DEF Isolates, BoundaryInv, TurnType
<1>2. /\ p.stage = "inside" /\ nextCall \in Calls
      /\ popped' = [popped EXCEPT ![e] = out \o lost]
      /\ isolate' = [isolate EXCEPT ![i] = r]
      /\ nextCall' = nextCall + 1
      /\ UNCHANGED <<heap, frees, replies, heard>>
  BY DEF PollPanics
<1>3. r \in Turns /\ r.stage = "panicked" /\ r.thread = None /\ r.call = None
  BY DEF Turns, Resting, Texts
<1>4. PICK x \in Calls \cup {None} : slot' = [slot EXCEPT ![p.thread] = x]
  BY <1>2 DEF PollPanics, Enter
<1>5. out \in Seq(Events) /\ popped \in [Endpoints -> Seq(Events)] /\ Len(in) \in Int
  BY DEF BoundaryInv, TurnType
<1> HIDE DEF r, p, i, out, in
<1>6. /\ out \o lost \in Seq(Events) /\ Len(out \o lost) \in {Len(out), Len(out) + 1}
      /\ \A n \in 1..Len(out) : (out \o lost)[n] = out[n]
      /\ Len(out) \in Int
  <2>1. CASE lost = <<>>
    <3>1. out \o lost = out
      BY <1>5, <2>1
    <3> QED BY <1>5, <3>1
  <2>2. ASSUME NEW event \in Events, lost = <<event>>
        PROVE  out \o lost = Append(out, event)
    BY <1>5, <2>2
  <2>3. ASSUME NEW event \in Events
        PROVE  /\ Append(out, event) \in Seq(Events) /\ Len(Append(out, event)) = Len(out) + 1
               /\ \A n \in 1..Len(out) : Append(out, event)[n] = out[n]
               /\ Len(out) \in Int
    BY <1>5
  <2> QED BY <2>1, <2>2, <2>3
<1>7. /\ popped' \in [Endpoints -> Seq(Events)] /\ popped'[e] = out \o lost
      /\ \A d \in Endpoints : d # e => popped'[d] = popped[d]
  BY <1>2, <1>5, <1>6
<1>8. /\ isolate'[i] = r /\ slot' \in [OsThreads -> Calls \cup {None}]
      /\ \A t \in OsThreads : slot'[t] = slot[t] \/ t = p.thread
  BY <1>1, <1>2, <1>4 DEF BoundaryInv, TurnType
<1>9. Len(in) = Len(out) /\ \A n \in 1..Len(in) : in[n] = fromJson(Encode(out[n]))
  BY <1>1, <1>2 DEF PollTurn
<1>10. PollTurn(isolate[i], popped[e], heard[e])'
  <2>1. \A n \in 1..Len(in) : in[n] = fromJson(Encode((out \o lost)[n]))
    BY <1>6, <1>9
  <2>2. Len(in) \in {Len(out \o lost), Len(out \o lost) - 1}
    BY <1>6, <1>9
  <2>3. heard'[e] = in
    BY <1>2 DEF in
  <2> QED BY <1>3, <1>7, <1>8, <2>1, <2>2, <2>3 DEF PollTurn
<1>11. \A d \in Endpoints :
         /\ <<d, "commands">> # i
         /\ <<d, "poll">> = i => PollTurn(isolate[<<d, "poll">>], popped[d], heard[d])'
         /\ <<d, "poll">> # i => popped'[d] = popped[d] /\ heard'[d] = heard[d]
  BY <1>2, <1>7, <1>10 DEF i
<1> QED BY <1>1, <1>2, <1>3, <1>7, <1>8, <1>11, Untouched, OneTurn DEF p

(* The JSON is posted and decoded: Dart has now heard all that was polled.     *)
LEMMA PostKeeps ==
  ASSUME BoundaryInv, NEW e \in Endpoints, Post(e)
  PROVE  BoundaryInv'
<1> DEFINE i == <<e, "poll">>
           p == isolate[i]
           r == [Resting("polling") EXCEPT !.thread = p.thread]
           out == popped[e]
           in == heard[e]
           Told == {fromJson(Encode(event)) : event \in Events}
           last == fromJson(p.text)
<1>1. i \in Isolates /\ p \in Turns /\ PollTurn(p, out, in)
  BY DEF Isolates, BoundaryInv, TurnType
<1>2. /\ p.stage = "post" /\ isolate' = [isolate EXCEPT ![i] = r]
      /\ heard' = [heard EXCEPT ![e] = Append(in, last)]
      /\ UNCHANGED <<nextCall, slot, heap, frees, replies, popped>>
  BY DEF Post
<1>3. r \in Turns /\ r.stage = "polling" /\ r.thread = p.thread /\ r.call = None
  BY <1>1 DEF Turns, Resting, Texts
<1> HIDE DEF Told
<1>4. /\ out \in Seq(Events) /\ in \in Seq(Told) /\ heard \in [Endpoints -> Seq(Told)]
      /\ Len(out) \in Nat /\ Len(in) \in Nat
  <2>1. heard \in [Endpoints -> Seq(Told)] /\ popped \in [Endpoints -> Seq(Events)]
    BY DEF BoundaryInv, TurnType, Told
  <2> QED BY <2>1
<1> HIDE DEF r, p, i, out, in, last
<1>5. /\ Len(in) + 1 = Len(out) /\ p.text = Encode(out[Len(out)]) /\ p.thread \in OsThreads
      /\ \A n \in 1..Len(in) : in[n] = fromJson(Encode(out[n]))
  BY <1>1, <1>2 DEF PollTurn
<1>6. last = fromJson(Encode(out[Len(out)])) /\ out[Len(out)] \in Events
  BY <1>4, <1>5 DEF last
<1>7. last \in Told
  BY <1>6 DEF Told
<1>8. /\ Append(in, last) \in Seq(Told) /\ Len(Append(in, last)) = Len(out)
      /\ \A n \in 1..Len(in) : Append(in, last)[n] = in[n]
      /\ Append(in, last)[Len(out)] = last
  BY <1>4, <1>5, <1>7
<1>9. /\ heard' \in [Endpoints -> Seq(Told)] /\ heard'[e] = Append(in, last)
      /\ \A d \in Endpoints : d # e => heard'[d] = heard[d]
  BY <1>2, <1>4, <1>8
<1>10. \A n \in 1..Len(out) : n \in 1..Len(in) \/ n = Len(out)
  BY <1>4, <1>5
<1>11. \A n \in 1..Len(out) : Append(in, last)[n] = fromJson(Encode(out[n]))
  BY <1>5, <1>6, <1>8, <1>10
<1>12. isolate'[i] = r /\ popped'[e] = out
  BY <1>1, <1>2 DEF BoundaryInv, TurnType, out
<1>13. PollTurn(isolate[i], popped[e], heard[e])'
  BY <1>3, <1>5, <1>8, <1>9, <1>11, <1>12 DEF PollTurn
<1>14. \A d \in Endpoints :
         /\ <<d, "commands">> # i
         /\ <<d, "poll">> = i => PollTurn(isolate[<<d, "poll">>], popped[d], heard[d])'
         /\ <<d, "poll">> # i => popped'[d] = popped[d] /\ heard'[d] = heard[d]
  BY <1>2, <1>9, <1>13 DEF i
<1> QED BY <1>1, <1>2, <1>3, <1>9, <1>14, Untouched, OneTurn DEF p, Told

(* The kill: the isolate keeps the name of the string it was holding.          *)
LEMMA KillKeeps ==
  ASSUME BoundaryInv, NEW e \in Endpoints, Kill(e)
  PROVE  BoundaryInv'
<1> DEFINE i == <<e, "poll">>
           p == isolate[i]
           r == [Resting("killed") EXCEPT !.call = p.call]
<1>1. i \in Isolates /\ p \in Turns /\ PollTurn(p, popped[e], heard[e])
  BY DEF Isolates, BoundaryInv, TurnType
<1>2. /\ p.stage \in {"polling", "copy", "free", "post"}
      /\ isolate' = [isolate EXCEPT ![i] = r]
      /\ UNCHANGED <<nextCall, slot, heap, frees, replies, popped, heard>>
  BY DEF Kill
<1>3. r \in Turns /\ r.stage = "killed" /\ r.thread = None /\ r.call = p.call
  BY <1>1 DEF Turns, Resting, Texts
<1>4. Len(popped[e]) \in Int /\ Len(heard[e]) \in Int
  BY DEF BoundaryInv, TurnType
<1> HIDE DEF r, p, i
<1>5. isolate'[i] = r
  BY <1>1, <1>2 DEF BoundaryInv, TurnType
<1>6. Len(heard[e]) \in {Len(popped[e]), Len(popped[e]) - 1}
  BY <1>1, <1>2, <1>4 DEF PollTurn
<1>7. PollTurn(isolate[i], popped[e], heard[e])'
  BY <1>1, <1>2, <1>3, <1>5, <1>6 DEF PollTurn
<1>8. \A d \in Endpoints :
        /\ <<d, "commands">> # i
        /\ <<d, "poll">> = i => PollTurn(isolate[<<d, "poll">>], popped[d], heard[d])'
  BY <1>7 DEF i
<1>9. \A n \in Calls : heap'[n] # None =>
        \/ r.call = n /\ r.stage \in {"copy", "free", "killed"}
        \/ heap[n] # None /\ p.call # n
  BY <1>2, <1>3
<1> QED BY <1>1, <1>2, <1>3, <1>8, <1>9, Untouched, OneTurn DEF p

-----------------------------------------------------------------------------
(* The theorems *)

(* The initial states satisfy the invariant.                                   *)
LEMMA InitBoundary == Init => BoundaryInv
<1> SUFFICES ASSUME Init PROVE BoundaryInv
  OBVIOUS
<1>1. \A i \in Isolates : i[2] \in {"commands", "poll"}
  BY DEF Isolates
<1>2. \A i \in Isolates :
        /\ isolate[i] \in Turns /\ isolate[i].thread = None /\ isolate[i].call = None
        /\ isolate[i].stage = IF i[2] = "poll" THEN "none" ELSE "idle"
  BY DEF Init, Resting, Turns, Texts
<1>3. TurnType
  BY <1>2 DEF Init, TurnType, Texts, Resting, Turns
<1>4. Apart
  BY <1>2 DEF Apart, Init
<1>5. \A e \in Endpoints : CommandTurn(isolate[<<e, "commands">>])
  BY <1>2 DEF CommandTurn, Isolates
<1>6. ASSUME NEW e \in Endpoints PROVE PollTurn(isolate[<<e, "poll">>], popped[e], heard[e])
  <2>1. isolate[<<e, "poll">>].stage = "none"
    BY <1>2 DEF Isolates
  <2>2. popped[e] = <<>> /\ heard[e] = <<>>
    BY DEF Init
  <2>3. Len(heard[e]) = Len(popped[e]) /\ 1..Len(heard[e]) = {}
    BY <2>2
  <2> QED BY <2>1, <2>3 DEF PollTurn
<1>7. StringsAreReturned /\ DetailIsOwn
  BY <1>1, <1>2 DEF Init, StringsAreReturned, DetailIsOwn
<1> QED BY <1>3, <1>4, <1>5, <1>6, <1>7 DEF BoundaryInv

(* Every step preserves the invariant.                                         *)
LEMMA NextBoundary == BoundaryInv /\ [Next]_vars => BoundaryInv'
<1> SUFFICES ASSUME BoundaryInv, [Next]_vars PROVE BoundaryInv'
  OBVIOUS
<1>1. CASE UNCHANGED vars
  BY <1>1 DEF vars, BoundaryInv, TurnType, Apart, CommandTurn, PollTurn, StringsAreReturned,
              DetailIsOwn
<1>2. CASE Next
  BY <1>2, CommandKeeps, SpawnKeeps, LocalPortKeeps, LastErrorKeeps, AnswerKeeps,
     PollEventKeeps, PollPanicsKeeps, PollEnterKeeps, PollNothingKeeps, PostKeeps, KillKeeps, CopyKeeps,
     StringFreeKeeps DEF Next
<1> QED BY <1>1, <1>2

(* The invariant holds in every reachable state.                               *)
LEMMA BoundaryHolds == Spec => []BoundaryInv
BY InitBoundary, NextBoundary, PTL DEF Spec

(* Whatever threads the isolates run on and whatever other calls left in the   *)
(* threads' LAST_ERROR slots, an answer has the detail of its own call, and a  *)
(* refused start, connect or openStream has one.                               *)
THEOREM ErrorsAreExplained == Spec => []DetailIsOwn
<1>1. BoundaryInv => DetailIsOwn
  BY DEF BoundaryInv
<1> QED BY BoundaryHolds, <1>1, PTL

(* Every string the native side allocated is held by an isolate that will free *)
(* it, or by a poll isolate that was killed with it; none is freed twice, and  *)
(* none is read or freed when it is gone.                                      *)
THEOREM StringsAreFreedOnce == Spec => []StringsAreReturned
<1>1. BoundaryInv => StringsAreReturned
  BY DEF BoundaryInv
<1> QED BY BoundaryHolds, <1>1, PTL

(* Dart hears the events of the queue in order, once each and with every id    *)
(* and text they had, however many there are; the kill of the poll isolate, or *)
(* a panic in its native call, costs at most the last of them.                 *)
THEOREM EventsCrossUnchanged == Spec => []EventsArrive
<1>1. BoundaryInv => EventsArrive
  <2> SUFFICES ASSUME BoundaryInv, NEW e \in Endpoints
               PROVE  /\ \A n \in 1..Len(heard[e]) : Tells(heard[e][n], popped[e][n])
                      /\ \/ Len(heard[e]) = Len(popped[e])
                         \/ /\ Len(heard[e]) + 1 = Len(popped[e])
                            /\ isolate[<<e, "poll">>].stage \in {"copy", "free", "post", "killed", "panicked"}
    BY DEF EventsArrive
  <2> DEFINE out == popped[e]
             in == heard[e]
  <2>1. PollTurn(isolate[<<e, "poll">>], out, in) /\ out \in Seq(Events)
    BY DEF BoundaryInv, TurnType
  <2>2. Len(out) \in Nat /\ Len(in) \in Nat
    BY DEF BoundaryInv, TurnType
  <2> HIDE DEF out, in
  <2>3. \/ Len(in) = Len(out)
        \/ /\ Len(in) + 1 = Len(out)
           /\ isolate[<<e, "poll">>].stage \in {"copy", "free", "post", "killed", "panicked"}
    BY <2>1, <2>2 DEF PollTurn
  <2>4. ASSUME NEW n \in 1..Len(in) PROVE Tells(in[n], out[n])
    <3>1. n \in 1..Len(out)
      BY <2>2, <2>3
    <3>2. out[n] \in Events
      BY <2>1, <3>1
    <3>3. in[n] = fromJson(Encode(out[n]))
      BY <2>1 DEF PollTurn
    <3> QED BY <3>2, <3>3, Decoded
  <2> QED BY <2>3, <2>4 DEF out, in
<1> QED BY BoundaryHolds, <1>1, PTL
=============================================================================
