--------------------------- MODULE IsolatesProofs ---------------------------
(***************************************************************************)
(* The Dart half of an endpoint, for every number of calls, every setup    *)
(* and every number of events: each future completes with its own native   *)
(* answer, calls are carried out in the order they were made and none      *)
(* after stop, dispose orphans nothing, the application hears every event  *)
(* in order, and start says what is wrong.                                 *)
(***************************************************************************)
EXTENDS Isolates, WellFoundedInduction, TLAPS

-----------------------------------------------------------------------------
(* The inductive invariant of the command channel *)

ChannelType ==
  /\ nextId \in Nat
  /\ pending \subseteq Nat \X Calls
  /\ inbox \in Seq(Nat \X Calls)
  /\ replies \in Seq(Nat \X Answers)
  /\ answer \in [Calls -> Answers \cup {None}]
  /\ native \in [Calls -> Answers \cup {None}]

\* Ids below Carried were carried out, and ids below Oldest were answered too.
Carried == nextId - Len(inbox)
Oldest  == Carried - Len(replies)

(* The two ports between them hold one message for every completer, in the   *)
(* order of their ids: replies first, then envelopes.                        *)
Chain ==
  /\ Oldest >= 0
  /\ \A i \in 1..Len(replies) : replies[i][1] = Oldest + i - 1
  /\ \A i \in 1..Len(inbox) : inbox[i] \in pending /\ inbox[i][1] = Carried + i - 1
  /\ \A p \in pending : p[1] >= Oldest /\ p[1] < nextId
  /\ \A k \in Nat : k >= Oldest /\ k < nextId => \E p \in pending : p[1] = k
  /\ \A p, q \in pending : p[1] = q[1] \/ p[2] = q[2] => p = q

(* A completer's call is answered by nobody yet, and was carried out exactly *)
(* if its envelope is gone; then the reply under its id says so.             *)
Replies ==
  /\ \A p \in pending : answer[p[2]] = None /\ (native[p[2]] = None <=> p[1] >= Carried)
  /\ \A p \in pending, i \in 1..Len(replies) :
       p[1] = replies[i][1] => replies[i][2] = native[p[2]]
  /\ \A c \in Calls : native[c] # None => Made(c)
  /\ worker \in Calls => inbox # <<>> /\ worker = inbox[1][2]

(* A call without a native answer was turned away: after stop, or as a start *)
(* that found no library.                                                    *)
TurnedAway ==
  \A c \in Calls : answer[c] # None /\ answer[c] # native[c] =>
    /\ native[c] = None
    /\ IF c = StartCall THEN answer[c] = "unsupported" /\ ~isUsable(probeNativeLibrary(library))
                        ELSE stopped

(* A stop is the last call that is posted.                                   *)
StopIsLast ==
  /\ ~stopped => \A c \in Stops : ~Made(c)
  /\ stopped => \A p \in pending : p[2] \in Stops <=> p[1] = nextId - 1
  /\ \A c \in Stops : native[c] # None => inbox = <<>>

(* How far the object has got.                                               *)
Stages ==
  /\ object \in {"starting", "failed"} =>
       ~stopped /\ \A c \in Calls : Made(c) => c = StartCall
  /\ object \in {"open", "disposed"} => answer[StartCall] = "ok"
  /\ object = "disposed" => stopped

(* What the handle of the endpoint stands for.                               *)
HandleState ==
  endpoint = IF \E c \in Stops : native[c] # None THEN "stopped"
             ELSE IF native[StartCall] = "ok" THEN "live" ELSE "none"

StartAnswer ==
  native[StartCall] # None =>
    native[StartCall] = IF openBindings(library) THEN Opened ELSE "unsupported"

Scalars ==
  /\ <<library, config>> \in Setups
  /\ object \in {"starting", "open", "failed", "disposed"}
  /\ stopped \in BOOLEAN
  /\ worker \in Calls \cup {None, "killed"}

ObjectInv ==
  TurnedAway /\ StopIsLast /\ Stages /\ HandleState /\ StartAnswer /\ Scalars
ChannelInv == ChannelType /\ Chain /\ Replies /\ ObjectInv

(* The events: all those posted were heard or wait in the port, in order.    *)
Posted == IF poller = "holding" THEN {polled - 1}
          ELSE IF poller = "ended" THEN {polled - 1, polled} ELSE {polled}
EventInv ==
  /\ poller \in {"none", "between", "inside", "holding", "ended"}
  /\ polled \in 0..MaxEvents /\ listener \in {"none", "some", "left"}
  /\ port \in Seq(Nat) /\ heard \in Seq(Nat)
  /\ \A i \in 1..Len(heard) : heard[i] = i
  /\ poller = "holding" => polled > 0
  /\ object = "starting" => poller = "none"
  /\ \E n \in Posted \cap Nat :
       /\ Len(heard) + Len(port) <= n
       /\ listener # "left" => Len(heard) + Len(port) = n
       /\ \A i \in 1..Len(port) : port[i] = n - Len(port) + i
-----------------------------------------------------------------------------
(* What start and connect come to *)

(* A non-empty set of numbers has a least one, and Min finds it.             *)
LEMMA LeastExists ==
  ASSUME NEW S, S \subseteq Nat, S # {}
  PROVE  Min(S) \in S /\ \A y \in S : Min(S) <= y
<1> DEFINE less == {p \in Nat \X Nat : p[1] < p[2]}
<1>1. PICK x \in S : \A y \in S : <<y, x>> \notin OpToRel(<, Nat)
  BY WFMin, NatLessThanWellFounded
<1>2. OpToRel(<, Nat) = less
  BY DEF OpToRel
<1>3. \A y \in S : x <= y
  <2> SUFFICES ASSUME NEW y \in S, y < x PROVE FALSE
    OBVIOUS
  <2>1. <<y, x>> \in Nat \X Nat /\ <<y, x>>[1] < <<y, x>>[2]
    OBVIOUS
  <2>2. <<y, x>> \in less
    BY <2>1
  <2> QED BY <1>1, <1>2, <2>2
<1> QED BY <1>3 DEF Min

(* FirstOf is the first check that fails, or ok.                             *)
LEMMA FirstOfIs ==
  ASSUME NEW s \in Seq(Answers)
  PROVE  /\ FirstOf(s) \in Answers
         /\ \/ FirstOf(s) = "ok" /\ \A i \in 1..Len(s) : s[i] = "ok"
            \/ \E i \in 1..Len(s) : /\ s[i] # "ok" /\ FirstOf(s) = s[i]
                                    /\ \A j \in 1..Len(s) : j < i => s[j] = "ok"
<1> DEFINE failing == {i \in DOMAIN s : s[i] # "ok"}
<1>1. DOMAIN s = 1..Len(s) /\ Len(s) \in Nat /\ \A i \in 1..Len(s) : s[i] \in Answers
  OBVIOUS
<1>2. CASE failing = {}
  <2>1. FirstOf(s) = "ok" /\ \A i \in 1..Len(s) : s[i] = "ok"
    BY <1>1, <1>2 DEF FirstOf
  <2> QED BY <2>1 DEF Answers
<1>3. CASE failing # {}
  <2>0. failing \subseteq Nat
    BY <1>1
  <2>1. Min(failing) \in failing /\ \A y \in failing : Min(failing) <= y
    <3> HIDE DEF failing
    <3> QED BY <1>3, <2>0, LeastExists
  <2>2. PICK i \in 1..Len(s) : i = Min(failing)
    BY <1>1, <2>1
  <2>3. s[i] # "ok" /\ FirstOf(s) = s[i]
    BY <1>3, <2>1, <2>2 DEF FirstOf
  <2>4. ASSUME NEW j \in 1..Len(s), j < i PROVE s[j] = "ok"
    <3>1. j \notin failing
      <4> HIDE DEF failing
      <4> QED BY <2>1, <2>2, <2>4
    <3> QED BY <1>1, <3>1
  <2> QED BY <1>1, <2>3, <2>4
<1> QED BY <1>2, <1>3

(* Of checks made one list after another, the second list counts only if the *)
(* first passes.                                                             *)
LEMMA FirstOfThen ==
  ASSUME NEW s \in Seq(Answers), NEW t \in Seq(Answers)
  PROVE  /\ s \o t \in Seq(Answers)
         /\ FirstOf(s \o t) = IF FirstOf(s) = "ok" THEN FirstOf(t) ELSE FirstOf(s)
<1> DEFINE st == s \o t
<1>1. /\ st \in Seq(Answers) /\ Len(st) = Len(s) + Len(t) /\ Len(s) \in Nat /\ Len(t) \in Nat
      /\ \A i \in 1..Len(s) : st[i] = s[i]
      /\ \A i \in 1..Len(t) : st[Len(s) + i] = t[i]
  OBVIOUS
<1> HIDE DEF st
<1>2. ASSUME FirstOf(s) = "ok" PROVE FirstOf(st) = FirstOf(t)
  <2>1. \A i \in 1..Len(s) : st[i] = "ok"
    BY <1>1, <1>2, FirstOfIs
  <2>2. ASSUME NEW i \in 1..Len(st), st[i] # "ok"
        PROVE  i - Len(s) \in 1..Len(t) /\ st[i] = t[i - Len(s)]
    <3>1. i - Len(s) \in 1..Len(t) /\ Len(s) + (i - Len(s)) = i
      BY <1>1, <2>1, <2>2
    <3> QED BY <1>1, <3>1
  <2>3. CASE FirstOf(t) = "ok"
    <3>1. \A i \in 1..Len(t) : t[i] = "ok"
      BY <2>3, FirstOfIs
    <3>2. \A i \in 1..Len(st) : st[i] = "ok"
      BY <2>2, <3>1
    <3> QED BY <1>1, <2>3, <3>2, FirstOfIs
  <2>4. CASE FirstOf(t) # "ok"
    <3>1. PICK j \in 1..Len(t) : /\ t[j] # "ok" /\ FirstOf(t) = t[j]
                                /\ \A k \in 1..Len(t) : k < j => t[k] = "ok"
      BY <2>4, FirstOfIs
    <3>2. Len(s) + j \in 1..Len(st) /\ st[Len(s) + j] = t[j]
      BY <1>1
    <3>3. PICK i \in 1..Len(st) : /\ st[i] # "ok" /\ FirstOf(st) = st[i]
                                 /\ \A k \in 1..Len(st) : k < i => st[k] = "ok"
      BY <1>1, <3>1, <3>2, FirstOfIs
    <3>4. i - Len(s) \in 1..Len(t) /\ st[i] = t[i - Len(s)]
      BY <2>2, <3>3
    <3>5. ~(i - Len(s) < j)
      BY <3>1, <3>3, <3>4
    <3>6. ~(Len(s) + j < i)
      BY <3>1, <3>2, <3>3
    <3>7. i - Len(s) = j
      <4>1. i \in Int /\ j \in Int /\ Len(s) \in Int
        BY <1>1
      <4> QED BY <3>5, <3>6, <4>1
    <3> QED BY <3>1, <3>3, <3>4, <3>7
  <2> QED BY <2>3, <2>4
<1>3. ASSUME FirstOf(s) # "ok" PROVE FirstOf(st) = FirstOf(s)
  <2>1. PICK j \in 1..Len(s) : /\ s[j] # "ok" /\ FirstOf(s) = s[j]
                              /\ \A k \in 1..Len(s) : k < j => s[k] = "ok"
    BY <1>3, FirstOfIs
  <2>2. j \in 1..Len(st) /\ st[j] = s[j]
    BY <1>1
  <2>3. PICK i \in 1..Len(st) : /\ st[i] # "ok" /\ FirstOf(st) = st[i]
                               /\ \A k \in 1..Len(st) : k < i => st[k] = "ok"
    BY <1>1, <2>1, <2>2, FirstOfIs
  <2>4. ~(j < i)
    BY <2>1, <2>2, <2>3
  <2>5. i \in 1..Len(s) /\ st[i] = s[i]
    BY <1>1, <2>4
  <2>6. ~(i < j)
    BY <2>1, <2>3, <2>5
  <2>7. i = j
    BY <2>4, <2>6
  <2> QED BY <2>1, <2>2, <2>3, <2>7
<1>4. FirstOf(st) = IF FirstOf(s) = "ok" THEN FirstOf(t) ELSE FirstOf(s)
  BY <1>2, <1>3
<1> QED BY <1>1, <1>4 DEF st

(* One, two, three and seven checks in a row.                                *)
LEMMA OneCheck ==
  ASSUME NEW a \in Answers
  PROVE  <<a>> \in Seq(Answers) /\ FirstOf(<<a>>) = a
<1> DEFINE s == <<a>>
<1>1. s \in Seq(Answers) /\ Len(s) = 1 /\ s[1] = a
  OBVIOUS
<1> HIDE DEF s
<1>2. FirstOf(s) = a
  BY <1>1, FirstOfIs
<1> QED BY <1>1, <1>2 DEF s

(* Of two checks.                                                            *)
LEMMA TwoChecks ==
  ASSUME NEW a \in Answers, NEW b \in Answers
  PROVE  <<a, b>> \in Seq(Answers) /\ FirstOf(<<a, b>>) = IF a # "ok" THEN a ELSE b
<1> DEFINE s == <<a, b>>
<1>1. s \in Seq(Answers) /\ Len(s) = 2 /\ s[1] = a /\ s[2] = b
  OBVIOUS
<1> HIDE DEF s
<1>2. FirstOf(s) = IF a # "ok" THEN a ELSE b
  BY <1>1, FirstOfIs
<1> QED BY <1>1, <1>2 DEF s

(* Of three checks.                                                          *)
LEMMA ThreeChecks ==
  ASSUME NEW a \in Answers, NEW b \in Answers, NEW d \in Answers
  PROVE  /\ <<a, b, d>> \in Seq(Answers)
         /\ FirstOf(<<a, b, d>>) = IF a # "ok" THEN a ELSE IF b # "ok" THEN b ELSE d
<1> DEFINE s == <<a, b, d>>
<1>1. s \in Seq(Answers) /\ Len(s) = 3 /\ s[1] = a /\ s[2] = b /\ s[3] = d
  OBVIOUS
<1> HIDE DEF s
<1>2. FirstOf(s) = IF a # "ok" THEN a ELSE IF b # "ok" THEN b ELSE d
  <2>1. CASE FirstOf(s) = "ok" /\ \A i \in 1..3 : s[i] = "ok"
    BY <1>1, <2>1
  <2>2. ASSUME NEW i \in 1..3, s[i] # "ok", FirstOf(s) = s[i],
               \A j \in 1..3 : j < i => s[j] = "ok"
        PROVE  FirstOf(s) = IF a # "ok" THEN a ELSE IF b # "ok" THEN b ELSE d
    <3>1. i = 1 \/ i = 2 \/ i = 3
      OBVIOUS
    <3> QED BY <1>1, <2>2, <3>1
  <2> QED BY <1>1, <2>1, <2>2, FirstOfIs
<1> QED BY <1>1, <1>2 DEF s

(* Of seven checks.                                                          *)
LEMMA SevenChecks ==
  ASSUME NEW a \in Answers, NEW b \in Answers, NEW d \in Answers, NEW e \in Answers,
         NEW f \in Answers, NEW g \in Answers, NEW h \in Answers
  PROVE  /\ <<a, b, d, e, f, g, h>> \in Seq(Answers)
         /\ FirstOf(<<a, b, d, e, f, g, h>>) =
              IF a # "ok" THEN a ELSE IF b # "ok" THEN b ELSE IF d # "ok" THEN d
              ELSE IF e # "ok" THEN e ELSE IF f # "ok" THEN f ELSE IF g # "ok" THEN g ELSE h
<1> DEFINE s == <<a, b, d, e, f, g, h>>
<1>1. /\ s \in Seq(Answers) /\ Len(s) = 7
      /\ s[1] = a /\ s[2] = b /\ s[3] = d /\ s[4] = e /\ s[5] = f /\ s[6] = g /\ s[7] = h
  OBVIOUS
<1> HIDE DEF s
<1>2. FirstOf(s) =
        IF a # "ok" THEN a ELSE IF b # "ok" THEN b ELSE IF d # "ok" THEN d
        ELSE IF e # "ok" THEN e ELSE IF f # "ok" THEN f ELSE IF g # "ok" THEN g ELSE h
  <2>1. CASE FirstOf(s) = "ok" /\ \A i \in 1..7 : s[i] = "ok"
    BY <1>1, <2>1
  <2>2. ASSUME NEW i \in 1..7, s[i] # "ok", FirstOf(s) = s[i],
               \A j \in 1..7 : j < i => s[j] = "ok"
        PROVE  FirstOf(s) =
                 IF a # "ok" THEN a ELSE IF b # "ok" THEN b ELSE IF d # "ok" THEN d
                 ELSE IF e # "ok" THEN e ELSE IF f # "ok" THEN f ELSE IF g # "ok" THEN g ELSE h
    <3>1. i = 1 \/ i = 2 \/ i = 3 \/ i = 4 \/ i = 5 \/ i = 6 \/ i = 7
      OBVIOUS
    <3> QED BY <1>1, <2>2, <3>1
  <2> QED BY <1>1, <2>1, <2>2, FirstOfIs
<1> QED BY <1>1, <1>2 DEF s

(* rk_quic_server_start, from its inputs: ServerConfig::parse and the steps  *)
(* of transport::start, in their order.                                      *)
LEMMA ServerStartIs ==
  ASSUME NEW c \in Servers(Int)
  PROVE  rk_quic_server_start(c) =
           IF \/ inMilliseconds(c.idle) < 0 \/ ~c.bindAddress \/ ~c.path
              \/ inMilliseconds(c.idle) < 1000
           THEN "invalidArgument"
           ELSE IF c.chain # "good" \/ c.key \notin {"good", "unusable"} THEN "badCertificate"
           ELSE IF c.key = "unusable" THEN "panic"
           ELSE IF inMilliseconds(c.idle) > MaxIdle THEN "invalidArgument"
           ELSE IF c.host = "portTaken" THEN "portInUse"
           ELSE IF c.host # "good" THEN "bindFailed" ELSE "ok"
<1> DEFINE idle == inMilliseconds(c.idle)
           host == << When(c.host = "noRuntime", "bindFailed"),
                      When(c.host \in {"portTaken", "cannotBind"}, bind_status(c.host)),
                      When(c.host = "noAddress", "bindFailed") >>
<1>1. /\ c.bindAddress \in BOOLEAN /\ c.path \in BOOLEAN
      /\ c.chain \in {"good", "unreadable", "empty", "unusable"}
      /\ c.key \in {"good", "unreadable", "none", "notPkcs8", "unusable"}
      /\ c.host \in {"good", "noRuntime", "portTaken", "cannotBind", "noAddress"}
  BY DEF Servers
<1>2. {"invalidArgument", "badCertificate", "bindFailed", "portInUse", "panic", "ok"}
        \subseteq Answers
  BY DEF Answers
<1>3. Shape(c) \in Seq(Answers) /\ FirstOf(Shape(c)) = When(idle < 0, "invalidArgument")
  BY <1>2, OneCheck DEF Shape, When
<1>4. /\ IdleRange(c) \in Seq(Answers)
      /\ FirstOf(IdleRange(c)) = When(idle > MaxIdle, "invalidArgument")
  BY <1>2, OneCheck DEF IdleRange, When
<1>5. /\ parse(c) \in Seq(Answers)
      /\ FirstOf(parse(c)) =
           IF ~c.bindAddress \/ ~c.path \/ idle < 1000 THEN "invalidArgument"
           ELSE IF c.chain \in {"unreadable", "empty"} \/ c.key \in {"unreadable", "none"}
           THEN "badCertificate" ELSE "ok"
  <2>1. /\ When(~c.bindAddress, "invalidArgument") \in Answers
        /\ When(~c.path, "invalidArgument") \in Answers
        /\ When(idle < 1000, "invalidArgument") \in Answers
        /\ When(c.chain = "unreadable", "badCertificate") \in Answers
        /\ When(c.chain = "empty", "badCertificate") \in Answers
        /\ When(c.key = "unreadable", "badCertificate") \in Answers
        /\ When(c.key = "none", "badCertificate") \in Answers
    BY <1>2 DEF When
  <2> HIDE DEF idle
  <2> QED BY <2>1, SevenChecks DEF parse, When, idle
<1>6. /\ identity_from(c) \in Seq(Answers)
      /\ FirstOf(identity_from(c)) =
           When(c.chain = "unusable" \/ c.key = "notPkcs8", "badCertificate")
  BY <1>2, TwoChecks DEF identity_from, When
<1>7. /\ with_identity(c) \in Seq(Answers)
       /\ FirstOf(with_identity(c)) = When(c.key = "unusable", "panic")
  BY <1>2, OneCheck DEF with_identity, When
<1>8. /\ host \in Seq(Answers)
      /\ FirstOf(host) = IF c.host = "portTaken" THEN "portInUse"
                         ELSE IF c.host # "good" THEN "bindFailed" ELSE "ok"
  BY <1>1, <1>2, ThreeChecks DEF When, bind_status
<1> HIDE DEF host
<1>9. start(c) = ((identity_from(c) \o with_identity(c)) \o IdleRange(c)) \o host
  BY DEF start, host
<1>10. /\ start(c) \in Seq(Answers)
      /\ FirstOf(start(c)) =
           IF c.chain = "unusable" \/ c.key = "notPkcs8" THEN "badCertificate"
           ELSE IF c.key = "unusable" THEN "panic"
           ELSE IF idle > MaxIdle THEN "invalidArgument"
           ELSE IF c.host = "portTaken" THEN "portInUse"
           ELSE IF c.host # "good" THEN "bindFailed" ELSE "ok"
  <2>1. /\ identity_from(c) \o with_identity(c) \in Seq(Answers)
        /\ FirstOf(identity_from(c) \o with_identity(c)) =
             IF c.chain = "unusable" \/ c.key = "notPkcs8" THEN "badCertificate"
             ELSE When(c.key = "unusable", "panic")
    BY <1>6, <1>7, FirstOfThen DEF When
  <2>2. /\ (identity_from(c) \o with_identity(c)) \o IdleRange(c) \in Seq(Answers)
        /\ FirstOf((identity_from(c) \o with_identity(c)) \o IdleRange(c)) =
             IF c.chain = "unusable" \/ c.key = "notPkcs8" THEN "badCertificate"
             ELSE IF c.key = "unusable" THEN "panic"
             ELSE IF idle > MaxIdle THEN "invalidArgument" ELSE "ok"
    BY <1>4, <2>1, FirstOfThen DEF When
  <2> QED BY <1>8, <1>9, <2>2, FirstOfThen
<1>11. /\ Shape(c) \o parse(c) \in Seq(Answers)
       /\ FirstOf(Shape(c) \o parse(c)) =
            IF idle < 0 \/ ~c.bindAddress \/ ~c.path \/ idle < 1000 THEN "invalidArgument"
            ELSE IF c.chain \in {"unreadable", "empty"} \/ c.key \in {"unreadable", "none"}
            THEN "badCertificate" ELSE "ok"
  BY <1>3, <1>5, FirstOfThen DEF When
<1>12. rk_quic_server_start(c) =
         IF FirstOf(Shape(c) \o parse(c)) = "ok" THEN FirstOf(start(c))
                                                ELSE FirstOf(Shape(c) \o parse(c))
  <2>1. start(c) \in Seq(Answers) /\ Shape(c) \o parse(c) \in Seq(Answers)
    BY <1>10, <1>11
  <2> QED BY <2>1, FirstOfThen DEF rk_quic_server_start
<1> HIDE DEF idle
<1> QED BY <1>1, <1>10, <1>11, <1>12 DEF idle

(* rk_quic_client_connect, from its inputs: ClientConfig::parse and the      *)
(* steps of transport::connect, in their order.                              *)
LEMMA ClientConnectIs ==
  ASSUME NEW c \in Clients(Int)
  PROVE  rk_quic_client_connect(c) =
           IF inMilliseconds(c.idle) < 0 \/ ~c.url THEN "invalidArgument"
           ELSE IF c.hash = "cut" THEN "panic"
           ELSE IF \/ c.hash = "other" \/ inMilliseconds(c.idle) = 0
                   \/ inMilliseconds(c.idle) > MaxIdle
           THEN "invalidArgument"
           ELSE IF c.host # "good" THEN "bindFailed"
           ELSE IF c.peer \in {"certificate", "tls", "handshake"} THEN "badCertificate"
           ELSE IF c.peer = "otherwise" THEN "peerGone" ELSE "ok"
<1> DEFINE idle == inMilliseconds(c.idle)
           net == << When(c.host = "noRuntime", "bindFailed"),
                     When(c.host = "cannotBind", "bindFailed"),
                     When(c.peer # "good", connect_status(c.peer)) >>
<1>1. /\ c.url \in BOOLEAN /\ c.hash \in {"hex", "signed", "cut", "other"}
      /\ c.host \in {"good", "noRuntime", "cannotBind"}
      /\ c.peer \in {"good", "certificate", "tls", "handshake", "otherwise"}
  BY DEF Clients
<1>2. {"invalidArgument", "badCertificate", "bindFailed", "peerGone", "panic", "ok"}
        \subseteq Answers
  BY DEF Answers
<1>3. Shape(c) \in Seq(Answers) /\ FirstOf(Shape(c)) = When(idle < 0, "invalidArgument")
  BY <1>2, OneCheck DEF Shape, When
<1>4. /\ IdleRange(c) \in Seq(Answers)
      /\ FirstOf(IdleRange(c)) = When(idle > MaxIdle, "invalidArgument")
  BY <1>2, OneCheck DEF IdleRange, When
<1>5. /\ clientParse(c) \in Seq(Answers)
      /\ FirstOf(clientParse(c)) =
           IF ~c.url THEN "invalidArgument"
           ELSE IF c.hash = "cut" THEN "panic"
           ELSE When(c.hash = "other" \/ idle = 0, "invalidArgument")
  <2>1. /\ When(~c.url, "invalidArgument") \in Answers
        /\ parse_hash(c) \in Answers
        /\ parse_hash(c) = IF c.hash = "cut" THEN "panic" ELSE When(c.hash = "other", "invalidArgument")
        /\ When(idle = 0, "invalidArgument") \in Answers
    BY <1>1, <1>2 DEF When, parse_hash
  <2> HIDE DEF idle
  <2> QED BY <2>1, ThreeChecks DEF clientParse, When, idle
<1>6. /\ net \in Seq(Answers)
      /\ FirstOf(net) = IF c.host # "good" THEN "bindFailed"
                        ELSE IF c.peer \in {"certificate", "tls", "handshake"} THEN "badCertificate"
                        ELSE IF c.peer = "otherwise" THEN "peerGone" ELSE "ok"
  <2>1. /\ When(c.host = "noRuntime", "bindFailed") \in Answers
        /\ When(c.host = "cannotBind", "bindFailed") \in Answers
        /\ When(c.peer # "good", connect_status(c.peer)) \in Answers
    BY <1>2 DEF When, connect_status
  <2> QED BY <1>1, <2>1, ThreeChecks DEF When, connect_status
<1> HIDE DEF net
<1>7. connect(c) = IdleRange(c) \o net
  BY DEF connect, net
<1>8. /\ Shape(c) \o clientParse(c) \in Seq(Answers)
      /\ FirstOf(Shape(c) \o clientParse(c)) =
           IF idle < 0 \/ ~c.url THEN "invalidArgument"
           ELSE IF c.hash = "cut" THEN "panic"
           ELSE When(c.hash = "other" \/ idle = 0, "invalidArgument")
  BY <1>3, <1>5, FirstOfThen DEF When
<1>9. /\ connect(c) \in Seq(Answers)
      /\ FirstOf(connect(c)) = IF idle > MaxIdle THEN "invalidArgument" ELSE FirstOf(net)
  BY <1>4, <1>6, <1>7, FirstOfThen DEF When
<1>10. rk_quic_client_connect(c) =
         IF FirstOf(Shape(c) \o clientParse(c)) = "ok" THEN FirstOf(connect(c))
                                                      ELSE FirstOf(Shape(c) \o clientParse(c))
  BY <1>8, <1>9, FirstOfThen DEF rk_quic_client_connect
<1> HIDE DEF idle
<1> QED BY <1>1, <1>6, <1>8, <1>9, <1>10 DEF idle, When
-----------------------------------------------------------------------------
(* The command channel *)

(* CommandChannel.send adds a completer and an envelope with the next id at  *)
(* the end of the chain.                                                     *)
LEMMA PostKeeps ==
  ASSUME ChannelType, Chain, Replies, NEW c \in Calls, ~Made(c), Post(c),
         UNCHANGED <<answer, native, worker>>
  PROVE  /\ ChannelType' /\ Chain' /\ Replies'
         /\ \A d \in Calls : Made(d)' <=> Made(d) \/ d = c
<1> DEFINE new == <<nextId, c>>
<1>1. /\ nextId' = nextId + 1 /\ pending' = pending \cup {new} /\ inbox' = Append(inbox, new)
      /\ replies' = replies /\ answer' = answer /\ native' = native /\ worker' = worker
  BY DEF Post
<1>2. new \in Nat \X Calls /\ new[1] = nextId /\ new[2] = c
  BY DEF ChannelType
<1>3. /\ nextId \in Nat /\ pending \subseteq Nat \X Calls
      /\ Len(inbox) \in Nat /\ Len(replies) \in Nat
  BY DEF ChannelType
<1>4. /\ inbox' \in Seq(Nat \X Calls) /\ Len(inbox') = Len(inbox) + 1
      /\ \A i \in 1..Len(inbox) : inbox'[i] = inbox[i]
      /\ inbox'[Len(inbox) + 1] = new
  BY <1>1, <1>2 DEF ChannelType
<1> HIDE DEF new
<1>5. ChannelType'
  BY <1>1, <1>2, <1>3, <1>4 DEF ChannelType
<1>6. Carried' = Carried /\ Oldest' = Oldest
  BY <1>1, <1>3, <1>4 DEF Carried, Oldest
<1>7. Carried \in Int /\ Oldest \in Int /\ nextId = Carried + Len(inbox) /\ Oldest <= Carried
  BY <1>3 DEF Carried, Oldest
<1>8. \A p \in pending : p[2] # c /\ p[1] < nextId /\ p[1] # nextId
  BY <1>3 DEF Made, Chain
<1>9. \A d \in Calls : Made(d)' <=> Made(d) \/ d = c
  BY <1>1, <1>2 DEF Made
<1>10. Chain'
  <2>1. Oldest' >= 0
    BY <1>6 DEF Chain
  <2>2. \A i \in 1..Len(replies') : replies'[i][1] = Oldest' + i - 1
    BY <1>1, <1>6 DEF Chain
  <2>3. ASSUME NEW i \in 1..Len(inbox')
        PROVE  inbox'[i] \in pending' /\ inbox'[i][1] = Carried' + i - 1
    <3>1. CASE i \in 1..Len(inbox)
      BY <1>1, <1>4, <1>6, <3>1 DEF Chain
    <3>2. CASE i = Len(inbox) + 1
      BY <1>1, <1>2, <1>3, <1>4, <1>6, <1>7, <3>2
    <3> QED BY <1>3, <1>4, <3>1, <3>2
  <2>4. \A p \in pending' : p[1] >= Oldest' /\ p[1] < nextId'
    BY <1>1, <1>2, <1>3, <1>6, <1>7 DEF Chain
  <2>5. ASSUME NEW k \in Nat, k >= Oldest', k < nextId' PROVE \E p \in pending' : p[1] = k
    BY <1>1, <1>2, <1>3, <1>6, <2>5 DEF Chain
  <2>6. \A p, q \in pending' : p[1] = q[1] \/ p[2] = q[2] => p = q
    BY <1>1, <1>2, <1>8 DEF Chain
  <2> QED BY <2>1, <2>2, <2>3, <2>4, <2>5, <2>6 DEF Chain
<1>11. Replies'
  <2>1. ASSUME NEW p \in pending'
        PROVE  answer'[p[2]] = None /\ (native'[p[2]] = None <=> p[1] >= Carried')
    <3>1. CASE p \in pending
      BY <1>1, <1>6, <3>1 DEF Replies
    <3>2. CASE p = new
      <4>1. answer[c] = None /\ native[c] = None
        BY DEF Made, Replies
      <4> QED BY <1>1, <1>2, <1>3, <1>6, <1>7, <3>2, <4>1
    <3> QED BY <1>1, <3>1, <3>2
  <2>2. ASSUME NEW p \in pending', NEW i \in 1..Len(replies'), p[1] = replies'[i][1]
        PROVE  replies'[i][2] = native'[p[2]]
    <3>1. replies[i][1] = Oldest + i - 1 /\ i <= Len(replies) /\ i \in Int
      BY <1>1, <1>3 DEF Chain
    <3>2. Oldest + Len(replies) = Carried
      BY <1>3 DEF Oldest, Carried
    <3>3. replies[i][1] # nextId
      BY <1>3, <1>7, <3>1, <3>2
    <3>4. p \in pending
      BY <1>1, <1>2, <2>2, <3>3
    <3> QED BY <1>1, <2>2, <3>4 DEF Replies
  <2>3. \A d \in Calls : native'[d] # None => Made(d)'
    BY <1>1, <1>9 DEF Replies
  <2>4. worker' \in Calls => inbox' # <<>> /\ worker' = inbox'[1][2]
    <3> SUFFICES ASSUME worker \in Calls PROVE inbox' # <<>> /\ worker = inbox'[1][2]
      BY <1>1
    <3>1. inbox # <<>> /\ worker = inbox[1][2]
      BY DEF Replies
    <3>2. Len(inbox) # 0
      BY <3>1 DEF ChannelType
    <3> QED BY <1>3, <1>4, <3>1, <3>2
  <2> QED BY <2>1, <2>2, <2>3, <2>4 DEF Replies
<1> QED BY <1>5, <1>9, <1>10, <1>11

(* The command isolate moves the head of the inbox to the end of the         *)
(* replies, with the status of its own call.                                 *)
LEMMA DoneKeeps ==
  ASSUME ChannelType, Chain, Replies, IsolatesAssumption, worker \in Calls,
         NEW status \in Answers, Done(status)
  PROVE  /\ ChannelType' /\ Chain' /\ Replies'
         /\ <<Carried, worker>> \in pending /\ native[worker] = None
         /\ Carried' = Carried + 1
         /\ native' = [native EXCEPT ![worker] = status]
         /\ nextId' = nextId /\ pending' = pending /\ answer' = answer
         /\ Len(inbox') = Len(inbox) - 1
<1> DEFINE reply == <<Head(inbox)[1], status>>
<1>1. /\ nextId' = nextId /\ pending' = pending /\ answer' = answer /\ worker' = None
      /\ native' = [native EXCEPT ![worker] = status]
      /\ replies' = Append(replies, reply) /\ inbox' = Tail(inbox)
  BY DEF Done
<1>2. /\ nextId \in Nat /\ pending \subseteq Nat \X Calls
      /\ Len(inbox) \in Nat /\ Len(replies) \in Nat
      /\ native \in [Calls -> Answers \cup {None}]
  BY DEF ChannelType
<1>3. inbox # <<>> /\ worker = inbox[1][2]
  BY DEF Replies
<1>4. Len(inbox) > 0 /\ 1 \in 1..Len(inbox) /\ Head(inbox) = inbox[1] /\ inbox[1] \in Nat \X Calls
  BY <1>3 DEF ChannelType
<1>5. inbox[1] \in pending /\ inbox[1][1] = Carried
  <2>1. inbox[1] \in pending /\ inbox[1][1] = Carried + 1 - 1
    BY <1>4 DEF Chain
  <2> QED BY <1>2, <2>1 DEF Carried
<1>6. <<Carried, worker>> = inbox[1]
  BY <1>3, <1>4, <1>5
<1>7. native[worker] = None /\ answer[worker] = None
  BY <1>2, <1>3, <1>5 DEF Replies, Carried
<1>8. reply \in Nat \X Answers /\ reply[1] = Carried /\ reply[2] = status
  BY <1>4, <1>5
<1>9. /\ inbox' \in Seq(Nat \X Calls) /\ Len(inbox') = Len(inbox) - 1
      /\ \A i \in 1..Len(inbox') : inbox'[i] = inbox[i + 1] /\ i + 1 \in 1..Len(inbox)
  BY <1>1, <1>3, <1>4 DEF ChannelType
<1> HIDE DEF reply
<1>10. /\ replies' \in Seq(Nat \X Answers) /\ Len(replies') = Len(replies) + 1
       /\ \A i \in 1..Len(replies) : replies'[i] = replies[i]
       /\ replies'[Len(replies) + 1] = reply
  BY <1>1, <1>8 DEF ChannelType
<1>11. Carried' = Carried + 1 /\ Oldest' = Oldest
  BY <1>1, <1>2, <1>9, <1>10 DEF Carried, Oldest
<1>12. /\ Carried \in Int /\ Oldest \in Int /\ Oldest + Len(replies) = Carried
       /\ Carried + Len(inbox) = nextId
  BY <1>2 DEF Carried, Oldest
<1>13. ChannelType'
  BY <1>1, <1>2, <1>9, <1>10 DEF ChannelType
<1>14. \A c \in Calls : native'[c] = IF c = worker THEN status ELSE native[c]
  BY <1>1, <1>2
<1>15. status # None /\ None \notin Calls
  BY DEF IsolatesAssumption
<1>16. Chain'
  <2>1. Oldest' >= 0
    BY <1>11 DEF Chain
  <2>2. ASSUME NEW i \in 1..Len(replies') PROVE replies'[i][1] = Oldest' + i - 1
    <3>1. CASE i \in 1..Len(replies)
      BY <1>10, <1>11, <3>1 DEF Chain
    <3>2. CASE i = Len(replies) + 1
      BY <1>2, <1>8, <1>10, <1>11, <1>12, <3>2
    <3> QED BY <1>2, <1>10, <3>1, <3>2
  <2>3. ASSUME NEW i \in 1..Len(inbox')
        PROVE  inbox'[i] \in pending' /\ inbox'[i][1] = Carried' + i - 1
    <3>1. inbox[i + 1] \in pending /\ inbox[i + 1][1] = Carried + (i + 1) - 1
      BY <1>9 DEF Chain
    <3> QED BY <1>1, <1>2, <1>9, <1>11, <1>12, <3>1
  <2>4. \A p \in pending' : p[1] >= Oldest' /\ p[1] < nextId'
    BY <1>1, <1>11 DEF Chain
  <2>5. \A k \in Nat : k >= Oldest' /\ k < nextId' => \E p \in pending' : p[1] = k
    BY <1>1, <1>11 DEF Chain
  <2>6. \A p, q \in pending' : p[1] = q[1] \/ p[2] = q[2] => p = q
    BY <1>1 DEF Chain
  <2> QED BY <2>1, <2>2, <2>3, <2>4, <2>5, <2>6 DEF Chain
<1>17. Replies'
  <2>1. ASSUME NEW p \in pending'
        PROVE  answer'[p[2]] = None /\ (native'[p[2]] = None <=> p[1] >= Carried')
    <3>1. p \in pending /\ p[1] \in Nat /\ p[2] \in Calls
      BY <1>1, <1>2
    <3>2. answer[p[2]] = None /\ (native[p[2]] = None <=> p[1] >= Carried)
      BY <3>1 DEF Replies
    <3>3. p[2] = worker <=> p[1] = Carried
      BY <1>3, <1>5, <3>1 DEF Chain
    <3>4. native'[p[2]] = None <=> p[1] >= Carried /\ p[1] # Carried
      BY <1>14, <1>15, <3>1, <3>2, <3>3
    <3>5. p[1] >= Carried' <=> p[1] >= Carried /\ p[1] # Carried
      BY <1>11, <1>12, <3>1
    <3> QED BY <1>1, <3>2, <3>4, <3>5
  <2>2. ASSUME NEW p \in pending', NEW i \in 1..Len(replies'), p[1] = replies'[i][1]
        PROVE  replies'[i][2] = native'[p[2]]
    <3>1. p \in pending /\ p[1] \in Nat /\ p[2] \in Calls
      BY <1>1, <1>2
    <3>2. CASE i \in 1..Len(replies)
      <4>1. replies[i][1] = Oldest + i - 1 /\ i <= Len(replies) /\ i \in Int
        BY <1>2, <3>2 DEF Chain
      <4>2. p[1] # Carried
        <5>1. p[1] = Oldest + i - 1
          BY <1>10, <2>2, <3>2, <4>1
        <5> QED BY <1>2, <1>12, <4>1, <5>1
      <4>3. p[2] # worker
        BY <1>3, <1>5, <3>1, <4>2 DEF Chain
      <4>4. replies[i][2] = native[p[2]]
        BY <1>10, <2>2, <3>1, <3>2 DEF Replies
      <4> QED BY <1>10, <1>14, <3>1, <3>2, <4>3, <4>4
    <3>3. CASE i = Len(replies) + 1
      <4>1. p[1] = Carried
        BY <1>8, <1>10, <2>2, <3>3
      <4>2. p[2] = worker
        BY <1>3, <1>5, <3>1, <4>1 DEF Chain
      <4> QED BY <1>8, <1>10, <1>14, <3>1, <3>3, <4>2
    <3> QED BY <1>2, <1>10, <3>2, <3>3
  <2>3. ASSUME NEW c \in Calls, native'[c] # None PROVE Made(c)'
    <3>1. CASE c = worker
      BY <1>1, <1>3, <1>5, <3>1 DEF Made
    <3>2. CASE c # worker
      <4>1. Made(c)
        BY <1>14, <2>3, <3>2 DEF Replies
      <4> QED BY <1>1, <4>1 DEF Made
    <3> QED BY <3>1, <3>2
  <2>4. worker' \notin Calls
    BY <1>1, <1>15
  <2> QED BY <2>1, <2>2, <2>3, <2>4 DEF Replies
<1> QED BY <1>1, <1>5, <1>6, <1>7, <1>9, <1>11, <1>13, <1>16, <1>17

(* The listener of the reply port: the reply at the head answers the oldest  *)
(* completer, and no other.                                                  *)
LEMMA DeliverKeeps ==
  ASSUME ChannelType, Chain, Replies, IsolatesAssumption, Deliver
  PROVE  /\ ChannelType' /\ Chain' /\ Replies'
         /\ \E p \in pending :
              /\ p \in Nat \X Calls /\ p[1] = Oldest /\ native[p[2]] # None
              /\ answer' = [answer EXCEPT ![p[2]] = native[p[2]]]
              /\ pending' = pending \ {p}
         /\ \A d \in Calls : Made(d)' <=> Made(d)
<1>1. /\ nextId \in Nat /\ pending \subseteq Nat \X Calls
      /\ Len(inbox) \in Nat /\ Len(replies) \in Nat /\ replies # <<>>
      /\ answer \in [Calls -> Answers \cup {None}]
      /\ native \in [Calls -> Answers \cup {None}]
  BY DEF ChannelType, Deliver
<1>2. /\ Len(replies) > 0 /\ 1 \in 1..Len(replies) /\ Head(replies) = replies[1]
      /\ replies[1] \in Nat \X Answers
  BY <1>1 DEF ChannelType
<1>3. /\ Carried \in Int /\ Oldest \in Int /\ Oldest + Len(replies) = Carried
      /\ Carried + Len(inbox) = nextId /\ Oldest >= 0
  BY <1>1 DEF Carried, Oldest, Chain
<1>4. replies[1][1] = Oldest
  <2>1. replies[1][1] = Oldest + 1 - 1
    BY <1>2 DEF Chain
  <2> QED BY <1>3, <2>1
<1>5. PICK p \in pending : p[1] = Oldest
  <2>1. Oldest \in Nat /\ Oldest < nextId
    BY <1>1, <1>2, <1>3
  <2> QED BY <1>3, <2>1 DEF Chain
<1>6. p \in Nat \X Calls /\ p[2] \in Calls
  BY <1>1
<1>7. replies[1][2] = native[p[2]]
  BY <1>2, <1>4, <1>5 DEF Replies
<1>8. native[p[2]] # None
  <2>1. ~(p[1] >= Carried)
    BY <1>1, <1>2, <1>3, <1>5
  <2> QED BY <2>1 DEF Replies
<1>9. {q \in pending : q[1] = replies[1][1]} = {p}
  BY <1>4, <1>5 DEF Chain
<1>10. /\ answer' = [c \in Calls |-> IF c = p[2] THEN native[p[2]] ELSE answer[c]]
       /\ pending' = pending \ {p}
       /\ replies' = Tail(replies) /\ nextId' = nextId /\ inbox' = inbox /\ worker' = worker
       /\ native' = native
  BY <1>2, <1>7, <1>9 DEF Deliver
<1>11. answer' = [answer EXCEPT ![p[2]] = native[p[2]]]
  BY <1>1, <1>10
<1>12. /\ replies' \in Seq(Nat \X Answers) /\ Len(replies') = Len(replies) - 1
       /\ \A i \in 1..Len(replies') : replies'[i] = replies[i + 1] /\ i + 1 \in 1..Len(replies)
  BY <1>1, <1>2, <1>10 DEF ChannelType
<1>13. Carried' = Carried /\ Oldest' = Oldest + 1
  BY <1>1, <1>10, <1>12 DEF Carried, Oldest
<1>14. \A c \in Calls : answer'[c] = IF c = p[2] THEN native[p[2]] ELSE answer[c]
  BY <1>10
<1>15. answer' \in [Calls -> Answers \cup {None}]
  BY <1>1, <1>6, <1>10
<1>16. ChannelType'
  BY <1>1, <1>10, <1>12, <1>15 DEF ChannelType
<1>17. Chain'
  <2>1. Oldest' >= 0
    BY <1>3, <1>13
  <2>2. ASSUME NEW i \in 1..Len(replies') PROVE replies'[i][1] = Oldest' + i - 1
    <3>1. replies'[i] = replies[i + 1] /\ replies[i + 1][1] = Oldest + (i + 1) - 1
      BY <1>12 DEF Chain
    <3>2. i \in Int
      BY <1>1, <1>12
    <3> QED BY <1>3, <1>13, <3>1, <3>2
  <2>3. ASSUME NEW i \in 1..Len(inbox')
        PROVE  inbox'[i] \in pending' /\ inbox'[i][1] = Carried' + i - 1
    <3>1. inbox[i] \in pending /\ inbox[i][1] = Carried + i - 1
      BY <1>10 DEF Chain
    <3>2. i \in Int /\ i >= 1
      BY <1>1, <1>10
    <3>3. inbox[i][1] # Oldest
      BY <1>1, <1>2, <1>3, <3>1, <3>2
    <3>4. inbox[i] # p
      BY <1>5, <3>3
    <3> QED BY <1>10, <1>13, <3>1, <3>4
  <2>4. ASSUME NEW q \in pending' PROVE q[1] >= Oldest' /\ q[1] < nextId'
    <3>1. q \in pending /\ q # p /\ q[1] \in Nat /\ q[1] >= Oldest /\ q[1] < nextId
      BY <1>1, <1>10 DEF Chain
    <3>2. q[1] # Oldest
      BY <1>5, <3>1 DEF Chain
    <3> QED BY <1>3, <1>10, <1>13, <3>1, <3>2
  <2>5. ASSUME NEW k \in Nat, k >= Oldest', k < nextId' PROVE \E q \in pending' : q[1] = k
    <3>1. k >= Oldest /\ k < nextId /\ k # Oldest
      BY <1>3, <1>10, <1>13, <2>5
    <3>2. PICK q \in pending : q[1] = k
      BY <3>1 DEF Chain
    <3> QED BY <1>5, <1>10, <3>1, <3>2
  <2>6. \A q, r \in pending' : q[1] = r[1] \/ q[2] = r[2] => q = r
    BY <1>10 DEF Chain
  <2> QED BY <2>1, <2>2, <2>3, <2>4, <2>5, <2>6 DEF Chain
<1>18. \A d \in Calls : Made(d)' <=> Made(d)
  <2>1. ASSUME NEW d 
        PROVE  (\E q \in pending' : q[2] = d) <=> (\E q \in pending : q[2] = d) /\ d # p[2]
    BY <1>10 DEF Chain
  <2>2. ASSUME NEW d \in Calls PROVE answer'[d] # None <=> answer[d] # None \/ d = p[2]
    BY <1>8, <1>14
  <2> QED BY <2>1, <2>2, <1>5 DEF Made
<1>19. Replies'
  <2>1. ASSUME NEW q \in pending'
        PROVE  answer'[q[2]] = None /\ (native'[q[2]] = None <=> q[1] >= Carried')
    <3>1. q \in pending /\ q # p /\ q[2] \in Calls /\ q[2] # p[2]
      BY <1>1, <1>10 DEF Chain
    <3> QED BY <1>10, <1>13, <1>14, <3>1 DEF Replies
  <2>2. ASSUME NEW q \in pending', NEW i \in 1..Len(replies'), q[1] = replies'[i][1]
        PROVE  replies'[i][2] = native'[q[2]]
    <3>1. q \in pending
      BY <1>10
    <3> QED BY <1>10, <1>12, <2>2, <3>1 DEF Replies
  <2>3. \A c \in Calls : native'[c] # None => Made(c)'
    BY <1>10, <1>18 DEF Replies
  <2>4. worker' \in Calls => inbox' # <<>> /\ worker' = inbox'[1][2]
    BY <1>10 DEF Replies
  <2> QED BY <2>1, <2>2, <2>3, <2>4 DEF Replies
<1> QED BY <1>5, <1>6, <1>8, <1>10, <1>11, <1>16, <1>17, <1>18, <1>19

(* A call that is turned away is answered without leaving the isolate.       *)
LEMMA TurnAwayKeeps ==
  ASSUME ChannelType, Chain, Replies, IsolatesAssumption, NEW c \in Calls, ~Made(c),
         NEW status \in Answers, answer' = [answer EXCEPT ![c] = status],
         UNCHANGED <<channel, native, worker>>
  PROVE  /\ ChannelType' /\ Chain' /\ Replies'
         /\ \A d \in Calls : Made(d)' <=> Made(d) \/ d = c
         /\ \A d \in Calls : answer'[d] = IF d = c THEN status ELSE answer[d]
         /\ native[c] = None
<1>1. /\ nextId' = nextId /\ pending' = pending /\ inbox' = inbox /\ replies' = replies
      /\ native' = native /\ worker' = worker
  BY DEF channel
<1>2. answer' \in [Calls -> Answers \cup {None}]
  BY DEF ChannelType
<1>3. \A d \in Calls : answer'[d] = IF d = c THEN status ELSE answer[d]
  BY DEF ChannelType
<1>4. status # None
  BY DEF IsolatesAssumption
<1>5. \A d \in Calls : Made(d)' <=> Made(d) \/ d = c
  BY <1>1, <1>3, <1>4 DEF Made
<1>6. Carried' = Carried /\ Oldest' = Oldest
  BY <1>1 DEF Carried, Oldest
<1>7. ChannelType'
  BY <1>1, <1>2 DEF ChannelType
<1>8. Chain'
  BY <1>1, <1>6 DEF Chain
<1>9. Replies'
  <2>1. ASSUME NEW p \in pending'
        PROVE  answer'[p[2]] = None /\ (native'[p[2]] = None <=> p[1] >= Carried')
    <3>1. p \in pending /\ p[2] \in Calls /\ p[2] # c
      BY <1>1 DEF ChannelType, Made
    <3> QED BY <1>1, <1>3, <1>6, <3>1 DEF Replies
  <2>2. \A p \in pending', i \in 1..Len(replies') :
          p[1] = replies'[i][1] => replies'[i][2] = native'[p[2]]
    BY <1>1 DEF Replies
  <2>3. \A d \in Calls : native'[d] # None => Made(d)'
    BY <1>1, <1>5 DEF Replies
  <2>4. worker' \in Calls => inbox' # <<>> /\ worker' = inbox'[1][2]
    BY <1>1 DEF Replies
  <2> QED BY <2>1, <2>2, <2>3, <2>4 DEF Replies
<1>10. native[c] = None
  BY DEF Replies
<1> QED BY <1>3, <1>5, <1>7, <1>8, <1>9, <1>10

-----------------------------------------------------------------------------
(* The object *)

(* start and connect make the first call, if there is a library.             *)
LEMMA StartKeeps ==
  ASSUME ChannelInv, IsolatesAssumption, Start
  PROVE  ChannelInv'
<1>1. /\ StartCall \in Calls /\ ~Made(StartCall) /\ object = "starting"
      /\ StartCall \notin Stops /\ Stops \subseteq Calls
  BY DEF Start, Calls, IsolatesAssumption
<1>2. /\ object' = object /\ stopped' = stopped /\ worker' = worker /\ endpoint' = endpoint
      /\ native' = native /\ library' = library /\ config' = config
  BY DEF Start, setup
<1>3. ~stopped /\ \A d \in Calls : ~Made(d) \/ d = StartCall
  BY <1>1 DEF ChannelInv, ObjectInv, Stages
<1>4. \A d \in Stops : ~Made(d) /\ native[d] = None
  BY <1>1, <1>3 DEF ChannelInv, Replies
<1>5. Opened' = Opened /\ HandleState' /\ Scalars' /\ StartAnswer'
  BY <1>2 DEF ChannelInv, ObjectInv, HandleState, Scalars, StartAnswer, Opened
<1>6. CASE Post(StartCall) /\ UNCHANGED answer
  <2>1. /\ ChannelType' /\ Chain' /\ Replies'
        /\ \A d \in Calls : Made(d)' <=> Made(d) \/ d = StartCall
    BY <1>1, <1>2, <1>6, PostKeeps DEF ChannelInv
  <2>2. TurnedAway'
    BY <1>2, <1>6 DEF ChannelInv, ObjectInv, TurnedAway
  <2>3. StopIsLast'
    BY <1>1, <1>2, <1>3, <1>4, <2>1 DEF StopIsLast
  <2>4. Stages'
    BY <1>1, <1>2, <1>3, <2>1 DEF Stages
  <2> QED BY <1>5, <2>1, <2>2, <2>3, <2>4 DEF ChannelInv, ObjectInv
<1>7. CASE /\ ~isUsable(probeNativeLibrary(library))
           /\ answer' = [answer EXCEPT ![StartCall] = "unsupported"]
           /\ UNCHANGED channel
  <2>1. "unsupported" \in Answers
    BY DEF Answers
  <2>2. /\ ChannelType' /\ Chain' /\ Replies'
        /\ \A d \in Calls : Made(d)' <=> Made(d) \/ d = StartCall
        /\ \A d \in Calls : answer'[d] = IF d = StartCall THEN "unsupported" ELSE answer[d]
        /\ native[StartCall] = None
    BY <1>1, <1>2, <1>7, <2>1, TurnAwayKeeps DEF ChannelInv
  <2>3. TurnedAway'
    BY <1>2, <1>7, <2>2 DEF ChannelInv, ObjectInv, TurnedAway
  <2>4. StopIsLast'
    BY <1>1, <1>2, <1>3, <1>4, <2>2 DEF StopIsLast
  <2>5. Stages'
    BY <1>1, <1>2, <1>3, <2>2 DEF Stages
  <2> QED BY <1>5, <2>2, <2>3, <2>4, <2>5 DEF ChannelInv, ObjectInv
<1> QED BY <1>6, <1>7 DEF Start

(* The object is handed out once the start is answered ok.                   *)
LEMMA StartedKeeps ==
  ASSUME ChannelInv, IsolatesAssumption, Started
  PROVE  ChannelInv'
<1>1. /\ stopped' = stopped /\ endpoint' = endpoint /\ native' = native /\ answer' = answer
      /\ library' = library /\ config' = config /\ object = "starting"
      /\ nextId' = nextId /\ pending' = pending /\ inbox' = inbox /\ replies' = replies
  BY DEF Started, setup, channel
<1>2. \/ worker' = worker
      \/ worker' = "killed" /\ worker' \notin Calls
  BY DEF Started, IsolatesAssumption
<1>3. \/ object' = "open" /\ answer[StartCall] = "ok"
      \/ object' = "failed"
  BY DEF Started
<1>4. ChannelType'
  BY <1>1 DEF ChannelInv, ChannelType
<1>5. Chain' /\ Carried' = Carried
  BY <1>1 DEF ChannelInv, Chain, Oldest, Carried
<1>6. Replies'
  BY <1>1, <1>2, <1>5 DEF ChannelInv, Replies, Made
<1>7. TurnedAway' /\ StopIsLast'
  BY <1>1 DEF ChannelInv, ObjectInv, TurnedAway, StopIsLast, Made
<1>8. Stages'
  BY <1>1, <1>3 DEF ChannelInv, ObjectInv, Stages, Made
<1>9. HandleState' /\ StartAnswer' /\ Scalars'
  BY <1>1, <1>2, <1>3 DEF ChannelInv, ObjectInv, HandleState, StartAnswer, Scalars, Opened
<1> QED BY <1>4, <1>5, <1>6, <1>7, <1>8, <1>9 DEF ChannelInv, ObjectInv

(* A call is posted before stop and turned away after it.                    *)
LEMMA CallKeeps ==
  ASSUME ChannelInv, IsolatesAssumption, NEW c \in Sends, Call(c)
  PROVE  ChannelInv'
<1>1. /\ c \in Calls /\ ~Made(c) /\ object \in {"open", "disposed"} /\ c # StartCall
      /\ c \notin Stops /\ Stops \subseteq Calls /\ StartCall \in Calls
  BY DEF Call, Calls, IsolatesAssumption
<1>2. /\ object' = object /\ stopped' = stopped /\ worker' = worker /\ endpoint' = endpoint
      /\ native' = native /\ library' = library /\ config' = config
  BY DEF Call, setup
<1>3. Opened' = Opened /\ HandleState' /\ Scalars' /\ StartAnswer'
  BY <1>2 DEF ChannelInv, ObjectInv, HandleState, Scalars, StartAnswer, Opened
<1>4. CASE ~stopped /\ Post(c) /\ UNCHANGED answer
  <2>1. /\ ChannelType' /\ Chain' /\ Replies'
        /\ \A d \in Calls : Made(d)' <=> Made(d) \/ d = c
    BY <1>1, <1>2, <1>4, PostKeeps DEF ChannelInv
  <2>2. TurnedAway' /\ Stages'
    BY <1>1, <1>2, <1>4 DEF ChannelInv, ObjectInv, TurnedAway, Stages
  <2>3. \A d \in Stops : ~Made(d) /\ native[d] = None
    BY <1>1, <1>4 DEF ChannelInv, ObjectInv, StopIsLast, Replies
  <2>4. StopIsLast'
    BY <1>1, <1>2, <1>4, <2>1, <2>3 DEF StopIsLast
  <2> QED BY <1>3, <2>1, <2>2, <2>4 DEF ChannelInv, ObjectInv
<1>5. CASE stopped /\ answer' = [answer EXCEPT ![c] = "notRunning"] /\ UNCHANGED channel
  <2>1. "notRunning" \in Answers
    BY DEF Answers
  <2>2. /\ ChannelType' /\ Chain' /\ Replies'
        /\ \A d \in Calls : answer'[d] = IF d = c THEN "notRunning" ELSE answer[d]
        /\ native[c] = None
    BY <1>1, <1>2, <1>5, <2>1, TurnAwayKeeps DEF ChannelInv
  <2>3. TurnedAway' /\ Stages'
    BY <1>1, <1>2, <1>5, <2>2 DEF ChannelInv, ObjectInv, TurnedAway, Stages
  <2>4. StopIsLast'
    BY <1>2, <1>5 DEF ChannelInv, ObjectInv, StopIsLast, channel
  <2> QED BY <1>3, <2>2, <2>3, <2>4 DEF ChannelInv, ObjectInv
<1> QED BY <1>4, <1>5 DEF Call

(* The first stop is the last call to be posted.                             *)
LEMMA StopKeeps ==
  ASSUME ChannelInv, IsolatesAssumption, NEW c \in Stops, Stop(c)
  PROVE  ChannelInv'
<1>1. /\ c \in Calls /\ ~Made(c) /\ object \in {"open", "disposed"} /\ c # StartCall
      /\ Stops \subseteq Calls /\ StartCall \in Calls
  BY DEF Stop, Calls, IsolatesAssumption
<1>2. /\ object' = object /\ worker' = worker /\ endpoint' = endpoint
      /\ native' = native /\ library' = library /\ config' = config
  BY DEF Stop, setup
<1>3. Opened' = Opened /\ HandleState' /\ StartAnswer'
  BY <1>2 DEF ChannelInv, ObjectInv, HandleState, StartAnswer, Opened
<1>4. CASE ~stopped /\ stopped' = TRUE /\ Post(c) /\ UNCHANGED answer
  <2>1. /\ ChannelType' /\ Chain' /\ Replies'
        /\ \A d \in Calls : Made(d)' <=> Made(d) \/ d = c
    BY <1>1, <1>2, <1>4, PostKeeps DEF ChannelInv
  <2>2. TurnedAway' /\ Stages' /\ Scalars'
    BY <1>1, <1>2, <1>4 DEF ChannelInv, ObjectInv, TurnedAway, Stages, Scalars
  <2>3. \A d \in Stops : ~Made(d) /\ native[d] = None
    BY <1>1, <1>4 DEF ChannelInv, ObjectInv, StopIsLast, Replies
  <2>4. ASSUME NEW p \in pending' PROVE p[2] \in Stops <=> p[1] = nextId' - 1
    <3>1. nextId \in Nat /\ nextId' - 1 = nextId
      BY <1>4 DEF ChannelInv, ChannelType, Post
    <3>2. CASE p \in pending
      <4>1. p[2] \notin Stops
        BY <2>3, <3>2 DEF Made
      <4>2. p[1] < nextId /\ p[1] \in Nat
        BY <3>2 DEF ChannelInv, Chain, ChannelType
      <4> QED BY <3>1, <4>1, <4>2
    <3>3. CASE p = <<nextId, c>>
      BY <3>1, <3>3
    <3> QED BY <1>4, <3>2, <3>3 DEF Post
  <2>5. StopIsLast'
    BY <1>2, <1>4, <2>3, <2>4 DEF StopIsLast
  <2> QED BY <1>3, <2>1, <2>2, <2>5 DEF ChannelInv, ObjectInv
<1>5. CASE /\ stopped /\ answer' = [answer EXCEPT ![c] = Again]
           /\ UNCHANGED <<stopped, channel>>
  <2>1. Again \in Answers
    BY DEF Answers, Again
  <2>2. /\ ChannelType' /\ Chain' /\ Replies'
        /\ \A d \in Calls : answer'[d] = IF d = c THEN Again ELSE answer[d]
        /\ native[c] = None
    BY <1>1, <1>2, <1>5, <2>1, TurnAwayKeeps DEF ChannelInv
  <2>3. TurnedAway' /\ Stages' /\ Scalars'
    BY <1>1, <1>2, <1>5, <2>2 DEF ChannelInv, ObjectInv, TurnedAway, Stages, Scalars
  <2>4. StopIsLast'
    BY <1>2, <1>5 DEF ChannelInv, ObjectInv, StopIsLast, channel
  <2> QED BY <1>3, <2>2, <2>3, <2>4 DEF ChannelInv, ObjectInv
<1> QED BY <1>4, <1>5 DEF Stop

(* A reply changes the answer of one call, to what that call came to.        *)
LEMMA DeliverKeepsAll ==
  ASSUME ChannelInv, IsolatesAssumption, Deliver
  PROVE  ChannelInv'
<1>1. PICK p \in pending :
        /\ p \in Nat \X Calls /\ native[p[2]] # None
        /\ answer' = [answer EXCEPT ![p[2]] = native[p[2]]]
        /\ pending' = pending \ {p}
  BY DeliverKeeps DEF ChannelInv
<1>2. ChannelType' /\ Chain' /\ Replies' /\ \A d \in Calls : Made(d)' <=> Made(d)
  BY DeliverKeeps DEF ChannelInv
<1>3. /\ object' = object /\ stopped' = stopped /\ worker' = worker /\ endpoint' = endpoint
      /\ native' = native /\ library' = library /\ config' = config /\ nextId' = nextId
      /\ inbox' = inbox
  BY DEF Deliver, setup
<1>4. /\ \A d \in Calls : answer'[d] = IF d = p[2] THEN native[d] ELSE answer[d]
      /\ answer[p[2]] = None
      /\ Stops \subseteq Calls /\ StartCall \in Calls
  BY <1>1 DEF ChannelInv, ChannelType, Replies, Calls
<1>5. TurnedAway'
  BY <1>3, <1>4 DEF ChannelInv, ObjectInv, TurnedAway
<1>6. StopIsLast'
  BY <1>1, <1>2, <1>3, <1>4 DEF ChannelInv, ObjectInv, StopIsLast
<1>7. "ok" # None
  BY DEF IsolatesAssumption, Answers
<1>8. Stages'
  BY <1>2, <1>3, <1>4, <1>7 DEF ChannelInv, ObjectInv, Stages
<1>9. HandleState' /\ StartAnswer' /\ Scalars'
  BY <1>3 DEF ChannelInv, ObjectInv, HandleState, StartAnswer, Scalars, Opened
<1> QED BY <1>2, <1>5, <1>6, <1>8, <1>9 DEF ChannelInv, ObjectInv

(* When stop has been answered nothing is pending: its id is the last, and   *)
(* every other id in the chain is older.                                     *)
LEMMA NothingOrphaned ==
  ASSUME ChannelInv, stopped, \A p \in pending : p[2] \notin Stops
  PROVE  pending = {}
<1> SUFFICES ASSUME NEW q \in pending PROVE FALSE
  OBVIOUS
<1>1. nextId \in Nat /\ q[1] \in Nat /\ q[1] >= Oldest /\ q[1] < nextId
  BY DEF ChannelInv, ChannelType, Chain
<1>2. Oldest \in Int
  BY DEF ChannelInv, ChannelType, Oldest, Carried
<1>3. nextId - 1 \in Nat /\ nextId - 1 >= Oldest /\ nextId - 1 < nextId
  BY <1>1, <1>2
<1>4. PICK p \in pending : p[1] = nextId - 1
  BY <1>3 DEF ChannelInv, Chain
<1> QED BY <1>4 DEF ChannelInv, ObjectInv, StopIsLast

(* Dispose answers nothing, as nothing is pending.                           *)
LEMMA DisposeKeeps ==
  ASSUME ChannelInv, IsolatesAssumption, Dispose
  PROVE  ChannelInv'
<1>1. pending = {}
  BY NothingOrphaned DEF Dispose
<1>2. answer' = answer /\ pending' = pending
  BY <1>1 DEF Dispose, ChannelInv, ChannelType
<1>3. /\ stopped' = stopped /\ stopped /\ endpoint' = endpoint /\ native' = native
      /\ library' = library /\ config' = config /\ object = "open" /\ object' = "disposed"
      /\ nextId' = nextId /\ inbox' = inbox /\ replies' = replies
      /\ worker' = "killed" /\ worker' \notin Calls
  BY DEF Dispose, setup, IsolatesAssumption
<1>4. ChannelType'
  BY <1>2, <1>3 DEF ChannelInv, ChannelType
<1>5. Chain' /\ Carried' = Carried
  BY <1>2, <1>3 DEF ChannelInv, Chain, Oldest, Carried
<1>6. Replies'
  BY <1>2, <1>3, <1>5 DEF ChannelInv, Replies, Made
<1>7. TurnedAway' /\ StopIsLast' /\ Stages'
  BY <1>2, <1>3 DEF ChannelInv, ObjectInv, TurnedAway, StopIsLast, Stages, Made
<1>8. HandleState' /\ StartAnswer' /\ Scalars'
  BY <1>3 DEF ChannelInv, ObjectInv, HandleState, StartAnswer, Scalars, Opened
<1> QED BY <1>4, <1>5, <1>6, <1>7, <1>8 DEF ChannelInv, ObjectInv

-----------------------------------------------------------------------------
(* The command isolate *)

(* What start or connect comes to is a status.                               *)
LEMMA OpenedIsAnswer ==
  ASSUME ChannelInv, IsolatesAssumption
  PROVE  /\ \/ config \in Servers(Int) /\ config.kind = "server"
            \/ config \in Clients(Int) /\ config.kind = "client"
         /\ Opened \in Answers
<1>1. <<library, config>> \in CandidateLists \X (Servers(Int) \cup Clients(Int))
  BY DEF ChannelInv, ObjectInv, Scalars, IsolatesAssumption
<1>2. config \in Servers(Int) \cup Clients(Int)
  BY <1>1
<1>3. CASE config \in Servers(Int)
  <2>1. config.kind = "server"
    BY <1>3 DEF Servers
  <2> QED BY <1>3, <2>1, ServerStartIs DEF Opened, Answers
<1>4. CASE config \in Clients(Int)
  <2>1. config.kind = "client"
    BY <1>4 DEF Clients
  <2> QED BY <1>4, <2>1, ClientConnectIs DEF Opened, Answers
<1> QED BY <1>2, <1>3, <1>4

(* What every native call keeps: it answers the call at the head of the      *)
(* inbox, which was posted, is not answered, and was not carried out before. *)
LEMMA RunKeeps ==
  ASSUME ChannelInv, IsolatesAssumption, worker \in Calls,
         NEW status \in Answers, Done(status)
  PROVE  /\ ChannelType' /\ Chain' /\ Replies' /\ TurnedAway' /\ Stages' /\ Scalars'
         /\ \A c \in Calls : native'[c] = IF c = worker THEN status ELSE native[c]
         /\ native[worker] = None /\ status # None
         /\ <<Carried, worker>> \in pending
         /\ \A c \in Stops : native[c] = None
         /\ \A c \in Calls : Made(c)' <=> Made(c)
         /\ nextId' = nextId /\ pending' = pending /\ stopped' = stopped
         /\ Len(inbox') = Len(inbox) - 1 /\ Len(inbox) \in Nat
         /\ library' = library /\ config' = config
<1>1. /\ ChannelType' /\ Chain' /\ Replies'
      /\ <<Carried, worker>> \in pending /\ native[worker] = None
      /\ native' = [native EXCEPT ![worker] = status]
      /\ nextId' = nextId /\ pending' = pending /\ answer' = answer
      /\ Len(inbox') = Len(inbox) - 1
  BY DoneKeeps DEF ChannelInv
<1>2. /\ object' = object /\ stopped' = stopped /\ worker' = None
      /\ library' = library /\ config' = config
  BY DEF Done, setup
<1>3. \A c \in Calls : native'[c] = IF c = worker THEN status ELSE native[c]
  BY <1>1 DEF ChannelInv, ChannelType
<1>4. status # None /\ Len(inbox) \in Nat
  BY DEF IsolatesAssumption, ChannelInv, ChannelType
<1>5. answer[worker] = None
  BY <1>1 DEF ChannelInv, Replies
<1>6. TurnedAway'
  BY <1>1, <1>2, <1>3, <1>5 DEF ChannelInv, ObjectInv, TurnedAway
<1>7. \A c \in Calls : Made(c)' <=> Made(c)
  BY <1>1 DEF Made
<1>8. Stages' /\ Scalars'
  BY <1>1, <1>2, <1>7 DEF ChannelInv, ObjectInv, Stages, Scalars
<1>9. \A c \in Stops : native[c] = None
  BY DEF ChannelInv, ObjectInv, StopIsLast, Replies
<1> QED BY <1>1, <1>2, <1>3, <1>4, <1>6, <1>7, <1>8, <1>9

(* StartCommand or ConnectCommand makes the handle live, or it stays none.   *)
LEMMA RunStartKeeps ==
  ASSUME ChannelInv, IsolatesAssumption, RunStart
  PROVE  ChannelInv'
<1>1. /\ worker = StartCall /\ StartCall \in Calls /\ StartCall \notin Stops
      /\ Stops \subseteq Calls /\ Opened \in Answers /\ "unsupported" \in Answers
  BY OpenedIsAnswer DEF RunStart, Calls, IsolatesAssumption, Answers
<1>2. PICK status \in Answers :
        /\ Done(status)
        /\ status = IF openBindings(library) THEN Opened ELSE "unsupported"
        /\ endpoint' = IF status = "ok" THEN "live" ELSE endpoint
        /\ openBindings(library) /\ status # "ok" => endpoint' = "none"
  <2>1. CASE openBindings(library)
    <3>1. endpoint = "none"
      BY <1>1, RunKeeps, <2>1
         DEF RunStart, ChannelInv, ObjectInv, HandleState, IsolatesAssumption, Answers
    <3> QED BY <1>1, <2>1, <3>1 DEF RunStart
  <2>2. CASE ~openBindings(library)
    BY <1>1, <2>2 DEF RunStart
  <2> QED BY <2>1, <2>2
<1>3. /\ ChannelType' /\ Chain' /\ Replies' /\ TurnedAway' /\ Stages' /\ Scalars'
      /\ \A c \in Calls : native'[c] = IF c = StartCall THEN status ELSE native[c]
      /\ native[StartCall] = None /\ status # None
      /\ \A c \in Stops : native[c] = None
      /\ \A c \in Calls : Made(c)' <=> Made(c)
      /\ nextId' = nextId /\ pending' = pending /\ stopped' = stopped
      /\ library' = library /\ config' = config
  BY <1>1, <1>2, RunKeeps
<1>4. StopIsLast'
  BY <1>1, <1>3 DEF ChannelInv, ObjectInv, StopIsLast
<1>5. endpoint = "none"
  BY <1>3 DEF ChannelInv, ObjectInv, HandleState, IsolatesAssumption, Answers
<1>6. HandleState'
  BY <1>1, <1>2, <1>3, <1>5 DEF HandleState
<1>7. Opened' = Opened
  BY <1>3 DEF Opened
<1>8. StartAnswer'
  BY <1>1, <1>2, <1>3, <1>7 DEF StartAnswer
<1> QED BY <1>3, <1>4, <1>6, <1>8 DEF ChannelInv, ObjectInv

(* A send finds the handle live: start was answered ok before it was posted, *)
(* and a stop carried out would have emptied the inbox.                      *)
LEMMA RunSendKeeps ==
  ASSUME ChannelInv, IsolatesAssumption, RunSend
  PROVE  ChannelInv' /\ endpoint = "live"
<1>1. /\ worker \in Calls /\ worker # StartCall /\ worker \notin Stops
      /\ Stops \subseteq Calls /\ StartCall \in Calls /\ endpoint' = endpoint
  BY DEF RunSend, Calls, IsolatesAssumption
<1>2. PICK status \in Answers : Done(status)
  BY DEF RunSend, Statuses, Answers
<1>3. /\ ChannelType' /\ Chain' /\ Replies' /\ TurnedAway' /\ Stages' /\ Scalars'
      /\ \A c \in Calls : native'[c] = IF c = worker THEN status ELSE native[c]
      /\ <<Carried, worker>> \in pending
      /\ \A c \in Stops : native[c] = None
      /\ \A c \in Calls : Made(c)' <=> Made(c)
      /\ nextId' = nextId /\ pending' = pending /\ stopped' = stopped
      /\ library' = library /\ config' = config
  BY <1>1, <1>2, RunKeeps
<1>4. StopIsLast'
  BY <1>1, <1>3 DEF ChannelInv, ObjectInv, StopIsLast
<1>5. HandleState' /\ StartAnswer'
  BY <1>1, <1>3 DEF ChannelInv, ObjectInv, HandleState, StartAnswer, Opened
<1>6. endpoint = "live"
  <2>1. Made(worker)
    BY <1>3 DEF Made
  <2>2. object \in {"open", "disposed"}
    BY <1>1, <2>1 DEF ChannelInv, ObjectInv, Stages, Scalars
  <2>3. answer[StartCall] = "ok"
    BY <2>2 DEF ChannelInv, ObjectInv, Stages
  <2>4. native[StartCall] = "ok"
    BY <1>1, <2>3 DEF ChannelInv, ObjectInv, TurnedAway, IsolatesAssumption, Answers
  <2> QED BY <1>3, <2>4 DEF ChannelInv, ObjectInv, HandleState
<1> QED BY <1>3, <1>4, <1>5, <1>6 DEF ChannelInv, ObjectInv

(* A stop is the last envelope of the inbox.                                 *)
LEMMA RunStopKeeps ==
  ASSUME ChannelInv, IsolatesAssumption, RunStop
  PROVE  ChannelInv'
<1>1. /\ worker \in Calls /\ worker # StartCall /\ worker \in Stops
      /\ Stops \subseteq Calls /\ StartCall \in Calls /\ endpoint' = "stopped"
  BY DEF RunStop, Calls, IsolatesAssumption
<1>2. PICK status \in Answers : Done(status)
  BY DEF RunStop, Answers
<1>3. /\ ChannelType' /\ Chain' /\ Replies' /\ TurnedAway' /\ Stages' /\ Scalars'
      /\ \A c \in Calls : native'[c] = IF c = worker THEN status ELSE native[c]
      /\ status # None
      /\ <<Carried, worker>> \in pending
      /\ \A c \in Calls : Made(c)' <=> Made(c)
      /\ nextId' = nextId /\ pending' = pending /\ stopped' = stopped
      /\ Len(inbox') = Len(inbox) - 1 /\ Len(inbox) \in Nat
      /\ library' = library /\ config' = config
  BY <1>1, <1>2, RunKeeps
<1>4. StopIsLast'
  <2>1. Made(worker)
    BY <1>3 DEF Made
  <2>2. stopped
    BY <1>1, <2>1 DEF ChannelInv, ObjectInv, StopIsLast, Scalars
  <2>3. Carried = nextId - 1
    BY <1>1, <1>3, <2>2 DEF ChannelInv, ObjectInv, StopIsLast
  <2>4. Len(inbox') = 0
    BY <1>3, <2>3 DEF Carried, ChannelInv, ChannelType
  <2>5. inbox' = <<>>
    BY <1>3, <2>4 DEF ChannelType
  <2> QED BY <1>3, <2>2, <2>5 DEF ChannelInv, ObjectInv, StopIsLast
<1>5. HandleState' /\ StartAnswer'
  BY <1>1, <1>3 DEF ChannelInv, ObjectInv, HandleState, StartAnswer, Opened
<1> QED BY <1>3, <1>4, <1>5 DEF ChannelInv, ObjectInv

(* The command isolate takes the head of the inbox.                          *)
LEMMA TakeKeeps ==
  ASSUME ChannelInv, IsolatesAssumption, Take
  PROVE  ChannelInv'
<1>1. /\ object' = object /\ stopped' = stopped /\ endpoint' = endpoint
      /\ native' = native /\ library' = library /\ config' = config /\ answer' = answer
      /\ nextId' = nextId /\ pending' = pending /\ inbox' = inbox /\ replies' = replies
  BY DEF Take, channel, setup
<1>2. inbox # <<>> /\ worker' = inbox[1][2] /\ worker' \in Calls
  BY DEF Take, ChannelInv, ChannelType
<1>3. ChannelType'
  BY <1>1 DEF ChannelInv, ChannelType
<1>4. Chain' /\ Carried' = Carried
  BY <1>1 DEF ChannelInv, Chain, Oldest, Carried
<1>5. Replies'
  BY <1>1, <1>2, <1>4 DEF ChannelInv, Replies, Made
<1>6. TurnedAway' /\ StopIsLast' /\ Stages'
  BY <1>1 DEF ChannelInv, ObjectInv, TurnedAway, StopIsLast, Stages, Made
<1>7. HandleState' /\ StartAnswer' /\ Scalars'
  BY <1>1, <1>2 DEF ChannelInv, ObjectInv, HandleState, StartAnswer, Scalars, Opened
<1> QED BY <1>3, <1>4, <1>5, <1>6, <1>7 DEF ChannelInv, ObjectInv

(* Neither polling nor listening touches the channel.                        *)
LEMMA QuietKeeps ==
  ASSUME ChannelInv,
         UNCHANGED <<object, stopped, channel, worker, endpoint, answer, native, setup>>
  PROVE  ChannelInv'
<1>1. /\ object' = object /\ stopped' = stopped /\ endpoint' = endpoint /\ worker' = worker
      /\ native' = native /\ library' = library /\ config' = config /\ answer' = answer
      /\ nextId' = nextId /\ pending' = pending /\ inbox' = inbox /\ replies' = replies
  BY DEF channel, setup
<1>2. ChannelType'
  BY <1>1 DEF ChannelInv, ChannelType
<1>3. Chain' /\ Carried' = Carried
  BY <1>1 DEF ChannelInv, Chain, Oldest, Carried
<1>4. Replies'
  BY <1>1, <1>3 DEF ChannelInv, Replies, Made
<1>5. TurnedAway' /\ StopIsLast' /\ Stages'
  BY <1>1 DEF ChannelInv, ObjectInv, TurnedAway, StopIsLast, Stages, Made
<1>6. HandleState' /\ StartAnswer' /\ Scalars'
  BY <1>1 DEF ChannelInv, ObjectInv, HandleState, StartAnswer, Scalars, Opened
<1> QED BY <1>2, <1>3, <1>4, <1>5, <1>6 DEF ChannelInv, ObjectInv

(* At first nothing is under way.                                            *)
LEMMA InitChannel ==
  ASSUME Init, IsolatesAssumption
  PROVE  ChannelInv
<1>1. PICK s \in Setups : library = s[1] /\ config = s[2]
  BY DEF Init
<1>2. <<library, config>> \in Setups
  <2>1. s \in CandidateLists \X (Servers(Int) \cup Clients(Int))
    BY DEF IsolatesAssumption
  <2>2. s = <<s[1], s[2]>>
    BY <2>1
  <2> QED BY <1>1, <2>2
<1>3. /\ nextId = 0 /\ pending = {} /\ inbox = <<>> /\ replies = <<>>
      /\ \A c \in Calls : answer[c] = None /\ native[c] = None
      /\ object = "starting" /\ stopped = FALSE /\ worker = None /\ endpoint = "none"
      /\ None \notin Calls /\ StartCall \in Calls /\ Stops \subseteq Calls
      /\ None # "ok" /\ Len(inbox) = 0 /\ Len(replies) = 0
  BY DEF Init, IsolatesAssumption, Calls, Answers
<1>4. ChannelType
  BY DEF Init, ChannelType
<1>5. Chain
  BY <1>3 DEF Chain, Oldest, Carried
<1>6. Replies
  BY <1>3 DEF Replies, Made
<1>7. TurnedAway /\ StopIsLast /\ Stages
  BY <1>3 DEF TurnedAway, StopIsLast, Stages, Made
<1>8. HandleState /\ StartAnswer /\ Scalars
  BY <1>2, <1>3 DEF HandleState, StartAnswer, Scalars
<1> QED BY <1>4, <1>5, <1>6, <1>7, <1>8 DEF ChannelInv, ObjectInv

(* Every step keeps the invariant of the channel.                            *)
LEMMA NextChannel ==
  ASSUME ChannelInv, IsolatesAssumption, [Next]_vars
  PROVE  ChannelInv'
<1>1. CASE UNCHANGED vars
  BY <1>1, QuietKeeps DEF vars
<1>2. CASE Start
  BY <1>2, StartKeeps
<1>3. CASE Started
  BY <1>3, StartedKeeps
<1>4. CASE Deliver
  BY <1>4, DeliverKeepsAll
<1>5. CASE Dispose
  BY <1>5, DisposeKeeps
<1>6. CASE Worker
  BY <1>6, TakeKeeps, RunStartKeeps, RunSendKeeps, RunStopKeeps DEF Worker
<1>7. CASE Poller \/ Killed \/ Listen \/ Cancel \/ Hear
  BY <1>7, QuietKeeps DEF Poller, PollBegin, PollEnd, PostEvent, Killed, Listen, Cancel, Hear
<1>8. CASE \E c \in Sends : Call(c)
  BY <1>8, CallKeeps
<1>9. CASE \E c \in Stops : Stop(c)
  BY <1>9, StopKeeps
<1> QED BY <1>1, <1>2, <1>3, <1>4, <1>5, <1>6, <1>7, <1>8, <1>9 DEF Next

(* CommandChannel and _commandLoop between them keep one message for every   *)
(* completer, in the order of ids, whatever the application calls.           *)
THEOREM ChannelHolds == Spec => []ChannelInv
<1>1. Init => ChannelInv
  BY InitChannel, IsolatesAssumption
<1>2. ChannelInv /\ [Next]_vars => ChannelInv'
  BY NextChannel, IsolatesAssumption
<1> QED BY <1>1, <1>2, PTL DEF Spec

-----------------------------------------------------------------------------
(* The events *)

(* At first nothing was polled.                                              *)
LEMMA InitEvents ==
  ASSUME Init, IsolatesAssumption
  PROVE  EventInv
<1>1. /\ polled = 0 /\ port = <<>> /\ heard = <<>> /\ Len(port) = 0 /\ Len(heard) = 0
      /\ listener = "none" /\ poller = "none" /\ object = "starting"
  BY DEF Init
<1>2. 0 \in Posted \cap Nat
  BY <1>1 DEF Posted
<1>3. polled \in 0..MaxEvents /\ port \in Seq(Nat) /\ heard \in Seq(Nat)
  BY <1>1 DEF IsolatesAssumption
<1> QED BY <1>1, <1>2, <1>3 DEF EventInv

(* The poll isolate adds the next event at the end of the port; what has     *)
(* been posted so far is Posted.                                             *)
LEMMA PollerKeepsEvents ==
  ASSUME EventInv, IsolatesAssumption, Poller \/ Killed \/ Started
  PROVE  EventInv'
<1>1. PICK n \in Posted \cap Nat :
        /\ Len(heard) + Len(port) <= n
        /\ listener # "left" => Len(heard) + Len(port) = n
        /\ \A i \in 1..Len(port) : port[i] = n - Len(port) + i
  BY DEF EventInv
<1>2. /\ polled \in Nat /\ polled <= MaxEvents /\ MaxEvents \in Nat
      /\ Len(port) \in Nat /\ Len(heard) \in Nat /\ n \in Nat
      /\ port \in Seq(Nat)
  BY DEF EventInv, IsolatesAssumption
<1>3. heard' = heard /\ listener' = listener
  BY DEF Poller, PollBegin, PollEnd, PostEvent, Killed, Started, events
<1>4. ASSUME port' = port, polled' \in 0..MaxEvents, n \in Posted',
             poller' \in {"none", "between", "inside", "holding", "ended"},
             poller' = "holding" => polled' > 0, object' # "starting"
      PROVE  EventInv'
  BY <1>1, <1>2, <1>3, <1>4 DEF EventInv
<1>5. ASSUME PollBegin \/ Killed \/ Started PROVE EventInv'
  <2>1. polled' = polled /\ port' = port
    BY <1>5 DEF PollBegin, Killed, Started, events
  <2>2. /\ n \in Posted' /\ object' # "starting"
        /\ poller' \in {"none", "between", "inside", "ended"}
    BY <1>5, <2>1 DEF PollBegin, Killed, Started, Posted, EventInv
  <2> QED BY <1>2, <1>4, <2>1, <2>2
<1>6. ASSUME PollEnd PROVE EventInv'
  <2>1. port' = port /\ object' = object /\ n = polled /\ object # "starting"
    BY <1>6 DEF PollEnd, Posted, EventInv
  <2>2. CASE poller' \in {"between", "ended"} /\ polled' = polled
    BY <1>2, <1>4, <2>1, <2>2 DEF Posted
  <2>3. CASE poller' \in {"holding", "ended"} /\ polled < MaxEvents /\ polled' = polled + 1
    <3>1. n \in Posted' /\ polled' \in 0..MaxEvents /\ polled' > 0
      BY <1>2, <2>1, <2>3 DEF Posted
    <3> QED BY <1>4, <2>1, <2>3, <3>1
  <2> QED BY <1>6, <2>2, <2>3 DEF PollEnd
<1>7. ASSUME PostEvent PROVE EventInv'
  <2>1. /\ poller' = "between" /\ port' = Append(port, polled) /\ polled' = polled
        /\ object' = object /\ object # "starting" /\ n = polled - 1 /\ polled > 0
    BY <1>7 DEF PostEvent, Posted, EventInv
  <2>2. /\ port' \in Seq(Nat) /\ Len(port') = Len(port) + 1
        /\ \A i \in 1..Len(port) : port'[i] = port[i]
        /\ port'[Len(port) + 1] = polled
    BY <1>2, <2>1
  <2>3. polled \in Posted' \cap Nat
    BY <1>2, <2>1 DEF Posted
  <2>4. ASSUME NEW i \in 1..Len(port') PROVE port'[i] = polled - Len(port') + i
    <3>1. CASE i \in 1..Len(port)
      BY <1>1, <1>2, <2>1, <2>2, <3>1
    <3>2. CASE i = Len(port) + 1
      BY <1>2, <2>2, <3>2
    <3> QED BY <1>2, <2>2, <3>1, <3>2
  <2>5. /\ Len(heard') + Len(port') <= polled
        /\ listener' # "left" => Len(heard') + Len(port') = polled
    BY <1>1, <1>2, <1>3, <2>1, <2>2
  <2> QED BY <1>2, <1>3, <2>1, <2>2, <2>3, <2>4, <2>5 DEF EventInv
<1> QED BY <1>5, <1>6, <1>7 DEF Poller

(* Listening changes nothing that was posted.                                *)
LEMMA ListenerKeepsEvents ==
  ASSUME EventInv, IsolatesAssumption, Listen \/ Cancel \/ Hear
  PROVE  EventInv'
<1>1. PICK n \in Posted \cap Nat :
        /\ Len(heard) + Len(port) <= n
        /\ listener # "left" => Len(heard) + Len(port) = n
        /\ \A i \in 1..Len(port) : port[i] = n - Len(port) + i
  BY DEF EventInv
<1>2. /\ Len(port) \in Nat /\ Len(heard) \in Nat /\ n \in Nat
      /\ port \in Seq(Nat) /\ heard \in Seq(Nat)
      /\ \A i \in 1..Len(heard) : heard[i] = i
  BY DEF EventInv
<1>3. polled' = polled /\ poller' = poller /\ object' = object /\ n \in Posted'
  BY DEF Listen, Cancel, Hear, Posted
<1>4. CASE Listen \/ Cancel
  <2>1. /\ port' = port /\ heard' = heard /\ listener' \in {"some", "left"}
        /\ listener' # "left" => listener # "left"
    BY <1>4 DEF Listen, Cancel
  <2> QED BY <1>1, <1>2, <1>3, <2>1 DEF EventInv
<1>5. CASE Hear
  <2>1. /\ port # <<>> /\ port' = Tail(port) /\ listener' = listener
        /\ heard' = IF listener = "some" THEN Append(heard, Head(port)) ELSE heard
        /\ listener \in {"some", "left"}
    BY <1>5 DEF Hear, EventInv
  <2>2. /\ Len(port) > 0 /\ Head(port) = port[1] /\ port[1] \in Nat /\ 1 \in 1..Len(port)
        /\ port' \in Seq(Nat) /\ Len(port') = Len(port) - 1
        /\ \A i \in 1..Len(port') : port'[i] = port[i + 1] /\ i + 1 \in 1..Len(port)
    BY <1>2, <2>1
  <2>3. ASSUME NEW i \in 1..Len(port') PROVE port'[i] = n - Len(port') + i
    <3>1. /\ i \in Int /\ i + 1 \in 1..Len(port) /\ port'[i] = port[i + 1]
          /\ port[i + 1] = n - Len(port) + (i + 1)
      <4>1. i \in Int /\ i + 1 \in 1..Len(port) /\ port'[i] = port[i + 1]
        BY <2>2, <2>3
      <4> QED BY <1>1, <4>1
    <3> QED BY <1>2, <2>2, <3>1
  <2>4. CASE listener = "left"
    <3>1. heard' = heard /\ Len(heard) + Len(port') <= n
      BY <1>1, <1>2, <2>1, <2>2, <2>4
    <3> QED BY <1>1, <1>2, <1>3, <2>1, <2>2, <2>3, <2>4, <3>1 DEF EventInv
  <2>5. CASE listener = "some"
    <3>0. /\ port[1] = n - Len(port) + 1 /\ Len(heard) + Len(port) = n
          /\ Len(port) \in Int /\ Len(heard) \in Int /\ n \in Int
      BY <1>1, <1>2, <2>2, <2>5
    <3>1. port[1] = Len(heard) + 1
      BY <3>0
    <3>2. heard' = Append(heard, port[1])
      BY <2>1, <2>2, <2>5
    <3>3. /\ heard' \in Seq(Nat) /\ Len(heard') = Len(heard) + 1
          /\ \A i \in 1..Len(heard) : heard'[i] = heard[i]
          /\ heard'[Len(heard) + 1] = port[1]
      BY <1>2, <2>2, <3>2
    <3>4. \A i \in 1..Len(heard') : heard'[i] = i
      <4>1. ASSUME NEW i \in 1..Len(heard') PROVE heard'[i] = i
        <5>1. i \in 1..Len(heard) \/ i = Len(heard) + 1
          BY <3>0, <3>3
        <5> QED BY <1>2, <3>1, <3>3, <5>1
      <4> QED BY <4>1
    <3>5. Len(heard') + Len(port') = n
      <4>1. Len(heard') = Len(heard) + 1 /\ Len(port') = Len(port) - 1
        BY <2>2, <3>3
      <4> QED BY <3>0, <4>1
    <3>6. \E m \in (Posted \cap Nat)' :
             /\ Len(heard') + Len(port') <= m
             /\ listener' # "left" => Len(heard') + Len(port') = m
             /\ \A i \in 1..Len(port') : port'[i] = m - Len(port') + i
      <4>1. n \in (Posted \cap Nat)' /\ Len(heard') + Len(port') <= n
        BY <1>2, <1>3, <3>5
      <4> QED BY <2>3, <3>5, <4>1
    <3> QED BY <1>3, <2>1, <2>2, <3>3, <3>4, <3>6 DEF EventInv
  <2> QED BY <2>1, <2>4, <2>5
<1> QED BY <1>4, <1>5

(* Every step keeps the invariant of the events.                             *)
LEMMA NextEvents ==
  ASSUME EventInv, IsolatesAssumption, [Next]_vars
  PROVE  EventInv'
<1>1. CASE Poller \/ Killed \/ Started
  BY <1>1, PollerKeepsEvents
<1>2. CASE Listen \/ Cancel \/ Hear
  BY <1>2, ListenerKeepsEvents
<1>3. ASSUME UNCHANGED <<poller, events>>, object' = "starting" => object = "starting"
      PROVE  EventInv'
  <2>1. /\ poller' = poller /\ polled' = polled /\ port' = port /\ listener' = listener
        /\ heard' = heard /\ Posted' = Posted
    BY <1>3 DEF events, Posted
  <2> QED BY <1>3, <2>1 DEF EventInv
<1>4. CASE Start \/ Deliver \/ Dispose \/ Worker
  BY <1>3, <1>4 DEF Start, Deliver, Dispose, Worker, Take, RunStart, RunSend, RunStop, Done
<1>5. CASE (\E c \in Sends : Call(c)) \/ (\E c \in Stops : Stop(c)) \/ UNCHANGED vars
  BY <1>3, <1>5 DEF Call, Stop, vars
<1> QED BY <1>1, <1>2, <1>4, <1>5 DEF Next

(* Every event that pollLoop posted was heard, waits in the port or found no *)
(* listener any more, in the order of the polls.                             *)
THEOREM EventsHold == Spec => []EventInv
<1>1. Init => EventInv
  BY InitEvents, IsolatesAssumption
<1>2. EventInv /\ [Next]_vars => EventInv'
  BY NextEvents, IsolatesAssumption
<1> QED BY <1>1, <1>2, PTL DEF Spec

-----------------------------------------------------------------------------
(* The properties *)

(* Every variable of the Dart half keeps its shape, and _pending pairs ids   *)
(* and calls off.                                                            *)
THEOREM IsolatesTypeCorrect == Spec => []TypeOK
<1>1. ASSUME ChannelInv, EventInv PROVE TypeOK
  <2>1. /\ nextId \in Nat /\ pending \subseteq Nat \X Calls /\ Oldest \in Int
        /\ Len(inbox) \in Nat /\ Len(replies) \in Nat
        /\ Oldest + Len(replies) + Len(inbox) = nextId
    BY <1>1 DEF ChannelInv, ChannelType, Oldest, Carried
  <2>2. ASSUME NEW p \in pending PROVE p \in Numbered(Calls)
    <3>1. p = <<p[1], p[2]>> /\ p[2] \in Calls /\ p[1] \in Nat /\ p[1] < nextId
      BY <1>1, <2>1 DEF ChannelInv, Chain
    <3>2. p[1] \in 0..nextId
      BY <2>1, <3>1
    <3> QED BY <3>1, <3>2 DEF Numbered
  <2>3. \A i \in 1..Len(inbox) : inbox[i] \in Numbered(Calls)
    BY <1>1, <2>2 DEF ChannelInv, Chain
  <2>4. ASSUME NEW i \in 1..Len(replies) PROVE replies[i] \in Numbered(Answers)
    <3>1. replies[i] \in Nat \X Answers /\ replies[i][1] = Oldest + i - 1
      BY <1>1 DEF ChannelInv, ChannelType, Chain
    <3>2. replies[i] = <<replies[i][1], replies[i][2]>> /\ replies[i][2] \in Answers
          /\ replies[i][1] \in Nat
      BY <3>1
    <3>3. replies[i][1] \in 0..nextId
      BY <2>1, <3>1, <3>2
    <3> QED BY <3>2, <3>3 DEF Numbered
  <2>5. \A p, q \in pending : p[1] = q[1] \/ p[2] = q[2] => p = q
    BY <1>1 DEF ChannelInv, Chain
  <2>6. PICK n \in Posted \cap Nat :
          /\ Len(heard) + Len(port) <= n
          /\ \A i \in 1..Len(port) : port[i] = n - Len(port) + i
    BY <1>1 DEF EventInv
  <2>7. /\ polled \in Nat /\ n \in Nat /\ n <= polled /\ Len(port) \in Nat /\ Len(heard) \in Nat
        /\ \A i \in 1..Len(heard) : heard[i] = i
    BY <1>1, <2>6 DEF EventInv, Posted
  <2>8. \A i \in 1..Len(port) : port[i] \in 1..polled
    BY <2>6, <2>7
  <2>9. \A i \in 1..Len(heard) : heard[i] \in 1..polled
    BY <2>6, <2>7
  <2>10. endpoint \in {"none", "live", "stopped"}
    BY <1>1 DEF ChannelInv, ObjectInv, HandleState
  <2> QED BY <1>1, <2>1, <2>2, <2>3, <2>4, <2>5, <2>8, <2>9, <2>10
          DEF TypeOK, ChannelInv, ChannelType, ObjectInv, Scalars, EventInv
<1> QED BY <1>1, ChannelHolds, EventsHold, PTL

(* However calls overlap, the listener of the reply port completes each      *)
(* future with what its own native call returned; an answer that no native   *)
(* call gave is given only after stop, or to a start without a library.      *)
THEOREM FuturesGetTheirOwn == Spec => []AnswerIsOwn
<1>1. ChannelInv => AnswerIsOwn
  BY DEF ChannelInv, ObjectInv, TurnedAway, AnswerIsOwn
<1> QED BY <1>1, ChannelHolds, PTL

(* The dispose of QuicServer and QuicClient finds no completer to orphan:    *)
(* when stop is answered, every call made before it has been.                *)
THEOREM DisposeOrphansNothing == Spec => NoOrphans
<1>1. ChannelInv /\ [Next]_vars => [object = "open" /\ object' = "disposed" => pending = {}]_vars
  <2> SUFFICES ASSUME ChannelInv, Next, object = "open", object' = "disposed"
               PROVE  pending = {}
    OBVIOUS
  <2>1. Dispose
    BY DEF Next, Start, Started, Deliver, Worker, Take, RunStart, RunSend, RunStop, Done,
           Poller, PollBegin, PollEnd, PostEvent, Killed, Listen, Cancel, Hear, Call, Stop
  <2> QED BY <2>1, NothingOrphaned DEF Dispose
<1> QED BY <1>1, ChannelHolds, PTL DEF Spec, NoOrphans

(* The command isolate calls send, sendOn, openStream and closeStream only   *)
(* on a handle that is live: never before start and never after stop.        *)
THEOREM NoSendOnDeadHandle == Spec => NoCallAfterStop
<1>1. ChannelInv /\ [Next]_vars =>
        [\A c \in Sends : native'[c] # native[c] => endpoint = "live"]_vars
  <2> SUFFICES ASSUME ChannelInv, Next, NEW c \in Sends, native'[c] # native[c]
               PROVE  endpoint = "live"
    OBVIOUS
  <2>1. CASE RunSend
    BY <2>1, RunSendKeeps, IsolatesAssumption
  <2>2. CASE RunStart \/ RunStop
    <3>1. worker \notin Sends /\ \E status : native' = [native EXCEPT ![worker] = status]
      BY <2>2, IsolatesAssumption DEF RunStart, RunStop, Done, IsolatesAssumption
    <3>2. native'[c] = native[c]
      BY <3>1 DEF ChannelInv, ChannelType, Calls
    <3> QED BY <3>2
  <2>3. CASE native' = native
    BY <2>3
  <2> QED BY <2>1, <2>2, <2>3
          DEF Next, Start, Started, Deliver, Dispose, Worker, Take,
              Poller, PollBegin, PollEnd, PostEvent, Killed, Listen, Cancel, Hear, Call, Stop
<1> QED BY <1>1, ChannelHolds, PTL DEF Spec, NoCallAfterStop

(* However late the application listens to events, it hears every event that *)
(* pollLoop posted from the first on, in the order they were polled, until   *)
(* it cancels.                                                               *)
THEOREM EventsHeardInOrder == Spec => []HeardInOrder
<1>1. ASSUME EventInv PROVE HeardInOrder
  <2> DEFINE upTo(n) == [i \in 1..n |-> i]
  <2>1. PICK n \in Posted \cap Nat :
          /\ Len(heard) + Len(port) <= n
          /\ listener # "left" => Len(heard) + Len(port) = n
          /\ \A i \in 1..Len(port) : port[i] = n - Len(port) + i
    BY <1>1 DEF EventInv
  <2>2. /\ Len(port) \in Nat /\ Len(heard) \in Nat /\ n \in Nat
        /\ port \in Seq(Nat) /\ heard \in Seq(Nat)
        /\ \A i \in 1..Len(heard) : heard[i] = i
    BY <1>1 DEF EventInv
  <2>3. heard = upTo(Len(heard))
    BY <2>2
  <2>4. ASSUME listener # "left" PROVE heard \o port = upTo(n)
    <3> DEFINE all == heard \o port
    <3>1. /\ all \in Seq(Nat) /\ Len(all) = Len(heard) + Len(port)
          /\ \A i \in 1..Len(heard) : all[i] = heard[i]
          /\ \A i \in 1..Len(port) : all[Len(heard) + i] = port[i]
      BY <2>2
    <3> HIDE DEF all
    <3>2. Len(all) = n /\ n = Len(heard) + Len(port)
      BY <2>1, <2>4, <3>1
    <3>3. ASSUME NEW i \in 1..n PROVE all[i] = i
      <4>1. CASE i \in 1..Len(heard)
        BY <2>2, <3>1, <4>1
      <4>2. CASE i \notin 1..Len(heard)
        <5>1. i - Len(heard) \in 1..Len(port) /\ Len(heard) + (i - Len(heard)) = i
          BY <2>2, <3>2, <4>2
        <5>2. all[i] = port[i - Len(heard)]
          BY <3>1, <5>1
        <5>3. port[i - Len(heard)] = n - Len(port) + (i - Len(heard))
          BY <2>1, <5>1
        <5> QED BY <2>2, <3>2, <5>2, <5>3
      <4> QED BY <4>1, <4>2
    <3>4. all = upTo(n)
      BY <3>1, <3>2, <3>3
    <3> QED BY <3>4 DEF all
  <2>5. \/ n = polled
        \/ poller \in {"holding", "ended"} /\ n = polled - 1
    BY <2>1 DEF Posted
  <2> HIDE DEF upTo
  <2>6. listener # "left" =>
          \/ heard \o port = upTo(polled)
          \/ poller \in {"holding", "ended"} /\ heard \o port = upTo(polled - 1)
    BY <2>4, <2>5
  <2> QED BY <2>3, <2>6 DEF HeardInOrder, upTo
<1> QED BY <1>1, EventsHold, PTL

(* The command channel implements Futures: two ports and a worker that knows *)
(* nothing of completers carry calls out and answer them in the order they   *)
(* were made, and stop is the last of them.                                  *)
THEOREM CallsKeepTheirOrder == Spec => CallsInOrder
<1> USE DEF Promise!vars
<1>1. Init => Promise!Init
  BY DEF Init, Promise!Init
<1>2. ASSUME ChannelInv, [Next]_vars PROVE [Promise!Next]_(Promise!vars)
  <2>1. ASSUME NEW c \in Calls, ~Made(c), ~stopped, Post(c), stopped' = (c \in Stops),
               c = StartCall \/ answer[StartCall] = "ok", UNCHANGED <<native, answer>>
        PROVE  Promise!Next
    <3>1. Promise!Ask(c)
      BY <2>1 DEF Promise!Ask, Promise!Unasked, Made, Post
    <3> QED BY <2>1, <3>1 DEF Promise!Next
  <2>2. ASSUME NEW c \in Calls, ~Made(c), stopped \/ c = StartCall,
               NEW status \in {"notRunning", "ok", "unsupported"},
               answer' = [answer EXCEPT ![c] = status], UNCHANGED <<stopped, channel, native>>
        PROVE  Promise!Next
    <3>1. Promise!TurnAway(c)
      BY <2>2 DEF Promise!TurnAway, Promise!Unasked, Made, channel
    <3> QED BY <2>2, <3>1 DEF Promise!Next
  <2>3. ASSUME worker \in Calls, NEW status \in Answers, Done(status)
        PROVE  Promise!Next
    <3> DEFINE p == <<Carried, worker>>
    <3>1. /\ p \in pending /\ native[worker] = None
          /\ native' = [native EXCEPT ![worker] = status]
          /\ nextId' = nextId /\ pending' = pending /\ answer' = answer /\ stopped' = stopped
      BY <1>2, <2>3, DoneKeeps, IsolatesAssumption DEF ChannelInv, Done
    <3>2. p[1] = Carried /\ p[2] = worker
      OBVIOUS
    <3> HIDE DEF p
    <3>3. \A q \in pending : q[1] < p[1] => native[q[2]] # None
      <4> SUFFICES ASSUME NEW q \in pending, q[1] < p[1] PROVE native[q[2]] # None
        OBVIOUS
      <4>1. q[1] \in Nat /\ Carried \in Int
        BY <1>2 DEF ChannelInv, ChannelType, Carried
      <4>2. ~(q[1] >= Carried)
        BY <3>2, <4>1
      <4> QED BY <1>2, <4>2 DEF ChannelInv, Replies
    <3>4. Promise!CarryOut(p)
      BY <2>3, <3>1, <3>2, <3>3 DEF Promise!CarryOut
    <3> QED BY <3>1, <3>4 DEF Promise!Next
  <2>4. ASSUME Start PROVE Promise!Next
    <3>1. StartCall \in Calls /\ StartCall \notin Stops /\ ~stopped
      BY <1>2, <2>4, IsolatesAssumption
         DEF Start, Calls, IsolatesAssumption, ChannelInv, ObjectInv, Stages
    <3>2. CASE Post(StartCall) /\ UNCHANGED answer
      <4>1. stopped' = (StartCall \in Stops)
        BY <1>2, <2>4, <3>1 DEF Start, ChannelInv, ObjectInv, Scalars
      <4> QED BY <2>1, <2>4, <3>1, <3>2, <4>1 DEF Start
    <3>3. CASE answer' = [answer EXCEPT ![StartCall] = "unsupported"] /\ UNCHANGED channel
      BY <2>2, <2>4, <3>1, <3>3 DEF Start
    <3> QED BY <2>4, <3>2, <3>3 DEF Start
  <2>5. ASSUME NEW c \in Sends, Call(c) PROVE Promise!Next
    <3>1. c \in Calls /\ c \notin Stops /\ ~Made(c) /\ answer[StartCall] = "ok"
      BY <1>2, <2>5, IsolatesAssumption
         DEF Call, Calls, IsolatesAssumption, ChannelInv, ObjectInv, Stages
    <3>2. CASE ~stopped /\ Post(c) /\ UNCHANGED answer
      <4>1. stopped' = (c \in Stops)
        BY <1>2, <2>5, <3>1, <3>2 DEF Call, ChannelInv, ObjectInv, Scalars
      <4> QED BY <2>1, <2>5, <3>1, <3>2, <4>1 DEF Call
    <3>3. CASE stopped /\ answer' = [answer EXCEPT ![c] = "notRunning"] /\ UNCHANGED channel
      BY <2>2, <2>5, <3>1, <3>3 DEF Call
    <3> QED BY <2>5, <3>2, <3>3 DEF Call
  <2>6. ASSUME NEW c \in Stops, Stop(c) PROVE Promise!Next
    <3>1. c \in Calls /\ ~Made(c) /\ answer[StartCall] = "ok"
      BY <1>2, <2>6 DEF Stop, Calls, ChannelInv, ObjectInv, Stages
    <3>2. CASE ~stopped /\ stopped' = TRUE /\ Post(c) /\ UNCHANGED answer
      BY <2>1, <2>6, <3>1, <3>2 DEF Stop
    <3>3. CASE /\ stopped /\ answer' = [answer EXCEPT ![c] = Again]
               /\ UNCHANGED <<stopped, channel>>
      <4>1. Again \in {"notRunning", "ok", "unsupported"}
        BY DEF Again
      <4> QED BY <2>2, <2>6, <3>1, <3>3, <4>1 DEF Stop
    <3> QED BY <2>6, <3>2, <3>3 DEF Stop
  <2>7. ASSUME Deliver PROVE Promise!Next
    <3>1. PICK p \in pending :
            /\ p[1] = Oldest /\ native[p[2]] # None
            /\ answer' = [answer EXCEPT ![p[2]] = native[p[2]]]
            /\ pending' = pending \ {p}
      BY <1>2, <2>7, DeliverKeeps, IsolatesAssumption DEF ChannelInv
    <3>2. \A q \in pending : q[1] >= p[1]
      BY <1>2, <3>1 DEF ChannelInv, Chain
    <3>3. Promise!Complete(p)
      BY <2>7, <3>1, <3>2 DEF Promise!Complete, Deliver
    <3> QED BY <3>3 DEF Promise!Next
  <2>8. ASSUME Worker PROVE [Promise!Next]_(Promise!vars)
    <3>1. CASE Take
      BY <3>1 DEF Take, channel
    <3>2. CASE RunStart
      <4>1. /\ worker \in Calls /\ Opened \in Answers /\ "unsupported" \in Answers
            /\ Done(Opened) \/ Done("unsupported")
        BY <1>2, <3>2, OpenedIsAnswer, IsolatesAssumption DEF RunStart, Calls, Answers
      <4> QED BY <2>3, <4>1
    <3>3. CASE RunSend
      BY <2>3, <3>3 DEF RunSend, Calls, Statuses, Answers
    <3>4. CASE RunStop
      BY <2>3, <3>4 DEF RunStop, Calls, Answers
    <3> QED BY <2>8, <3>1, <3>2, <3>3, <3>4 DEF Worker
  <2>9. ASSUME Dispose PROVE UNCHANGED Promise!vars
    <3>1. pending = {}
      BY <1>2, <2>9, NothingOrphaned DEF Dispose
    <3> QED BY <1>2, <2>9, <3>1 DEF Dispose, ChannelInv, ChannelType
  <2>10. CASE Started \/ Poller \/ Killed \/ Listen \/ Cancel \/ Hear \/ UNCHANGED vars
    BY <2>10 DEF Started, Poller, PollBegin, PollEnd, PostEvent, Killed, Listen, Cancel, Hear,
                 channel, vars
  <2> QED BY <1>2, <2>4, <2>5, <2>6, <2>7, <2>8, <2>9, <2>10 DEF Next
<1> QED BY <1>1, <1>2, ChannelHolds, PTL DEF Spec, CallsInOrder, Promise!Spec

(* start and connect succeed exactly when nothing is wrong with the setup,   *)
(* a refusal tells of a fault that is there, nothing is bound for a setup    *)
(* at fault in itself, and a slip in a server's scalars is named before its  *)
(* certificates, for every idle timeout that can be given.                   *)
THEOREM StartNamesTheCause == Spec => []StartTellsWhy
<1>1. ASSUME ChannelInv PROVE StartTellsWhy
  <2> DEFINE idle == inMilliseconds(config.idle)
             told == answer[StartCall]
             typo == IF config.kind = "server"
                     THEN ~config.bindAddress \/ ~config.path \/ idle < 1000
                     ELSE ~config.url \/ idle <= 0
             bad  == /\ config.kind = "server"
                     /\ config.chain # "good" \/ config.key \notin {"good", "unusable"}
             misfit == config.kind = "server" /\ config.key = "unusable"
             other  == config.kind # "server" /\ config.hash = "other"
             cut    == config.kind # "server" /\ config.hash = "cut"
             peer   == config.kind # "server" /\ config.peer # "good"
  <2> SUFFICES ASSUME told # None
               PROVE  /\ told = "ok" <=> Faults = {}
                      /\ told # "ok" => \E fault \in Faults : told \in Tells(fault)
                      /\ told \in {"portInUse", "bindFailed", "peerGone"} =>
                           Faults \subseteq {"port", "host", "peer"}
                      /\ config.kind = "server" /\ "scalar" \in Faults =>
                           told \in {"unsupported", "invalidArgument"}
    BY DEF StartTellsWhy
  <2>1. told = IF openBindings(library) THEN Opened ELSE "unsupported"
    BY <1>1 DEF ChannelInv, ObjectInv, TurnedAway, StartAnswer, openBindings, Calls
  <2>2. /\ \A fault \in Faults :
              fault \in {"library", "scalar", "idleRange", "hash", "hashCut", "certificate",
                        "keyUnusable", "port", "host", "peer"}
        /\ "library" \in Faults <=> ~openBindings(library)
        /\ "scalar" \in Faults <=> typo
        /\ "idleRange" \in Faults <=> idle > MaxIdle
        /\ "hash" \in Faults <=> other
        /\ "hashCut" \in Faults <=> cut
        /\ "certificate" \in Faults <=> bad
        /\ "keyUnusable" \in Faults <=> misfit
        /\ "port" \in Faults <=> config.host = "portTaken"
        /\ "host" \in Faults <=> config.host \notin {"good", "portTaken"}
        /\ "peer" \in Faults <=> peer
    BY DEF Faults
  <2>3. /\ Tells("library") = {"unsupported"}
        /\ Tells("scalar") = {"invalidArgument"}
        /\ Tells("idleRange") = {"invalidArgument"}
        /\ Tells("hash") = {"invalidArgument"}
        /\ Tells("hashCut") = {"panic"}
        /\ Tells("certificate") = {"badCertificate"}
        /\ Tells("keyUnusable") = {"panic"}
        /\ Tells("port") = {"portInUse"}
        /\ Tells("host") = {"bindFailed"}
        /\ Tells("peer") = {"badCertificate", "peerGone"}
    BY DEF Tells
  <2>4. config.idle \in Int
    BY <1>1, OpenedIsAnswer, IsolatesAssumption DEF Servers, Clients
  <2>5. idle \in Int /\ MaxIdle \in Int
    BY <2>4, StartupAssumption DEF inMilliseconds, StartupAssumption
  <2>6. CASE ~openBindings(library)
    <3>1. told = "unsupported" /\ "library" \in Faults
      BY <2>1, <2>2, <2>6
    <3> HIDE DEF told
    <3> QED BY <2>3, <3>1
  <2>7. CASE openBindings(library) /\ config \in Servers(Int) /\ config.kind = "server"
    <3>1. told = IF typo THEN "invalidArgument"
                 ELSE IF bad THEN "badCertificate"
                 ELSE IF misfit THEN "panic"
                 ELSE IF idle > MaxIdle THEN "invalidArgument"
                 ELSE IF config.host = "portTaken" THEN "portInUse"
                 ELSE IF config.host # "good" THEN "bindFailed" ELSE "ok"
      BY <2>1, <2>5, <2>7, ServerStartIs DEF Opened
    <3>2. ~other /\ ~cut /\ ~peer
      BY <2>7
    <3> HIDE DEF idle, told, typo, bad, misfit, other, cut, peer
    <3> QED BY <2>2, <2>3, <2>7, <3>1, <3>2
  <2>8. CASE openBindings(library) /\ config \in Clients(Int) /\ config.kind = "client"
    <3>1. \/ typo /\ told = "invalidArgument"
          \/ cut /\ told = "panic"
          \/ (other \/ idle > MaxIdle) /\ told = "invalidArgument"
          \/ /\ ~typo /\ ~cut /\ ~other /\ ~(idle > MaxIdle)
             /\ \/ config.host # "good" /\ told = "bindFailed"
                \/ config.host = "good" /\ peer /\ told \in {"badCertificate", "peerGone"}
                \/ config.host = "good" /\ ~peer /\ told = "ok"
      <4>1. /\ config.peer \in {"good", "certificate", "tls", "handshake", "otherwise"}
            /\ config.hash \in {"hex", "signed", "cut", "other"}
        BY <2>8 DEF Clients
      <4> QED BY <2>1, <2>5, <2>8, <4>1, ClientConnectIs DEF Opened
    <3>2. config.host # "portTaken" /\ ~bad /\ ~misfit
      BY <2>8 DEF Clients
    <3> HIDE DEF idle, told, typo, bad, misfit, other, cut, peer
    <3> QED BY <2>2, <2>3, <2>8, <3>1, <3>2
  <2> QED BY <1>1, <2>6, <2>7, <2>8, OpenedIsAnswer, IsolatesAssumption
<1> QED BY <1>1, ChannelHolds, PTL
=============================================================================
