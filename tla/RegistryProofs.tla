--------------------------- MODULE RegistryProofs ---------------------------
(***************************************************************************)
(* What TLAPS proves of module Registry, for any number of threads, ports  *)
(* and handles.                                                            *)
(***************************************************************************)
EXTENDS Registry, TLAPS

(* Every handle in use lies below the counter.                               *)
HandlesBelow ==
  /\ \A h \in registered \cup stopped : h < nextHandle
  /\ \A t \in Threads : thread[t].stage = "named" => thread[t].handle < nextHandle

(* The registry's reference is either there or was given up by a stop; only  *)
(* handles that were in the registry are held, and only stopped ones drop.   *)
References ==
  /\ registered \cap stopped = {}
  /\ dropped \subseteq stopped
  /\ \A t \in Threads, h \in Handles : Holds(t, h) => h \in registered \cup stopped

(* The fields that the stage of a call fills in are filled in.               *)
Filled ==
  \A t \in Threads :
    /\ thread[t].stage \in {"named", "holding"} => thread[t].handle \in Handles
    /\ /\ thread[t].stage \in {"bound", "named"} /\ thread[t].op = "connect"
       => thread[t].session \in Handles

(* The inductive invariant.                                                  *)
Inv == TypeOK /\ HandlesBelow /\ References /\ Filled /\ HandleIsFresh /\ NoUseAfterDrop

(* The records threads are given are of the type Records.                    *)
LEMMA RecordTypes ==
  /\ \A status \in {"ok", "portInUse", "bindFailed", "unknownHandle", "notRunning", None} :
       Outside(status) \in Records
  /\ \A p \in Ports :
       [Outside(None) EXCEPT !.op = "start", !.stage = "bound", !.port = p] \in Records
  /\ \A s \in Handles :
       [Outside(None) EXCEPT !.op = "connect", !.stage = "bound", !.session = s] \in Records
  /\ \A op \in {"poll", "send", "stop"}, h \in Handles :
       [Outside(None) EXCEPT !.op = op, !.stage = "holding", !.handle = h] \in Records
BY DEF Outside, Records

(* The process starts with no endpoint and no thread inside a call.          *)
LEMMA InitInv == Init => Inv
<1> SUFFICES ASSUME Init PROVE Inv
  OBVIOUS
<1> USE RegistryAssumption
<1>1. Outside(None) \in Records /\ Outside(None).stage = "outside"
  BY RecordTypes DEF Outside
<1>2. TypeOK
  BY <1>1 DEF Init, TypeOK
<1>3. \A t \in Threads : thread[t].stage = "outside"
  BY <1>1 DEF Init
<1>4. HandlesBelow /\ References /\ Filled /\ HandleIsFresh /\ NoUseAfterDrop
  BY <1>3 DEF Init, HandlesBelow, References, Filled, HandleIsFresh, NoUseAfterDrop, Holds
<1> QED BY <1>2, <1>4 DEF Inv

(* One thread's record changes and the others keep theirs.                   *)
LEMMA ThreadUpdate ==
  ASSUME TypeOK, NEW t \in Threads, NEW r \in Records, thread' = [thread EXCEPT ![t] = r]
  PROVE  /\ thread' \in [Threads -> Records]
         /\ \A u \in Threads : thread'[u] = IF u = t THEN r ELSE thread[u]
BY DEF TypeOK

(* A thread that is given neither a handle nor a reference disturbs nobody.  *)
LEMMA PlainUpdate ==
  ASSUME Inv, NEW t \in Threads, NEW r \in Records, thread' = [thread EXCEPT ![t] = r],
         r.stage \in {"outside", "bound"},
         r.stage = "bound" /\ r.op = "connect" => r.session \in Handles,
         nextHandle' \in 1..(MaxHandle + 1), nextHandle' >= nextHandle,
         UNCHANGED <<registered, socket, dropped, freed, stopped>>
  PROVE  Inv'
<1> USE RegistryAssumption
<1>1. /\ thread' \in [Threads -> Records]
      /\ \A u \in Threads : thread'[u] = IF u = t THEN r ELSE thread[u]
  BY ThreadUpdate DEF Inv
<1>2. TypeOK'
  BY <1>1 DEF Inv, TypeOK
<1>3. HandlesBelow'
  <2>1. nextHandle \in Nat /\ nextHandle' \in Nat /\ registered \cup stopped \subseteq Nat
    BY DEF Inv, TypeOK, Handles
  <2>2. \A u \in Threads : thread'[u].stage = "named" =>
          thread'[u].handle < nextHandle /\ thread'[u].handle \in Nat
    BY <1>1 DEF Inv, HandlesBelow, Filled, Handles
  <2> QED BY <2>1, <2>2 DEF Inv, HandlesBelow
<1>4. References'
  BY <1>1 DEF Inv, References, Holds
<1>5. Filled'
  BY <1>1 DEF Inv, Filled
<1>6. HandleIsFresh'
  BY <1>1 DEF Inv, HandleIsFresh
<1>7. NoUseAfterDrop'
  BY <1>1 DEF Inv, NoUseAfterDrop, Holds
<1> QED BY <1>2, <1>3, <1>4, <1>5, <1>6, <1>7 DEF Inv

(* A thread takes a reference through the registry, or takes the registry's  *)
(* own; either way the handle was registered before the step.                *)
LEMMA GrabUpdate ==
  ASSUME Inv, NEW t \in Threads, NEW op \in {"poll", "send", "stop"}, NEW h \in registered,
         thread' = [thread EXCEPT ![t] =
           [Outside(None) EXCEPT !.op = op, !.stage = "holding", !.handle = h]],
         \/ UNCHANGED <<registered, stopped>>
         \/ registered' = registered \ {h} /\ stopped' = stopped \cup {h},
         UNCHANGED <<nextHandle, socket, dropped, freed>>
  PROVE  Inv'
<1> USE RegistryAssumption
<1> DEFINE r == [Outside(None) EXCEPT !.op = op, !.stage = "holding", !.handle = h]
<1>1. r \in Records /\ r.stage = "holding" /\ r.handle = h /\ r.op = op /\ h \in Handles
  BY RecordTypes DEF Outside, Inv, TypeOK
<1> HIDE DEF r
<1>2. /\ thread' \in [Threads -> Records]
      /\ \A u \in Threads : thread'[u] = IF u = t THEN r ELSE thread[u]
  BY <1>1, ThreadUpdate DEF Inv, r
<1>3. registered' \cup stopped' = registered \cup stopped
  OBVIOUS
<1>4. TypeOK'
  BY <1>1, <1>2 DEF Inv, TypeOK
<1>5. HandlesBelow'
  BY <1>1, <1>2, <1>3 DEF Inv, HandlesBelow
<1>6. References'
  BY <1>1, <1>2, <1>3 DEF Inv, References, Holds
<1>7. Filled'
  BY <1>1, <1>2 DEF Inv, Filled
<1>8. HandleIsFresh'
  BY <1>1, <1>2, <1>3 DEF Inv, HandleIsFresh
<1>9. NoUseAfterDrop'
  BY <1>1, <1>2 DEF Inv, NoUseAfterDrop, Holds
<1> QED BY <1>4, <1>5, <1>6, <1>7, <1>8, <1>9 DEF Inv

(* Every step keeps the invariant.                                           *)
LEMMA NextInv == Inv /\ [Next]_vars => Inv'
<1> SUFFICES ASSUME Inv, [Next]_vars PROVE Inv'
  OBVIOUS
<1> USE RegistryAssumption
<1>a. TypeOK
  BY DEF Inv
<1>1. CASE UNCHANGED vars
  BY <1>1 DEF vars, Inv, TypeOK, HandlesBelow, References, Filled, HandleIsFresh,
     NoUseAfterDrop, Holds
<1>2. ASSUME NEW t \in Threads, NEW status \in {"ok", "portInUse", "bindFailed",
                                              "unknownHandle", "notRunning"},
             Return(t, status),
             UNCHANGED <<nextHandle, registered, socket, dropped, freed, stopped>>
      PROVE  Inv'
  <2>1. Outside(status) \in Records /\ Outside(status).stage = "outside"
    BY RecordTypes DEF Outside
  <2>2. nextHandle' \in 1..(MaxHandle + 1) /\ nextHandle' >= nextHandle
    BY <1>2, <1>a DEF TypeOK
  <2> QED BY <1>2, <2>1, <2>2, PlainUpdate DEF Return
<1>3. ASSUME NEW t \in Threads, NEW p \in Ports, StartBind(t, p) PROVE Inv'
  <2>1. CASE Taken(p)
    BY <1>2, <1>3, <2>1 DEF StartBind
  <2>2. CASE ~Taken(p)
    <3> DEFINE r == [Outside(None) EXCEPT !.op = "start", !.stage = "bound", !.port = p]
    <3>1. r \in Records /\ r.stage = "bound" /\ r.op = "start"
      BY RecordTypes DEF Outside
    <3>2. thread' = [thread EXCEPT ![t] = r]
      BY <1>3, <2>2 DEF StartBind
    <3>3. nextHandle' \in 1..(MaxHandle + 1) /\ nextHandle' >= nextHandle
      BY <1>3, <1>a DEF StartBind, TypeOK
    <3> HIDE DEF r
    <3> QED BY <1>3, <3>1, <3>2, <3>3, PlainUpdate DEF StartBind
  <2> QED BY <2>1, <2>2
<1>4. ASSUME NEW t \in Threads, StartFails(t) PROVE Inv'
  BY <1>2, <1>4 DEF StartFails
<1>5. ASSUME NEW t \in Threads, ConnectSession(t) PROVE Inv'
  <2> DEFINE r == [Outside(None) EXCEPT !.op = "connect", !.stage = "bound",
                                        !.session = nextHandle]
  <2>1. nextHandle \in Handles /\ nextHandle' = nextHandle + 1
    BY <1>5, <1>a DEF ConnectSession, TypeOK, Handles
  <2>2. nextHandle' \in 1..(MaxHandle + 1) /\ nextHandle' >= nextHandle
    BY <2>1 DEF Handles
  <2>3. r \in Records /\ r.stage = "bound" /\ r.session \in Handles
    BY <2>1, RecordTypes DEF Outside
  <2>4. thread' = [thread EXCEPT ![t] = r]
    BY <1>5 DEF ConnectSession
  <2> HIDE DEF r
  <2> QED BY <1>5, <2>2, <2>3, <2>4, PlainUpdate DEF ConnectSession
<1>6. ASSUME NEW t \in Threads, TakeHandle(t) PROVE Inv'
  <2> DEFINE r == [thread[t] EXCEPT !.stage = "named", !.handle = nextHandle]
  <2>1. /\ nextHandle \in Handles /\ nextHandle' = nextHandle + 1
        /\ nextHandle' \in 1..(MaxHandle + 1) /\ thread[t].stage = "bound"
        /\ UNCHANGED <<registered, socket, dropped, freed, stopped>>
    BY <1>6, <1>a DEF TakeHandle, TypeOK, Handles
  <2>2. thread' = [thread EXCEPT ![t] = r] /\ thread[t] \in Records
    BY <1>6, <1>a DEF TakeHandle, TypeOK
  <2>3. /\ r \in Records /\ r.stage = "named" /\ r.handle = nextHandle
        /\ r.op = thread[t].op /\ r.session = thread[t].session
    BY <2>1, <2>2 DEF Records
  <2> HIDE DEF r
  <2>4. /\ thread' \in [Threads -> Records]
        /\ \A u \in Threads : thread'[u] = IF u = t THEN r ELSE thread[u]
    BY <1>a, <2>2, <2>3, ThreadUpdate
  <2>5. /\ \A h \in registered \cup stopped \cup dropped : h \in Nat /\ h < nextHandle
        /\ \A u \in Threads : thread[u].stage = "named" =>
             thread[u].handle \in Nat /\ thread[u].handle < nextHandle
    BY DEF Inv, TypeOK, HandlesBelow, References, Filled, Handles
  <2>6. nextHandle \in Nat
    BY <2>1 DEF Handles
  <2>7. TypeOK'
    BY <1>a, <2>1, <2>4 DEF TypeOK
  <2>8. HandlesBelow'
    BY <2>1, <2>3, <2>4, <2>5, <2>6 DEF HandlesBelow
  <2>9. References' /\ NoUseAfterDrop'
    BY <2>1, <2>3, <2>4 DEF Inv, References, NoUseAfterDrop, Holds
  <2>10. Filled'
    BY <2>1, <2>3, <2>4 DEF Inv, Filled
  <2>11. HandleIsFresh'
    BY <2>1, <2>3, <2>4, <2>5, <2>6 DEF Inv, HandleIsFresh
  <2> QED BY <2>7, <2>8, <2>9, <2>10, <2>11 DEF Inv
<1>7. ASSUME NEW t \in Threads, Publish(t) PROVE Inv'
  <2> DEFINE h == thread[t].handle
  <2>1. /\ h \in Handles /\ h < nextHandle /\ h \notin registered \cup stopped \cup dropped
        /\ thread[t].stage = "named"
        /\ \A u \in Threads \ {t} : thread[u].stage = "named" => thread[u].handle # h
    BY <1>7 DEF Publish, Inv, HandlesBelow, Filled, HandleIsFresh
  <2>2. /\ registered' = registered \cup {h} /\ thread' = [thread EXCEPT ![t] = Outside("ok")]
        /\ socket' = [socket EXCEPT ![h] = thread[t].port]
        /\ UNCHANGED <<nextHandle, dropped, freed, stopped>>
    BY <1>7 DEF Publish, Return
  <2>3. Outside("ok") \in Records /\ Outside("ok").stage = "outside"
    BY RecordTypes DEF Outside
  <2>4. /\ thread' \in [Threads -> Records]
        /\ \A u \in Threads : thread'[u] = IF u = t THEN Outside("ok") ELSE thread[u]
    BY <1>a, <2>2, <2>3, ThreadUpdate
  <2>5. thread[t].port \in Ports \cup {None}
    BY <1>a DEF TypeOK, Records
  <2> HIDE DEF h
  <2>7. TypeOK'
    BY <1>a, <2>1, <2>2, <2>4, <2>5 DEF TypeOK
  <2>8. HandlesBelow'
    BY <2>1, <2>2, <2>3, <2>4 DEF Inv, HandlesBelow
  <2>9. References'
    BY <2>1, <2>2, <2>3, <2>4 DEF Inv, References, Holds
  <2>10. NoUseAfterDrop'
    BY <2>1, <2>2, <2>3, <2>4 DEF Inv, NoUseAfterDrop, Holds
  <2>11. Filled'
    BY <2>3, <2>4 DEF Inv, Filled
  <2>12. HandleIsFresh'
    BY <2>1, <2>2, <2>3, <2>4 DEF Inv, HandleIsFresh
  <2> QED BY <2>7, <2>8, <2>9, <2>10, <2>11, <2>12 DEF Inv
<1>8. ASSUME NEW t \in Threads, NEW h \in Handles,
             Lookup(t, "poll", h) \/ Lookup(t, "send", h) \/ Remove(t, h)
      PROVE  Inv'
  <2>1. CASE h \in registered
    BY <1>8, <2>1, GrabUpdate DEF Lookup, Remove
  <2>2. CASE h \notin registered
    BY <1>2, <1>8, <2>2 DEF Lookup, Remove
  <2> QED BY <2>1, <2>2
<1>9. ASSUME NEW t \in Threads, Release(t) PROVE Inv'
  <2> DEFINE h == thread[t].handle
  <2>1. /\ thread[t].stage = "holding" /\ h \in Handles /\ h \in registered \cup stopped
        /\ thread' = [thread EXCEPT ![t] = Outside("ok")]
        /\ UNCHANGED <<nextHandle, registered, socket, freed, stopped>>
    BY <1>9 DEF Release, Return, Inv, Filled, References, Holds
  <2>2. \/ dropped' = dropped
        \/ /\ dropped' = dropped \cup {h} /\ h \notin registered
           /\ \A u \in Threads \ {t} : ~Holds(u, h)
    BY <1>9 DEF Release
  <2>3. Outside("ok") \in Records /\ Outside("ok").stage = "outside"
    BY RecordTypes DEF Outside
  <2>4. /\ thread' \in [Threads -> Records]
        /\ \A u \in Threads : thread'[u] = IF u = t THEN Outside("ok") ELSE thread[u]
    BY <1>a, <2>1, <2>3, ThreadUpdate
  <2> HIDE DEF h
  <2>5. TypeOK'
    BY <1>a, <2>1, <2>2, <2>4 DEF TypeOK
  <2>6. HandlesBelow'
    BY <2>1, <2>3, <2>4 DEF Inv, HandlesBelow
  <2>7. References'
    BY <2>1, <2>2, <2>3, <2>4 DEF Inv, References, Holds
  <2>8. Filled'
    BY <2>3, <2>4 DEF Inv, Filled
  <2>9. HandleIsFresh'
    <3>1. \A u \in Threads : thread[u].stage = "named" => thread[u].handle # h
      BY <2>1 DEF Inv, HandleIsFresh
    <3> QED BY <2>1, <2>2, <2>3, <2>4, <3>1 DEF Inv, HandleIsFresh
  <2>10. NoUseAfterDrop'
    <3>1. \A u \in Threads, g \in dropped : ~Holds(u, g)
      BY DEF Inv, NoUseAfterDrop
    <3>2. \A u \in Threads, g \in Handles : Holds(u, g)' => u # t /\ Holds(u, g)
      BY <2>3, <2>4 DEF Holds
    <3>3. dropped' \subseteq Handles /\ \A g \in dropped' : g \notin registered'
      BY <2>1, <2>2, <2>5 DEF Inv, NoUseAfterDrop, TypeOK
    <3> QED BY <2>2, <3>1, <3>2, <3>3 DEF NoUseAfterDrop, Holds
  <2> QED BY <2>5, <2>6, <2>7, <2>8, <2>9, <2>10 DEF Inv
<1>10. ASSUME NEW h \in Handles, RuntimeGone(h) PROVE Inv'
  <2>1. UNCHANGED <<nextHandle, registered, thread, dropped, stopped>>
    BY <1>10 DEF RuntimeGone
  <2>2. TypeOK'
    BY <1>a, <1>10 DEF RuntimeGone, TypeOK
  <2> QED BY <2>1, <2>2 DEF Inv, HandlesBelow, References, Filled, HandleIsFresh,
          NoUseAfterDrop, Holds
<1> QED BY <1>1, <1>3, <1>4, <1>5, <1>6, <1>7, <1>8, <1>9, <1>10 DEF Next

(* The invariant holds in every reachable state.                             *)
LEMMA InvHolds == Spec => []Inv
BY InitInv, NextInv, PTL DEF Spec

(* The handles in the registry, the endpoints behind them and the references  *)
(* the callers hold always have the shape the start, lookup, remove and drop  *)
(* code assumes.                                                              *)
THEOREM RegistryTypeCorrect == Spec => []TypeOK
<1>1. Inv => TypeOK
  BY DEF Inv
<1> QED BY InvHolds, <1>1, PTL

(* Drop never runs on an endpoint that the registry or a thread inside a     *)
(* call refers to, however stops, polls and sends race.                      *)
THEOREM DropIsLast == Spec => []NoUseAfterDrop
<1>1. Inv => NoUseAfterDrop
  BY DEF Inv
<1> QED BY InvHolds, <1>1, PTL

(* The handles threads are given are new and differ from one another.        *)
THEOREM HandlesAreFresh == Spec => []HandleIsFresh
<1>1. Inv => HandleIsFresh
  BY DEF Inv
<1> QED BY InvHolds, <1>1, PTL

(* Once remove has answered ok for a handle, no later lookup or remove gets  *)
(* hold of its endpoint.                                                     *)
THEOREM StaleHandlesStayDead == Spec => StaleHandleStaysDead
<1> DEFINE Dead == \A t \in Threads :
                     /\ thread'[t].stage = "holding" /\ thread[t].stage # "holding"
                     => thread'[t].handle \notin stopped
<1>1. Inv /\ [Next]_vars => [Dead]_vars
  <2> SUFFICES ASSUME Inv, Next, NEW t \in Threads,
                      thread'[t].stage = "holding", thread[t].stage # "holding"
               PROVE  thread'[t].handle \notin stopped
    OBVIOUS
  <2>1. \E h \in registered : thread'[t].handle = h
    <3>1. ASSUME NEW u \in Threads, NEW r, r.stage # "holding",
                 thread' = [thread EXCEPT ![u] = r]
          PROVE  FALSE
      BY <3>1 DEF Inv, TypeOK
    <3>2. \A status : Outside(status).stage # "holding"
      BY DEF Outside
    <3>3. ASSUME NEW u \in Threads, NEW h \in Handles,
                 Lookup(u, "poll", h) \/ Lookup(u, "send", h) \/ Remove(u, h)
          PROVE  h \in registered /\ thread'[t].handle = h
      <4>1. h \in registered
        BY <3>1, <3>2, <3>3 DEF Lookup, Remove, Return
      <4>2. PICK op \in {"poll", "send", "stop"} :
              thread' = [thread EXCEPT ![u] =
                [Outside(None) EXCEPT !.op = op, !.stage = "holding", !.handle = h]]
        BY <3>3, <4>1 DEF Lookup, Remove
      <4>3. [Outside(None) EXCEPT !.op = op, !.stage = "holding", !.handle = h].handle = h
        BY DEF Outside
      <4> QED BY <4>1, <4>2, <4>3 DEF Inv, TypeOK
    <3>4. ASSUME NEW u \in Threads, NEW p \in Ports, StartBind(u, p) PROVE FALSE
      <4>1. [Outside(None) EXCEPT !.op = "start", !.stage = "bound", !.port = p].stage
              # "holding"
        BY DEF Outside
      <4> QED BY <3>1, <3>2, <3>4, <4>1 DEF StartBind, Return
    <3>5. ASSUME NEW u \in Threads, ConnectSession(u) PROVE FALSE
      <4>1. [Outside(None) EXCEPT !.op = "connect", !.stage = "bound",
                                  !.session = nextHandle].stage # "holding"
        BY DEF Outside
      <4> QED BY <3>1, <3>5, <4>1 DEF ConnectSession
    <3>6. ASSUME NEW u \in Threads, TakeHandle(u) PROVE FALSE
      <4>1. thread[u] \in Records
        BY DEF Inv, TypeOK
      <4>2. [thread[u] EXCEPT !.stage = "named", !.handle = nextHandle].stage # "holding"
        BY <4>1 DEF Records
      <4>3. thread' = [thread EXCEPT ![u] =
                         [thread[u] EXCEPT !.stage = "named", !.handle = nextHandle]]
        BY <3>6 DEF TakeHandle, Inv, TypeOK
      <4> QED BY <3>1, <4>2, <4>3
    <3>7. ASSUME NEW u \in Threads, StartFails(u) \/ Publish(u) \/ Release(u) PROVE FALSE
      BY <3>1, <3>2, <3>7 DEF StartFails, Publish, Release, Return
    <3>8. ASSUME NEW h \in Handles, RuntimeGone(h) PROVE FALSE
      BY <3>8 DEF RuntimeGone
    <3> QED BY <3>3, <3>4, <3>5, <3>6, <3>7, <3>8 DEF Next
  <2> QED BY <2>1 DEF Inv, References
<1> QED BY InvHolds, <1>1, PTL DEF Spec, StaleHandleStaysDead
=============================================================================
