------------------------------ MODULE Registry ------------------------------
(***************************************************************************)
(* The life of endpoints (rust/src/transport.rs: registry, next_handle,    *)
(* lookup, remove, start, connect, Drop).  An endpoint is an Arc: the      *)
(* registry holds one reference, and so does every thread between its      *)
(* lookup and its return.  Whoever gives up the last one runs Drop, and    *)
(* the runtime that owns the socket is shut down in the background.        *)
(*                                                                         *)
(* An endpoint is named by its handle.  What happens inside a live         *)
(* endpoint is module Endpoint.                                            *)
(***************************************************************************)
EXTENDS Naturals

CONSTANTS
  Threads,      \* threads that call the C ABI
  Ports,        \* ports a server may be asked to bind
  MaxHandle,    \* bound on the process-wide counter
  None

Handles == 1..MaxHandle

ASSUME RegistryAssumption ==
  /\ MaxHandle \in Nat \ {0}
  /\ None \notin Handles \cup Ports

VARIABLES
  nextHandle,   \* NEXT in next_handle
  registered,   \* handles in the registry map
  thread,       \* what each thread is doing
  socket,       \* port bound by the endpoint of a handle, or None
  dropped,      \* endpoints whose Drop has run
  freed,        \* endpoints whose runtime is gone, their socket with it
  stopped       \* history: handles for which remove answered ok

vars == <<nextHandle, registered, thread, socket, dropped, freed, stopped>>

\* A thread outside any call, with the status its last call returned.
Outside(status) ==
  [op |-> "none", stage |-> "outside", handle |-> None, port |-> None,
   session |-> None, result |-> status]

Idle(t) == thread[t].op = "none"

Return(t, status) == thread' = [thread EXCEPT ![t] = Outside(status)]

\* A port is taken while a socket on it is open, in a registered endpoint, in
\* one still being built, or in one whose runtime has not gone yet.
Taken(p) ==
  \/ \E h \in Handles : socket[h] = p
  \/ \E t \in Threads : thread[t].port = p

\* The thread holds a reference to the endpoint of h.
Holds(t, h) == thread[t].stage = "holding" /\ thread[t].handle = h

-----------------------------------------------------------------------------
(* start and connect *)

\* The socket is bound, or the port is in use.  A configuration, certificate or
\* runtime failure before this point leaves nothing behind.
StartBind(t, p) ==
  /\ Idle(t)
  /\ IF Taken(p)
     THEN Return(t, "portInUse")
     ELSE thread' = [thread EXCEPT ![t] =
            [Outside(None) EXCEPT !.op = "start", !.stage = "bound", !.port = p]]
  /\ UNCHANGED <<nextHandle, registered, socket, dropped, freed, stopped>>

\* The local address cannot be read: everything built so far is dropped.
StartFails(t) ==
  /\ thread[t].op = "start" /\ thread[t].stage = "bound"
  /\ Return(t, "bindFailed")
  /\ UNCHANGED <<nextHandle, registered, socket, dropped, freed, stopped>>

\* connect succeeded on the wire (a failure leaves nothing behind); its session
\* id is the next handle number.
ConnectSession(t) ==
  /\ Idle(t)
  /\ nextHandle <= MaxHandle
  /\ nextHandle' = nextHandle + 1
  /\ thread' = [thread EXCEPT ![t] =
       [Outside(None) EXCEPT !.op = "connect", !.stage = "bound", !.session = nextHandle]]
  /\ UNCHANGED <<registered, socket, dropped, freed, stopped>>

\* Mutant: the counter is loaded and stored back later.
TakeHandleTorn(t) ==
  /\ thread[t].stage = "bound"
  /\ nextHandle <= MaxHandle
  /\ thread' = [thread EXCEPT ![t].stage = "named", ![t].handle = nextHandle]
  /\ UNCHANGED <<nextHandle, registered, socket, dropped, freed, stopped>>

\* next_handle: fetch_add.
TakeHandle(t) ==
  /\ thread[t].stage = "bound"
  /\ nextHandle <= MaxHandle
  /\ nextHandle' = nextHandle + 1
  /\ thread' = [thread EXCEPT ![t].stage = "named", ![t].handle = nextHandle]
  /\ UNCHANGED <<registered, socket, dropped, freed, stopped>>

\* The endpoint enters the registry and the call returns its handle.
Publish(t) ==
  /\ thread[t].stage = "named"
  /\ LET h == thread[t].handle IN
       /\ registered' = registered \cup {h}
       /\ socket' = [socket EXCEPT ![h] = thread[t].port]
  /\ Return(t, "ok")
  /\ UNCHANGED <<nextHandle, dropped, freed, stopped>>

-----------------------------------------------------------------------------
(* lookup, remove and what follows from giving a reference up *)

\* poll, send, stream_send, stream_close, open_stream: "poll" comes back by its
\* timeout, "send" may wait for its peer.
Lookup(t, op, h) ==
  /\ Idle(t)
  /\ IF h \in registered
     THEN thread' = [thread EXCEPT ![t] =
            [Outside(None) EXCEPT !.op = op, !.stage = "holding", !.handle = h]]
     ELSE Return(t, "unknownHandle")
  /\ UNCHANGED <<nextHandle, registered, socket, dropped, freed, stopped>>

\* Mutant: the map keeps its entry.
RemoveKeeps(t, h) ==
  /\ Idle(t)
  /\ \/ /\ h \in registered
        /\ stopped' = stopped \cup {h}
        /\ thread' = [thread EXCEPT ![t] =
             [Outside(None) EXCEPT !.op = "stop", !.stage = "holding", !.handle = h]]
     \/ /\ h \notin registered
        /\ Return(t, "notRunning")
        /\ UNCHANGED stopped
  /\ UNCHANGED <<nextHandle, registered, socket, dropped, freed>>

\* remove: the map's reference passes to the thread, which then drops it.
Remove(t, h) ==
  /\ Idle(t)
  /\ \/ /\ h \in registered
        /\ registered' = registered \ {h}
        /\ stopped' = stopped \cup {h}
        /\ thread' = [thread EXCEPT ![t] =
             [Outside(None) EXCEPT !.op = "stop", !.stage = "holding", !.handle = h]]
     \/ /\ h \notin registered
        /\ Return(t, "notRunning")
        /\ UNCHANGED <<registered, stopped>>
  /\ UNCHANGED <<nextHandle, socket, dropped, freed>>

\* Mutant: stopping destroys the endpoint whoever still uses it.
ReleaseDestroys(t) ==
  /\ thread[t].stage = "holding"
  /\ LET h == thread[t].handle IN
       dropped' = IF thread[t].op = "stop" THEN dropped \cup {h} ELSE dropped
  /\ Return(t, "ok")
  /\ UNCHANGED <<nextHandle, registered, socket, freed, stopped>>

\* Mutant: the registry's reference is leaked by the stop.
ReleaseLeaks(t) ==
  /\ thread[t].stage = "holding"
  /\ Return(t, "ok")
  /\ UNCHANGED <<nextHandle, registered, socket, dropped, freed, stopped>>

\* The thread's reference goes at its return; with the last one, Drop runs on
\* this thread.
Release(t) ==
  /\ thread[t].stage = "holding"
  /\ LET h == thread[t].handle
         last == h \notin registered /\ \A u \in Threads \ {t} : ~Holds(u, h)
     IN dropped' = IF last THEN dropped \cup {h} ELSE dropped
  /\ Return(t, "ok")
  /\ UNCHANGED <<nextHandle, registered, socket, freed, stopped>>

\* Mutant: the runtime is shut down by the stop itself.
RuntimeGoneEarly(h) ==
  /\ h \in stopped \ freed
  /\ freed' = freed \cup {h}
  /\ socket' = [socket EXCEPT ![h] = None]
  /\ UNCHANGED <<nextHandle, registered, thread, dropped, stopped>>

\* shutdown_background completes: tasks and socket are gone.
RuntimeGone(h) ==
  /\ h \in dropped \ freed
  /\ freed' = freed \cup {h}
  /\ socket' = [socket EXCEPT ![h] = None]
  /\ UNCHANGED <<nextHandle, registered, thread, dropped, stopped>>

-----------------------------------------------------------------------------
(* Specification *)

Init ==
  /\ nextHandle = 1
  /\ registered = {} /\ dropped = {} /\ freed = {} /\ stopped = {}
  /\ thread = [t \in Threads |-> Outside(None)]
  /\ socket = [h \in Handles |-> None]

Next ==
  \/ \E t \in Threads :
       \/ \E p \in Ports : StartBind(t, p)
       \/ StartFails(t) \/ ConnectSession(t) \/ TakeHandle(t) \/ Publish(t) \/ Release(t)
       \/ \E h \in Handles : Lookup(t, "poll", h) \/ Lookup(t, "send", h) \/ Remove(t, h)
  \/ \E h \in Handles : RuntimeGone(h)

Spec == Init /\ [][Next]_vars

(* Fairness.  A poll returns within its timeout (capped at 60 s), a stop      *)
(* never waits, and a runtime that was shut down goes.  A send may wait for   *)
(* its peer, so nothing is assumed of it.                                     *)
LiveSpec ==
  /\ Spec
  /\ \A t \in Threads : WF_vars(thread[t].op \in {"poll", "stop"} /\ Release(t))
  /\ \A h \in Handles : WF_vars(RuntimeGone(h))

-----------------------------------------------------------------------------
(* Properties *)

Records == [op : {"none", "start", "connect", "poll", "send", "stop"},
            stage : {"outside", "bound", "named", "holding"},
            handle : Handles \cup {None}, port : Ports \cup {None},
            session : Handles \cup {None},
            result : {"ok", "portInUse", "bindFailed", "unknownHandle", "notRunning", None}]

(* Every variable keeps its shape; an endpoint is freed only after Drop.      *)
TypeOK ==
  /\ nextHandle \in 1..(MaxHandle + 1)
  /\ registered \subseteq Handles /\ stopped \subseteq Handles
  /\ dropped \subseteq Handles /\ freed \subseteq dropped
  /\ thread \in [Threads -> Records]
  /\ socket \in [Handles -> Ports \cup {None}]

(* Drop never runs on an endpoint that the registry, or a thread inside a     *)
(* call, still refers to: a stop that races a poll or a send is no            *)
(* use-after-free.                                                            *)
NoUseAfterDrop ==
  \A h \in dropped : h \notin registered /\ \A t \in Threads : ~Holds(t, h)

(* A handle names one endpoint for ever: no two threads are given the same    *)
(* number, and none that was in the registry before is given out again.       *)
HandleIsFresh ==
  \A t \in Threads : thread[t].stage = "named" =>
    /\ thread[t].handle \notin registered \cup stopped \cup dropped
    /\ \A u \in Threads \ {t} : thread[u].stage = "named" =>
         thread[u].handle # thread[t].handle

(* A stopped handle stays dead: no later call resolves it, and a second stop  *)
(* of it is notRunning.                                                       *)
StaleHandleStaysDead ==
  [][\A t \in Threads :
       /\ thread'[t].stage = "holding" /\ thread[t].stage # "holding"
       => thread'[t].handle \notin stopped]_vars

(* Stopping frees: whatever races the stop, Drop runs and the socket is       *)
(* closed in the end, unless a send that waits for its peer stays inside.     *)
StoppedIsFreed ==
  \A h \in Handles :
    h \in stopped ~>
      \/ h \in freed /\ socket[h] = None
      \/ \E t \in Threads : Holds(t, h) /\ thread[t].op = "send"
=============================================================================
