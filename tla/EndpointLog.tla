---------------------------- MODULE EndpointLog ----------------------------
(***************************************************************************)
(* Endpoint implements EventLog: the life of a session is read off the     *)
(* task that holds its id, the life of a stream off its reader.            *)
(***************************************************************************)
EXTENDS Endpoint

\* A session is open from its announcement on and over with its last event.
SessionLife(s) ==
  CASE \E c \in Conns : id[c] = s /\ task[c] = "done" -> "over"
    [] \E c \in Conns : id[c] = s /\ task[c] \notin {"registered", "done"} -> "open"
    [] OTHER -> "unborn"

StreamLife(s, k) ==
  CASE \E c \in Conns : id[c] = s /\ reader[c][k] = "reading" -> "open"
    [] \E c \in Conns : id[c] = s /\ reader[c][k] = "closing" -> "read"
    [] \E c \in Conns : id[c] = s /\ reader[c][k] = "done" -> "over"
    [] OTHER -> "unborn"

SessionLives == [s \in SessionIds |-> SessionLife(s)]
StreamLives  == [s \in SessionIds |-> [k \in StreamIds |-> StreamLife(s, k)]]

Log == INSTANCE EventLog WITH session <- SessionLives, stream <- StreamLives

(* Whatever the tasks, readers and callers of an endpoint do, in both roles:  *)
(* the caller sees each session and stream live once and in order, loses      *)
(* events only to a full queue, and finds no event there that nothing in the  *)
(* life of a session accounts for.                                            *)
KeepsLog == Log!Spec

(* The order of the events of a stream, as EventLog states it, of what the    *)
(* session task and the reader task put into the queue.                       *)
StreamEventOrder == Log!StreamEventOrder

(* The order of the events of a session, as EventLog states it: none before   *)
(* its sessionOpened, and of session_loop's none after its sessionClosed.     *)
SessionEventOrder == Log!SessionEventOrder
=============================================================================
