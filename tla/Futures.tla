------------------------------ MODULE Futures ------------------------------
(***************************************************************************)
(* What a QuicServer or QuicClient promises about the futures it hands     *)
(* out: calls may overlap, but they are carried out one after another in   *)
(* the order they were made, each future completes with the result of its  *)
(* own call and in that order, and once the closing call is made nothing   *)
(* further is carried out.  Isolates implements this.                      *)
(***************************************************************************)
EXTENDS Naturals

CONSTANTS
  Calls,
  Opening,      \* the call the others have to wait for
  Closings,     \* the calls that close the door behind them
  Statuses,     \* what a call can come to
  None

VARIABLES
  next,         \* number of the next call
  waiting,      \* calls that have no answer yet: pairs <<number, call>>
  result,       \* what was carried out, and with which status
  answer,       \* what each future completed with
  closing       \* the door is closed

vars == <<next, waiting, result, answer, closing>>

Unasked(c) == answer[c] = None /\ \A p \in waiting : p[2] # c

Ask(c) ==
  /\ Unasked(c) /\ ~closing
  /\ c = Opening \/ answer[Opening] = "ok"
  /\ waiting' = waiting \cup {<<next, c>>}
  /\ next' = next + 1
  /\ closing' = (c \in Closings)
  /\ UNCHANGED <<result, answer>>

\* Answered on the spot: the door is closed, or there is nothing to open.
TurnAway(c) ==
  /\ Unasked(c) /\ (closing \/ c = Opening)
  /\ \E status \in {"notRunning", "ok", "unsupported"} :
       answer' = [answer EXCEPT ![c] = status]
  /\ UNCHANGED <<next, waiting, result, closing>>

CarryOut(p) ==
  /\ \A q \in waiting : q[1] < p[1] => result[q[2]] # None
  /\ result[p[2]] = None
  /\ \E status \in Statuses : result' = [result EXCEPT ![p[2]] = status]
  /\ UNCHANGED <<next, waiting, answer, closing>>

Complete(p) ==
  /\ \A q \in waiting : q[1] >= p[1]
  /\ result[p[2]] # None
  /\ answer' = [answer EXCEPT ![p[2]] = result[p[2]]]
  /\ waiting' = waiting \ {p}
  /\ UNCHANGED <<next, result, closing>>

Init ==
  /\ next = 0 /\ waiting = {} /\ closing = FALSE
  /\ result = [c \in Calls |-> None]
  /\ answer = [c \in Calls |-> None]

Next ==
  \/ \E c \in Calls : Ask(c) \/ TurnAway(c)
  \/ \E p \in waiting : CarryOut(p) \/ Complete(p)

Spec == Init /\ [][Next]_vars
=============================================================================
