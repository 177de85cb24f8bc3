----------------------------- MODULE MCEndpoint -----------------------------
(***************************************************************************)
(* Instances of Endpoint for TLC.                                          *)
(***************************************************************************)
EXTENDS EndpointLog, TLC

\* Caller threads are interchangeable (safety runs only).
CallerSymmetry == Permutations(Callers)

\* The safety runs do not look at what was dropped.
SafetyView ==
  <<task, id, nextSession, conn, uni, ask, reply, reader, sessions, streams,
    queue, call, phase, seen, taken>>
=============================================================================
