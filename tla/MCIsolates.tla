----------------------------- MODULE MCIsolates -----------------------------
(***************************************************************************)
(* Instances of Isolates for TLC.                                          *)
(***************************************************************************)
EXTENDS Isolates

\* Idle timeouts on both sides of every limit: negative, truncated to zero or
\* to 999 milliseconds, the shortest accepted, and more than the longest.
ServerIdles == {-1000, 999999, 1000000, (MaxIdle + 1) * 1000}
ClientIdles == {-1000, 999, 1000, (MaxIdle + 1) * 1000}

GoodServer ==
  CHOOSE c \in Servers({1000000}) : rk_quic_server_start(c) = "ok"

\* Every configuration with the library in place, and every other state of the
\* library with a good configuration.  Of the two hashes that parse_hash takes,
\* one is enough for a connection that succeeds: the one with signs in it.
EverySetup ==
  ({<<File("ours")>>} \X
     (Servers(ServerIdles)
        \cup {c \in Clients(ClientIdles) : c.hash = "hex" => c.peer # "good"}))
    \cup ({list \in CandidateLists : ~openBindings(list)} \X {GoodServer})

\* A library linked into the host.
LinkedIn == {<< <<File("absent"), File("absent"), Image("ours")>>, GoodServer >>}
=============================================================================
