------------------------------ MODULE Startup ------------------------------
(***************************************************************************)
(* What start and connect answer to what they are given: the search for    *)
(* the native library (lib/src/loader_io.dart), the checks of the          *)
(* configuration (rust/src/config.rs, client_config.rs) and the steps of   *)
(* transport::start and transport::connect that can fail, in their order.  *)
(* A configuration says of each part only what the checks tell apart; the  *)
(* text of the certificate hash is looked at in ClientConfig.              *)
(***************************************************************************)
EXTENDS Integers, Sequences, FiniteSetsExt

\* The largest idle timeout that QUIC can carry, in milliseconds.
CONSTANT MaxIdle

ASSUME StartupAssumption == MaxIdle \in Nat /\ MaxIdle >= 1000

-----------------------------------------------------------------------------
(* The native library.  A candidate is a file or the process image; it does  *)
(* not open, exports something else, another generation, or our functions.   *)

Found       == {"absent", "alien", "otherAbi", "ours"}
File(found) == [image |-> FALSE, found |-> found]
Image(found) == [image |-> TRUE, found |-> found]

\* defaultCandidatePaths: RK_QUIC_LIBRARY if it is set, then the name of the
\* platform; on Apple two of them and the process image, which always opens.
CandidateLists ==
  LET conventional ==
        {<<File(f)>> : f \in Found}
          \cup {<<File(f), File(g), Image(i)>> : f, g \in Found, i \in Found \ {"absent"}}
  IN conventional \cup {<<File(f)>> \o list : f \in Found, list \in conventional}

\* The first candidate that opens decides, usable or not.
probeNativeLibrary(candidates) ==
  LET opened == {i \in DOMAIN candidates : candidates[i].found # "absent"} IN
  IF opened = {} THEN [outcome |-> "libraryMissing", image |-> FALSE]
  ELSE LET first == candidates[Min(opened)] IN
       [outcome |-> CASE first.found = "alien"    -> "symbolMissing"
                      [] first.found = "otherAbi" -> "abiMismatch"
                      [] first.found = "ours"     -> "loaded",
        image |-> first.image]

isUsable(probe) == probe.outcome = "loaded"

\* _openBindings, on a helper isolate: the path the probe found is opened as a
\* file, which the name of the process image is not.
openBindings(candidates) ==
  LET probe == probeNativeLibrary(candidates) IN isUsable(probe) /\ ~probe.image

-----------------------------------------------------------------------------
(* Configurations, with what the host and the network hold in store for them *)

\* An "unusable" key is PKCS#8 by its container, and malformed or not the key of
\* the chain; a "good" one is taken by the library.
Servers(Idles) ==
  [kind : {"server"}, idle : Idles, bindAddress : BOOLEAN, path : BOOLEAN,
   chain : {"good", "unreadable", "empty", "unusable"},
   key   : {"good", "unreadable", "none", "notPkcs8", "unusable"},
   host  : {"good", "noRuntime", "portTaken", "cannotBind", "noAddress"}]

\* The hash, by how parse_hash fares with it: hex digits; digits and signs, of
\* which it makes bytes as well; a character cut in two before any other fault;
\* any other text.  A peer that is not good fails the connection, with the words
\* that the library's error is told apart by.
Clients(Idles) ==
  [kind : {"client"}, idle : Idles, url : BOOLEAN,
   hash : {"hex", "signed", "cut", "other"},
   host : {"good", "noRuntime", "cannotBind"},
   peer : {"good", "certificate", "tls", "handshake", "otherwise"}]

\* toJson: Duration.inMilliseconds truncates what was given in microseconds.
inMilliseconds(us) == IF us >= 0 THEN us \div 1000 ELSE -((-us) \div 1000)

\* The outcome of one check, and of checks made in turn: the first failure.
When(fails, status) == IF fails THEN status ELSE "ok"

FirstOf(checks) ==
  LET failing == {i \in DOMAIN checks : checks[i] # "ok"} IN
  IF failing = {} THEN "ok" ELSE checks[Min(failing)]

\* serde takes idle_timeout_ms for a u64; max_idle_timeout has a range.
Shape(c)     == <<When(inMilliseconds(c.idle) < 0,       "invalidArgument")>>
IdleRange(c) == <<When(inMilliseconds(c.idle) > MaxIdle, "invalidArgument")>>

\* Mutant: the certificates are read first.
parseCertificatesFirst(c) ==
  << When(c.chain \in {"unreadable", "empty"}, "badCertificate"),
     When(c.key \in {"unreadable", "none"},    "badCertificate"),
     When(~c.bindAddress,                      "invalidArgument"),
     When(~c.path,                             "invalidArgument"),
     When(inMilliseconds(c.idle) < 1000,       "invalidArgument") >>

\* ServerConfig::parse.
parse(c) ==
  << When(~c.bindAddress,                      "invalidArgument"),
     When(~c.path,                             "invalidArgument"),
     When(inMilliseconds(c.idle) < 1000,       "invalidArgument"),
     When(c.chain = "unreadable",              "badCertificate"),
     When(c.chain = "empty",                   "badCertificate"),
     When(c.key = "unreadable",                "badCertificate"),
     When(c.key = "none",                      "badCertificate") >>

\* Every certificate has to be usable; of the containers of a key only PKCS#8
\* is read.
identity_from(c) ==
  << When(c.chain = "unusable",                "badCertificate"),
     When(c.key = "notPkcs8",                  "badCertificate") >>

\* The library takes the identity or panics: with_identity returns no error.
with_identity(c) == <<When(c.key = "unusable", "panic")>>

\* A taken port is told apart from every other failure to bind.
bind_status(host) == IF host = "portTaken" THEN "portInUse" ELSE "bindFailed"

\* transport::start, as far as it can fail.
start(c) ==
  identity_from(c) \o with_identity(c) \o IdleRange(c) \o
  << When(c.host = "noRuntime",                "bindFailed"),
     When(c.host \in {"portTaken", "cannotBind"}, bind_status(c.host)),
     When(c.host = "noAddress",                "bindFailed") >>

rk_quic_server_start(c) == FirstOf(Shape(c) \o parse(c) \o start(c))

\* ClientConfig looks at the text itself.
parse_hash(c) ==
  CASE c.hash = "cut"   -> "panic"
    [] c.hash = "other" -> "invalidArgument"
    [] OTHER            -> "ok"

\* ClientConfig::parse.
clientParse(c) ==
  << When(~c.url,                              "invalidArgument"),
     parse_hash(c),
     When(inMilliseconds(c.idle) = 0,          "invalidArgument") >>

\* By the words in the text of the library's error.
connect_status(text) ==
  IF text \in {"certificate", "tls", "handshake"} THEN "badCertificate" ELSE "peerGone"

\* transport::connect, as far as it can fail.
connect(c) ==
  IdleRange(c) \o
  << When(c.host = "noRuntime",                "bindFailed"),
     When(c.host = "cannotBind",               "bindFailed"),
     When(c.peer # "good",                     connect_status(c.peer)) >>

rk_quic_client_connect(c) == FirstOf(Shape(c) \o clientParse(c) \o connect(c))
=============================================================================
