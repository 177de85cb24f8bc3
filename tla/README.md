# rk-quic: TLA+ models, checks and proofs

rk-quic is a WebTransport endpoint for Dart: a Rust library (`rust/src`) that
owns the QUIC sockets and the sessions, a C ABI over it, and a Dart package
(`lib/src`) that calls it from isolates of its own.  This directory models the
parts whose behaviour depends on the order in which tasks, threads, isolates
and peers take their steps.  Paths below are relative to the repository.

## 1. The system

| component | state | operations | talks to |
|---|---|---|---|
| Endpoint (`transport.rs`) | `sessions`, `streams`, the event `sync_channel` | `next_event`, `send`, `stream_send`, `stream_close`, `open_stream`, `Drop` | callers through the registry; tasks through the shared maps and the channel |
| Session task (`accept_loop`'s spawned body, `connect`'s task, `session_loop`) | session id, place in the protocol | accept, register, announce, one `select!` turn, forget, announce the end | maps, queue, reader tasks |
| Reader task (`read_bi_stream`) | the receiving half | read to the end, `streamData`, `streamClosed` | queue |
| Registry (`registry`, `next_handle`, `lookup`, `remove`, `start`, `connect`) | handle map, counter, `Arc` references, sockets | start, connect, lookup, stop, release | every C ABI call |
| C ABI (`server_ffi.rs`, `client_ffi.rs`, `ffi.rs`, `lib.rs`) | last error per thread, strings handed out | one function per operation | registry, endpoint, Dart |
| Command channel (`endpoint_io.dart`) | `_pending`, `_nextId`, two ports | `send`, reply listener, `dispose`, `_commandLoop` | C ABI; `QuicServer`, `QuicClient` |
| `QuicServer`, `QuicClient` (`server_io.dart`, `client_io.dart`) | `_stopped`, the event port and its broadcast stream | start or connect, calls, stop or close, listen | command channel, poll isolate |
| Poll isolate (`pollLoop`) | none | poll, forward, leave | C ABI, event port |
| Start-up (`loader_io.dart`, `config.rs`, `client_config.rs`, `identity_from`, `bind_status`, `connect_status`) | none that changes | find the library, check a configuration, classify a failure | every isolate of an endpoint; `start`, `connect` |
| Status names, event JSON, bindings, web stubs, header, build | none that changes | pure functions, tables, scripts | |

What is hard here, and what makes each part correct:

* **Endpoint and its tasks.**  The two maps and the queue are three locks, each
  held for one statement; a caller keeps a cloned connection or stream after
  the lock is gone; a session's task, the readers of its streams and any number
  of callers run at once; the queue is bounded and loses events.  Correct means:
  after `sessionClosed` was read nothing is accepted; a call works on its own
  session; an announced stream can be answered; a stream is closed once; events
  come in the documented order; a peer that vanishes is reported; a question
  is delivered; calls on closed connections return; stopping tells the peers.
* **Registry.**  Calls in flight hold references while another thread stops the
  endpoint.  Correct means: no use after `Drop`, stopping frees in the end,
  handles are never reused, a stopped handle stays dead.
* **Isolates.**  Calls overlap, the worker blocks in native calls, and `stop`
  kills isolates.  Correct means: every future completes, with its own answer;
  nothing is orphaned; nothing uses the handle after the stop; the poll isolate
  ends; a listener hears every event in order, however late it comes.
* **C ABI.**  A failure is told in two calls, through a slot of the thread, while
  isolates share threads; strings are allocated on one side and handed back by
  the other; a kill may fall between two calls.  Correct means: a detail
  explains its own call; no string is freed twice, used after it was freed, or
  forgotten; and what leaves the queue is heard in order and unchanged, but for
  one event that a kill or a panic may cost.
* **Start-up.**  Three isolates look for the library; a configuration is checked
  in Dart, by serde, by `parse`, by the QUIC library and by the socket.  Correct
  means: an endpoint starts exactly when nothing is wrong with its setup, a
  refusal tells of a fault that is there, and nothing is bound for a setup that is
  at fault in itself.
* **Two endpoints together.**  A question and its answer cross two tasks, two
  readers, two queues and two applications, and either end or the network may go
  in between.  Correct means: an answer that is read belongs to a question that
  was read whole, a question is answered, neither end believes in a session the
  other never saw, and a stop is heard.

## 2. Modules

| module | models |
|---|---|
| `EventKinds` | the events, as kinds and ids |
| `Endpoint` | one live endpoint, server or client (`Role`) |
| `EventLog` | abstract: what an endpoint promises about its events |
| `EndpointLog` | the mapping by which `Endpoint` implements `EventLog` |
| `Exchange` | a client endpoint and a server endpoint, two instances of `Endpoint`, that talk to each other |
| `Registry` | the life of all endpoints of a process |
| `Startup` | finding the library, checking a configuration, failing to start or connect |
| `Isolates` | the Dart half of one endpoint, from its start on; extends `Startup` |
| `Futures` | abstract: what the object promises about the futures it hands out |
| `Boundary` | what crosses the C ABI: details, strings, events |
| `ClientConfig` | the validation of a client's configuration |
| `MCEndpoint`, `MCExchange`, `MCRegistry`, `MCIsolates`, `MCBoundary` | what TLC is run on; symmetry sets, the view of the endpoint runs, the setups to start with, one event of every variant |
| `EndpointProofs` | types and session ownership, both roles |
| `EndpointCloseProofs` | single close of a stream, the streams, sessions and messages the caller was told of, both roles; late calls on a server |
| `EventLogProofs` | the order of events in the abstract `EventLog` |
| `EndpointLogProofs` | `Endpoint` implements `EventLog`, and so keeps its order |
| `ExchangeProofs` | questions and answers between two endpoints |
| `RegistryProofs` | types, references and handles |
| `IsolatesProofs` | calls and futures, the way of the events, what a start answers; `Isolates` implements `Futures` |
| `BoundaryProofs` | details, strings and events across the C ABI |

`PROJECT.json` maps every definition to the lines it stands for.  A definition
whose comment begins with "Mutant" is a broken variant of the definition it
precedes: substituting it must make the named property fail.

### Endpoint

`task[c]` is the program counter of the task of connection `c`, split wherever
another task or thread can run: `Incoming`, `AcceptRequest` or `Reject`,
`Register` (number and map entry), `AnnounceOpened`, the branches of `select!`
(`ReceiveDatagram`, `AcceptUni` with `ReadUni`, `AcceptBi` with
`AnnounceStream`, `LoopReturns`), then `ForgetSession`, `ForgetStreams`,
`AnnounceClosed`.  A client's `Connect` does the first part in one step,
because the endpoint is not in the registry yet and nobody can look; its task
has no `ForgetStreams`, as in the source.  `reader[c][k]` follows
`read_bi_stream`.  A caller is a record in `call`: a lookup (one locked
statement) and the rest of the call, with `LockHalf` for the tokio mutex around
a `SendStream`.  `emit` loses the new event when the queue is full, as
`try_send` does.  `Drop` is two steps, because tasks go on while it runs.

A message is text or not text.  `seen`, `dropped`, `taken` and the field `late`
are history: what polls returned, what `emit` threw away, what `stream_close`
took, and whether a caller had read `sessionClosed` when it made its call.

External, modelled from its use: the peer (opens streams, ends its half, stops
reading, closes, vanishes) and wtransport (`conn`: live, vanished and not yet
noticed, ended, closed).  Between "ended" and "closed" receiving fails while a
write may still be taken.

Left out: poisoned locks (no code panics while holding one), the reason text,
flow control other than "a write may take for ever".

### EventLog and EndpointLog

`EventLog` has no tasks, maps or connections: a session is unborn, open or over,
a stream unborn, open, read or over, each step of such a life offers one event
to a queue of `Depth`, and an event that finds it full is lost.  The mapping
reads the life of a session off the task that holds its id and the life of a
stream off its reader; queue, polled and lost events are the same variables.
`KeepsLog` is the abstract specification as a property of `Endpoint` in both
roles.  Besides order it says that nothing enters the queue which no step of a
life accounts for, and that only a full queue loses.  The silent case of
`StreamOpens` is `open_stream`, which announces nothing and whose stream may
come to be after its session has ended.

### Exchange

Both ends are instances of `Endpoint`; what `Endpoint` leaves to an arbitrary
peer happens here only when the other instance did it: `StreamArrives` needs a
stream opened by the client, `QuestionEnds` and `AnswerEnds` a half finished at
the other end, `ClientLeft` and `ServerLeft` a `Drop`.  `Partition` loses both
directions for good, `NeverConnects` is a handshake the server completed and the
client did not.  `Connected` needs no more of the server than the accepted
connection, so a client may ask before the server has registered its session.
The applications are those of `rust/tests/client_to_server.rs`: `Asks` waits for
`sessionOpened`, opens one stream and finishes its half, `Answers` finishes the
other half once it has read `streamData`.

### Registry

A thread between lookup and return holds a reference (`Holds`); `Remove` moves
the registry's reference to the stopping thread; `Release` gives one up and
runs `Drop` if it was the last; `RuntimeGone` is the end of
`shutdown_background`, after which the port is free.  Ports are taken from the
bind on.  A client's session takes a number from the handle counter as well.

### Isolates

Ports are sequences (they deliver in order), the command isolate takes the head
of its inbox, makes the native call and replies under the same id.  `Stop` is
the part of `stop` before its `await`, `Dispose` the part after.  A kill takes effect some
time later and not inside a native call (`Killed`); until then the poll isolate
goes on, and `PollerEnds` holds without it.  A poll that fails ends the loop,
with or without an event that the native side had taken (`PollEnd`).

`library` and `config` are chosen at the start: what each candidate path holds,
and a configuration together with what the host and the peer have in store for
it.  `Start` is `CommandChannel.spawn` and the first command, `RunStart` opens
the library once more in the command isolate and answers with what
`rk_quic_server_start` or `rk_quic_client_connect` answer.  Events are numbered
as they are polled; `port` is the `ReceivePort`, which keeps everything until
`asBroadcastStream` is first listened to (`Listen`), hands over in order from
then on (`Hear`), and drops what finds no listener left (`Cancel`).

`Futures` is the promise behind the calls: they are carried out one at a time,
in the order they were made, each future completes with the result of its own
call, and the closing call is the last.  `CallsInOrder` states it for `Isolates`
with `_pending` as the calls that wait and `native` as the results.

### Startup

A configuration says of every part what the checks tell apart: a chain is good,
unreadable, empty or unusable; a key also of a kind that is not read, or PKCS#8
only by its container, which nothing in the repository looks into and which makes
the library panic (`with_identity`); a hash is hex digits, digits and signs that
pass for them, cut in a character and so a panic, or any other text.  The idle timeout is a number of microseconds
that is truncated, compared and range-checked as in the code, and each stage is
a sequence of checks of which the first that fails decides.  `Servers` and
`Clients` are all of them.  `Faults` (in `Isolates`) lists what is wrong with a
setup without looking at these stages, and `Tells` the statuses that may tell of
each fault; `StartTellsWhy` compares the two.

### Boundary

A native call is one step that clears the slot of its thread, picks one of the
outcomes the entry point has and leaves a detail with those refusals that have
one; `guard` adds the panic.  A command is that call, `LastError` when it was
refused, `Copy` and `StringFree` of what came back, and `Answer`; a thread is
free for another isolate after it.  The poll isolate keeps its thread:
`PollEnter`, then `PollEvent`, `PollNothing` or `PollPanics`, and after an event
`Copy`, `StringFree`, `Post`.  A poll that found its endpoint may still return an
event after the stop; one that panics may have taken an event, and has when its
serialisation failed, which `popped` records.  `frees` counts how often each
string was handed back, so that a second time shows.  `Encode`
follows the serde attributes, `fromJson` the Dart factory; a JSON value carries
its type.  What the calls do to sessions and streams is in `Endpoint`.

### ClientConfig

`parse` and `parse_hash` over classes of characters, with lengths and slices in
bytes.  The hash is 2 bytes long here and 32 in the code.

## 3. Runs

| run | what it shows | bounds |
|---|---|---|
| `endpoint_callers` | `TypeOK`, `LateCallRefused`, `AnnouncedStreamIsKept`, `ClosedOnce` | 1 session, 1 stream, 2 callers, queue of 2 |
| `endpoint_peers` | `SessionEventOrder`, `LateCallRefused`, `AnswerReachesItsSession` | 2 sessions with datagrams and a connection on a wrong path, 1 caller |
| `endpoint_client` | `KeepsLog`, `AnnouncedIsTold`, `ClosedOnce`, `CallOnClosedReturns` for a client | 2 callers, 1 stream |
| `endpoint_live` | `KeepsLog`, `StreamEventOrder`, `SessionEventOrder`, `AnnouncedIsTold`, `VanishedIsReported`, `QuestionIsDelivered` | 1 session, uni and bi traffic, a queue of 2 that overflows |
| `exchange` | `AnswerHasQuestion`, `QuestionIsAnswered`, `BothSidesOpen`, `StopIsHeard` | 1 connection, 1 stream, 1 caller at each end, queues of 2, one of the two ends stops |
| `registry_life` | `TypeOK`, `NoUseAfterDrop`, `HandleIsFresh`, `StaleHandleStaysDead`, `StoppedIsFreed` | 3 threads, 1 port, 3 handles |
| `isolates_calls` | `TypeOK`, `StartTellsWhy`, `AnswerIsOwn`, `CallsInOrder`, `NoOrphans`, `NoCallAfterStop`, `EveryCallAnswered`, `HeardInOrder`, `EveryEventHeard`, `PollerEnds` | every configuration and every state of the library (one client that connects), 2 sends, 2 stops, 2 events; idle timeouts on both sides of each limit |
| `boundary` | `DetailIsOwn`, `StringsAreReturned`, `EventsArrive` | 2 endpoints, 2 threads, 4 calls, every entry point and event |

Why the bounds are enough to be interesting: two callers are what a race on one
stream takes; two sessions are what an answer to the wrong one takes; a queue of
two is full, empty and in between, and the events of one session already
overflow it; three threads are a poll, a stop and a start at once; two threads
for four isolates make them follow one another on each; two events are what it
takes to lose or swap one.  In `exchange` a single stream already crosses every
hand-over, and stopping both ends excuses every property.  `MaxIdle` is 60000 ms
instead of QUIC's 2^62 - 1, because TLC's integers have 32 bits; the checks
compare with it and nothing else depends on it.  The theorems
below remove the bounds where they apply.  `CHECK_DEADLOCK FALSE` is set
because endpoints, clients and tests do come to an end; the safety runs use a
view without `dropped`, which nothing reads.

Where the source and its documentation disagree, a run states what the text
says and TLC refutes it:

| run | text | what happens |
|---|---|---|
| `endpoint_overflow` | `transport.rs:41`, `:764`: the oldest event is dropped | the new one is dropped |
| `client_late_write` | `rk_quic.h:134`: a stream is unknown once its session ended | a client's task does not sweep its streams; they stay in the map |
| `client_hash` | `client_config.rs:115`: 64 hex characters, or a sentence saying why not | a sign passes for a digit, and a wide character panics |
| `library_linked` | `native_probe.dart:64`: usable means calls may be made; `endpoint_io.dart:410` | a library linked into the host passes the probe, but the helper isolates open its placeholder name as a file and answer `unsupported` |

Met while modelling, not worth a run of their own:

* `rk_quic_server_stop` promises to free "everything it owns" (`rk_quic.h:81`);
  a thread inside a poll or a send keeps the endpoint, and its port, alive a
  little longer.  `StoppedIsFreed` says that it ends.
* `transport.rs:429-431` wants session ids of client and server from one
  counter; a server counts from 1 on its own, so the same number may name one
  session on each side of a process.
* `config.rs:94` puts the cheap scalar checks before the certificates; the upper
  end of the idle timeout is checked by the QUIC library, after the identity.
  `StartTellsWhy` leaves that one case out.
* "Every session is closed before the runtime goes" (`transport.rs:188`): `Drop`
  drains the map once, and a session that a task registers afterwards is closed by
  nobody.  `AnnouncedIsTold` speaks only of sessions whose opening was polled,
  which are in the map by then; what becomes of the others is `StopIsHeard`, by
  which the peer finds out at the latest by its idle timeout.
* A private key that is PKCS#8 only by its container, or does not fit the chain,
  passes every check of the repository (`transport.rs:572`) and ends in `panic` at
  `.with_identity`, without a detail, as a certificate hash cut in a character does.
* `bindings_io.dart:166` calls `takeLastError` the only place that frees a native
  string; the poll isolate frees its own (`endpoint_io.dart:78`).
* `QuicServer.stop` "frees everything it owns" (`server_io.dart:224`), but nothing
  closes the event port: `events` never ends, and what a caller who never listens
  was sent stays.
* `loader_web.dart:19` has ABI generation 1 where `loader_io.dart:18` has 2.

### Fairness

Assumed: the tokio runtime polls every ready task (`Proceed`, `LoopReturns`,
`Reader`: weak); `select!` picks among its ready branches at random, so a stream
that is ready at every turn is taken (`AcceptBi`: strong); QUIC closes a silent
connection after `max_idle_timeout`, and an ended one soon (weak); the poll
isolate keeps polling (weak); a tokio mutex serves its waiters in order, and an
operation on a closed connection fails (strong, only for calls whose connection
is closed).  A poll and a stop return, a runtime that was shut down goes, every
isolate goes on with what it received.  Not assumed: anything of the peer, and
that a write on a connection that is not closed returns (in `Exchange` the other
end is modelled and does deliver, so there it does).  `StoppedIsFreed` and
`EveryCallAnswered` therefore name the send that waits for its peer as the one
exception.

`Exchange` adds that the network delivers while the connection lives and that
the server application answers what it reads.  Every step of its `Progress` can
be taken a bounded number of times in one behaviour (a session, a stream and
each event live once), so weak fairness of their disjunction is weak fairness of
each of them, and `AcceptBi` needs nothing stronger with a single stream.
Nothing makes a client connect or ask, a server accept, or an end stop.

## 4. Proofs

All for every value of the constants that satisfies the modules' `ASSUME`s.

* `TypeCorrect`, `AnswersReachTheirSession` (`EndpointProofs`).  `TypeOK` is not
  inductive by itself: a task that emits must have an id, and a call that
  finishes must hold a connection.  `Inv` adds `Ownership`: ids are given in
  order and once each (`IdsUnique`), readers run under an id
  (`ReadersNumbered`), both maps and every call in flight name a connection
  under its own id (`MapsOwn`, `CallsOwn`).  The second theorem is `CallsOwn`
  with `IdsUnique`.
* `LateCallsAreRefused` (`EndpointCloseProofs`), for `Role = "server"`.
  `ServerInv` adds that map entries belong to tasks that have not swept them
  (`MapsLive`), that a reported `sessionClosed` belongs to a task that is done
  (`ClosedIsDone`), and that no server call is `open_stream`.  A lookup under a
  closed session would find a connection with that id; ids are unique, so it is
  the one that is done, and that one has no entries.  For a client the property
  is false (`client_late_write`).
* `StreamsCloseOnce` (`EndpointCloseProofs`), both roles.  `TakenOnce`: a taken
  stream is not in the map and its reader is past the states from which it could
  be inserted again.
* `AnnouncedStreamsAreKept`, `DropTellsTheAnnounced` (`EndpointCloseProofs`),
  both roles.  Neither property speaks of the time before an announcement, so
  neither is inductive.  `Announced` adds that a stream whose reader has begun
  is in the map, taken or swept (`StreamsKept`), that what is reported had begun
  (`StreamsTold`, `SessionsTold`), that until `Drop` the session of a task in
  its loop is in the map (`LoopsMapped`), which is where `Drop` looks for it,
  and that a task leaves its loop only when its connection is over (`LoopsEnd`).
* `LogIsOrdered` (`EventLogProofs`): both event orders follow from `EventLog`
  alone.  `KnownIsLived` adds that nothing is queued or polled of a session or a
  stream that its life has not reached, so an event that must come first is
  never offered after one that must follow it.
* `EndpointKeepsLog` (`EndpointLogProofs`): the refinement `KeepsLog`, both roles.
  `IdsUnique` makes the life of a session, and that of a stream, that of one task
  and one reader (`SessionLifeIs`, `StreamLifeIs`); then every action of
  `Endpoint` is one step of `EventLog` or none, one lemma for each group of
  actions.  `RoleInv` says that only a client opens streams and that its task is
  never seen between entry and announcement.  `StreamsInOrder` and
  `SessionsInOrder` carry the two orders over from `LogIsOrdered`.
* `AnswersHaveQuestions` (`ExchangeProofs`).  Every step of `Exchange` is a step
  of either end, of both or of none (`EndsStep`), so each end keeps what
  `EndpointCloseProofs` proves of an endpoint by itself, instantiated once for
  each (`EndsHold`): ids are unique, and `streamData` is reported only of a message
  its sender has ended (`DataTold`).  Between the ends, what one reads as a message
  the other has finished (`MessagesAreWhole`), and the server's half is finished,
  or about to be, only where the question was polled (`AnswersAreOwed`).
* `RegistryTypeCorrect`, `DropIsLast`, `HandlesAreFresh`, `StaleHandlesStayDead`
  (`RegistryProofs`).  `Inv` adds that every handle in use lies below the
  counter, that `registered` and `stopped` are disjoint, that only stopped
  endpoints drop and only handles that were registered are held.
* `IsolatesTypeCorrect`, `FuturesGetTheirOwn`, `DisposeOrphansNothing`,
  `NoSendOnDeadHandle`, `CallsKeepTheirOrder` (`IsolatesProofs`), for any number
  of calls.  `ChannelInv` reads `replies`, `inbox` and `pending` as one run of
  consecutive ids: the replies begin with the oldest id that waits, the envelopes
  follow without a gap, and every id from the oldest to `nextId` has one completer
  (`Chain`); a reply under an id carries the native result of that completer's
  call (`Replies`); a stop is the last call posted, and the handle is dead exactly
  when a stop was carried out (`ObjectInv`).  The refinement of `Futures` is one
  step of it per action.
* `EventsHeardInOrder` (`IsolatesProofs`), for any number of events.  `EventInv`:
  what was heard is 1, 2, 3 and so on, the port continues it up to the last event
  posted, and the poll isolate holds, or has lost in its end, at most one more.
* `StartNamesTheCause` (`IsolatesProofs`), for every integer as the idle timeout
  and every `MaxIdle` from 1000 on, so for QUIC's too.  `FirstOfThen` says
  that of two sequences of checks one after the other the first decides unless it
  finds nothing; with it each stage of `start` and `connect` is summed up in one
  conditional and the stages are put together (`ServerStartIs`, `ClientConnectIs`);
  the cases are then held against `Faults` and `Tells`.
* `ErrorsAreExplained`, `StringsAreFreedOnce`, `EventsCrossUnchanged`
  (`BoundaryProofs`), for any number of endpoints, threads and calls and for
  events with any ids and texts.  `BoundaryInv`: no thread runs two turns and no
  call belongs to two isolates (`Apart`); between the return of a native call and
  the reply its detail is in the slot of the thread, then on the heap, then in the
  isolate (`CommandTurn`); the same for the last event polled, and what Dart has
  heard is what was polled, encoded and decoded (`PollTurn`).  `Apart` is what makes one
  isolate's turn leave the others' alone (`OthersUndisturbed`); it also has that no
  string was freed under the name of a call to come, so an isolate that frees the
  string it holds is the first to do so (`StayReturned`).  `Decoded` says that
  `fromJson` recovers every variant from what serde wrote.

The assumptions on the constants: sizes are naturals, the sets of calls are
disjoint, the absent value is none of the values it stands beside, setups are
configurations (with any integer as idle timeout), and events have the fields of
their variant with values of the fields' types.  TLC evaluates each of them in
the runs.

Only model-checked: the properties under fairness (`VanishedIsReported`,
`QuestionIsDelivered`, `CallOnClosedReturns`, `StoppedIsFreed`,
`EveryCallAnswered`, `PollerEnds`, `EveryEventHeard`, `QuestionIsAnswered`,
`BothSidesOpen`, `StopIsHeard`), because the prover has neither liveness nor
`ENABLED`.  Every safety property of a passing run is a theorem.

## 5. Not modelled, and the plan

Not modelled: the contents of certificates and messages, the dual-stack flag of
a socket (no state, no outcome of its own), error text, null out-pointers, the
web stubs (they answer `unsupported` and keep nothing), the header's
declarations and the build.  Of the bindings only `takeLastError` does anything.

Next: the safety half of what is so far only checked as liveness, for every value
of the constants.  A session whose task is done is in neither map of a server and
has its `sessionClosed` queued, polled or dropped (behind `VanishedIsReported`); a
completer is always ahead of a reply, an envelope or the call the worker is in
(behind `EveryCallAnswered`); a stopped endpoint is held by a thread inside a call
or has been dropped (behind `StoppedIsFreed`).
