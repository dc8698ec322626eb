# A TLA+ verification of the asio cookbook programs

The repository is a set of small C++ programs written against asio (clients,
servers, samples of single techniques). Little of it is hard to read and much of
it is hard to test: completion handlers run in pools of threads, a user cancels
what is about to complete, objects delete themselves, servers are stopped while
clients are connected, and streams divide messages as they like. The modules
here model those parts; asio, the operating system and the peers are modelled
from how the programs use them.

Paths below are relative to the repository's `src/` (so `ch03/04` is
`src/ch03/04_Async_tcp_client_mt.cpp`).

## Inventory

| Component | Source | State | Operations | What makes it correct |
|---|---|---|---|---|
| Asynchronous TCP client | ch03/03, ch03/04 | map of active sessions and its mutex; per session: socket, error code, response, cancel flag and its mutex; work object; I/O threads | issue, cancel, close; connect, write and read handlers; `onRequestComplete` | every request is reported once and truthfully; no data race; no deadlock; a cancel takes effect; `close()` drains and returns |
| Asynchronous TCP server | ch04/03 | acceptor, stop flag, io_service, thread pool; per connection a `Service` on the heap | start, stop, accept handler, request and response handlers, `delete this` | no use after delete; accepting never stops by accident; every client served; every socket closed; `Stop()` returns |
| Synchronous TCP servers | ch04/01, ch04/02 | acceptor, atomic stop flag, one accepting thread, detached threads (parallel) | start, stop, accept loop, `HandleClient` | one client at a time (iterative), independence of clients (parallel), sockets closed on all paths, stop takes effect |
| Stream transfers | ch02/04 - ch02/09 | buffer, total transferred | write loop, read loop, callback chain, read until a delimiter | the message arrives whole, in order, once; a short stream is an error |
| Socket shutdown | ch02/11, ch02/12 | two half-closed streams | write, shutdown, read to end-of-file | each side knows where the other's message ends; no mutual wait |
| Cancelling a connect | ch02/10 | one operation, one worker thread | connect, cancel, join | the callback is called once with what is true, the worker ends |
| Connecting, binding, accepting | ch01/08, 10, 11, 12 | one socket each, and the port they share with ch02/10 - 12 | bind, listen, accept, resolve, connect | a port has one owner, who gives it back; whoever waits for another program gets an answer or an error |
| Synchronous TCP client | ch03/01 | one socket | connect, request, response, destructor | a response belongs to its request, errors are reported |
| Synchronous UDP client | ch03/02 | one socket | send_to, receive_from | a response belongs to its request |
| Endpoints, socket creation, resolvers | ch01/01 - 07, 09 | none that survives a call | create, open, bind | - |
| Buffers, logging | ch02/01 - 03, common | none | - | - |

Interaction: the programs of chapters 3 and 4 talk over TCP or UDP with a
request line and a response line. Inside a program the parts interact by calls
and through shared state under mutexes (client), through the io_service's queue
of handlers (client, asynchronous server), and through an atomic flag
(servers).

The behaviours that are hard, each with its line in `PROJECT.json` under
`hazards`: two mutexes taken in opposite orders; a flag read outside its mutex;
members with no mutex that only the chaining of operations protects; cancel
against a completion already queued, and against a read not yet started; reuse
of ids; exceptions that reach a destructor of joinable threads; `delete this`
with raw pointers in handlers; the accept chain on the error path; operations
pending at `stop()`; threads that cannot be created; flags looked at before a
blocking call; detached threads; partial reads and writes; messages that end with
the stream; several programs at one port; datagrams that are lost, late or
somebody else's.

## Modules

`AsyncTCPClient` (abstract: `RequestLifecycle`) - ch03/04, and ch03/03 with one
thread. `uiPc` is where the UI thread is in `emulateLongComputationOp`,
`cancelRequest` and `close`; `thPc[t]` and `thSession[t]` are where I/O thread
`t` is in a handler and on which session; `op[s]`, `opState[s]` describe the
asynchronous operation of the session (with the operating system, in the queue
with an error code, or in part done); the other variables carry the names of the
members. A step is the code between two points where another thread can
interfere: taking a mutex, starting an operation, touching shared members.
Mutexes are owner variables. `Callback` releases `m_cancel_guard` if
`SeenCancelled` left it locked, as the nested call in the source does. A failing
`open()` is the step `OpenFails`, after which nothing happens: std::terminate.
Two constants say what the user may do: `CancelTwice`, `ReuseIds`.

`AsyncTCPServer` (abstract: `TCPService`) - ch04/03. `mainPc` walks through
`Start`, `Stop` and destruction; `accept`/`acceptSock` are the accept operation
and the socket bound in its handler; `service[c]`, `op[c]`, `opState[c]` the
Service of connection c and its operation; `thPc`/`thConn` the pool threads. The
socket of a connection is a `shared_ptr`: besides the Service, the `onAccept`
that made it holds one until it is left (`sock[t]`, `Shared`), so that `delete
this` in one thread may leave the socket to the return of `onAccept` in another
(`OnFinish`, `ReturnFromAccept`). `m_isStopped` is read in one step and acted on
in the next, as in the source. `Destruction` drops pending handlers uncalled; it
happens when main has stopped the server (`Destroy`), and when the first thread
of the pool cannot be created (`SpawnFails`). When a later one cannot, the
joinable threads that exist terminate the program.

`SyncTCPServer` (abstract: `TCPService`) - ch04/01 and ch04/02, told apart by
`kind`. `runPc` is the thread in `Server::Run`, `handler[c]` the call of
`HandleClient` for c, made by that thread or by a detached one. `Accept` holds the
socket until it returns (`Return`), in the parallel server together with the
detached thread: whoever is last closes it. Exceptions that
leave `Run` are `RunThrows`: the program is terminated. `late` counts accepts
after the flag has been set (a history variable).

`StreamIO` - ch02/04 - ch02/09. A writer and a reader at the two ends of a
stream of bounded capacity; every operation transfers any number of bytes that
is possible, at least one. Initiating an operation captures the offset in the
buffer, and accounting for it is a separate step: the code after a blocking call
or the callback of an asynchronous one. Byte i of the message is the number i.
The connection may be reset at any time.

`LocalPort` - ch01/08, 10, 11, 12 and ch02/10 - 12, seven programs that all use
port 3333 of the local host. `pc[p]` is the next call of program p; `port`,
`backlog`, `peer`, `broken` are what the operating system knows of the port and
the connections. A client is connected when it is in the backlog, accepted or
not; when a program ends (`End`) it gives the port back and resets who is in the
backlog. The canceller of ch02/10 has a second thread and an operation (`op`):
the operating system may have a connection ("established") before the operation
completes in the worker, and `Cancel` aborts it then as well. `Casts` says which
programs are run together.

`SocketShutdown` (extends `LocalPort`; abstract: `Exchange`) - what the programs
of ch02/11 and 12 do once connected. A stream is the number of bytes written
(`sent`), read (`got`), and whether sending has been shut down (`shut`); since
bytes are neither lost nor reordered on a connection that stands, that is enough
to say how much of a message an end has. `took` records who has handled what it
read as a whole message. A program may be killed, which ends its stream as a
shutdown would, and a connection may be reset.

`SyncClients` - ch03/01 and ch03/02, told apart by `kind`. A message is the number
of the call it belongs to; `toServer` and `toClient` are what is on its way.
TCP delivers the first message of the queue and may be closed or reset; a datagram
may be lost, duplicated, overtaken, or come from a stranger, and a call on the UDP
socket may fail (`DatagramFails`). `emulateLongComputationOp`
is called up to `MaxCalls` times: main calls it once (the second call of ch03/02
is commented out), but the class is made to be called again, and only then can a
datagram be late. `Close` is the destructor; shutting down a socket that is not
connected throws, and an exception that leaves a destructor terminates the
program.

`MC*` modules instantiate these for TLC (and define the symmetry of the client's
safety runs, and the bound of the server's). `*Proofs` hold the theorems about the
module they are named after, with their proofs. Operators introduced by a comment
"Mutant:" are plausible mistakes, at least one for each property, that are used in
no specification; with such an operator in place of the one it names (`mutants` in
`PROJECT.json`), the property fails.

## Runs

| Run | Bounds | Shows |
|---|---|---|
| `client_any_user` | 2 threads, 2 sessions, 2 ids, 1 partial transfer; user cancels twice and reuses ids | type correctness, `CancelFlagRaceFree`, `SoleDriver`, `OutcomeMatchesCancel`, `CloseDrains`, and that the client implements `RequestLifecycle` |
| `client_one_thread` | 1 thread (ch03/03), 2 sessions; user cancels once, unique ids | `NoLockCycle`, absence of deadlock, `ActiveListed`; liveness: early cancels, answers, `close()` |
| `client_deadlock` | 2 threads, 1 session, user cancels twice | violation of `CancelReturns` |
| `client_lost_cancel` | 2 threads, 1 session | violation of `CancelTakesEffect` |
| `server_pool` | 2 threads, 3 connections, 1 accept failure, `ThirdBound`; a thread may not be created | all safety and liveness of the server, also for a client that waits while every thread of the pool is blocked in `ProcessRequest`; `TCPService` |
| `server_leak` | 1 thread, 1 connection | violation of `SocketsReturned` |
| `sync_servers` | both servers, 3 connections | all safety and liveness, `TCPService` |
| `sync_stop` | both servers, 1 connection | violation of `StopReturns` |
| `stream_whole` | 6 bytes, capacity 4, readers of 5 and 7 bytes, delimiter at 4 | integrity and completeness of transfers, both ends end |
| `stream_line` | 4 bytes, newline at 2, `\|` at 4 | violation of `LineRead` |
| `shutdown` | four casts of three or four programs, request of 3 bytes, response of 2, capacity 2 | `ExchangeKept` (implements `Exchange`), `RequesterAnswered`, `NobodyHangs`, `CallbackTruthful` |
| `sync_clients` | both clients, 3 calls, any loss, 1 duplicate, 1 stranger | `OwnAnswer`, `ErrorsReported`, `CallsEnd` |

Why the bounds are enough: the client's and server's properties relate at most
two threads and two sessions or connections (a thread that uses and one that
interferes; a session and another that took its id), and the theorems below hold
for any number. In the synchronous servers three connections let a third client
wait while one is handled and one is accepted late. `ClientServed` of the
asynchronous one is about a limit, the size of the pool, and needs one client more
than there are threads: two cannot keep a third waiting. The bound `ThirdBound` (in
`MCAsyncTCPServer`) keeps the third client apart from failing accepts, and from
the stopping of the server until its connection is closed; with two clients all
of these meet. One partial transfer puts an intermediate handler in
the queue, which is the only new case. The stream is longer than the buffer and
than one of the readers wants, and shorter than the other wants (as "Hello\n"
against MESSAGE_SIZE 7). The casts put every program of `LocalPort` next to the
two that talk or to a rival for the port: another server that may have it, another
client that may be accepted first, a server that binds and does not listen. The
request is longer than what fits on the way, so that the requester depends on
being read. With three calls a response can be late by one call or by two, and a
duplicate, or a stranger's datagram, shifts all that follow.

`CHECK_DEADLOCK FALSE` is set where the program can stop: in `client_any_user` and
`client_deadlock` the client can deadlock, which is the finding of the latter; in
`sync_clients` the UDP client waits for ever when a datagram has been lost. With
unique cancels the absence of deadlock between the client's two mutexes is
model-checked for one I/O thread, and the theorem `LockOrder` is for any number.

### Fairness

Threads that can go on do (weak fairness per thread: `std::thread` under a
preemptive scheduler), and the io_service's queue is served by some thread.
Connecting and sending complete or fail (the operating system's own timeouts).
Nothing makes a peer connect, send or answer, nor main or the user act: where a
property needs a peer to do so, it is an explicit premise (`ServerAnswers`,
`ClientsSend`; `ClientServed` of the parallel server takes it for the one client
that is to be served). The server of `SyncClients` answers what has reached it, as
the programs of chapter 4 do. No fairness is assumed of errors, resets or
failures, of a connect that nobody completes (only `Cancel` ends it), or of a
client that connects to a server that waits in accept: such a server may wait for
ever. A program that is gone takes no more steps, so the fair actions are
conjoined with its being there.

### What the violation runs show

1. `client_deadlock` - `cancelRequest` and a handler that has seen the flag take
   the two mutexes in opposite orders; a second cancel of the same id blocks the
   UI thread for ever. `NoLockCycle` and its theorem say that the second cancel
   is necessary: the first holds the map's mutex until the flag is set, and the
   flag must be set for the handler to keep its guard.
2. `client_lost_cancel` - a cancel between the last look at the flag and the
   start of the read is forgotten. `EarlyCancelTakesEffect` is what does hold.
3. `server_leak` - Services pending at `stop()` are never deleted.
   `SocketOwned` says that every socket has an owner before, who would close it.
4. `sync_stop` - `Stop()` waits for one more client.
   `StopReturnsAfterClient` and `StopTakesEffect` say that one is enough and
   that there is at most one.
5. `stream_line` - the comments of `readFromSocketDelim` speak of a newline, its
   code of `|`.

## Proofs

All theorems are of the form `Spec => []P`, `Spec => [][A]_vars` or
`Spec => Abstract!Spec` (two have a hypothesis on the user, see below) and are
proved for every value of the constants, from the assumptions named in the
modules: the sets of threads, sessions and connections are disjoint from the
null values, there is a thread, the kinds and casts are of the programs there
are, lengths and capacities are natural numbers, positive where a message cannot
be empty. `NoMutualWait` and `NeverTakenBack` are defined beside their proofs
and checked by no run. Nothing needs
the sets to be finite.

*Client.* None of the safety properties is inductive. That the unguarded read of
`m_was_cancelled` is safe (`RaceFreedom`) depends on the session being out of the
map; that depends on who can have put it there; and all of it depends on there being
one handler per session. The invariant `IInv` names these: `UiInv`/`ConnectInv`
(what the UI thread holds where), `ThreadInv` (a thread has a session exactly inside
a handler), `OpInv` (operation and its state agree), `ChainInv` (an operation or a
handler, never both), `GuardInv` (who owns `m_cancel_guard` and that the flag is
then set), `MapInv` (an entry points to an issued session with that id that is not
past its erasure), `UniqueInv` (one handler per session), `SockInv`, `OutcomeInv`
and `ExitInv` (an exited thread implies that no work is left). One lemma per action
shows that it preserves `IInv`; `Invariance` combines them, and the theorems
`TypeCorrectness`, `RaceFreedom`, `SingleDriver`, `TruthfulOutcome` and
`CloseDrained` follow. `LockOrder` assumes `~CancelTwice` and `Listing` assumes
`~ReuseIds`; `UiInv` and `UniqueInv` have a conjunct that is conditional on each.
`Refinement` maps every step to a step of `RequestLifecycle` or a stutter.

*Asynchronous server.* `ThreadInv` and `OpInv` say that a thread or an operation
that has a connection is its only user and that the Service is alive; `OwnerInv`
that a Service that is alive has such a user; `AcceptInv` that the accept chain is
unbroken and that the socket bound in its handler has no Service yet; `SockInv` that
an `onAccept` holds a socket alone and only until it is left; `ClientInv` that a
socket is open as long as its Service is alive or an `onAccept` holds it, which is
what `NoOrphan` needs. `ClientInv` and `ResponseInv` tie the phases of the
connection to these. `NoUseAfterDelete`, `AlwaysAccepting`, `NoOrphan` and
`Refinement` follow.

*Synchronous servers.* `MainInv` says in what order the main thread goes on and that
Run runs only in between; `LateInv` that Run, once it has taken a client after
`m_stop` was set, is not on its way to accept again, for the check of `m_stop` lies
between: that is what `OneLateClient` needs. `HandlerInv` puts Run of the iterative
server inside `HandleClient` whenever a handler is under way, from which
`OneAtATime` follows; it is vacuous for the parallel server, as it has to be.
`SocketOwned` (`OneOwner`) is inductive with these. `Refinement` maps each step to a
move of the one connection it is about; it is the abstract specification of the
asynchronous server, too.

*Socket shutdown.* The invariant is about seven programs and any cast of them.
`PcInv` gives each program its own calls. `PeerInv` says that only who has called
connect is connected, that a client is in the backlog once or has been accepted
by one server, never both, and that a server has a peer only after accept; the
lemmas `EndConnections`, `AppendConnections` and
`AcceptConnections` say once what the three operators that change connections do
to it. `WorkerInv` and `OutcomeInv` say how the canceller's two threads and its
operation follow each other and what the callback can have been told
(`CallbackOnce`). `ShutInv` ties a shutdown to a message that has been written in
full, `TookInv` an end that believes it has the whole message to a partner who
has shut down or is gone, and `CauseInv` a program that has failed to a reason.
In `Refinement` a step of the exchange is mapped to the step of `Exchange` it is
named after; `accept` of the wrong client, and the death of a talker, are the two
steps after which `Exchange` promises less, and every other step is a stutter.
What the mapping says in the state before and after the step is the lemma
`SameView`, so that the two dozen actions that leave it alone need only that.

`NobodyWaitsForTheOther` is the part of `NobodyHangs` that needs no fairness: the
requester and the responder are never both blocked, one in a read of an empty
stream that has not ended, the other in such a read or in a write without room.

*Streams.* Byte i of the message is the number i, and so is a place. `CountInv`
says that every operation starts where the one before it has stopped, counting
the one that has completed and has not been accounted for; `BytesInv` says of each
byte in the buffer and on its way that it is in its place, and that there are no
others; `MessageInv` what a reader that is done has found. Each operator of the
model that cuts or joins sequences has a lemma (`JoinProperties`, `SliceProperties`,
`SplitProperties`, `FilledProperties`, `DelimProperties`). `NothingLost` then says
that the sequences are equal. `ReadsBehind` is an action property: what has been
received stays as it is.

*Synchronous clients.* `CallInv` counts the answers against the calls. `QueueInv`
says that, as long as every datagram is genuine, what is on its way is of the
call under way, that there is at most one such message, and none when a call
begins: a lost message leaves the call waiting, and nothing for a later call to
find. `AnswersMatch` follows for any number of calls; `ExitCodeTruthful` from
`CallInv`.

Each `IInv` has been model-checked as an invariant before it was proved, on the
constants of the runs and, where they are more, on others: three connections,
all casts of up to four programs, delimiters present and absent.

*Only model-checked:* all liveness and, with it, everything that depends on
fairness or on the absence of deadlock, since the prover has no ENABLED
(`EarlyCancelTakesEffect`, `EveryRequestAnswered`, `CloseReturns`, `ClientServed`,
`StopReturns` of the asynchronous server, `StopReturnsAfterClient`, `Delivered`,
`BothEnd`, `NobodyHangs`, `RequesterAnswered`, `CallsEnd`), and the violation
runs. Every invariant and every refinement that a run checks is a theorem.

## Not modelled

The samples of chapter 1 that make one object and the buffer samples
(straight-line code), logging, the text of requests and responses (so neither
that ch03/02 cuts a response to six bytes, nor what ch02/09 logs of a buffer that
is not ended by a zero), the exit statuses of ch02/04 - 09, allocation failure,
exceptions other than those named (`cancel()` in ch02/10 and the `close()` of the
acceptor in ch04/03 throw only for a descriptor that is not open, and theirs
are), asio's internals (a data race inside a socket
object that two threads use at a time). The lifetime of the `Session` of
ch02/06 - 09 hangs on one `shared_ptr` bound into the callback; nothing interferes
with it, and in a model it would hold by its shape. The client's
constructor counts to `num_of_threads` in eight bits, and does not end for 255;
the model begins with the pool as it is when the constructor has returned.

Some hazards the code is exposed to are in the models as steps, while no property
covers them, because the code does not promise anything there: an id that is used
twice, an `open()` that throws while requests are outstanding, an exception that
leaves `Run`, a detached thread that is cut off when main returns, datagrams that
are lost, late or a stranger's, a destructor that throws. The properties nearest to
them except these cases; `hazards` in `PROJECT.json` has a note on each.

## Plan

Done, in this order: the client with its abstract specification and proofs, the
asynchronous server with its own, the synchronous servers, the streams, the
programs at port 3333 with `SocketShutdown`, the synchronous clients.

All invariants and refinements of the runs are proved. Left are results no run
asks for yet:

1. `LocalPort`: that somebody listens as long as a client is in the backlog, so that
   no client is left there by a server that has gone.
2. The safety part of the liveness properties where it says most: whom a thread of
   the servers can wait for, and whom `close()` of the client can.
