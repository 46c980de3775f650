# RPyC in TLA+

TLA+ models of [RPyC](../src), remote Python objects over a symmetric
connection, with the TLC runs that check them and the proofs that TLAPS
checks. Source paths below are relative to `src/rpyc/`; every definition of the
modules that stands for code is listed with its lines under `map` in
`PROJECT.json`, every run under `runs`.

## 1. The system

Two processes share a **connection**. Either side may make a *request*; the
other dispatches it to a handler and answers with a *reply* or an *exception*.
Values that `brine` can serialize travel by value, all others by reference: the
sender keeps the object in `_local_objects`, the receiver gets a *netref*, and
every operation on the netref is another request. A thread that waits for an
answer serves the connection meanwhile, so requests nest in both directions.

| component | state | operations | meets |
|---|---|---|---|
| **send path** `core/protocol.py` `_send`, `core/channel.py`, `core/stream.py` | `_send_queue`, `_sendlock`, the stream | append, drain under a lock that is only tried; write frames in one or three writes; close on a failed write | every thread that requests or answers; netref destructors run by the garbage collector in the middle of it; `_cleanup` |
| **receive path** `core/protocol.py` `serve`, `_dispatch`, `core/async_.py` `wait` | `_recvlock` (re-entrant), `_recv_event`, `_request_callbacks` | poll and receive under the lock, dispatch, release and notify, sleep for the lock | handlers (which request and so serve again), unboxing (which may request HANDLE_INSPECT), timeouts, the end of the stream |
| **object references** `_box`, `_unbox`, `core/netref.py`, `lib/colls.py` | `_local_objects` with counts, `_proxy_cache` of weak references, `____refcount__` of each netref | count on boxing, count on unboxing or create a proxy, HANDLE_DEL from `__del__` | both sides; the garbage collector; threads that serve out of order |
| **closing** `close`, `_handle_close`, `_cleanup` | `_closed`, the channel, `_local_root`, `_HANDLERS` | tell the peer, clean up; clean up for the peer | every other part: it clears their state and releases their locks |
| **AsyncResult** `core/async_.py`, `async_request` | result, callbacks, expiry; `_request_callbacks` | request, deliver, wait, add a callback, expire | the receive path, the send path when it raises |
| **bound threads** `_serve_bound`, `_serve_temporary`, `_get_thread` | thread pool, per-thread deques, occupation counts | route a message to the thread it is for | both paths above |
| **framing** `Channel`, `SocketStream`, `PipeStream` | buffers | header, compression, chunks, poll, read exactly | send and receive path |
| **servers** `utils/server.py` | listener, `clients`, `active`, `_closed` | listen, accept, authenticate, serve, register, close | a connection per client, the registry |
| **ThreadPoolServer** | queue of active descriptors, `fd_to_conn`, poll object | poll inactive clients, serve in batches, drop | connections served by whichever worker |
| **registry** `utils/registry.py` | `services` with time stamps | register, unregister, query with pruning, list | servers and clients over UDP or TCP |
| **helpers** `utils/helpers.py` | background thread, async proxies | serve in the background, `timed`, `buffiter` | the receive path |
| **handlers** `_handle_*`, `core/netref.py`, `core/service.py` | the objects themselves, `_netref_classes_cache`, the configuration | the operations a netref turns into, and which attributes they may reach | boxing, and through it every part above |
| **brine, vinegar** | none | values and exceptions to bytes and back | boxing, framing |

What makes it hard, and what correctness means for each part:

* *Send path.* Calls from many threads, and from destructors that interrupt a
  call on its own thread, must produce whole frames in one order, and none may
  be left behind; nobody may wait for the lock, since its holder may be a
  suspended frame of the same thread.
* *Receive path.* One thread receives for all. No thread may poll for a message
  another has already received, or sleep with nobody left to wake it, and the
  re-entrant lock must be released as often as it was acquired on every path:
  reply, request, exception, failure, timeout, end of stream.
* *References.* The owner's count must equal the references that exist, in
  messages, half-finished unboxings, proxies and HANDLE_DELs; too low loses a
  live object, too high leaks it.
* *Closing.* Any thread at either side may close at any moment; afterwards
  everything is released, the service is told once, and nobody hangs.
* *AsyncResult.* A value is complete when it is seen; a callback runs once; a
  request that failed leaves nothing behind; an expiry always ends a wait.
* *Bound threads.* One thread receives; a callback runs in the thread whose
  request caused it, an answer goes to the thread that waits for it, and the
  receiving end is handed on before anybody sleeps without it.
* *A request.* An operation on a netref ends with what the same operation on the
  object itself would have ended with: value, exception or refusal, through any
  cut of its bytes, and nothing else has changed.
* *Servers.* `close()` comes back at any moment and ends the clients it has
  seen; a pool's connection is in one place at a time, and none starves.
* *Registry.* A server that is gone is not handed out for longer than the
  pruning timeout; one that is active is listed again after any loss.

## 2. The modules

| module | stands for | state ↔ code |
|---|---|---|
| `MessageChannel` | the abstract FIFO channel that the send path promises | `pending`, `sent`, `up` |
| `SendQueue` | `Connection._send`, `Channel.send`, `SocketStream.write`, the part of `_cleanup` that meets them | `queue` = `_send_queue`, `locked` = `_sendlock`, `wire` = the writes that reached the socket, `pc[c]` = line of a call, `outer[c]` = the call that a garbage collection interrupted |
| `Serve` | `serve`, `poll_all`, `_dispatch`, `sync_request`, `AsyncResult.wait`, `BgServingThread` at one side | `stack[t]` = the serve activations of a thread, `holder`/`depth` = `_recvlock`, `result`/`expired` = the AsyncResults, `inbox` = what the peer has sent, `bg` = the BgServingThread |
| `BoundServe` | the same with `bind_threads` | `occupation`, `remote`, `event`, `deque` = the fields of `_Thread`, `pool` = `_thread_pool`, `receiving` = `_receiving`, `peer` = the peer's threads and what they wait for |
| `RefCount` | boxing, unboxing, `__del__`, HANDLE_DEL, for one object | `slot` = the entry of `_local_objects`, `state`/`refcount`/`held` = the netrefs, `cache` = `_proxy_cache`, `toHolder`/`toOwner` = messages |
| `ConnClose` | `close`, `_handle_close`, `_cleanup`, the end of `serve_all`, at both sides | `closed`, `open`, `root`, `handlers` = the attributes, `requests` = HANDLE_CLOSEs in flight, `nested[t]` = the thread runs `_cleanup` for the peer |
| `AsyncResult` | one request from `async_request` to its result | `registered` = the entry of `_request_callbacks`, `isReady`, `isExc`, `obj`, `callbacks`, `ttl` = the fields |
| `Server` | the life of a `Server` of every class | `active`, `closed`, `clients`, `listener`; `apc` = where `start()` stands, `kpc[k]` = where a call of `close()` stands |
| `ThreadPool` | `ThreadPoolServer`, on top of `Server` | `conns` = `fd_to_conn`, `polled` = the poll object, `queue` = `_active_connection_queue`, `wpc`/`wfd`/`batch` = the workers |
| `Registry` | `RegistryServer`, the registrars, `_bg_register` | `services` with ages for time stamps, `net`/`backlog` = datagrams and connections, `tnext` |
| `Brine`, `Vinegar`, `Access`, `Netref` | serialization, exceptions by value, `_check_attr` and the overriders, `class_factory` and what an operation on a proxy turns into | operators, no state |
| `ByteSeqs` | packed integers and slices of byte strings | operators, no state |
| `Framing` | `Channel.send` and `recv`, the chunks of the streams | `out[s]` = the writes a side has still to make, `pipe[s]` = bytes on their way, `rd[s]` = the read a side is in; history: `coming[s]` = the packets sent to a side and not yet taken |
| `PacketChannel` | the two ends of a `Channel`, sending and receiving at the same time | the variables of `Framing` |
| `Python` | the objects, calls and exceptions of Python itself, as far as a request needs them; external but for `getmodule` | `objects` = what no operation changes of the objects; operators on them |
| `Request` | a program of operations on proxies, from the netref to the handler of the other side and back | `conn[s]` = a Connection (`_local_objects`, proxies, classes, the stack of pending requests), `heap` = the objects, `outcomes` |
| `Direct` | the reference for `Request`: the same program on the objects themselves, under the access rules of `docs/docs/security.rst` and `services.rst` | operators |
| `MC*` | symmetry, setups and values for TLC | |
| `*_proofs` | theorems | |

One action is one step that another thread can see between: a read of shared
state, a write, a lock operation. CPython's single list and dictionary
operations are atomic, `x += 1` on an attribute is a read and a write. Data are
abstracted: a message is named after its call, an answer is its kind, an object
is its reference count. `Request` is the other way round: one thread at a side
and whole handlers as steps, but real values and bytes. Before some operators
stands a *variant*, the same operator with a plausible slip (a dropped test, a
wrong order, an off-by-one); no action uses a variant. Substituting it shows
that the property it is paired with under `mutants` depends on the code being
as it is.

How the modules fit: `SendQueue` implements `MessageChannel`
(`ImplementsChannel`, a refinement under the mapping at the end of the module),
which is what `Serve`, `BoundServe`, `RefCount` and `ConnClose` assume of the
transport: FIFO until the channel goes down. `Serve` decides who delivers an
answer and when the receive lock moves; `AsyncResult` refines the single step
`Callback` of `Serve` into the writes of `__call__` and adds what `Serve` has no
use for (callbacks, failed sends). `ConnClose` takes the end of the stream that
`SendQueue` and `Serve` treat as an event and models both sides of it. `Request`
composes `Access`, `Netref`, `Vinegar`, `Brine` and `Framing` with the handlers;
`PacketChannel` takes `Framing` by itself, under every order of its steps; `Request`
extends it, and does these steps where it has no program.
`ThreadPool` extends `Server`, whose connections are requests that wait;
`Registry` has the part of a server that announces itself.

### SendQueue

A call appends its message, then loops: test the queue, try the lock, test the
queue again, pop, write, release. `Start(c, p)` with `p` a call is a garbage
collection inside `p` that runs a destructor: `p` is suspended until `c` is
done. A frame of `Large` takes three writes. A write fails at any moment and
closes the stream; `Unsendable` messages raise in `Channel.send` before
anything is written (`zlib.compress`, `struct.pack`). Closers run `_cleanup`:
close the channel, then release the lock whoever holds it.

### Serve

A thread is a stack of activations, because a handler, or the unboxing of a
reply with an unknown reference, makes a synchronous request that serves again.
Each activation goes through the lines of `serve`: enter under the condition's
lock, try the receive lock, sleep or recheck, poll, dispatch, release, notify.
A reply is unboxed and delivered with the lock held; a request or an exception
releases it first. A thread makes requests, loops (`serve_threaded`), polls
(`poll_all`, which does not wait for the lock) or is that of a
`BgServingThread`, which `stop()` joins and whose callback hears of the end of
the connection. The peer answers in any order, makes requests and may
disconnect.

### BoundServe

Every message carries the thread it comes from and the thread it is for. The
thread that receives handles it, puts it into another thread's deque, or, if it
is for nobody and the receiver is occupied, hands it to an idle thread of the
pool or a new one of the executor (`ServeTemporary`). Before it handles a
message it wakes the first of the pool to receive. The peer binds its threads by
the same rules, so a callback is sent to the thread whose request it works for.

### RefCount

`Box` counts at the owner, `StartUnbox`/`Lookup`/… are the steps of `_unbox`:
the cache lookup, the increment (read, write), or HANDLE_INSPECT, the new proxy
and its entry in the cache. A proxy that nobody refers to is finalized:
`__del__` reads its count and sends HANDLE_DEL; only then is its weak reference
cleared and the callback run that pops the cache entry. In a `single` setup the
holder interleaves these only where the code waits (HANDLE_INSPECT), which is
the LIFO nesting of activations up to renaming; a garbage collection inside
`_unbox` commutes with it. In the other, any thread runs anywhere, and a dying
proxy can be found in the cache and live on (`Resurrect`).

### ConnClose

A HANDLE_CLOSE is never answered, since its handler closes the channel first;
the caller sees the end of the stream or times out. While it waits it serves,
and may run `_cleanup` for the peer's HANDLE_CLOSE inside its own `close()`
(`nested`, `closing`). `_cleanup` is five steps; `AttributeError`s come from the
second `_cleanup` that finds `_local_root` or `_HANDLERS` gone. An end of
stream may overtake what the peer had sent, as a TCP reset does.

### AsyncResult

The requester registers, sends (or fails, with the request possibly on its way;
or leaves it to the holder of the send lock, on a channel that may be closed by
then and carries it no more) and sets the expiry; the deliverer unboxes the reply,
which may fail and leaves the entry where it is, pops the callback, tests the
expiry, writes
`_is_exc`, `_obj`, `_is_ready` in this order, runs the callbacks and empties the
list; waiters run `_waiting()` with its two reads of `_is_ready`; askers read
`error`, which reads `ready` first, which tests, polls and tests again; adders
test, then call or append. The connection may be closed and its callbacks
cleared.

### Server and ThreadPool

The main thread is in `start()`: `_listen`, then `accept` for as long as
`active`, then `close()`; another thread may call `close()` at any moment, also
before. `accept` adds the client to `clients` between its last test of `active`
and the dispatch to a thread, a child process, or the main thread itself.
`close()` copies `clients`, shuts them one by one and sets `_closed` last, so
two calls of it may run at once. A pool's connection goes by its file descriptor
from the poll object to the queue, to a worker and back; a dropped descriptor is
used again by the next client. `late` and `foreign` are histories: a client
accepted after `close()` had looked, and a worker that has dropped a connection
that was not its own.

### Registry

Time passes in ticks; what the code compares with the clock is kept as an age or
a time to go, so runs have no end and no horizon. A server registers every
`Interval`, at once if it got no answer, and leaves an UNREGISTER behind when it
closes; its registering thread may have one more REGISTER on its way. Datagrams
are lost, repeated and reordered within `Lifetime`; a multihomed server's
UNREGISTER may leave from another address. The registry itself stops and starts
with nothing. `announced` is what a subclass keeps in the two callbacks.

### Framing and PacketChannel

`Frame` is the writes that `Channel.send` makes of a packet: one, or, if the frame
is longer than a chunk, the header with the first part, the rest if there is any,
and the flusher. `SockSend` and `SockRecv` are one call of the operating system,
which moves as many bytes as it likes; a read is of the header, then of the body
and the flusher that the header counts. zlib is any change of the bytes and of
their number that can be undone (here: reversed, with a byte in front). A channel
without compression is one whose `Threshold` no packet reaches. In `PacketChannel`
each end sends (`Send`) and takes (`Take`) packets when it likes, or answers one
with another in one step (`Answer`, which `Request` uses), closes in the middle of
a frame, and the network fails. What becomes of the errors is in `SendQueue`,
`ConnClose` and `Request`.

### Request

The client runs a program of operations: attributes, calls, comparisons, `dir`,
`repr`, context managers, pickling, `buffiter`, `ping`, modules of the slave
service. Each goes through `Netref` (answered locally or a request), boxing,
`Dump`, `Frame`, the writes and reads of `Framing`, `Load`, `Unbox` (with nested
HANDLE_INSPECTs), the handler with `AccessAttr`, and back with a reply or an
exception through `Vinegar`. Bodies may call back a function of the client. A
side reads what it gets whole only because `SockRecv` asks again; `amounts` are the
transfers the operating system cuts short, `Room` is what it holds.

A handler may itself have to ask: a body that calls back, and HANDLE_CTXEXIT, which
takes the truth of the proxy it is given (`if exc:`) by a request if the class of
the proxy has `__bool__` or `__len__`. What a side cannot dump, or by its
configuration does not send, leaves `serve` and comes out of the innermost request
that waits in it (`Raised`): at the server without one, the connection ends.
`Direct` says what is to come of an operation in each case, these included
(`KeepsBack`, `Truth`), so that `Transparent` accepts an EOFError without a failed
network only where it is due. `leaked` and `timedOut` are histories: the references
counted for a message that could not be dumped, and a write that waited too long.

## 3. The runs

Passing runs; each property is stated in a comment above its definition. `Inv`
is a module's type invariant with its first safety property.

| run | instance | shows |
|---|---|---|
| `send_queue` | 3 calls (one large, one unsendable), 1 closer | `FramesInOrder`, `NothingStranded`, `OnlyStreamErrors`, `EveryMessageSent`, `ImplementsChannel` (the refinement) |
| `serve` | four setups: 2 clients with timeouts, all kinds of answers or none, disconnect; 2 clients, a looper and a nested HANDLE_INSPECT; a client beside a poller; a client beside a BgServingThread; the last two with a request of the peer | `Inv` (`LockBalanced`), `NoPollForReadyResult`, `NoLostWakeup`, `CallsReturn`, `BackgroundEnds` |
| `bound_serve` | three setups: 2 clients whose peer answers and calls back; the same with a looper; 2 clients with timeouts and a peer that may be silent or disconnect; 2 threads of the executor | `Inv` (`OneReceiver`), `Affinity`, `RepliesReturn`, `CallsReturn`, `PeerServed` |
| `ref_count` | two setups of 3 boxings and 2 unboxings: one thread at the holder, or two threads at both sides | `Inv` (`Ledger`: the count is exact), `NoKeyError`, `NeverTooLow`, `EventuallyReleased` |
| `close` | 3 threads at one side, 1 at the other, requests may time out | `AllReleased`, `DisconnectedOnce`, `DisconnectedAfterClose`, `CloseEnds` |
| `async_result` | a waiter and an asker, 2 adders (one callback raises), expiry, failing send, close | `ValueIsTheAnswer`, `Inv` (`CallbackAtMostOnce`), `NoStaleCallback`, `WaitEnds` |
| `registry` | a server with two names, multihomed, that closes and starts again; UDP and TCP; a registry that restarts; 3 requests on their way | `Inv` (`CallbacksAgree`), `FreshAnswers`, `ActiveListed`, `ClosedForgotten` |
| `server` | servers of all classes with 2 clients; pools of 1 and 2 workers, batches of 1, 2 descriptors | `Inv` (`OnePlace`), `RequestServed`, `CloseReturnsAtLast`, `ClientsServedNoMore` |
| `request` | 44 setups of programs, under default and slave services and configurations that send KeyboardInterrupt, with whole, cut and failing transfers; and `PacketChannel` by itself, with two packets one way and one the other | `Transparent`, `PacketsWhole` (`ChannelTypeOK`, `FramesWhole`, `NothingLeftOver`), `RepliesNested`, `Accounts`, `CallsEnd` |

Runs that end in a violation, each a finding in `PROJECT.json` with the line of
the repository that says otherwise. All were also reproduced with the program,
by delaying the threads at the lines named.

| run | what happens |
|---|---|
| `serve_lost_exception` | an exception releases the receive lock before its callback: the waiter polls for an answer already received |
| `ref_count_resurrect` | a proxy taken from the cache during its `__del__` refers to an object its owner has let go |
| `close_crossed` | both sides close at once: `close()` raises AttributeError |

Some properties name an exception, where the code does less than one might
expect. Each was found by TLC, is written into the property, and is what
section 6 lists:

* `NothingStranded`, `EveryMessageSent`: after a `Channel.send` that raises with
  the stream open.
* `CloseReturnsAtLast`: a `close()` during `_listen` is forgotten when `active`
  is set after it (server.py:252); a one-shot server serves a client `close()`
  has missed (`late`).
* `ClientsServedNoMore`: the clients of a forking server's children and of a
  pool are not in `clients`, and `close()` does not end their connections.
* `OnePlace`: until a worker drops a connection that took over its number
  (`foreign`).
* `OneReceiver`, `PeerServed`, `CallsReturn` of `BoundServe`: a thread that times
  out stays in the pool (protocol.py:541) and may be told to receive; `close()`
  may wait for a thread of the executor that never ends.
* `Affinity`, `RepliesReturn`: where requests time out, neither holds.
* `Accounts`: a `dump` that raises has counted references nobody returns
  (`leaked`, counted one by one).
* `NoStaleCallback`: a reply that cannot be unboxed (protocol.py:421, before the
  pop at 422), and a request registered while the connection ends whose `_send`
  returns at 298 or finds the queue empty, since another call holds the lock: its
  entry comes after the clear at 204 or has nobody to answer it.
* `Transparent`: what `Direct` states under "Another departure" and `KeepsBack`: a
  with block, a string that `dump` refuses, and KeyboardInterrupt.

### Bounds

Every bound is a constant or a finite set given in the `.cfg`, or a setup in the
MC module.

* Three calls of `_send` are a holder, a call that gives up on the lock, and one
  nested in either or arriving after the release, the longest chain the drain
  loop distinguishes; a large and two small frames give every adjacency.
* Two clients and a looper give a receiver, a sleeper and a third thread that
  takes the lock in between; two calls and one nested HANDLE_INSPECT give the
  re-entrant lock at depth two.
* Two clients, a looper and two threads of the executor give a receiver, a thread
  in the pool and one that is handed a message; two requests each way a callback
  inside a call.
* Three boxings with three proxies and two activations cover two misses of
  the cache, a hit, a HANDLE_DEL of two references at once, and a boxing after a
  resurrection. Objects do not share state, so one is enough.
* Sides of three threads and one allow a nested `_cleanup`, another thread's
  `_cleanup` and a thread that finds `_closed` set at the same time. The theorem
  `EverythingReleased` covers any number.
* One request, two callbacks of which one raises: each may be added before,
  during or after delivery.
* One server: entries of different servers do not meet in the registry but in
  the sorting of an answer, and the theorem `AnswersFresh` is for any number.
  Timeouts of one tick give every order of expiry, registration and pruning;
  three requests on their way a repeated REGISTER and an UNREGISTER.
* Two clients and two descriptors let a number be used again while a worker
  holds it; two workers serve or drop it at once; batches of one put a
  connection back after every request.
* The setup of `request` without a program is `PacketChannel` by itself (`Alone`):
  packets of 40 bytes (at the threshold, one write), 41 (compressed, the largest
  frame of one write) and 50 (compressed, three writes). A pipe of 64 bytes holds a
  frame and the start of the next, so that a read that asks for too much would get
  it, and cuts the writes; a read takes what is there. The smaller cuts, of 3 and 20
  bytes, are made in some of the programs.
* The programs of `request` are chosen for the branches of the code: each type
  of brine at the edges of its length classes, each handler, each switch of
  `_check_attr` on both sides of it. `Threshold`, `MaxChunk` and `Room` are small
  so that frames are compressed, split and stopped.

`CHECK_DEADLOCK FALSE` stands in every configuration, because all these systems
come to rest: calls return, connections close, programs end.

### Fairness

Weak fairness of each thread's steps: Python's scheduler runs every runnable
thread. It is stated per thread, so that one thread's progress never stands in
for another's, and never on the decision to call something (`Start`, `Call`,
`Box`, `Use`, `StartWait`, `Stop`, `CloseBegins(User)`). Beyond it:

* `SendQueue`: nothing inside `_send` blocks but the socket write, so
  `EveryMessageSent` presumes that the peer goes on reading or the write fails.
* `Serve`, `BoundServe`: `Passes` lets time pass where requests have a timeout,
  and the peer answer what it is asked only where they have none. Handlers end.
* `RefCount`: the holder's program drops what it holds (`Drop`), the promise
  being about what happens then.
* `ConnClose`: none on timeouts, so that `CloseEnds` does not owe its truth to
  them; each side has a thread that serves or closes.
* `AsyncResult`: time passes; the peer need not answer.
* `Server`: threads run; clients need not connect, send or hang up. The main
  thread's fairness includes `accept`, which returns when a client waits.
* `Registry`: time passes, a running registry accepts connections; strong
  fairness says that the network does not lose every REGISTER that a server sends
  again and again. Nothing makes an UNREGISTER arrive.
* `Request`: as long as a side has something to write, read or do, one of them
  does it. The condition is spelled out (`CanProgress`), because to find out
  whether `Progress` is enabled TLC would run the handlers twice.

## 4. What is proved

TLAPS checks these theorems for all values of the constants, from the `ASSUME`s
of the modules (which TLC evaluates in the runs) and nothing else.

**`SendQueue_proofs`.** The argument has four layers.
`LockInv` is what the lock protocol maintains: the types, `MutualExclusion`,
`OnlyStreamErrors`, and that a call about to pop an open channel's queue finds a
message there. `MutualExclusion` says that until a closer has released the lock
under its holder, on an open channel and on a closed one, at most one call is
between taking and releasing it and it is taken exactly then; and that the channel
is closed after such a release, when two calls may well be. It is not inductive by
itself: `LockInv` adds that a closer that has started has closed the channel, and
what the two together mean for an open one (`OpenExclusion`), which is what the
other invariants use. From it: `TypeCorrect`, `Exclusion` (`MutualExclusion`),
`NoLockErrors`.
`FrameInv` relates the wire to the history `order` of appended messages: the
queue is the rest of `order`, what is written has been popped, a writing call
holds the last popped message and has written exactly the parts before its next,
and everything popped earlier that can be sent is on the wire whole. From both:
`FramesTheorem` (`FramesInOrder`).
`StrandInv` adds that no call carries an exception while the channel is open,
unless a send has raised, so that who releases the lock looks again:
`NoMessageStranded`. The exception is needed: when `Channel.send` raises for the
holder's message with the stream open, the holder leaves without looking again.
`Refinement` (`ImplementsChannel`) follows from all three. The mapping makes
`pending` and `sent` of `MessageChannel` what is kept of `order` and of the
frames on the wire, so its heart is a set of lemmas on what keeping some elements
of a sequence does to an appended, a first and an untouched element (`KeptAppend`,
`KeptHead`, `KeptEmpty`), then one lemma per kind of step: an append hands a
message over, the last part of a frame transmits the first pending message, a
closed stream takes the channel down, and all else stutters. In particular the
earlier parts of a large frame and everything about the lock change nothing that
the abstract channel shows.

The second half of the module is about the layer below, `PacketChannel`, for
packets of any bytes and lengths, any `Threshold`, `MaxChunk` above six and `Room`,
any amounts moved at a time. Its invariant, `ChannelInv`, says where every byte is:
the frames of the packets on their way to a side (`coming`) are, in their order,
exactly what the side has read for the frame it is in, what the pipe holds and what
the peer has still to write (`Carried`); after the peer has closed, the bytes up to
some point of it. `FramesWhole` alone is not inductive, since it does not say what
an incomplete read goes on with. The frames of a sequence of packets are a
recursion, which is said here by a function that gives what is left before each
packet (`Streamed`); the lemmas `StreamMore`, `StreamFirst` and `StreamNone` are all
that is needed of it: a packet sent comes last, the bytes start with the frame of
the first packet, and there are no bytes only if there are no packets. `ReadInv`
says that each read asks for what is left of its frame. Below them are the lemmas on
strings and on the operators: what is cut can be put together (`Cut`, `SameCut`),
four bytes give back the length that was packed (`Packed`), zlib the data
(`Inflated`), the writes of a frame are its bytes (`FrameIs`), and a short write
moves bytes from the front of the first write (`FlatShift`). `SockSend` and
`SockRecv` then only move bytes from one of the three places to the next,
`SendCarries` and `TakeCarries` add and remove one frame, and `FirstFrame` shows
that a complete read holds the frame of the first packet and no byte more.
`ChannelTypes`, `ChannelFramesWhole`, `ChannelNothingLeftOver` and their conjunction
`ChannelPacketsWhole` follow. For the programs of `Request`, whose sides do the same
steps in fewer orders and with packets of their own, `PacketsWhole` is checked by
TLC: `Request` has recursive operators and can hold no theorem.

**`ConnClose_proofs`.** `CloseInv` says for each side that whatever is not
released yet has a thread that will release it (`Kept`): while the side is
closed but its channel open or its root set, some thread stands before the step
that clears it; while the root is gone but the handlers are not, some thread is
about to delete them; and for each thread what it has already done (`Done`).
The `AttributeError` of a thread that comes too late is safe precisely because
of the second. `TypeCorrect`, `EverythingReleased` (`AllReleased`) and
`ToldAfterClose` (`DisconnectedAfterClose`) follow; `ToldOnce`
(`DisconnectedOnce`) from a second invariant that relates, at a side with one
thread, the count of `on_disconnect` to the step the thread is at.

**`AsyncResult_proofs`.** `AnswerInv` fixes the answer before it is received,
lets it be received once, and follows the two writes before `_is_ready`:
`WholeAnswers` (`ValueIsTheAnswer`). `CallbackInv` says of every callback that
has not been added that it has not run, of every one in the list that it is there
once and has not run before its turn: `CallbacksOnce` (`Inv`). `NothingStale`
(`NoStaleCallback`) comes from an invariant that ties `registered` to where the
requester and the deliverer stand: the entry is gone as soon as the deliverer has
popped it, a failed send has removed it, or `_cleanup` has cleared the table after
it was made. The two kinds of entries that do stay are part of the statement: a
reply whose unboxing failed, until `_cleanup`, and a request whose `_send` returned
although nothing was sent, which needs a connection that ends.

**`Registry_proofs`.** `RegistryInv` adds to the types and `CallbacksAgree` that
a server has not been silent for longer than any REGISTER of it has been on its
way (`RequestsFresh`), nor for longer than the age of any entry of it and the
way of a request together (`ServicesFresh`). Every
step preserves both because ages grow together and a repeated datagram keeps its
own. `ListingsAgree` (`Inv`) and `AnswersFresh` (`FreshAnswers`, an action
property: a query only hands out entries within the pruning timeout) follow, for
any timeouts, names and servers, over either transport.

**`RefCount_proofs`.** Sums over proxies and queues are cardinalities of sets of
pairs (`Total`), and the first lemmas say what a sum becomes when one summand
changes or a queue grows or shrinks. `Wellformed` keeps counts positive where the
code subtracts them. Then the two promises need different invariants. With several
threads at the holder increments are lost and old counts written back, so no
equation holds; `Covered` says that for some number `given[p]` of references ever
given to each proxy, which bounds both its count and every count read from it,
the owner's count is at least what is on its way and what was given to the
proxies not yet finalized: `CountCovers` (`NeverTooLow`). With one thread,
`OneThread` says that what an activation has read is still the proxy's count, and
`Exact` is the equation: `LedgerBalanced` (`Inv`). `InOrder` adds that a request
about the object on its way has a proxy, or a HANDLE_DEL behind it, that still
counts: `NothingMissing` (`NoKeyError`). The module assumes that the sets of
proxies and threads are finite, as the sums require.

**`Serve_proofs`.** Every step of a thread is of one of five kinds (`Move`): it
exchanges the innermost activation, closes the connection, pushes an activation,
pops one, or leaves stacks and lock alone; and on the way it keeps the lock,
acquires it or releases it once. `StepMoves` shows this for each action, and
each part of the invariant `IInv` is then proved once per kind of step and not
once per action. `LockBalanced` is not inductive: it speaks of an open
connection, and the threads that survive the end of one must be described too.
`LockInv` therefore says that a thread owns at least what its activations owe,
unless the connection is closed and the thread is about to leave (`Doomed`);
`Balanced` adds equality while it is open; `Severed` and `Raising` say who can be
unboxing, and who can be raising, between the end of the stream and `close()`.
`LockIsBalanced` (`Inv`) keeps the exception the property names: a HANDLE_INSPECT
that failed at protocol.py:421 leaves the lock held. `NoPollForReply`
(`NoPollForReadyResult`) needs that a result excludes a callback (`Numbered`).
`NobodySleepsAlone` (`NoLostWakeup`) comes from `Wakeful`: when the lock is free
and somebody waits, some thread that does not wait itself stands before a
notification; `OneChecks` and `Outside` make sure it is another thread. Its
exception is a lock left behind (`LeftBehind`), by that failure or by the end of
the stream inside two nested unboxings, which releases the lock once too little.

**`BoundServe_proofs`.** `OneReceiver` depends on everything: that a receiver
occupied by a request hands a message on depends on the count, the count on which
answers are still owed, and these on where every message and every entry of the
peer is. `Base` is the inductive invariant. `Framed` and `Distinct` shape the
stacks (all but the innermost activation are handlers, no two wait for one
request). `Placed` puts every request in one place: not yet sent, in a thread of
the peer, or in a reply in the inbox or the deque of its own thread. `Paid` says
that a thread's occupation covers the answers it is owed and the handlers it
runs; it is an inequality because with timeouts the code counts a thread as
occupied by requests it has given up. So a thread that is not occupied has
nothing coming, which is why a message for anyone may go to it. `EventsSet`,
`InPool` and `PoolExact` say that a message in a deque has its event set and that
the pool holds who sleeps in it; `Handover` is `OneReceiver` made inductive:
while nobody receives, either everybody in the pool has been told, or somebody
has who has no message to see to first. `OneReceives` (`Inv`) follows, for any
number of threads, calls and setups, timeouts and disconnects included. The
proof first describes what each operation does to stacks, boxes and the peer's
lists by maps from places after the step to places before it (`Carried`, `Kept`),
and shows each part of `Base` for these descriptions.

The second half of the module: `Affinity` and `RepliesReturn` say that a thread of ours
and one of the peer are in the same transactions, which neither side checks: each
follows its own `_remote_thread_id` and `_occupation_count`. The invariant beside
`Base` is `Mirrored`, for setups in which no request times out. `Depth(t)` counts
the requests that t waits for and those it handles, and `Partner(t)` is the thread
of the peer named in the outermost one. `Counted` says that `_occupation_count` is
this depth and that a thread is bound to its partner while the depth is positive
(until its first answer it may not know it). `Agree` compares t's stack with what
its partner is at, transaction by transaction: they differ by at most one message
on its way, and only while t waits; `Apart` and `Backed` say that no two threads
have one partner and that what the peer is at for t is in t's stack. `Letters` says
what a message finds: one for a thread finds it waiting at just that place, and is
the only one from its sender; one for anyone is the first of a thread of the peer
nobody is bound to. `Delivered` says that a deque holds only what is for its
thread, but for an idle thread of the pool or the executor, which has been given
one message for anyone. A disconnect breaks this for threads that have nothing
left to send (`Gone`), and these are excepted. Each action either shows nothing of a
thread's transactions (`SameView`, `QuietMirrors`), moves one thread and its
partner (`MoveMirrors`), or is the peer's (`PostMirrors`). `AffinityHolds` and
`AnswersFit` follow: a message in a deque or taken from the channel is the
thread's own or finds it idle (`Takes`), and a handler's request is the innermost
one of its partner.

**`ThreadPool_proofs`.** That a connection in `fd_to_conn` is in one place is
kept by every hand-over, but only if each takes it from where it is. `PoolInv`
therefore says of every descriptor that it is nowhere when nothing is mapped to
it and in exactly one of the four places when something is (`InPlace`), and of
what `poll()` has returned that it is still registered, once per descriptor
(`ResultOK`). What can break this is the number of a closed socket, which goes to
the next client while the old connection may still be mapped: `InUse` says that a
mapped connection is open, or a worker has met its end and is about to drop it, or
the listener is closed and no number is given again; so a new client finds its
number free or in the hands of such a worker, who then drops the new connection,
and this is just where `foreign` is set and the claim ends. `AcceptOK` and
`KindOK` keep apart what is accepted, mapped and served, and say that a pool gives
no client a thread; `CloseOK` that clients are shut only behind a closed listener.
`ServerFrame` collects what the steps of `Server` leave to the pool, so that these
are dealt with once. `OnePlaceHolds` (`Inv`) follows for any number of workers,
clients, descriptors and requests. It assumes that the workers are finitely many,
as `close()` puts one `None` for each of them in the queue.

**Only model-checked**: every liveness property (fairness and ENABLED are out
of the prover's reach); and `Request` with `Direct`, whose operators are recursive.
What a recursion over a sequence computes is proved where it can be said with sets
of numbers (`Induction` in `SendQueue_proofs`, from the well-foundedness of the
naturals); induction theorems over an operator are beyond the prover.

## 5. What is not modelled

* In the modelled parts: the `before_closed` hook and services whose
  `on_disconnect` raises; destructors of local objects that call back into the
  connection; a second `set_expiry`; HANDLE_INSTANCECHECK, slices of old-style
  classes and pickling of a netref by reference; a connection over a connection;
  `sync_request_timeout` inside `Request`; the thread that waits in
  `_start_in_thread`; the cache of `async_`; signals other than the
  KeyboardInterrupt of `Server.start`.
* Whole components: see `components` in `PROJECT.json`. Factories, SSL, SSH,
  deployment, teleportation, authenticators, the command line and classic-mode
  file transfer are I/O with no state of their own; the reactor is not used by
  the rest of the repository.

## 6. Plan

What is left, in order:

1. `before_closed` and raising services in `ConnClose`.
2. HANDLE_INSTANCECHECK in `Request`, with the netref it makes for an object of
   its own side.
3. Proofs for `Request`: its operators over values would have to become functions
   on finite trees first. Below them `Framing` is proved.

Properties that the code does not have, each seen in the model and worth a run
of its own:

* `Affinity` and `RepliesReturn` with timeouts. A thread that times out stays in
  the pool (`protocol.py:541`), where it may be given a message for anyone and
  find it in the middle of its next request (with four calls); and the late answer
  of another thread of the peer binds it to that one inside a handler
  (`protocol.py:511`, `544`, `623`; with three calls and one of the peer);
* a call that leaves its message to the lock holder has it sent
  (`protocol.py:296-297`; not if the holder's own `Channel.send` raises);
* a thread that has left `serve` owns no receive lock (`460-461`; not if
  unboxing a reply fails at 421);
* `CallsReturn` through a disconnect with nested HANDLE_INSPECTs (218
  releases the lock once);
* a request that has returned normally or been answered leaves nothing in
  `_request_callbacks` for good (`protocol.py:755`, `204`, `396`; not one registered
  after 204 whose `_send` leaves it to another holder of the lock, 292-298, nor,
  until `_cleanup`, one whose reply fails at 421);
* `__exit__` of a remote object is told the exception that leaves the block
  (`protocol.py:892`, `netref.py:200`; it is told of a TypeError, since a proxy cannot
  be raised, or of no exception, if the proxy of it is not true; and it is not called
  if asking for the truth raises);
* what `brine.dumpable` accepts `dump` can dump (`brine.py:376`; not a string with a
  lone surrogate, which a server that answers with it pays for with its connection);
* KeyboardInterrupt goes to the other party by default (the table at
  `protocol.py:110`; the default at 60 is to raise it locally, which ends the
  connection, or, in a callback of the client, leaves the server without an answer);
* `serve` returns True only if it has dispatched (440; not at 452);
* a sleeper wakes when the lock is released (451; not for the release at 410
  while the handler runs);
* `close()` returns with everything released, also in a second thread (227;
  not at 229);
* every callback is invoked (`async_.py:61-63`; not if appended at 71 after a
  test at 68 that preceded the answer);
* `close()` ends all clients of a server (`server.py:108-109`; not those of a
  pool or of a forking server's children, nor one accepted meanwhile);
* a server that is closed stays so (not if `_listen` sets `active` after it);
* a message that is for nobody is served by a thread in service
  (`protocol.py:585`; not after a timeout at 541).
