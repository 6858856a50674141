# hiredispool in TLA+

TLA+ modules about hiredispool, a pool of connections to redis servers for
multi-threaded C and C++ programs, and about the copy of hiredis it comes with,
with TLC runs that check them on small instances and TLAPS proofs of most safety
properties for instances of any size.

The repository holds two versions of the program: the one at the top of `src/`
(C pool, C++ wrapper `RedisClient`), and `src/experimental/redisclient/`, which
has the same pool with lazy connecting and error reports, a client with typed
commands and a registry of pools fed by a service framework (`RedisClientYaf`),
and hiredis itself, changed in places (`redisReconnect` among them).

## 1. Inventory

| component | source | state | operations | module |
|---|---|---|---|---|
| socket pool | `hiredispool.c` | per instance: `connect_after`, `redis_pool` (list head), `last_used`; per socket: `mutex`, `inuse`, `state`, `conn`, `backup`, `next` | `redis_pool_create`, `redis_get_socket`, `redis_vcommand`, `redis_release_socket`, `redis_pool_destroy`; inside: `connect_single_socket`, `redis_close_socket` | `RedisPool` |
| lease of a socket | `hiredispool.h`, `PooledSocket` in `RedisClient.h` | who holds which socket, which are connected | acquire, release, reconnect | `SocketLease` (abstract) |
| command and retry | `redis_vcommand`, `RedisClient::redisvCommand` | the connection, requests and replies under way, the error of a context | send, wait, fail, reconnect, retry | `RedisCommand` |
| pool registry | `ramcloud::Config`, `RedisClientPtr`, `Client::_init` in `RedisClientYaf` | `metaMap`, `instMap`, two mutexes, reference counts, the member `client` | `getRedisClient`, `addMeta`, `onAddServer`, `onRemoveServer`, `~Config`, `~Client` | `PoolRegistry` |
| reply ownership | `RedisReplyPtr`, `RedisReplyRef` | who owns a `redisReply` | copy, assign, convert, release | `ReplyPtr` |
| error reports | experimental `hiredispool.c` and `RedisClient.cpp` | `err`, `errstr`, `errhost` of a socket; the info of a reply | save, report | `ClientCall` |
| typed commands | `ramcloud::Client` in `RedisClientYaf.cpp` | none between calls | arguments, status, out-parameters | `TypedCommands`, `ClientCall` |
| hiredis: synchronous context | `hiredis.c`, `net.c` | `err`, `flags`, `fd`, `obuf`, the reader | six ways to connect, append, get a reply, buffer read and write, `redisReconnect`, free | `SyncContext` |
| hiredis: commands and replies | `hiredis.c`, `read.c` | the reader: `buf`, `pos`, `rstack`, `ridx`, `reply`; reply objects | format a command; feed, get a reply | `WireFormat`, `ReplyReader` |
| hiredis: asynchronous context | `async.c` | `replies`, `sub.invalid`, `sub.channels`, `sub.patterns`, flags, output buffer | command, disconnect, free; the event handlers | `AsyncContext` |
| hiredis: dictionary | `dict.c` | slots, chains, values | replace, find, delete, expand, iterate, release | `Dict`, `CallbackMap` (abstract) |
| configuration checks | `redis_pool_create` 33-74 | none that is shared | early returns | not modelled |
| log | `log.c` | level, destination | filter, format, write | not modelled |
| hiredis: `sds.c`, adapters, examples | vendored | - | - | not modelled |

How they interact.  A caller creates one `RedisClient`, which creates a pool.
Each command, from any thread, leases a socket (`redis_get_socket` under
`PooledSocket`), runs on it (`redis_vcommand`, which calls the synchronous
context of hiredis) and gives it back.  Threads meet in three places: the mutex
of each socket, taken with `trylock` and kept during the whole lease;
`connect_after`, read and written without a lock; `last_used`, written without a
lock.  With the registry, each typed command first looks its pool up by name; the
framework's thread changes the configuration and throws pools away.  The
asynchronous context stands beside the pool: one event loop calls its handlers,
which call user code, which calls the context again; its subscriptions are kept
in the dictionary.

What is hard about it:

* *interleavings*: a search walks a circular list while other threads take,
  release, break and connect the sockets on it and move `last_used`;
* *failures*: endpoints refuse, commands fail or time out, reconnects fail,
  every system call in `net.c` and every allocation in the reader may fail;
* *memory*: contexts, pools, replies, descriptors and copied callbacks are freed
  and allocated anew while something still points to the old ones;
* *late answers*: a command whose reply did not come is sent a second time;
* *callbacks*: user code runs inside the loop that works off two lists of
  callbacks, and may extend them or end the context under the loop;
* *pairing by order*: a reply belongs to a command, an element of a batch to a
  name, only by its position;
* *partial reads*: a reply arrives in pieces cut anywhere;
* *time*: a grace period that every thread may set again;
* *stale copies*: a pool made from a configuration that has changed meanwhile.

What makes each component correct is what the properties below say; the hazards,
each at its line and with the properties about it, are in `PROJECT.json`.

## 2. The modules

Which module uses which:

    SocketLease  <-- RedisPool (implements)
                 <-- RedisCommand (in place of the pool)
    CallbackMap  <-- Dict (implements)
    WireFormat   <-- ReplyReader
    TypedCommands, ReplyPtr <-- ClientCall
    AsyncContext, SyncContext, PoolRegistry
    XProofs extends X

### RedisPool

`redis_pool_create`, any number of concurrent callers, `redis_pool_destroy`.
The variables carry the names of the C fields.  A thread is at a label `pc[p]`:

| label | place in the code |
|---|---|
| `idle` | outside the pool |
| `scan` | before `pthread_mutex_trylock` (326) |
| `locked` | after it succeeded (334) |
| `connect`, `stamp` | in `connect_single_socket`: the loop over the endpoints; about to store `connect_after` (271) |
| `skip`, `grab`, `none` | giving an unconnected socket back (365), taking a connected one (384), the search is over (432) |
| `held`, `retry` | in `redis_vcommand`: about to send (487), about to retry (503) |
| `done` | the command is over, `redis_release_socket` is next |
| `init`, `link`, `serving`, `free`, `gone` | the main thread in `redis_init_socketpool`, between creation and destruction, in `redis_poolfree`, after it |

One action is one access to shared memory.  Where the code samples the clock and
stores the result in `connect_after` (line 271) these are two actions,
`ConnectDown` and `StampGrace`, since another thread may store in between; the
test of `state` and `connect_after` at line 356 is one action with the setting
of `inuse`, because only the reading of `connect_after` in it is shared.

`connect_single_socket` has three callers; `ret[p]` says which, and the tables
`OnConnected` and `OnRefused` where each goes on.  The endpoints that accept
every connection are the constant `Reliable`; the others accept or refuse at
will.  Contexts are cells of a heap: `live` is the allocated set, `broken` those
with an error, and an address freed may be allocated again.  Setting the timeout
or the keepalive on a new connection may fail, which the code logs and ignores.

`ConnectAtInit` chooses between the two versions of the pool: `TRUE` connects
while it is created (`hiredispool.c` 144-152), `FALSE` is the experimental one,
in which that code is disabled.

Left out: logging, the contents of host names, the conversion of the timeouts,
the return codes of `pthread_mutex_unlock`, allocation failures.

### SocketLease

The abstract specification of the pool: no list, no locks, no clock.  A pool is
open or not, sockets are up or not and have at most one holder; a socket can be
acquired only while it is up and free, its connection is lost only under its
holder, sockets come up behind the callers' backs only while free, the pool is
closed only when nothing is held.  `RedisPool` implements it (`Lease` in
`RedisPool`, with the holder of a socket read off its mutex and the label of the
thread that has it).  `RedisCommand` uses it in place of the pool.

### RedisCommand

What a command becomes on the wire.  A connection is a queue of requests and a
queue of replies; the server executes a request whenever it likes, also after
the client has given the connection up.  `FirstFails`, `Reconnect`,
`ReconnectFails` and `RetryFails` are the error path of `redis_vcommand`, lines
489 to 513.  Of hiredis only the rule is modelled that a context with an error
refuses to write and to read (`redisBufferWrite`, `redisBufferRead`); this is
what keeps a late reply from the next caller, since `RetryFails` leaves the
connection with the socket.  The reply to a command is the command itself, so
that a reply in the wrong hands shows.

### PoolRegistry

`Config` and the clients of `RedisClientYaf`.  `getRedisClient` is three
critical sections, `FindInst`, `FindMeta`, and `LockInst` with one of
`CreateFinds`, `CreatePool`, `CreateThrows`; between them the framework's thread
may add or remove a server.  That thread keeps `metaMutex` over its loop and takes
`instMutex` inside (`UpdateMeta`, `DeleteInst`, `ServerDone`).  The assignment
of the result to the member `client` is `ReadOld`, `WriteNew`, `DropOld`, since
nothing protects it; the command then runs on the bare pointer (`Run`).  Which
thread uses which Client object is the constant `ClientOf`.  A configuration is
the set of its endpoints; the order of the endpoints and the numbers that
`convert` reads are left out, as is whether the strings fit.

### ReplyPtr, TypedCommands, ClientCall

`ClientCall` is one typed command from its call to its status, in threads that
share a pool reduced to who holds which socket.  `Call` makes a reply pack and
asks for a socket; `GetSocket`, `Execute`, `Replies`, `Null`, `Reconnect` and
`RetryFails` are `redis_vcommand` with `save_last_error` and `set_last_error`;
`SetTarget`, `SetError` and `Release` what `RedisClient.cpp` does around it.
The socket keeps its last error over a later success and into the hands of the
next holder; a report must be of this call all the same (`ReportIsOwn`).  Then
the pack travels through a temporary and `RedisReplyRef` to the variable of the
command (`ReturnTemp`, `AssignReply`), and `Answer` turns it into a status and
out-parameters.

`ReplyPtr` is the pointer alone, over any set of variables: `Make`, `HandOver`,
`Assign`, `Destroy`; each keeps the heap and the pointers together.
`TypedCommands` is pure: the arguments of 30 commands on strings, hashes, sets
and sorted sets (`Args`), an external server that executes them on the arguments
it gets (`Serve`, a range of a sorted set by its two indices with `FromTo`),
`reply2status` and the out-parameters (`Out`).  Beside that
stands what each call *means* on a container of names and values (`Effect`,
`Truth`), written without the wire; the properties compare the two.  `CallOK` says
what the parameters of a call can be, by the signatures of the methods: finitely many
names, a single one where the method takes one, and a value for each where it takes
values.  The sequences are built without recursion (`InOrder`, `InTurn`), so that they
can be reasoned about.

### WireFormat, ReplyReader

`WireFormat` holds the two encodings as operators: `FormatArgs` is the state
machine of `redisvFormatCommand` over the elements of a format, `Command` and
`Totlen` the bytes and their computed number; a string is a sequence of pieces
with a width each.  `ArgsOf` is the reference, what a format means, read from the
end of the format.  The replies a server may send are the constant `Replies`, with a
`Height` that is less for the elements of an array, so that `Wire` is a recursive
function on them; the code knows no such bound, it says only that replies are finite.

`ReplyReader` is `read.c` a token at a time: `ReadType`, `ProcessLineItem`,
`ProcessBulkItem`, `ProcessMultiBulkItem`, with `Moved` for `moveToNextTask`,
the stack `rstack` of arrays entered, `Feed` with any part of the stream, `Emit`
with the buffer cut after `DiscardAt` tokens (1024 bytes in the code), and
`SetError`, which frees what was begun.  A token is what the code consumes at
once (type byte, line, body); a read that ends inside a token is to it as if
the token had not come.  Any allocation may fail.  Objects have addresses that
are not used again, so that a leak or a second free shows.  `MaxDepth` is 8 in
the code (a ninth level is refused) and 2 in the run.  `Plain` is a reply as the
reader hands it out, a null array being a null, and `Fits` says with how many levels
left it is accepted: `processMultiBulkItem` refuses an array that is nested too deep
before it reads the length, a null or empty one too.

### SyncContext

A context from one of the connecting functions to `redisFree`.  Connecting is
`net.c` system call by system call: `Lookup`, `Socket`, `Bind`, `ConnectOk`,
`ConnectUnreachable`, `ConnectAddrInUse`, `ConnectFails`, `Finish` with every
failure, the descriptor closed or left open as the code has it.  `cands` counts
the addresses left of `getaddrinfo`, `reuses` the repeated attempts with a source address.
Then `AppendCommand`, `Command`, `GetReply` with the loop of `redisGetReply`
(`GetFromReader`, `BufferWrite...`, `BufferRead...`, `ReadFromReader`), the
options, the two ways to free a context, and `Reconnect`, which leaves the number of
the closed descriptor in `c->fd` and the flags as they were.

`type` is `c->connection_type`.  TCP is 0 and the context comes from `calloc`, so
that a context made by `redisConnectFd`, or one for a Unix socket that never had a
socket, is a TCP context to `redisReconnect` and goes on with a null host.  `open` are
the descriptors the context has opened, `others` those of the rest of the process
(`OtherOpens`), which get the numbers that are free; `Close` closes a number
*whoever* has opened it, since that is what `close(2)` does.

Kernel, resolver and server are external.  Nobody asks a blocking context for a reply
that no command waits for: the code would wait for good.

### AsyncContext

`async.c` with one event loop.  `pc` tells whether the loop is idle, in
`redisProcessCallbacks`, in user code called from it, or in
`__redisAsyncFree`.  A command is a number and so is its callback; `subs` stands
for the two dictionaries.  User actions (`Command`, `AsyncDisconnect`,
`AsyncFree`) are enabled in the event loop *and in every callback*; `ev` are the
events that are registered.  `cb` is the local of `redisProcessCallbacks`, which
survives from one turn of its loop to the next.  The failing assertions of the
code are labels of their own (`assertPending`, `assertExpected`).  Server and
network are external: it answers in order, turns the client away, publishes, and
the connection is lost at any time.

The constant `Silent` says which commands have a null pointer for a callback.
`ProcessFails` is the end of the loop by an error of the reader, `AsyncDisconnect` may
be called again, and a second call ends an idle context when no callback waits any more.

`Spec` is for any user.  For some the code does not do what it should, so that most
properties are about `DisciplinedSpec`, the same with a user that keeps to `MayIssue`:
nothing is issued while an UNSUBSCRIBE is under way, only subscribed names are
unsubscribed, and MONITOR stands alone on a connection.  Nothing in the code or its
documentation asks a user for that; what is wrong without it is in section 3, and one
case of it is the run `async_stray`.

### Dict, CallbackMap

`dict.c` as `async.c` uses it: the table is a function from slots to chains of
entries, newest first; `Expand` pushes the entries over one by one as the code
does; the iterator saves the successor of the entry it returns.  Values are
copied into cells that `heap` keeps account of.  `CallbackMap` is what
`async.c` wants, a map, and `Dict` implements it.  While an iterator is in use
the user may delete the entry returned last and may add nothing, which is the
contract of the code's comment.

### MC modules and proofs

The MC modules only name the values of constants and the symmetries.
The theorems are in `RedisPoolProofs`, `RedisCommandProofs`, `PoolRegistryProofs`,
`ClientCallProofs`, `SyncContextProofs`, `AsyncContextProofs`, `DictProofs` and
`ReplyReaderProofs`.
In all modules a definition under the comment "Fault:" is used by nothing: it is a plausible bug in the definition that
follows it, and replacing the one by the other makes the property named in
`PROJECT.json` fail.  Where a comment on an invariant ends in "(With the types.)"
the type invariant of the module is its first conjunct.

## 3. The runs

| run | instance | shows |
|---|---|---|
| `pool` | 2 threads, 2 sockets, 2 endpoints, clock to 2, 147,000 states | `TypeOK`, `LockDiscipline`, `HeapExact`, `GraceBounded`; `ImplementsLease`: the pool implements `SocketLease`; `CallTerminates`, `EveryLeaseEnds` |
| `pool_failover` | 2 threads, 3 sockets, 3 endpoints, the middle one reliable, lazy connecting, 2.1 million states | `FailOver`: no connect gives up while an endpoint accepts; `ScanCoversOnce`: a search looks at each socket once |
| `pool_none` | 2 threads, 2 sockets, all endpoints reliable | `NoneMeansBusy` is violated |
| `command_wire` | 2 threads, 2 sockets, 2 commands each, 4 connections, 1.0 million states | `ReplyIsOwn`, `WireIsClean`, `AtMostTwice`: late replies and retries |
| `registry_safety` | 2 threads with a Client each, 2 databases on 1 server, 2 calls each, 2 events, 129,000 states | `TypeOK`, `RefsExact`, `UsedIsLive`, `StaleIfOvertaken`, `CallsReturn`, `ReplacedByWatcher` |
| `registry_shared` | 2 threads that share a Client, 2 servers | `UsedIsLive` is violated |
| `client` | 2 calls of any typed commands of one thread or of two, 1 socket, 2 hosts, 2.9 million states | `ReportIsOwn`, `AnswersTrue`, `RepliesOwned`, `StoreByCalls` |
| `reader` | 6 streams of nested replies and 588 formats, cut anywhere, 35,500 states | `RepliesAreSent`, `ErrorIsReal`, `ObjectsOwned`, `LengthExact` |
| `sync` | 6 ways to connect, 2 addresses, 2 descriptors, 2 commands, 2 reconnects, 407,000 states | `RepliesInOrder`, `NullMeansErr`, `DescriptorsOwned`, `CallReturns` |
| `async` | `DisciplinedSpec`: 3 commands, the second without a callback, 1 channel, 1 pattern, 1 message, 309,000 states | `OwnReplyOnce`, `MessageToSubscriber`, `AssertionsHold`, `CleanMeansAnswered`, `CallbackRuns`, `DisconnectEnds` |
| `async_stray` | `Spec`: 2 commands, 2 channels | `MessageToSubscriber` is violated |
| `dict` | 4 keys, 2 values, a table that begins with 2 slots, 68,000 states | `WellPlaced`, `ValuesOwned`, `VisitsEachOnce`; `ImplementsMap`: the table implements `CallbackMap` |

*Bounds.*  `MaxTime` bounds the clock of `RedisPool`, which starts at 1.  A socket
is connected again only when the time is greater than `connect_after`: with a
delay of 1 a failure at time 1 forbids the times 1 and 2.  With a clock to 2 the
different stamps of two threads can be stored in either order.
Three sockets (`pool_failover`) are the fewest on which a search can begin in the
middle, wrap and pass another thread on both sides, and three endpoints the fewest on
which the loop over them wraps before it meets the reliable one; two threads and two
sockets (`pool`) are enough for every race on one
variable.  `Contexts` has a cell for each socket: a socket holds at most one
context, so the cells never run out, and a freed one is soon used again by another
socket.  `MaxCalls` and `MaxConns` bound the commands and connections of
`RedisCommand`: two commands of two threads and four connections let a command
time out, its socket be reused by the other thread, and the late reply arrive
there.  In `PoolRegistry` two databases on one server let a single event concern
both, and two events make a pool, its successor and the successor of that live at
once; `Pools` has a cell for each; the shared run has two servers and three events.
`ReplyReader` reads six streams with every type of reply, nesting up to one more
than `MaxDepth`, an array emptied by each way of leaving it, and garbage inside and
after an array; and all formats of up to three elements.  Piece widths 1, 9, 99,
999 and 9999 put lengths on both sides of each power of ten.  `SyncContext` has two
addresses a name, two attempts for an address in use, two commands and two
reconnects: the second one meets the number the first one left in `c->fd`, with two
descriptors for the context and the rest of the process to share.  `AsyncContext` has
three commands of any kind, one channel and one pattern: enough for a callback to
issue a command while another waits, to be
freed with callbacks in all three places, and to end subscribed mode by the last
of two names.  `Dict` has four keys in a table that begins with two slots, three of
which share one and part when it grows.  In `ClientCall` two calls meet on one
socket, of one thread or of two, over two hosts.

*Deadlock* is checked where the modules stutter explicitly at their end (`Gone`,
`Finished`, `Ended`) and in `Dict`; the other configurations switch the check off
because a context or a reader that was freed, and a client that has made its
calls, does stop.

*Fairness.*  `RedisPool`: weak fairness of each thread's steps inside a call.
Nobody waits for a lock in the pool (only `trylock` is used), `connect` and the
waiting for a reply end in a timeout (as long as `net_readwrite_timeout` is positive;
with zero or less a read waits for good, and `EveryLeaseEnds` is not for that), so a thread that is scheduled can always
go on; calling the pool at all, the clock and the main thread are not fair.
`PoolRegistry`: weak fairness of each thread inside a call and of the watcher's
loop.  Waiting for a mutex is a disabled step there; it can be disabled again
and again only while other calls last, and those are bounded.  `SyncContext`: the
steps of a call that need no more than the processor, connecting (each `poll`
has an end) and a server that answers; that a read times out is *not* assumed.
`AsyncContext`: the event loop calls a handler whose event is registered and
ready, a handler and a callback run to their end, the server takes or rejects the
connection and answers what it has received.  Writing and reading are strongly
fair: `HandleWrite` and `HandleRead` compete with each other and with the
network, and a part of a reply cannot arrive for ever without the rest of it.
What the user calls and what breaks is up to them.

### What disagrees with the text of the program

* `pool_none`: the comment above the last `return` of `redis_get_socket` says it
  is reached if every handle is unconnected or in use.  A search can also be
  overtaken: thread 1 passes a socket that is in use and is then released, while
  the free one ahead of it is taken.  There are then as many sockets as threads
  and still a caller gets none.
* `registry_shared`: the header calls `Client` thread-safe; two threads that
  share one can destroy the pool the other is using.  With a Client per thread
  (`registry_safety`) the references are exact.

* `async_stray`: `async.c` 478-481 says that a reply without a callback is simply
  ignored, "because the client doesn't know what the server will spit out over the
  wire".  The local `cb` is set to null before the loop and not before each reply:
  after SUBSCRIBE a; UNSUBSCRIBE b, with both answers in one read, the message about
  b has no callback in the dictionary, and the callback of a is run with it.

Seen while modelling, in the models as the code has it, and without a run:

* The comment on `connect_single_socket` (`hiredispool.c` 184-186) promises a grace
  period "during which we won't try connecting again"; `redis_vcommand` reconnects
  at line 498 without looking at `connect_after`.  `GraceBounded` shows that the
  period ends nevertheless.
* `test_RedisClient2.cpp` (32-33) expects the last reply to n `INCR` commands to be
  n; a command that timed out after the server had read it is executed twice.
  `AtMostTwice` is what does hold.
* hiredis' README (224-225) says the error field is non-zero when a context could
  not be made.  Three paths of `net.c` return `REDIS_ERR` without setting it:
  `SO_REUSEADDR` (358-361), a source address in use for the last time (384-386),
  and a timeout out of range for a Unix socket (457-458).  `NullMeansErr` is about
  the calls after connecting, where the rule holds.
* `async.c` 635 pushes the callback of a command on a subscribed context to
  `sub.invalid`, so that its error reply is "received and passed to the callback";
  `redisProcessCallbacks` (455-460) looks at `replies` only and takes such an error
  for a server that turns the client away.
* What else is wrong without `MayIssue`: a command issued while an UNSUBSCRIBE is under
  way is queued in `sub.invalid`, but its reply comes when the context is no longer
  subscribed, and the assertion at `async.c` 463 fails.
* `redisReconnect` leaves the closed number in `c->fd`.  When the connecting fails
  before there is a new socket, the next `redisReconnect` (647-649) or `redisFree`
  (619-620) closes that number once more, whoever has it by then, although
  `CHANGELOG.md` 97 of hiredis says "Remove possiblity of multiple close on same fd".
  `OthersKept`, a part of `DescriptorsOwned`, says that it happens nowhere else.
* `hiredis.h` 176-182 says that `redisReconnect` "re-uses the exact same connect
  options as in the initial connection".  A context made by `redisConnectFd`, or for a
  Unix socket that it never had, reconnects over TCP to a null host; the last branch of
  `redisReconnect` ("Not enough information to reconnect") is never reached.
* The grace period may end early: a time sampled before another and stored after it
  replaces the later one.  `GraceBounded` bounds it from above only.
* In monitor mode (428-430) each read without a complete reply pushes the callback
  once more; the model keeps that and bounds it (`PartialRead`).
* Commands in `sub.invalid` do not hold up a clean disconnect: they get a null
  reply.  `CleanMeansAnswered` therefore speaks of commands issued before.
* Some integer out-parameters (`scard`, `zcard`, `sismember`) keep their old value
  on an error, others are reset; `mget` and `hmget` add to a map without clearing it.
  The models have each as it is, and `AnswersTrue` is about status ok.

## 4. The proofs

Each component's theorems are in a module of their own that extends the module
of the component.  All theorems are for any number of threads, sockets,
commands and whatever else the constants of the module stand for, from the
`ASSUME` of the module alone (the special values differ from the ordinary ones,
sets that are counted are finite, bounds are natural numbers, calls, replies and
formats have the parts they need), with two exceptions that the statements name:
`OwnClients` in `PoolRegistryProofs`, and the user of `DisciplinedSpec` in
`AsyncContextProofs`.  Each inductive invariant was checked by TLC on the run's
instance before it was proved.

| module | theorem | statement |
|---|---|---|
| `RedisPoolProofs` | `Typing`, `TypeCorrect` | `Spec => []TypeInv`, `Spec => []TypeOK` |
| | `LocksKept` | `Spec => []LockDiscipline` |
| | `StatesKept` | `Spec => [](StateInv /\ SocketStates)` |
| | `HeapSound` | `Spec => []HeapExact` |
| | `ScanComplete` | `Spec => []ScanCoversOnce` |
| | `GraceEnds` | `Spec => []GraceBounded` |
| | `EveryEndpointTried` | `Spec => []FailOver` |
| | `PoolImplementsLease` | `Spec => ImplementsLease` |
| `RedisCommandProofs` | `OwnReply` | `Spec => []ReplyIsOwn` |
| | `CleanWire` | `Spec => []WireIsClean` |
| | `TwoAttempts` | `Spec => []AtMostTwice` |
| `PoolRegistryProofs` | `RegistryTypes` | `OwnClients`: `Spec => []TypeOK` |
| | `CountsAreExact` | `OwnClients`: `Spec => []RefsExact` |
| | `NotDestroyedInUse` | `OwnClients`: `Spec => []UsedIsLive` |
| | `StaleOnlyIfOvertaken` | `OwnClients`: `Spec => []StaleIfOvertaken` |
| | `OnePoolPerDb` | `Spec => ReplacedByWatcher` |
| `ClientCallProofs` | `FailureIsTheCallers` | `Spec => []ReportIsOwn` |
| | `EachReplyHasOneOwner` | `Spec => []RepliesOwned` |
| | `AnswersAreTrue` | `Spec => []AnswersTrue` |
| | `ChangesAreCalls` | `Spec => StoreByCalls` |
| `SyncContextProofs` | `NullHasError` | `Spec => []NullMeansErr` |
| | `NoDescriptorLost` | `Spec => DescriptorsOwned` |
| | `OrderKept` | `Spec => []RepliesInOrder` |
| `AsyncContextProofs` | `RepliesReachTheirCallbacks` | `DisciplinedSpec => []OwnReplyOnce` |
| | `MessagesReachTheirCallbacks` | `DisciplinedSpec => []MessageToSubscriber` |
| | `NoAssertionFails` | `DisciplinedSpec => []AssertionsHold` |
| | `DisconnectWaitsForReplies` | `DisciplinedSpec => []CleanMeansAnswered` |
| `DictProofs` | `SearchesMissNothing` | `Spec => []WellPlaced` |
| | `ValuesFreedOnce` | `Spec => []ValuesOwned` |
| | `IterationIsComplete` | `Spec => []VisitsEachOnce` |
| | `DictIsAMap` | `Spec => ImplementsMap` |
| `ReplyReaderProofs` | `RoundTrip` | `Command(FormatArgs(f).argv)` is the wire of what `f` means |
| | `Ownership` | `Spec => []ObjectsOwned` |
| | `Delivery` | `Spec => []RepliesAreSent` |
| | `ErrorsAreReal` | `Spec => []ErrorIsReal` |

### RedisPool

From `PoolAssumption`: there is at least one endpoint (the check at line 33).  The
number of sockets may be zero (nothing in the code refuses it).  The argument is in
layers, each inductive relative to those below.

1. `TypeInv` is `TypeOK` with what the labels say: how far the main thread has
   come in building or freeing the list (`MainControl`), and for each thread which
   sockets its `cur` and `start` can be (`ThreadControl`).  `TypeOK` alone is not
   inductive: that `cur` is a socket when it is dereferenced depends on the label
   and on the list being complete while the pool serves.
2. `LockDiscipline` is inductive with `TypeInv`.
3. `SocketStates` says in which state a socket is at each label.  Its steps need
   that no two processes work on one socket (`LockDiscipline`, lemma
   `ConnectAlone`).
4. `HeapInv` spells `HeapExact` out context by context, with the contexts of
   different sockets distinct; it needs 3 to know which sockets own one.
5. `ScanCoversOnce` needs only `TypeInv`: the sockets passed are a function of
   `cur`, `start` and the head of the list.
6. `GraceInv` adds that a time still to be stored is no later than one delay from
   now, whoever stores it last.
7. `FailOver` needs that every reliable endpoint is still ahead of the loop: the
   connects made and those to it from the socket's `backup`, which moves on modulo
   the number of endpoints, are fewer than the endpoints (`AcceptingAhead`).
8. `PoolImplementsLease` shows that initial states map to initial states and each
   action to one of `SocketLease`, or to a stutter, with 3 for the guards.

### RedisCommand

`ReplyIsOwn` alone says nothing of what is under way.  `TypeInv` ties threads,
sockets and connections together: a thread inside a command leases its socket, the
contexts of different sockets are on different connections, a connection not made
yet has no history.  On it rests the invariant of the wire: a connection that is
not broken for its context carries nothing but the request, or the reply, that the
holder of its socket waits for.  A late reply can thus only be on a connection that
was closed or whose context has an error, and hiredis does not read from such a
context.  `AtMostTwice` counts the copies of a command, still to be executed and
executed, against the label of its thread.

### PoolRegistry

`RefsExact` is a sum over all pointers (the map, the members, the locals of calls
in progress) that each step changes in at most two places; lemma `CountChange`
says what that does to a cardinality.  `UsedIsLive` follows from it, as
the pool of a running command is the member of its `Client`.  `StaleIfOvertaken`
adds, for each call between two critical sections, that the configuration it has
read is the present one or the history knows that it was overtaken.  The hypothesis
`OwnClients` says that no two threads use the same `Client`; the code leaves that to
its caller, and without it `UsedIsLive` is false (`registry_shared`).
`OnePoolPerDb` does not need it.

### ClientCall, ReplyPtr

`Owned` gives `OwnedOnce` by operations of the pointer (lemmas `MakeOwned`,
`HandOverOwned`, `DestroyOwned`); `Numbered` says that a thread's variables point
to packs of its own, and `Place` where the pack of the call in progress is at each
label.  `Content` is what `ReportIsOwn` becomes before the call is over: up to an
answer the pack is as it was made, at `error` the last error of the socket is the
cause of this failure and not 0, at `target` there is a reply and its host is that
of the context.  It is kept by the steps of others because a socket in use is held
(`Holding`), so nobody else connects it or overwrites its error.

`AnswersTrue` and `StoreByCalls` are for all calls that `CallOK` allows, on a database
of any size.

1. *Sequences.*  A finite set with a linear order has an increasing enumeration (each
   member at the number of those before it, `AscendingExists`) and only one
   (`AscendingOnce`), so what a `std::set` or `std::map` is iterated in is known from
   its members alone (`SortedIs`, `CollectedIs`), also for the order by score
   (`ByScoreIs`).  What two sequences in turn hold at odd and even places gives the
   map that the server reads (`InTurnIs`, `MapOfSorted`, `PairsSent`).
2. *Commands*, in groups: what the server does with the arguments of a call is its
   `Effect`, and what the client makes of the reply is its `Truth` (`CallTold`).  In
   `mget` and `hmget` the places of the strings among the elements are the places of
   the names that have a value (`ByNameIs`).
3. *The invariant*, `TInv` on top of the above: from `target` on, unless the reply is
   null or an error, it tells the `truth` of its thread (`Tells`).  A step of another
   thread changes neither the pack, which is not its own, nor the call (`TrulyElsewhere`);
   a retry after an attempt that a server did execute sets `truth` anew.

### SyncContext

Three invariants: `Control` (what a call will return at each label), `FdInv` (which
descriptor is open at each step of connecting, and when the number in `c->fd` may be
that of a descriptor closed before; both parts of `DescriptorsOwned` follow from it),
and `StreamInv` (the replies returned, those in the reader, on the wire and still to
be made by the server are, in this order, the answers to the commands appended since
the last reconnect).

### AsyncContext

The largest one: `IInv` describes the whole pipeline from the user to the server
and back.  Outside of monitor mode the commands that wait stand in `replies` and
then in `invalid` in the order of issue (`Lists`); as long as the context lives each
reply on its way is to one of them, in that order, and before every message that a
later SUBSCRIBE brings (`Contents`, `Ordered`, `MessagesLater`); while the
connection stands each command that waits has its reply or itself on the way
(`Flight`); what the context and what the server take for subscribed differ by what
is on the way (`Subscriptions`, `Unsubscribes`).  Hence a reply that finds `replies`
empty is a message or belongs to `invalid`, which is the assertion at line 463, and
one that finds the head of `replies` is for that head.  All four theorems are about
`DisciplinedSpec`.  Where `MayIssue` is used: `Unsubscribes` and `Subscriptions` need
that an UNSUBSCRIBE is for subscribed names and that nothing follows it before its
messages are processed; that MONITOR stands alone keeps the callbacks it pushes again
and again out of `Lists`.

### Dict

For every finite set of keys, every hash function and every initial size.

1. *What the recursive functions compute.*  `Doubled`, `EntriesUpTo` and `Pushed` are
   recursive functions over an interval of numbers.  Lemma `LeastNumber` (a set of
   natural numbers that is not empty has a least member, from the well-foundedness of
   `<`) gives induction over a set (`UpTo`), the existence of a function built up by
   steps that are themselves a function (`Recursion`), and that there is only one
   (`SameRecursion`).  With them: the walk through a table lists each of its entries
   once (`AllEntriesAre`), pushing a list into empty slots gives a table of just these
   entries, each in its slot (`PushedAre`), hence `dictExpand` loses none (`ExpandIs`).
2. *What an operation on a chain does*, for tables as values: `PutIn`, `SetIn`,
   `UnlinkIn`, `Found`.  They reduce a table to the set of its entries, `Held`.
3. *The invariant.*  `TableInv`: the table is in order and `used` is the number of keys
   held; `CellInv`: a cell is in use exactly when it is the value of an entry, which is
   that of the cell's own key (so one of a key's two cells is free for `dictReplace`);
   `IterInv`: the slots behind the iterator are seen, those before it are not, and in
   its own slot exactly the entries before the saved `next` are (`SeenUpTo`).  The last
   is what survives the user deleting the entry he was given.
4. `ImplementsMap`: by `MappedIs` the map is read off `Held` and the cells, and each
   action changes it as the operation of `CallbackMap` does (`MapStep`).

### WireFormat, ReplyReader

For all replies, streams of them, formats, depths of the stack, sizes at which the
buffer is cut, ways to feed it, and failures of allocations.  `WireAssumption` says
that the replies are finite trees of pieces that have a width, `ReaderAssumption`
that streams and formats are made of these and that what an accepted format means is
among the replies.

1. *What the recursive functions compute.*  Replies have a height and the elements of
   an object are younger than it, so with `LeastNumber` (a set of natural numbers has
   a least member) there is a function for `Wire`, `Plain` and `Fits` (`Trees`), and
   one for `Below` and `Value` (`HeapSteps`); what they are follows (`WireIs`,
   `FitsIs`, `BelowIs`, `ValueIs`).  `FlattenJoins` says what is left of joined
   sequences after some of them: `After(rs)[i]` are the tokens of `rs` after the first
   `i`.
2. *Formats.*  At each place the arguments collected, with the one in progress, are
   the words that the reference finds in the format up to there (`ScanCollects`);
   hence `RoundTrip`.
3. *Ownership*, `IInvA`.  Nothing is an element twice and what is an element is not
   owned (`Forest`, `Owned`), so that what owners have below them is disjoint
   (`NothingInCommon`).  `ObjectsOwned` alone is not inductive: where a new object is
   put decides.  `Filling` says that the arrays on the stack are below `root`, older
   the further out, as long as their headers said, and filled up to the element in
   progress; that one is still empty when an object is created.
4. *Position*, `IInvB`.  For the reply `sent[Len(out) + 1]` there is a path of nested
   replies, one for each task, such that in the array of each task the elements so far
   are complete and have the values they should (`Level`), and what has not been
   consumed, fed or not, is the rest of the innermost one followed by the rests of
   those around it (`Here`).  A new object leaves the values of complete ones alone
   (`ValueStays`): the arrays it is put into are on the stack, and these are below no
   complete element.  `moveToNextTask` leaves the levels that the new object
   completes, from the innermost outward (`LevelsDone`).  A node of the path that does
   not fit makes the whole reply refused, which gives `Wrong`: the error of the
   protocol is in the reply in progress.  `Waiting` says that the user who was told
   that there is no reply has to feed more, and gives the last part of
   `RepliesAreSent` (`AllRead`): a reply that nothing is left of is complete.

Two things came to light on the way.  The reference for depth had counted a null array
as no level, which the code does not; no stream of the run had told the difference,
and now one does (the fifth of `SomeStreams`).  And two guards of `ScanElement`
overlapped, so that which of them applied was left open once an error had been found.

### What is only model-checked

* Liveness: `CallTerminates`, `EveryLeaseEnds`, `CallsReturn`, `CallReturns`,
  `CallbackRuns`, `DisconnectEnds`.  Leads-to under fairness, with `ENABLED`, is
  beyond the prover.
* `LengthExact` of `ReplyReader`: `CountDigits` and `Digits` are about powers of ten,
  and none of the provers knows exponentiation.
* The three violated properties, which are false (`MessageToSubscriber` for any user).

## 5. Not modelled

* The checks at the beginning of `redis_pool_create` and what `convert` reads out
  of the attributes of a configuration: comparisons and conversions of single
  values before any state exists.  That zero sockets pass them is a hazard in
  `PROJECT.json`; the pool is modelled and proved with that case.
* `log.c`: formatting and output; nothing else depends on its state.
* `sds.c`, the event adapters and the examples of hiredis: string operations that
  the models take as sequences, glue to libraries that are not in the repository,
  and programs that show how to call the interface.
* Of the typed commands: `type`, `expire`, `ttl`, `persist`, `setex`, `setMapValue`,
  `getMapValue`, and the variants in reverse order or by textual bounds, which
  share their implementation with a modelled one.
* Allocation failures in `dict.c` and `async.c` (the former does not check them),
  in the pool, and the failures of `pthread_mutex_unlock`.
* Wall clocks that are set back, and callers that hold one socket over several
  commands; both are listed as hazards without a property.
* The bytes of strings: host names cut to the 16 bytes of `errhost`, names with a
  NUL inside, and the conversions of numbers: scores printed by `%f` with six
  digits, negative numbers by `%u`, and what `atol` makes of a text.  Numbers are
  themselves in the models.
* Malformed integers and lengths in what a server sends, which `read.c` reads leniently;
  a byte that is no type is among the streams.
* Formats that end inside a conversion, such as `"%5"`: `strchr` finds the terminating
  zero among the conversions (`hiredis.c` 301) and the loop goes on behind the end of
  the format, which is undefined.  Formats are literals of the calling program.
  The allocations of `redisvFormatCommand` are taken to succeed.
* UNSUBSCRIBE without a name: when no channel is subscribed the server answers with a
  null for the name, and the assertion at `async.c` 386 fails.
* `redisAsyncDisconnect` and `redisAsyncFree` called from inside the connect
  callback, before the context has left the handler.

## 6. Plan

What the present modules leave out and could take in next: callers that hold a socket
over several commands, and the configuration checks before a pool is created.
