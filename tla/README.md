# A verification of sherry

sherry is an actor library in C: cooperative actors on one thread, each with a
mailbox, scheduled over a libuv event loop (`src/sherry.c`, 702 lines). This
directory models it in TLA+, checks the models with TLC and proves the main
safety properties of the core with TLAPS.

## 1. The system

| Part | State it keeps | Operations | What makes it correct |
|---|---|---|---|
| Registry (`sherry.c:289-350`) | `actors`, `sizeactors`, `curractors`, `actor_t.aid` | `reg_actor`, `unreg_actor`, `get_actor` | the slots hold exactly the live actors, through reuse and growth |
| Scheduler (`353-424`) | `readyq`, `running`, `actor_t.status`, saved contexts | `setready`, `setrunning`, `unblock_all`, `schdule`, `yield`, `sherry_main`, `sherry_spawn`, `sherry_yield` | no live actor is lost, no dead one runs, ready ones get the thread |
| Mailboxes (`426-467`) | `actor_t.mailbox`, `waitingmsg` | `sherry_msg_send`, `sherry_msg_recv` | FIFO, no lost wakeup, a woken receiver finds a message |
| Life cycle (`660-701`) | `sche` | `sherry_init`, `sherry_exit` | nobody is left when the scheduler is freed; exit returns |
| Lists (`43-128`) | `head`, `tail`, `prev`, `next` | `list_insert`, `list_erase`, `list_enqueue`, `list_dequeue` | the pointers represent a sequence, if a node is in one list at most |
| Network (`469-658`) | `rbuf`, `roffset`, `rerror`, `waitq`, libuv requests | `sherry_accept`, `sherry_read`, `sherry_write`, `sherry_fd_close`, `listen_cb`, `read_cb`, `write_cb`, `close_cb` | bytes in order and none lost, EOF reaches readers, waiters are woken |
| SDS strings (`sds.c`) | header type, `len`, `alloc`, bytes | growth, ranges, trimming, splitting, quoting, printing | `len <= alloc`, the header type can hold `alloc`, no size wraps, round trips |
| `examples/test.c` | | yielding actors, ping-pong, two rounds of init and exit | among the behaviours of the core |
| `examples/http-server.c` | `server_fd`, `client_fd` of main and of each handler | the accept loop of `main`, `http_handler` | one owner per connection, whole responses, every request is answered |
| `examples/sherry-chat.c` | `clireader`, `cliwriter`, mailboxes, descriptors | `clientAccpetor`, `clientReader`, `clientWriter`, the loop of `main` | the tables name live actors of the right client, lines in order, nothing is left of a client that went |

All actors share one thread. An actor keeps it until it calls something that
yields, so the code between two context switches is atomic. What makes the
program hard is not preemption but the *order* of these atomic pieces: who
blocks, who is woken by whom and what changed in between, the reuse of slots
and list nodes, callbacks that run only when no actor is ready, and errors that
come back through a callback after the caller has blocked.

## 2. Modules

| Module | What it is |
|---|---|
| `Sched` | the core: registry, scheduler, mailboxes, life cycle; one action per call up to its `yield()`, or from the point it is resumed at |
| `ActorModel` | the abstract specification: what actors see of the core |
| `MCSched` | `Sched` for TLC, with the symmetry of actor structs |
| `SchedProof`, `SchedRefines` | the inductive invariant of `Sched` with the safety theorems, and the proof that `Sched` implements `ActorModel` |
| `IntrusiveList` | the list functions, pointer by pointer |
| `FifoLists` | the abstract specification: each list is a sequence |
| `ListProof` | that the pointers represent sequences, and that the functions on them implement `FifoLists` |
| `Net` | the calls and callbacks on descriptors, over `Sched`; libuv and the peer as environment |
| `MCNet` | `Net` for TLC |
| `NetProof` | that `Net` implements `Sched`, and the invariant of its queues |
| `FdProof` | that no descriptor is used after it is freed, no event is missed and bytes keep their order |
| `HttpServer` | `examples/http-server.c`, statement by statement over `Net` |
| `HttpProof` | that the server keeps the contract of `Net`, and its two safety properties |
| `Chat` | `examples/sherry-chat.c`, over messages and descriptors |
| `ChatProof` | the four safety properties of the chat, from two inductive invariants |
| `SdsText` | the functions of `sds.c` that keep no state |
| `SdsBuffer` | one sds string and the calls that change it |
| `MCSds` | `SdsBuffer` for TLC, with the header widths scaled down |
| `SdsProof` | the header, the room and the content of a string, for all widths and texts; what quoting, splitting and printing numbers compute |

### How `Sched` corresponds to the code

* Variables carry the names of the fields they stand for (`sizeactors`,
  `curractors`, `actors`, `main`, `running`, `readyq`, `waitingmsg`, and `aid`,
  `status`, `mailbox` per actor struct). `heap` is the set of structs
  `new_actor` has returned: `free_actor` is never called, so it only grows.
  `at` is the saved context of an actor, reduced to the call it stands in;
  `ctl` says who has the thread.
* `readyq` is a sequence. `waitingmsg` is a set, because the code only enqueues
  and erases it and never walks it.
* Actions have the names of the functions. A function with a `yield()` in the
  middle is two actions: `RecvBlock`/`RecvResume` for `sherry_msg_recv`,
  `block_fd`/`IoReturn` for the calls on descriptors, `ExitYield`/`sherry_exit`
  for the loop of `sherry_exit`. An actor function may make any call next.
* `block_fd`, `Callback`, `CallbackAborts` keep the network abstract: an actor
  waits for an event, and inside `uv_run` a callback makes some of those actors
  ready (`unblock_all`), or one, after which `write_cb` may abort the process.
* `SendToExited` is a send to the id of an actor that has exited. The code
  dereferences NULL; the process ends. Ids that never existed are not sent to.
* `sherry_init` may be called again after `sherry_exit`, as `test.c` does. Each
  call takes a struct of `Mains`. Only the main actor calls `sherry_exit`.

`ActorModel` has no scheduler, slots or queues: a set of live actors with
distinct ids, an inbox each, and the actors that wait. The mapping takes `live`
to the actors whose function has not returned, `id` to `aid`, `inbox` to
`mailbox`, `waiting` to the actors inside the second half of
`sherry_msg_recv`. Everything else the core does is a stutter.

### How `Net` corresponds to the code

`Net` extends `Sched` and keeps its actions. It adds, for each descriptor, the
fields of `struct sherry_fd_s` under their names (`waitq`, `rbuf`, `roffset`,
`rerror`), and in `handle` what has become of the libuv handle. `call` is the
network call a blocked actor stands in, with its arguments: what `Sched` knows
only as `at[a] = "io"`.

* `sherry_accept` and `sherry_read` are loops around `block_fd`. `AcceptLoop`
  and `ReadLoop` are one turn of them, entered from the actor function or from
  `AcceptResume`/`ReadResume`, and end in `Returns` or `Blocks`.
* `listen_cb`, `read_cb`, `write_cb`, `close_cb` happen in `uv_run` only.
  `WakeReaders` is `unblock_all`; as a step of `Sched` it is `Callback`.
* A byte is its number in the stream, so `rbuf` shows which bytes were skipped.
  A buffer has the size of `rbuf_alloc` (`BufSize`); what `read` did not fill is
  `Junk`, one value for whatever was in that memory, and `sherry_read` returns it
  like any other byte.
  `got` is a history variable: what `sherry_read` has returned.
* A descriptor is the address that `fdnew` returned and is not reused.

*libuv* (external) is modelled by what the callbacks rely on: a server holds
one connection until `uv_accept` takes it; a stream that is read once is read
until EOF, an error or `uv_close`. A second `uv_read_start` on it changes nothing:
either it succeeds, which is what the comment at `sherry.c:613` relies on, or, as in
newer versions of libuv, it gives `UV_EALREADY`, which `sherry_read` returns at once
(`ReadRefused`). Write requests
complete in order, and those of a closed handle are called back before
`close_cb`; `uv_close` stops the other callbacks at once. A peer may send, end
or reset at any time.

*The callers* use a descriptor from `sherry_fd_tcp` to `sherry_fd_close`, and
nobody else uses the `clientfd` of an accept while that call lasts. Several
actors may be inside calls on one descriptor, and another may close it.

### How `HttpServer` corresponds to the code

`pc` is the statement an actor is in or comes to next, `server_fd` and
`client_fd` are the variables of that name. An action is one statement, that is
one call of `Net` (or of `Sched`: `Spawn`, and `Return`, which is the rest of
`sherry_main`). A call that blocks keeps its actor at the statement until the
second half, `AcceptResume`, `ReadResume` or `WriteResume`, returns; callbacks and
the scheduler run in between. The guards of `Net` are the contract of its
callers. `HttpServer` does not choose only calls that satisfy it: `pc` says which
call comes, and `ConnectionOwned` says that the contract holds then. `said` is a
history of the writes that succeeded. malloc returns one of the free addresses,
always the same choice, since addresses that were never used are
interchangeable.

`main` ends when the set-up fails. An accept that fails leaves a `client_fd`
nobody knows; a handler that reads EOF or an error returns and leaves its
descriptor open. Both are in the model.

### How `Chat` corresponds to the code

The example is written for an older API (`sherrySendMsg`, `sherryAccept`, ...)
that is not in the repository, and the Makefile does not build it. The calls are
external, modelled by what the program relies on: mailboxes are first in first
out, `sherryReceiveMsg`, `sherryRead`, `sherryWrite` and `sherryAccept` block, an
actor id and a file descriptor are the lowest free number (the reader of a client
is spawned first and gets the lower of the two ids). So ids and descriptors
come back as soon as they can, which is what the hazards of this program are
about. Actors are coroutines: the code between two blocking calls is one action.
`clientWriter` is such a piece, from the end of one `sherryWrite`, or from
an empty mailbox, through `sherryReceiveMsg` to the next; the write takes effect
at its end, on the connection that the number stands for *then*. The server's
loop is `Create`, `Exit` and `Broadcast`, one message each.

`socket` is the kernel's table of descriptors. `actor` has the function and the
argument of each id and, as a history, the connection it was made for; `peer`,
`out`, `log` and `joined` are histories, too: `out[c][d]` is what connection `c` has
got from the writers that were made for `d`. A line of text is its client and its
number.

### How the lists correspond to the code

`IntrusiveList` has the pointers of the code and, in `where`, what the callers
know: the list a node is in. Its guards are the contract of the functions: a
node to insert is in no list, one to erase is in that list. For the nodes of
actors that contract is `OneQueuePerNode` of `Sched` and `WaitersLinkedOnce` of
`Net`. `FifoLists` is on sequences; the mapping walks `next` from `head`.

### How `SdsBuffer` corresponds to the code

An operator with the name of a function takes a string to the one it returns;
an action is a call by a program, in any order. `type`, `len` and `alloc` are
the header; `room` is what was allocated behind it; `mem` the bytes written
from the start, as far as they are defined; `over` counts the writes that left
`room`. A field keeps the low bits of what is stored (`Field`), so a type
chosen too small shows. `sdscatfmt` and `sdscatrepr` append piece by piece: a
first action, and one for each piece, with the string in between visible.
`sdssplitargs` is a scanner, a record that each byte takes one step on.
`sdssplitlen` gives with each token whether the array had a slot for it.
`sdscatvprintf` is given what the format prints, and takes it through one buffer
or two. `GrownSizes` is the arithmetic of `sdsMakeRoomFor` in `size_t`
(`% SizeMod`) with its assertion; the string operations use the sum without
overflow, since the process ends where the two differ (`GrowthNeverWraps`).

Operators with a comment "Mutant" are wrong versions of the definition that
follows them. No specification uses them; each shows that a property notices
the mistake it describes.

## 3. What is checked

| Run | Instance | Shows |
|---|---|---|
| `sched_safety` | main and 3 actors, array of 1 slot, mailboxes of 1 | the type invariant and six safety invariants (below) |
| `sched_live` | two mains, 1 actor, 2 message types, mailboxes of 2 | two rounds of init and exit, with the ids used again, implement `ActorModel`: messages are received once, in the order sent; and liveness: `ReadyRuns`, `ExitReturns`, and `WaitersServed`, the fairness of `ActorModel` |
| `lists` | 4 nodes, 2 lists | `LinksAgree`, and the pointers implement `FifoLists` |
| `net_safety` | main and 2 actors, 2 descriptors, 3 bytes in buffers of 2, reads of at most 2 | wait queues, requests, buffers and descriptors stay consistent |
| `net_accept` | main and 1 actor, 3 descriptors, no bytes | competing acceptors miss no connection and take it in the end |
| `http` | a server, 3 connections, 2 handlers, requests of at most 2 bytes | connections have one owner, responses are whole, requests are answered |
| `chat` | 3 connections in 2 descriptors, 2 lines | registration, broadcast and departure, with descriptors and ids used again |
| `sds` | one string of at most 4 bytes, types below 3, 5, 8 and 11 | header, room, content, sizes; quoting, splitting, ranges, numbers and printf against what they should be |

Safety properties of the core:

* `OneQueuePerNode`: an actor has *one* list node. It is in `readyq` iff the
  status is READY, in `waitingmsg` iff it is WAIT_MSG, never in two lists. This
  is the precondition of every list operation of the core.
* `NobodyStranded`: every live actor is running, or in a status from which
  something can wake it and with its context where that status says.
* `RecvFindsMessage`: a receiver that was woken has a message, although the code
  does not look again.
* `DeadStayDead`: nothing queues or resumes an actor that has exited.
* `TableSound`: the slots hold the live actors, `curractors` counts them, main
  keeps slot 0.
* `ExitLeavesNobody`: `sherry_exit` frees the scheduler only when nobody is
  left in it.

`NoLostWakeup` (a blocked receiver has an empty mailbox) and `MailForOwner` (a
message is in the mailbox of its `recver`) are part of the inductive invariant and
proved; the runs check what follows from them.

Of the network:

* `WaitersLinkedOnce`, `RequestsOfBlocked`: the list node of a blocked actor is
  in the wait queue of its descriptor, once; libuv holds a write request, which
  is on the stack of the writer, exactly while that writer is blocked.
* `NoUseAfterFree`: a woken reader or acceptor returns to a descriptor that
  another actor may have closed meanwhile; it is not freed yet.
* `AcceptNotMissed`, `ReadNotMissed`, `AcceptServed`: no wakeup is lost although
  several actors wait and one of them takes what there is.
* `BytesInOrder`: no byte of the peer is returned twice or out of order by
  `sherry_read`, whatever junk is returned in between.

Of the HTTP server:

* `ConnectionOwned`: a connection has one owner at a time, main up to the
  `sherry_spawn` and its handler after, and is in the state that the next call on
  it needs; when it is closed nobody is blocked on it, so that `sherry_fd_close`,
  which wakes nobody, strands nobody.
* `ResponseWhole`: what is closed by a handler has sent header and body, in that
  order, after a request was read; a handler that returns without closing has read
  nothing but EOF or an error, and has sent nothing.
* `RequestAnswered`: a client whose request has arrived is answered and closed if it
  reads, whatever the others do, except one whose EOF or error arrives before the
  handler has read the request. The exception is real: it is what `find_buffer`
  shows of `sherry_read`, seen from the client.

Of the chat:

* `FdInOnePlace`: an open descriptor is in a `CREATE` message, with its reader or
  in an `EXIT` message, in one of them, and in the tables in the last two cases.
  That keeps `close(fd)` from closing a newer connection of the same number, and
  `EXIT` from going to id 0, which is main.
* `WritersRegistered`: an id in `cliwriter` is that of the live writer of that
  connection, so no message goes to an actor that has exited.
* `BroadcastInOrder`: a client gets the welcome, then the lines of the others, each
  once and in the order of main; all of them since it joined but the exception
  under "Seen while modelling". What it "gets" is what has been written, is being
  written and waits in the mailbox of its writer, one after the other.
* `NoEcho`: no client gets a line of its own, by no writer.
* `ClientsLeave`: after EOF the descriptor is closed and the writer returns.

Of the strings:

* `HeaderSound`, `RoomMade`, `ContentKept`: see section 4.
* `RangeKeepsBetween`: `sdsrange` against the set of indices it should keep.
* `QuotingRoundTrip`: `sdssplitargs` reads back what `sdscatrepr` wrote.
* `SplitSound`: `sdsjoinsds` undoes `sdssplitlen`, no token has the separator, and
  each is written inside the array. It splits three copies of the content, for
  more tokens than the first array and its double have slots.
* `IncrLenGuarded`: an increment that the assertion of `sdsIncrLen` accepts, upwards
  or downwards, keeps the length and the NUL inside the space; it tries one past the
  last that fits on both sides. Upwards it is not for type 5, where the assertion
  knows no space.
* `GrowthNeverWraps`: when the length asked for is a `size_t`, no sum after it that
  has wrapped passes the assertion of `sdsMakeRoomFor`. A wrap of that length itself
  can pass (see below).
* `PrintfWhole`: `sdscatvprintf` appends all that is printed, whichever of its
  buffers it goes through.
* `NumbersPrinted`: the digits of `sdsll2str` have the value of the number. Numbers
  have no width in the model: the branch for `LLONG_MIN` (`sds.c:461`) is there against
  an overflow that is undefined in C, and nothing checked here depends on it.

**Bounds.** An initial array of one slot makes the array grow at the first and
third registration; three actors are enough for a slot to be freed and taken
again while another actor holds a message or the thread. A mailbox bound of one
already separates empty from not empty, which is all the code tests; the order
of messages is checked with two, in `sched_live`. `MaxMail` guards only the send. Structs
are never reused, so the number of spawns in a behaviour is bounded by the
number of actors. Three bytes in buffers of two, read by one or two,
give a buffer that is read in parts, one that is not full, and one that is replaced when half read;
three actors, two that wait and one that closes or comes too late. Acceptors
need no bytes, so `net_accept` has none, and three descriptors: a server and a
client for each actor. `http` has a descriptor for the server, one for each of two
handlers, and the one main waits with; a client connects only while there is a
descriptor for the next. Two handlers at once are the least in which one can
block or fail beside the other; a request is one byte or more. In `chat` three
connections with two descriptors are the least in which a number is used again
while another client stays; connections are numbered in the order of
`sherryAccept`, which loses nothing since the model asks nothing of them before.
Two lines show the order. The string lengths meet all five header types: growth
doubles a length below `SDS_MAX_PREALLOC` (5) and adds 5 above, which takes a
string of 4 bytes past the limit of type 32; the bytes are those that quoting,
C strings and splitting treat specially. The first buffer of `sdscatvprintf` has 2
bytes (`StaticBuf`), so texts are shorter, as long and longer; a `size_t` is below
64 (`SizeMod`), which leaves room for every header, and `GrowthNeverWraps` tries
every length to add.

**Fairness.** `schdule()`, `uv_run()` and the rest of a call after its
`yield()` are straight-line code: weak fairness. `GivesUp` is the contract of
cooperative scheduling, that an actor with the thread sooner or later yields,
blocks or returns; no code of sherry takes the thread away from it. Nothing is
assumed of the network: no fairness on callbacks. `ExitReturns` has a premise
of its own, that an actor function that runs again and again returns in the
end (strong fairness of `sherry_main`), which is what the programs of `test.c`
do. `NetFairness` is the same for the calls of `Net`. `HttpFairSpec` has weak
fairness of the program's statements (straight-line code) and of the scheduler and
the loop; `RequestAnswered` has as premise that writes to that client complete
(strong fairness of `Written(f)`), which is that the client reads; its left side is
`sent`, the bytes libuv has handed to `read_cb`, not what the handler has read. `FairSpec` of
`Chat` has weak fairness of the server and of each writer: the scheduler runs
actors that can go on (`ReadyRuns`), and every `sherryWrite` returns. Nothing is
assumed of the clients, not even that they leave.

`CHECK_DEADLOCK FALSE` is in the runs of `Sched`, `Net` and the examples because a
program may end (`sherry_exit`, a crash) or wait for a peer that never answers, and in
`lists`, where a state without free nodes need not be left. `sds` checks it.

### Where the code and its documentation disagree

| Run | Finding |
|---|---|
| `find_exit` | the loop of `sherry_exit` yields while actors are left. It keeps `readyq` busy, so `uv_run` is never called and an actor that waits for a descriptor is never woken |
| `find_eof` | `read_cb` returns on EOF and errors before `unblock_all`: an actor already blocked in `sherry_read` sleeps for good |
| `find_buffer` | `read_cb` replaces the buffer whether or not its bytes have been read; and `sherry_read` looks at `rerror` before the buffer, so EOF or an error hides the bytes left in it: when they come with a request in one round of the event loop, `http_handler` returns without an answer to a client that has sent one |
| `find_junk` | `read_cb` drops `nread`, and the buffer has the size of `rbuf_alloc`: after the bytes of the peer `sherry_read` returns what else is in the buffer, where the comment says that it blocks |

Seen while modelling, with no run of their own. In the core: `sherry_spawn` queues
the new actor and returns, while its comment (`sherry.c:409-410`) promises to give
it control; a message nobody received, and every actor struct, outlives
`sherry_exit` (the call of `free_actor` in `unreg_actor` is commented out), where
`test.c:43-44` expects valgrind to be content; `write_cb` asserts that a write never
fails, so a peer that resets a connection ends the process; with a libuv that refuses a
second `uv_read_start` only the first `sherry_read` of a connection can succeed.

In `sds.c`: the assertion of `sdsMakeRoomFor` is there to "Catch size_t overflow"
(`sds.c:232`), but compares with `reqlen`, so it can hold when `len+addlen` itself has
wrapped, and the space is then shorter than the string; `sdsclear` of a type 5 string loses its space (type 5 has no `alloc`),
while the comment at `sds.c:189-192` says that the existing buffer is kept as free
space, and `sdsAllocSize` is too small from then on; `sdstrim` also trims NUL bytes,
because `strchr` finds the terminator of `cset`; `sdsrange(s, 0, -100)` keeps the
first byte; `sdsIncrLen(s, 0)` aborts for type 5, and its assertion accepts an
increment there that the space may not hold; `sdssplitlen` does not set `*count` when the first allocation fails.

In the examples: one client of the HTTP server that resets its connection while it
is written to ends the server for all, by the assertion above; `http_handler` does
not close its descriptor after EOF or an error, nor does `main` after an accept that
failed. In the chat, a writer that still has messages when its descriptor is closed
writes them into the next connection with that number; `main` compares ids when it
broadcasts, so the last line of a client that has gone skips a new client whose
reader got its id (the exception of `BroadcastInOrder`); descriptors are indices of
tables of 1000 entries without a test (`MaxFd` stays below); `/nick` of the welcome
message does not exist.

## 4. What is proved

**Core**, for every finite set of actors, array size, set of message types and
mailbox bound (`SchedAssumption`):

* `TypeCorrect`: `TypeOK`, which is inductive by itself.
* `QueuesSound`, `NoActorLost`, `ReceiveSafe`, `NoResurrection`,
  `TableCorrect`, `ExitSafe`: the safety invariants above.
* `Refinement`: `Spec => ImplementsActorModel`.

The safety invariants are not inductive one by one, but their conjunction
nearly is: that `sherry_exit` leaves nobody needs that `curractors` counts the
slots in use, and that main is one of them; that a wakeup does not revive the
dead needs that only live actors are queued; that a second `sherry_init` starts
clean needs that the first one left nobody. Three facts complete the invariant
`IInv`: a struct not allocated yet is in no queue (`Allocated`), the actor with
the thread has the status RUNNING (`HoldsThread`), and there is a main actor
between init and exit (`MainUp`). `SchedProof` has one lemma per action, with a
step for each conjunct it can disturb; lemmas on the ready queue (`Enqueue`,
`Dequeue`, `EnqueueAll`) and on the table (`Unregister`, cardinality of `Used`)
carry the sequence and counting arguments. The refinement proof uses `IInv` in
three places: ids are distinct because live actors sit in the slots of their
ids, a resumed receiver finds a message, and the process goes down with the
last live actor.

**Lists**, for any finite set of nodes and any lists: `LinksSound`, `ListsOrdered` and
`ListsAreFifo` (`Spec => ImplementsFifoLists`). `LinksAgree` alone is not inductive:
a cycle of nodes apart from head and tail satisfies it, and an insertion before one of
them then goes wrong. The invariant says that for each list there is a sequence of
distinct nodes that the pointers represent; each function takes it to another one.
The refinement mapping walks `next` from `head`, which is a recursive definition:
the proof shows that the walk over a list is the sequence of the invariant
(`WalkIs`), from the least place where the two would differ.

**Network**, for any descriptors, actors and bounds: `NetRefinement`, every
step of `Net` is a step of `Sched` or leaves it alone, so all theorems on the
core hold with the network; `WaitQueuesSound` and `RequestsSound`. The
invariant is that of the core together with the queues (`IInv /\ WInv`): that
`unblock_all` is the `Callback` of `Sched` needs that wait queues hold blocked
actors without repetition, and that a wait queue does needs that the core does
not wake them otherwise.

`FdProof` adds what a descriptor can be (`FInv`), for `NetTypeCorrect`,
`NoFreedDescriptor`, `NoConnectionMissed`, `NoBytesMissed` and `BytesKeepOrder`. Its parts:

* `HInv`: which handles the arguments of a call can have while the call lasts, and
  which handles libuv can have an event for. `sherry_fd_close` by another actor
  takes the handle of a blocked call to "closing", never back.
* `UInv`: nobody inside a call is ready when `uv_run` begins (it is called when the
  ready queue is empty), and a handle whose callback wakes somebody is open; so
  `close_cb` frees no descriptor a woken actor returns to. This is where the order
  of `schdule()` matters: all ready actors run before the next callback.
* `MInv`: a wait queue is filled only after a look that found nothing, and emptied by
  the callback that brings something. Accepting and reading share the wait queue, so
  it needs that a descriptor that is or was a server has no buffer (`NothingYet`).

**Strings**, for any header widths, preallocation, texts and lengths
(`SdsAssumption`): `SdsSound` (the header is true, no write leaves the
allocation, the string is closed by a NUL whenever the program holds it),
`RoomIsMade`, `ContentIsKept`, `PrintfIsWhole`, `IncrementIsGuarded` and `GrowthIsChecked`. The invariant is that of the model checker
(`SdsTypeOK /\ HeaderSound`). The proof rests on four lemmas: `Rehouse` (another
header and space), `Put` (writing a text and its NUL, and storing the length),
`SetLen` and `FitsField` (a length a header has to hold is not truncated); each
function is a combination of them. `PrintfIsWhole` is `ContentIsKept` for the text
that the second buffer is just large enough for (`PrintfIsCat`). `GrowthIsChecked`
needs that each sum wraps at most once (`OneTurn`), for which the preallocation and
the largest header must fit a `size_t`. `SdsTyped` and `RangeIsBetween` follow from
the same invariant. One assumption is on the program's numbers, `NumbersInRange`: they
are above -10^19 and below 10^20, as a `long long` and an `unsigned long long` are, for the
`SDS_LLSTR_SIZE` of 21 (in general, powers of ten that follow from the size). That the
decimal form of each, the sign and the NUL then fit the buffer of `sdsll2str` is the theorem
`NumbersFit`: a number below a power of ten has at most that many digits (`DigitsFit`).

What the recursive functions on texts compute is proved too, for every content,
separator and number: `QuotesAreReadBack`, `SplitIsUndone` and `NumbersArePrinted`. The
induction theorems of the library take an operator as parameter, which no installed
prover can instantiate. So `SdsProof` starts with two facts without one: a nonempty
set of naturals has a least member (`Least`), and a definition whose value at an
argument depends only on values at arguments of a lower measure has a solution
(`Recursion`, for a definition given as a set of pairs). Each function is shown to
follow its definition (`DigitsAre`, `Pow10Is`, `FlatIs`, `ScanStep`, `SplitStep`), and what it
computes by ruling out a least counterexample. The measure of the scanner of
`sdssplitargs` is the bytes left, then the state it is in (`StepMoves`): it can go from
blanks to a token and back at one position, but only one of the two at each byte.
`ReadByte` says that what `sdscatrepr` writes for a byte is taken as that byte in one
step, and `ReadQuoted` that the scanner reads all of them wherever they stand in a
line. `Splits` is about each state the scan of `sdssplitlen` may be in (`SplitReached`):
no separator begins between the start of the token and `j`, and there is a slot left;
it is the second that needs the array to grow two elements ahead.

**HTTP server**, for any descriptors, actors and bounds: `ServerIsNet`, every step of
the program is a step of `Net` (which takes calls in any order) or leaves it alone, so
all theorems on `Net` and `Sched` hold for this program. What needs proof is that the
call it makes is one it may make: the invariant (`PInv`, beside that of the network)
ties what the program knows, `pc` and `client_fd` of each actor, to the call the network
believes it is in and to the handle of its descriptor. From the same invariant follow
`ConnectionsOwned` and `ResponsesWhole`.

**Chat**, for any actors, descriptors, ids and bounds: `ChatInv` says where each
descriptor is (`Placed`: unused, coming, up, or leaving, in one of these only), which
writer and reader it has then, and what can be in a mailbox; with what the writer has
read and not yet written (`PendingForeign`, `ReadFrom`) it is inductive, and gives
`OnePlace`, `WritersLive` and `NobodyEchoes`. `BroadcastsInOrder` needs `OrderInv` besides.
The server compares ids of readers, and ids are used again; so a line with the id of
a connection's reader may be of an earlier client. `Impostors` says that such a
line, until the EXIT of that connection, comes from somebody who had gone
when it joined; then the lines a connection gets or is going to get, past those the
exception takes out, are those of the broadcast in their order (`GetsInOrder`).

Only model-checked: liveness (`ReadyRuns`, `WaitersServed`, `ExitReturns`,
`AcceptServed`, `RequestAnswered`, `ClientsLeave`), which is beyond the proof system;
and the statements of the violation runs, which are false. Every invariant of a
passing run is a theorem.

## 5. What is not modelled, and the plan

Not modelled, for good: the register-level context switch, valgrind stack
registration, allocation failure (no call in `sherry.c` checks for it, except
`fdnew`), ids out of the array (`TODO` in `sherry_msg_send`), calls of
`sherry_exit` by an actor other than main. Of `sds.c`: `sdscmp` and `sdsfreesplitres`,
which change no string, and the length of `%%` in a format. Of the examples: the
text of requests, responses and lines, socket options and `printf`, and a table
index of the chat out of bounds. What the older API of the chat does inside is
unknown. `sherry_tcp_peername` and `sherry_tcp_bind` only pass their arguments on.

Plan, in order:

1. `sdssplitlen` and `sdssplitargs` keep no state, so a failed allocation in them could
   be modelled on its own: which tokens they free, and what `*count` says then.
2. `sdstrim` and `sdsmapchars` against a definition by their comments, as
   `RangeKeepsBetween` does for `sdsrange`.
