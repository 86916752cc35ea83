# A verification project for boost-coro

boost-coro is a small C++ library of stackful coroutines: each thread
("cothread") owns a tree of coroutines that run cooperatively, exchange
messages through mailboxes, and wait for I/O and timers through a reactor
built on libev. This directory holds TLA+ modules that model it, TLC
configurations that check them on small instances, and TLAPS proofs that hold
for every instance. Paths below are relative to `src/boost/coroutine/`, those
that start with `libev/` to `src/`.

## Inventory

| component | state | operations | what is hard | what makes it correct |
|---|---|---|---|---|
| scheduler, `coroutine/coroutine.{h,cpp}` | per coroutine `_stat`, `_evet`, `_msg`, `_coro_pre`, `_coro_parent`, `_coro_childs`, `_coro_messages`; per thread `_current_coroutine`, `_main_childs`; the C++ stacks | create + `child`, `resume`, `resume_childs`, `yield`, `mput`, `mbroadcast`, `mget`, event and message bits, end in `execute`, destruction | any call of user code can happen between two steps of a sweep; the return pointer is overwritten at each resume; a parked coroutine is skipped together with its family unless a CHLD bit says otherwise | one runs; control returns to the resumer; every coroutine is owned and destroyed once; no wake-up is lost; whoever can run does |
| reactor, `coroutine/coreactor.{h,cpp}` | the trigger table, events armed in libev, the WAIT/TIME/CANCEL bits | `set_io`, `set_timeout`, `set_signal`, `cancel`, `run`, `_cb_evt` | a trigger fires, is cancelled, or is re-armed while its coroutine is parked, ready or running; persistent events | each event is freed once; no callback for a dead coroutine; a fired trigger wakes its coroutine |
| context switch, `libcoro/coro.{h,c}` | static variables of `coro_create`; saved registers | `coro_create`, `coro_transfer` | the statics are shared by all threads | a new context runs its own function |
| cothreads, `cothread/cothread.{h,cpp}` | `_runned`, `_joined`, `_detached`, children, channels | start, `join`, `detach`, destruction | two threads touch the flags | joined once, destroyed after it ended |
| allocator, `util/linked_allocator.h` | free list and its length | `malloc`, `free`, destructor | counter and list kept apart; bound of the cache | a block has one owner; the counter is the length |
| child list, `util/list.h` | head, tail, size, nodes | push, pop, `front`, `clear` | pointers at the ends | it is a queue |
| paged buffer, `util/var_buf.h` | page list, read and write page, offsets | `write`, `read`, `reserve`, `shrink`, `read_by_endof_delimer` | positions exactly at a page boundary | it is a byte queue |
| sockets, `coasio/*.h` | descriptor, timeout, status | `accept`, `connect`, `send`, `recv`, acceptor and connector loops | EINTR, EAGAIN, a timeout racing readiness | no result is taken for another |
| messages, addresses, trace, macros | values | - | - | not modelled: no behaviour over time |
| libev loop, `libev/ev.c`, `ev_select.c`, `ev_poll.c`, `ev_epoll.c`, `ev_kqueue.c`, `ev_port.c` | `anfds`, `fdchanges`, the pending queues, the arrays of watchers, what the kernel holds | start, stop, feed, `ev_run`, `ev_break`, fork | descriptors closed, reopened, duplicated; forks; callbacks that change what is being walked; nested runs | the tables agree, the kernel watches what is wanted, no event for the wrong file |
| libev time | two heaps, `mn_now`, `ev_rt_now`, `rtmn_diff` | timers, periodics, suspend, resume | clocks that jump | heaps stay heaps; no watcher fires early, none is overslept |
| libev wake-ups | `sent`, `pending`, `async_pending`, `pipe_write_wanted`, `pipe_write_skipped`, the pipe | `ev_async_send`, signal handlers, `pipecb` | senders in other threads, between any two statements | no wake-up is lost |
| libevent emulation, `libev/event.c` | `ev_flags`, two watchers per event | `event_set`, `event_add`, `event_del`, `event_active` | one event has a descriptor and a timer | as the reactor expects |

The scheduler is called by everything else: the reactor parks the calling
coroutine by setting WAIT and yielding, and its callback, running inside some
coroutine's `run()`, deletes WAIT; a cothread runs one scheduler; sockets call
the reactor. Memory for the contexts comes from the allocator.

## Modules and plan

| module | models | composed with |
|---|---|---|
| `Coroutine` | the scheduler of one thread | - |
| `CoroutineProps`, `CoroutineInv`, `CoroutineProofs` | its properties, its inductive invariant, its theorems | extend it |
| `Nesting`, `CoroutineNesting` | asymmetric coroutines, and the refinement of them by `Coroutine` | proof in `CoroutineProofs` |
| `LinkedAllocator` | the block allocator; implements `Allocator` | proofs in `ContainersProofs` |
| `Coreactor`, `CoreactorProps` | the reactor of one thread over the events of `libev/event.c` | takes events from an `Allocator`; proofs in `CosocketProofs` |
| `Cosocket`, `CosocketProps` | sockets, acceptor and connector | extends `Coreactor`: each step of the reactor is a step of it; proofs in `CosocketProofs` |
| `List` | the linked list; implements `ItemList` | proofs in `ContainersProofs` |
| `VarBuf` | the paged buffer; implements `ByteQueue` | proofs in `ContainersProofs` |
| `Loops` | loops as iterated functions; what they keep and reach is proved in `LoopsProofs` | used by `VarBuf`, `EvHeap`, `EvQueue`, `EvTimers`, `EvFds` and `EvLoop` |
| `Cothread` | the tree of threads | proofs in `CothreadProofs` |
| `CoroCreate` | threads in `coro_create` | proofs in `CothreadProofs` |
| `EvQueue`, `EvHeap` | the pending queues and the heaps of libev | used by the next three |
| `EvTimers` | timers, periodics and clocks; implements `EvTimerSet` | proofs in `EvTimersProofs` |
| `EvFds` | descriptors and backends | part of `EvLoop` |
| `EvLoop` | `ev_run` with all that an iteration goes through | extends `EvFds`; proofs in `EvLoopProofs` |
| `EvPipe` | senders in other threads against the loop | proofs in `EvPipeProofs` |

The modules `MC...` are the instances that TLC checks.  Every safety property of
the plan has its theorem but two of the run `loop`, `Armed` and `NoStaleEvents`,
which depend on what the backends have told the kernel; "Proofs" says what a
proof of them would need.

## The scheduler

`Coroutine.tla` models one thread. Exactly one context runs, so interleaving
comes from user code: a context with an empty stack of library frames is in
user code and may make any call that the constant `Api` allows; a context with
library frames executes the top one. A frame is a point of the C++ code where
control can leave or come back (the header of the module lists them). The
variables are the members of `coroutine_base_t` and the thread data by their
names without the underscore; `level`, the nesting depth, is a history
variable for the proofs. `FREED` marks an address without an object, so that a
coroutine can be created again at the address of a destroyed one, as the
object pool does.

Actions: `TakeChild`, `PutChildBack`, `EndSweep` are the loop of
`resume_childs`; `ResumeEntry`, `Transfer`, `Return` are `resume` and
`transfer`; `YieldOut` is `transfer_pre` out of `yield`; `MgetLoop` the waiting
loop of `mget`; `Execute` the end of `execute`; `Drain` the main loop. The
calls of the user are `Child`, `Resume`, `ResumeChilds`, `ResumeOwnChilds`,
`Yield`, `Mput`, `Mbroadcast`, `Mget`, `TryMget`, `Await` and `Fire` (what the
reactor does to the scheduler), `EventAdd`, `Finish` and `ResumeAll`. The
member functions and the functions of `this_coroutine` that the main context
runs differ in one thing, which `Sweep` keeps: only the former clear CHLD.
Asserts are guards; `AssertionsHold` says they never stop the program.

Abstracted: event bits other than WAIT and CHLD (they are sticky results that
the scheduler never tests), names and tracing, the contents of messages.
Assumed of user code: `child` is called on a new coroutine, and `resume` on a
descendant ("resume a nested coro, current should be running").

## The reactor

`Coreactor.tla` has the trigger table, the events that libev has armed, the
WAIT bits and, for each coroutine, the library call it is in. A call that waits
is two actions, because everything can happen in between: `SetIo` or `SetAlone`
(timeouts and signals) up to the `yield()`, and `Return` behind it. `Cancel` is
`cancel()`, with the null entry it leaves in the table. `Run`, `LoopYield` and
`LoopTest` are the loop of `run()`; while the reactor's coroutine is in the
dispatch, `FireIo`, `FireError` and `FireTimer` call back for any armed event, as
`event.c` does: an event without EV_PERSIST is disarmed first, and a timeout or an
error (EV_ERROR, when libev gives a descriptor up) disarms any event; `spent`
remembers the persistent ones. `set_io` takes a persistent event that it finds in
the table for armed, so the next call of its coroutine waits for nothing:
`WaiterArmed` has that one exception, and the run reaches it. When the table is
empty `run()` returns to its caller, and whether it is ever called again is up to
the program. Of the scheduler only this is kept: one coroutine runs, and
`Resume` picks one without WAIT, in any order. The constants say which
coroutines use persistent waits (acceptors), which others, and which are
cancelled. Events come from `Allocator`; `LinkedAllocator` shows that the real
one behaves like that.

## The allocator

`LinkedAllocator.tla` has the head, the counter and the links, which lie in the
blocks: `Overwrite` is a user, or the system, overwriting a block it owns, and the
initial links are arbitrary. `expand_free_list` may get fewer blocks than it
asks for. `cached` is a history variable, the sequence that the list should be.

## The buffer

`VarBuf.tla` keeps the pages as a sequence and pointers as positions in it. The
loops of `write`, `read`, `wr_position` and `rd_position` are taken round by round,
since page boundaries are where they can go wrong: `WriteRound`, `ReadRound`,
`PositionRound` and `SkipRound` are functions of the buffer and the bytes to come
that leave a finished job alone, and `After` of `Loops` applies them as often as there
are pages, which is enough, because a round that is not the last one goes on to
the next page. `last` records what the last call returned and the bytes that it
took or gave, so that the refinement of `ByteQueue` compares both. `read()` returns
its argument, also when fewer bytes were there (it subtracts a count that its loop
has brought to 0), so `ByteQueue` promises of such a read the bytes, but no number.

A vector is received in one action, `RecvVbuf`: `recv_vbuf()` reserves room, lets
the system write behind the write position and moves it. `wr_position()` and
`rd_position()` leave a page in any case, so `RecvVbuf` and `RdPosition` end
where a page is used up and another one follows; see "Known defects".

## The list

`List.tla` has the nodes of the `object_pool` with their links, and both
pointers. A destroyed node keeps what it held, and may be handed out again.
`clear()` is taken apart into its iterations, during which `_tail` is stale.
`nodes` is a history variable, the sequence that the links should spell.

## The sockets

`Cosocket.tla` extends `Coreactor`. `Begin` is the call up to the result or the
wait: `recv` and `send` (and the vector forms) try the system call first, the
others wait at once. `Continued` is what follows the wait, `Unblocked` the end of a
system call that has blocked the thread. `Connect` and `Connected` are the two
halves of `connect()`, `Accept` one round of the loop of `acceptor_t`. `Peer` is
the other end: it answers, refuses, sends, closes, takes data or breaks the
connection. `watched` says what an armed event is about, so that an event that
fires while its descriptor is not ready is known as spurious readiness, of which
ev.pod warns. A call is `early` when something else than genuine readiness ended
its wait: spurious readiness, an error, the timer, `cancel()`, a close, or another
coroutine that took what it waited for. A system call that sends on a blocking
descriptor may move what there is room for and block for the rest (`Stuck`,
`large`); one that returns has moved some of its data.

## libev

`EvLoop.tla` keeps `struct ev_loop` as one record `s`, on which `EvFds`,
`EvQueue` and the operators of the module work; what the kernel holds is in it,
too. `frames` is the stack of `ev_run` calls with the point that each has
reached, because callbacks may call `ev_run` again. `Continue` goes on to the next
point, `Poll` is `backend_poll` with any subset of the ready descriptors, `Invoke`
takes one pending watcher and is followed by any calls of the program. A program
is a record: backend, watchers and calls. The kernel's side of each backend is
modelled from its documentation as far as the code depends on it: an epoll or
port entry stays with the file, not with the descriptor, while somebody has the
file open; a kqueue is not inherited by `fork`; a port forgets an event that it
reported. `regular` are descriptors that epoll refuses with EPERM. A file that the
program has kept by `dup` may come back to any descriptor (`CallDup2`).
`ev_loop_destroy` runs callbacks only if there are cleanup watchers. Children only
end: stopped and continued ones, which `ev_child` may ask for, are left out.
The loops over lists of watchers, over `anfds`, over `fdchanges` and over what the
kernel reports are rounds again (`TellRound`, `ReifyRound`, `EpollRound`, ...),
which `Along` of `Loops` applies to one element after the other.

`EvTimers.tla` has the heaps with the positions that the watchers believe, and
`time_update` with its guess. `Passes` is the time between two looks at the clock,
in which the real time may jump. MIN_TIMEJUMP and MAX_BLOCKTIME are constants, in
any unit of time. The loops are taken round by round, as in `VarBuf`: `SinkRound`
and `RiseRound` carry an element away from its place and leave a hole that moves
(`Holes`), `ReheapRound` lets one element after the other rise, and `TimerRound` and
`PeriodicRound` set the first watcher of a heap again or stop it. A round that has
nothing left to do changes nothing, so it is enough to apply it as often as there
are elements: `downheap` and `upheap` go one level down or up in each round, and no
watcher is due twice in one loop, because it is set for `mn_now` or later.
`EvTimerSet` has neither heaps nor clocks. `WaitFor` is the time that an iteration
may wait, with both floors, `timeout_blocktime` and `backend_mintime`; an iteration
that does not wait (a flag, an idle watcher, a skipped write) has 0. `io_blocktime`
takes part of the same time for `ev_sleep`, which changes nothing that is modelled.

`EvPipe.tla` makes a step of every access to a shared variable, on both sides: the
sender's test of `pipe_write_wanted` and its reset of `pipe_write_skipped`, "just an
optimisation", are two, and the reset may come after anything the loop and other
senders have done since. `back` says where a round of `pipecb` goes on; if it was
called by `loop_fork`, what it queues is called back only after the poll. One
`ev_run` at a time is modelled, not a nested one.
`Delayed` makes the loop's stores wait for its next full fence, as x86 may; the
run checks the order that the program text has.

## Threads

`Cothread.tla` has the objects, their pthreads, the lists of children and the
call each thread is in. The loops that join and delete (`join()` without
argument, and the end of `execute()`) share the actions `NextChild`,
`ChildJoined` and `LoopDone`. `CoroCreate.tla` takes `coro_create()` apart into
its accesses to the static variables.

## Runs

| run | shows |
|---|---|
| `sched` | for direct resumes, sweeps, yields, messages and ends in every order: `OneRunner`, `ReturnChain`, `AssertionsHold`, `OwnedOnce`, `NoNullFront`, `DestroyedClean`; no lost wake-up at a mailbox (`NoParkedMail`) or in the tree (`WakeReaches`); and `NestingSpec`, the refinement of `Nesting` |
| `live` | who is woken runs (`WokenRuns`), every child is run to its end and freed by its parent unless its family is parked (`FreedByParent`) |
| `allocator` | the list and the counter agree (`ListIntact`), a block has one owner (`OneOwner`), the users see `Allocator` |
| `reactor` | an event is freed once (`OwnedOnce`), libev has no freed event and no event of a coroutine that is gone (`ArmedOwned`), nobody waits without an armed event, unless `set_io` found one that was disarmed (`WaiterArmed`), the table is what `run()` takes it for (`TableExact`), a call with a timeout returns, if `run()` has been called (`TimeoutEnds`) |
| `sockets` | a call returns 0 for a reason (`ZeroHasReason`), `connect()` tells whether it is connected (`ConnectTells`), the thread blocks only behind a wait that ended early or in the middle of more data than there is room for (`BlocksOnlyEarly`) |
| `buffer` | the pages keep their shape (`Positions`) and implement `ByteQueue` |
| `threads` | no thread loses its object (`ObjectOutlives`), joins are valid (`JoinValid`), every child is deleted once and outlived by its parent (`OwnedOnce`), `join()` returns (`JoinReturns`) |
| `wake` | the loop never blocks over a watcher that was sent and not called back, except what `loop_fork` has just queued (`WakeSeen`), every send leads to a callback (`SendsArrive`) |
| `timers` | heaps and queues are sound (`TimersVerified`), the loop wakes in time, save for the floors (`NoOversleep`), periodics keep their pattern (`PeriodicsInTime`), timers behave as `EvTimerSet` says |
| `loop` | what `ev_verify` asserts (`Verified`), the kernel watches what is wanted (`Armed`), nothing is reported that nobody asked for (`OnlyAsked`), no event of a closed file reaches its successor's watcher (`NoStaleEvents`), both except where `dup2` gave epoll a file back (`Returned`), no child's status is overwritten before it was seen (`ChildrenTold`) |

Bounds. The scheduler has three coroutines (parent, child and grandchild as well as
siblings), one message and queues of one: longer queues change no guard, since the
code only tests for empty. `CleanMsg` is the content of the uninitialised `_msg` in
fresh memory. `allocator` has five blocks and a chunk of two, so that the cache can
be full, with a block to spare that goes back to the system. `reactor` has an
acceptor and two other coroutines that both wait and return, one of which is
cancelled, and an event for each; `sockets` adds one connection, on which both coroutines meet, and a
listener, with the calls in seven groups. `buffer` has pages of two bytes, calls of
up to three and three pages, so that one write can fill a page, cross two
boundaries, or end at one. `threads` has three cothreads, enough for a grandchild
and a sibling. `wake` has two senders, an `ev_async`, a signal and a pipe of two
bytes, so that it can be full: two is the least number of senders in which one may
undo what the other has stored. `timers` has two timers and a periodic, three calls
and one jump: the smallest heap in which an element can sink or rise, with clocks
that are read up to 3; DHEAP is 2 (with 4 three elements make the same heap).
MIN_TIMEJUMP is 2 there, and the real time jumps by 3 either way, so that
differences above and below the threshold occur; MAX_BLOCKTIME is 3, so that it cuts
some waits short. `timeout_blocktime` is 1, so that a wait of 1 may last past a timer
and one of 2 may not; `backend_mintime`, a millisecond or less, is below the unit of
this clock and 0. `loop` has three watchers on two descriptors (`anfdmax`) and up to
six calls, enough to start, close, reopen, stop and start again, and two nested runs;
with eight of them (`Returning`) a file leaves its descriptor, another one is watched
there, and the first one comes back. Its
programs are divided by what can interact (`MCEvLoop`). Symmetry is used where no
liveness is checked and the specification does not choose among the values.

Two runs end in a violation, each a finding:

* `coro_race`: `coro_create()` is not reentrant, and the cothreads call it
  without a lock.
* `connect_early`: `connect()` returns 0, "connected", when its wait ends, by the
  timer, `cancel()` or spurious readiness, while the handshake is in progress.

## Known defects

The models show the following as well. Where a constant is named, the run leaves the
case out, and shows it when the constant is changed as described. The other cases
occur in the runs, and the properties make an exception of them. The hazards in
PROJECT.json name them all.

* The constructor leaves `_msg` uninitialised (`coroutine/coroutine.cpp:252`);
  with the WAIT bit in it a new coroutine is never run nor freed. Give `CleanMsg`
  the content `{"WAIT"}`, too: the run `live` fails.
* A coroutine that ends with a parked child loops in `execute()` and starves the
  whole thread (`coroutine.cpp:243`). Put `finish` for `finish_childless` into
  `Live.cfg`: the run fails.
* A child that yields while its parent is parked in `mget` is not resumed until
  something wakes a member of that family (`coroutine.cpp:282`). `FreedByParent`
  is conditioned on that.
* `set_io()` takes any entry of the coroutine in the table for its persistent
  event (`coreactor.cpp:48`). It may be the null entry that `cancel()` left, or an
  acceptor's event found by a call that then waits for the wrong descriptor. Put
  a coroutine into both `Persistent` and `OneShot`: `OwnedOnce` fails.
* It also takes that event for armed (`coreactor.cpp:45-49`). A timeout, and an
  error of the descriptor (`libev/event.c:190`), disarm it and leave the entry: an
  acceptor with a timeout never accepts again, and nothing wakes it. Without its
  second line `WaiterArmed` fails.
* `run()` returns when the table is empty at that moment (`coreactor.cpp:33`), also
  if coroutines that it has just woken are about to wait again. Nothing in the
  library calls it again: whoever waits then waits for ever, unless the program
  does. `TimeoutEnds` therefore speaks of calls that `run()` is there for.
* `read()` returns its argument when it has less to give (`util/var_buf.h:382`). With
  a number promised in every case in `Read` of `ByteQueue`, `QueueSpec` fails.
* `write()` and `send_to()` on a descriptor that blocks stop the thread when they
  send more than there is room for (`coasio/cosocket.h:222`), and after spurious
  readiness every call on such a descriptor does; `recv()` and its like return 0
  then, as at the end of the file (`cosocket.h:280`). `BlocksOnlyEarly` and
  `ZeroHasReason` count spurious readiness as early, and name the partial write.
* `join()` of one child by the main thread does not set `_joined`
  (`cothread.cpp:130`): with `Main` in `JoinsOne`, `JoinValid` fails.
* `wr_position()` leaves its page even when there is room left, and the last
  page for null (`util/var_buf.h:482`); `rd_position()` alike. Without the guards
  on the last page, `RecvVbuf` breaks `Positions` and `RdPosition` breaks `QueueSpec`.
* `acceptor_t::stop()` cancels the wait of its caller, not of the acceptor, and
  `_stopped` is not initialised (`coasio/acceptor.h:32`).
* `epoll_poll` drops a regular file from `epoll_eperms` once nobody wants it, but
  `epoll_modify` does not put it back because EV_EMASK_EPERM is still set
  (`libev/ev_epoll.c:231`). Give `Snobbish` the operations start and stop:
  `Armed` fails.
* `epoll_modify` believes of EEXIST that the kernel has the mask that was wanted last
  of the descriptor (`libev/ev_epoll.c:112`). If `dup2` brought a file back, the entry
  is this file's and the mask the other one's: the new one is never watched. The
  generation that is taken back then is that of the other file, so that an event of
  this one is mistaken, too, if it is still open elsewhere. Without `Returned`,
  `Armed` and `NoStaleEvents` fail.
* The pipe's watchers that `loop_fork` finds are queued behind the callbacks of the
  iteration (`libev/ev.c:2490`), and the test before the poll (3018) does not look at
  the queue: the loop may block over them, at the longest for MAX_BLOCKTIME or to the
  next event. Without its exception for `back = "want"`, `WakeSeen` fails.
* `child_reap` raises the priority of a child watcher that may be waiting in the
  queue for a fed event (`libev/ev.c:2049`), although ev.pod says that the priority
  of a pending watcher must not change. Its index is then one into the queue of
  another priority: the assertion of `verify_watcher` fails, and its EV_CHILD goes
  to whoever is at that place, here the loop's own SIGCHLD watcher. Put `Feeding`
  for `Family` into `All` (`MCEvLoop`): `Verified` fails.
* `pipecb` resets the flags with a release fence only (`libev/ev.c:1937`). With
  `Delayed = TRUE`, `WakeSeen` fails.

## Fairness

The library's steps are weakly fair: the thread runs. The code is cooperative,
so liveness needs user code that gives the processor back: strong fairness of
`Leave` for each coroutine (strong, because a sweep made by the coroutine
itself interrupts the state in which it can leave). `WF(ResumeAll)` is the main
loop `this_coroutine::resume()`. `FinishSpec` adds that no function runs for
ever. Reactor callbacks are not assumed to come.

The reactor's fairness builds on that of the scheduler: strong fairness of
`Resume(c)` is what `WokenRuns` gives; a timer that is armed in round after round of
the dispatch expires (`SF` of `FireTimer`). Of `run()` only its loop is fair, not its
call: nothing in the library makes one. Descriptors and signals need not become
ready. For the threads: they run, added children are started, and functions return.
In `EvPipe` the loop runs again whenever it can, and a sender that has begun goes
on; nothing is assumed of when senders send. `EvTimers`, `EvLoop` and `Cosocket` are
checked for safety only: they state no fairness. `Loop.cfg` does not check deadlock,
because a program that has used its calls stops.

## Proofs

`CoroutineProofs.tla`, for all constants that satisfy the named assumptions of
`Coroutine`:

* `TypeCorrect`: `Spec => []TypeOK`. `TypeOK` alone is not inductive, since a
  member function on the main stack would read `_coro_pre` of the null pointer;
  the strengthening is `MainStack`, the main context is only in functions of
  `this_coroutine`.
* `MailNeverParked`: `Spec => []NoParkedMail`, from the same invariant: WAIT is
  added to `_msg` only by `mget` on an empty queue, and `mput` deletes it in the
  same step that fills the queue; a new coroutine may have the bit, but no
  message.

* From one more invariant, `SchedInv` of `CoroutineInv.tla`: `OneRuns`, `ChainIntact`,
  `AssertsHold`, `FrontExists`, `Ownership` and `FreedClean`. None of these properties
  is inductive, nor are they together: whether a loop still finds the children
  it counted, or a switch the stat that it asserts, depends on what the other
  calls under way, on the stacks of all contexts, are about to do. What keeps them
  apart is the tree. A call that goes down works at coroutines below its
  context (`Fits`), each call of a stack works deeper than the one that made it
  (`Stacks`), and the contexts from the main one to the running one have growing
  levels (`Links`), because `resume` is for descendants. So what is resumed next
  is not on the chain yet, and no two loops go over the same list. `Tree` (parents
  live as long as their children, one level up), `Lists` (whoever exists is on
  its parent's list or in the hands of a loop) and `Parks` (what else is switched
  out has yielded) complete it. TLC finds it to hold on three coroutines, but
  the proof needs no bound.
* `WakesReach`: `Spec => []WakeReaches`, the lost wake-up of the tree, from
  `SchedInv`, `NoParkedMail` and one more invariant, `WakeInv` of `CoroutineInv.tla`.
  CHLD and the loops under way are not enough to carry the property through a
  step: between the moment at which a loop takes a child off the list and the
  moment at which it puts it back, the bits of the child's ancestors may have
  been cleared already. So `WakeInv` says what each stack owes a coroutine whose
  message or event has come (`Due`): for a child in the hands of a loop (`Held`),
  either everybody above it has been told, or the call that the loop makes for it
  has yet to look at its bits, or will switch to it before it sweeps (`Looks`).
  `Word` says in which of the two words the WAIT bit is, and that a coroutine on
  the chain of resumers has none unless it is in a call that waits; `Serves` says
  which calls may follow each other on a stack, so that the call above a loop is
  the one made for its child. Most steps are calm (`CalmStep`): they take no bit
  away but those of one coroutine, whose children a loop then reaches, because
  every child is on the list or in somebody's hands (`LoopReaches`).
* `ImplementsNesting`: the refinement of `Nesting`. The phase of a coroutine is
  computed from the chain of `_coro_pre`, a recursive function; the proof shows
  that it spells the contexts of `Links` from top to bottom (`ChainSpelled`), and
  which action of `Nesting` each step is.

Recursion over numbers is no obstacle to these proofs: `LeastNumber` takes the
least number with a property from the library's theorem on well-founded
relations, `NumberInduction` makes an induction principle of it for a set, and that
is how the climb in `Ancestors` and the chain in `ChainFrom` are reasoned about.

`ContainersProofs.tla` on the allocator, for any set of blocks and any chunk size:
`ListAlwaysIntact`, `BlocksOwnedOnce`, `CacheAlwaysBounded` and
`ImplementsAllocator`. The inductive invariant is `TypeOK`, `ListIntact`,
`OneOwner` and `CacheBounded` together: a block that is written by its user is
not on the list because of `OneOwner`, which in turn needs the links of
`ListIntact` to know which block `malloc` takes.

`CosocketProofs.tla`, on the reactor, for any number of coroutines and events, under the
hypothesis `Separate` (persistent and other waits are made by different
coroutines, and persistent waits are not cancelled; "Known defects" says why): `EventsOwned`, `CallbacksOwned`, `WaitersWoken`,
`RunSeesWaiters`, and `FoundPersistent`, what the comment in `set_io` claims.
The inductive invariant ties the call of each coroutine to its entry in the
table (`CallsMatch`; the entry may be the null pointer of `cancel()`), gives each
event one coroutine (`HasUnique`), and makes `ev_arg` of an armed event that
coroutine (`ArmedHad`), so that disarming an event can take it from no other
waiter (`WaitersArmed`). A persistent event is still watched or was disarmed behind
the back of its owner, which is the exception in `WaiterArmed`.

`CosocketProofs.tla`, on the sockets, for any number of them and of callers.
`SocketsUseReactor` has no hypothesis: every behaviour of the sockets is one of
`Coreactor`, so that what is proved of the reactor holds under them
(`ReactorServesSockets`). `ZeroIsExplained`, `ConnectIsRight` and `BlocksEarly` need
`Separate` like the reactor's own theorems. The invariant (`SocketInvariant`) says
that a call in progress has an event that watches its own socket in its own
direction, and that a wait which ended with genuine readiness is over only when the
system call behind it finds something to do; TLC finds it to hold on the instance of `sockets`,
too.

`EvPipeProofs.tla`, for any number of watchers, signals and senders and any pipe:
`NoLostWake`, under the hypothesis `Delayed = FALSE` (without it `WakeSeen` is false;
see "Known defects"). What `loop_fork` queued in the same iteration is excepted.
`PipeInvariant` follows each owed callback through the steps
of both sides: it is queued, or raised where the loop will look for it (`Found`);
if a flag is set, either the loop comes to its test before it can block
(`Comes`), or the write was recorded as skipped (`pipe_write_skipped`), or a byte
is in the pipe, or a sender has yet to write one: one that is past its test of
`pipe_write_wanted` will write, so that what its late reset of
`pipe_write_skipped` undoes is not missed. The array of
asyncs, from which the loop takes the watchers while the program stops and moves
them, is part of it (`ArrayMatches`).

`CothreadProofs.tla`, for any number of threads, if the main thread joins no
single child (`OneJoined` does not set `_joined` there): `ObjectsOutlive`,
`JoinsValid` and `ChildrenOwned`. The inductive invariant puts every child in one
place (`OnePlace`), a position of a list or the hand of a loop, and says what is
true of it there (`Fits`): it exists, `_joined` means that it was joined, and its
parent has not ended. `NextChild` moves all children of a list one place down.

`CothreadProofs.tla` also has `MutexWorks`, about `coro_create()`, for any number of
threads; while a thread is inside, the statics hold what it has put there.

`ContainersProofs.tla` on the list, for any number of nodes and items, if the null
pointer is no node: `ListLinked` and `ImplementsList`. The inductive invariant is
`Linked` with the types; only `pop_front` and `clear` depend on each node being on
the list once. TLC does not run `List`: there is nothing left that an instance could
show.

`ContainersProofs.tla` on the buffer, for any page size and any bytes:
`PositionsHold` and `ImplementsQueue`. The inductive invariant is `Sound`: a full
page in front of the write position, an empty one behind it, and no page read past
its end; `Content`, the concatenation of what is unread, is then what the queue
holds. What `write` and `read` do is proved round by round: a round of `write` moves
as many bytes from the job to the end of `Content`, a round of `read` takes as many
from its front, and the job that is left after as many rounds as there are pages is
empty, because `reserve` has made enough of them. `read_by_line` needs that no
delimiter is overlooked on an earlier page. `LoopsProofs.tla` has what these proofs
need of `After` and `Along`: recursive functions on the numbers exist and are
unique, and what each round keeps, or brings nearer, the loop keeps or reaches.

`EvTimersProofs.tla`, for any timers and periodics, any times, either DHEAP, any
clocks and any number of jumps of any size: `TimersVerifiedHolds`,
`NoOversleepHolds`, `PeriodicsInTimeHolds` and `ImplementsTimerSet`, all from one
inductive invariant, `TimersInv` (`TimersHold`), which TLC finds to hold on the
instance of `timers`, too. Its parts:

* `HeapsKept`: each heap holds exactly the active watchers, each at the position
  that it believes, with its own time cached, and no element is earlier than its
  parent. This is about the operators first: a round of `downheap` or `upheap` keeps
  everything but the order at the hole, and the hole is closed where the order
  holds again. `adjustheap` has to choose the direction; whoever stops a
  watcher puts the last element in its place and needs that choice. `reheap` starts
  from no order at all and orders one prefix after the other. Since the first
  element is the earliest, `NoOversleep` and "exactly those that are due fire" follow.
* `QueueKept`: pending indices and queue entries point at each other, a watcher
  that is stopped leaves a dummy, and nothing is queued when `ev_run` comes to wait;
  without that a watcher could be fed twice, and its second event would overtake.
* `FiredKept`: the fired timers are in the queue in the order of their times, the
  earliest on top. `feed_reverse` turns the order around, and `ev_invoke_pending`
  takes from the end; only both together make it right.
* `ClocksKept`: what the loop believes of the two clocks. `ev_rt_now` is `mn_now` plus
  `rtmn_diff`, which is the real difference unless a jump has been missed; without a
  monotonic clock there is one time only.
* `PeriodsKept`: each periodic is on its grid and not too far ahead, the bound growing
  with the jumps that the loop has not noticed (`Missed`, fewer than all jumps as long as
  `rtmn_diff` is wrong); and it is not in the past between iterations. `PeriodicsInTime`
  is not inductive: it says nothing while the loop waits or is suspended.

A lesson of the proof: TLC's instance has one jump, with which `PeriodicsInTime`
once said that a periodic is less than MIN_TIMEJUMP further away than its interval. That
is false for several jumps: each may be too small for `time_update` to notice, and
they add up, so that the property now counts them (`jumps * MIN_TIMEJUMP`).

In the refinement `ev_run` up to its wait and `ev_suspend` are `Look`, `ev_resume`
is `Resume`, the reification is `Expire`, the callback of a timer is `Callback`, and
starts, stops and `ev_timer_again` are themselves; all that happens to periodics
only is a stutter. A jump of the real time without a monotonic clock makes every
timer later by the same amount, which keeps their order and with it the heap.

`EvLoopProofs.tla`, for any watchers, priorities and descriptors, each of the five
backends, any reports of the kernel and any program: `VerifiedHolds`,
`OnlyAskedHolds` and `ChildrenToldHolds`, from the inductive invariant `LoopInv`
(`LoopInvHolds`), which TLC finds to hold on the instance of `loop`, too. Their
hypothesis `ChildrenUnfed` is that a program which calls `ev_feed_event` has no
child watcher; "Known defects" says why they need it. Its parts:

* `Heads`, `Arrays`, `Childs`: the watchers of a list are active, each is there once
  and belongs there; those of an array are at the place that they believe, and an active
  watcher of an array is in it. `Verified` says the first half only, which is not
  inductive: `ev_idle_stop` and its like write the last watcher of the array over the place
  that the stopped one believes, which takes the right one out only if it is there.
* `Counts`: `activecnt` is the number of active watchers other than cleanups,
  although `ev_cleanup_start` takes its count back behind the call that adds it.
* `Indexed`: the poll set is indexed both ways. `poll_modify` puts the last entry in
  the place of a removed one, and its index is right only if no two entries are
  about one descriptor.
* `ChangesFrom`: `fdchanges` are, once each, the descriptors with a flag to reify. In
  `fd_reify` this holds of the rest that is still to be worked off, and at the end a
  backend's modification may have killed a descriptor, that is stopped its watchers,
  and queued more changes behind the end: they are kept for the next call.
* The queue as in `EvTimers`, and `Asking`, what `OnlyAsked` says: `ev_io_stop` clears
  what is pending, and `ev_io_set` is for watchers that are stopped.
* `ChildrenAbove`: whenever a child watcher is pending it has the highest priority, and the
  loop's own SIGCHLD watcher is pending below it. `childcb` runs when that one is
  taken out of the queue, and by then all children above it have been called; this is what the comment
  in `childcb` means by feeding it first ("make sure we are called again until
  all children have been reaped"). So no `rpid` is written twice before it has been
  seen. A fed child watcher has its own priority, and breaks this.

What stays with TLC: liveness (`WokenRuns`, `FreedByParent`, `TimeoutEnds`,
`JoinReturns`, `SendsArrive`), for which the proof system has no rule of fairness;
and `Armed` and `NoStaleEvents`, which relate the watchers to the kernel's side.
`LoopInv` says nothing of `reg`, `changes`, `vec` and `emask` but their types. A
proof of `Armed` needs, for each backend, what is owed between a change of the
kernel's entries and the next poll (a `close` takes entries away, a `dup` keeps
them, kqueue's changes wait in an array, a fork empties all), and for epoll
the meaning of `emask` and `egen` while an entry of an older file is still there.

## Not modelled

* Addresses, messages, tracing and macros have no behaviour over time, nor do
  the socket options, `bind`, `listen` and `close` with linger.
* Of the reactor: waits armed for another coroutine and several reactors in one
  thread (`event_set` overwrites the base that `event_base_set` has stored, so
  that they would share one).
* Of the context switch: registers and stacks; `coro_transfer` is atomic, which it
  is for everything this library can see.
* Of the cothreads: the channels, which are plain socket pairs.
* Of the buffer: reading by several delimiters and formatted output, which are
  compositions of what is modelled.
* Of libev: `ev_stat` with inotify, `ev_embed`, `ev_once`, `ev_walk`, signalfd,
  the growth of its arrays, Windows and I/O completion ports, the C++ wrapper.
  The library uses none of them. `EvPipe`, `EvTimers` and `EvLoop` are not
  composed: the loop that blocks in one of them is, for the others, a poll that
  may return at any time.
