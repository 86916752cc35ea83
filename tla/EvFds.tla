-------------------------------- MODULE EvFds --------------------------------
(***************************************************************************)
(* The I/O watchers of a libev loop, the file descriptor table anfds, and  *)
(* the backends: ev_select.c, ev_poll.c, ev_epoll.c, ev_kqueue.c and       *)
(* ev_port.c of src/libev.                                                 *)
(*                                                                         *)
(* The operators work on a record s, struct ev_loop.  The fields used here *)
(* are                                                                     *)
(*   q, pri, active, activecnt, postfork, backend;                         *)
(*   fd, events   of each ev_io, set: EV__IOFDSET is in its events;        *)
(*   anfds        for each fd [head, events, reify, emask, egen];          *)
(*   fdchanges                                                             *)
(*   vec          what select is told, for each fd                         *)
(*   polls, pollidxs                                                       *)
(*   eperms       epoll_eperms                                             *)
(*   changes      kqueue_changes, of [fd, filter, add]                     *)
(* and of the kernel                                                       *)
(*   file         what each fd has open, 0 if it is closed                 *)
(*   kept         the files that somebody else has open, too               *)
(*   regular      the fds for which epoll_ctl says EPERM                   *)
(*   reg          what epoll, kqueue or port hold: [fd, file, mask, gen].  *)
(***************************************************************************)
EXTENDS EvQueue, FiniteSets

CONSTANTS
  anfdmax,      \* the file descriptors are 1 to anfdmax
  Watcher,
  childev,      \* the loop's own watcher for SIGCHLD
  Priorities    \* a set of numbers

Fd        == 1..anfdmax
Ascending == [fd \in Fd |-> fd]
Both      == {"READ", "WRITE"}
Kinds     == {"io", "idle", "prepare", "check", "fork", "cleanup", "child"}
Keys      == Kinds \X (Priorities \cup {0})   \* of the arrays of watchers
HASHSIZE  == 2

ANFD ==
  [head : Seq(Watcher), events : SUBSET Both, reify : SUBSET {"REIFY", "IOFDSET"},
   emask : SUBSET (Both \cup {"EPERM"}), egen : Nat]
Registration == [fd : Fd, file : Nat, mask : SUBSET Both, gen : Nat]
Pollfd       == [fd : Fd, events : SUBSET Both]
Failure      == [fd : Fd, error : {"EBADF", "ENOENT"}]
Change       == [fd : Fd, filter : Both, add : BOOLEAN]

\* struct ev_loop, and the kernel's part of it.
Loop ==
  [backend : {"select", "poll", "epoll", "kqueue", "port", "none"},
   postfork : BOOLEAN, activecnt : Int, loop_done : {"CANCEL", "ONE", "ALL"},
   pri : [Watcher \cup {childev, NoWatcher} -> Priorities],
   q : Queues(Priorities, Watcher \cup {childev}),
   active : [Watcher -> Nat], arrays : [Keys -> Seq(Watcher)],
   fd : [Watcher -> Fd], events : [Watcher -> SUBSET Both], set : [Watcher -> BOOLEAN],
   anfds : [Fd -> ANFD],
   fdchanges : Seq(Fd), vec : [Fd -> SUBSET Both],
   polls : Seq(Pollfd), pollidxs : [Fd -> Nat], eperms : Seq(Fd), changes : Seq(Change),
   file : [Fd -> Nat], kept : SUBSET Nat, regular : SUBSET Fd, reg : SUBSET Registration,
   childs : [0..(HASHSIZE - 1) -> Seq(Watcher)], rpid : [Watcher -> Nat],
   zombies : SUBSET Nat, sigchld : BOOLEAN]

\* wlist_del
Unlinked(list, w) ==
  IF \A i \in DOMAIN list : list[i] # w THEN list
  ELSE RemoveAt(list, CHOOSE i \in DOMAIN list : list[i] = w)

Feed(s, w, revents) == [s EXCEPT !.q = FeedEvent(s.q, s.pri, w, revents)]

fd_change(s, fd, flags) ==
  [s EXCEPT !.anfds[fd].reify = @ \cup flags,
            !.fdchanges = IF s.anfds[fd].reify = {} THEN Append(@, fd) ELSE @]

ev_io_start(s, w) ==
  LET fd == s.fd[w]
  IN  IF s.active[w] # 0 THEN s
      ELSE fd_change([s EXCEPT !.active[w] = 1, !.activecnt = @ + 1, !.set[w] = FALSE,
                               !.anfds[fd].head = <<w>> \o @],
                     fd, {"REIFY"} \cup IF s.set[w] THEN {"IOFDSET"} ELSE {})

\* Mutant: an event that is pending stays so.
ev_io_stop_Pending(s, w) ==
  LET fd == s.fd[w]
  IN  IF s.active[w] = 0 THEN s
      ELSE fd_change([s EXCEPT !.active[w] = 0, !.activecnt = @ - 1,
                               !.anfds[fd].head = Unlinked(s.anfds[fd].head, w)],
                     fd, {"REIFY"})

ev_io_stop(s, w) ==
  LET fd == s.fd[w]
      c  == [s EXCEPT !.q = ClearPending(s.q, s.pri, w)]
  IN  IF s.active[w] = 0 THEN c
      ELSE fd_change([c EXCEPT !.active[w] = 0, !.activecnt = @ - 1,
                               !.anfds[fd].head = Unlinked(s.anfds[fd].head, w)],
                     fd, {"REIFY"})

TellRound(revents) ==
  [x \in Loop \X Watcher |->
     LET s == x[1]
         w == x[2]
     IN  IF s.events[w] \cap revents = {} THEN s ELSE Feed(s, w, s.events[w] \cap revents)]

fd_event_nocheck(s, fd, revents) == Along(TellRound(revents), s, s.anfds[fd].head)

fd_event(s, fd, revents) ==
  IF s.anfds[fd].reify # {} THEN s ELSE fd_event_nocheck(s, fd, revents)

KillRound ==
  [x \in Loop \X Watcher |-> Feed(ev_io_stop(x[1], x[2]), x[2], {"ERROR"} \cup Both)]

fd_kill(s, fd) == Along(KillRound, s, s.anfds[fd].head)

fd_valid(s, fd) == s.file[fd] # 0

BadRound ==
  [x \in Loop \X Fd |->
     LET s  == x[1]
         fd == x[2]
     IN  IF s.anfds[fd].events # {} /\ ~fd_valid(s, fd) THEN fd_kill(s, fd) ELSE s]

fd_ebadf(s) == Along(BadRound, s, Ascending)

fd_enomem(s) ==
  LET used == {fd \in Fd : s.anfds[fd].events # {}}
  IN  IF used = {} THEN s ELSE fd_kill(s, CHOOSE fd \in used : \A other \in used : other <= fd)

RearmRound ==
  [x \in Loop \X Fd |->
     LET s  == x[1]
         fd == x[2]
     IN  IF s.anfds[fd].events = {} THEN s
         ELSE fd_change([s EXCEPT !.anfds[fd].events = {}, !.anfds[fd].emask = {}],
                        fd, {"IOFDSET", "REIFY"})]

fd_rearm_all(s) == Along(RearmRound, s, Ascending)
-----------------------------------------------------------------------------
(* backend_modify                                                          *)

select_modify(s, fd, oev, nev) == IF oev = nev THEN s ELSE [s EXCEPT !.vec[fd] = nev]

\* A pollfd that is no longer needed is overwritten with the last one.
poll_modify(s, fd, oev, nev) ==
  LET new == s.pollidxs[fd] = 0
      idx == IF new THEN Len(s.polls) + 1 ELSE s.pollidxs[fd]
      ps  == IF new THEN Append(s.polls, [fd |-> fd, events |-> nev])
             ELSE [s.polls EXCEPT ![idx].events = nev]
      n   == Len(ps)
  IN  IF oev = nev THEN s
      ELSE IF nev # {} THEN [s EXCEPT !.polls = ps, !.pollidxs[fd] = idx]
      ELSE IF idx < n
        THEN [s EXCEPT !.polls = SubSeq([ps EXCEPT ![idx] = ps[n]], 1, n - 1),
                       !.pollidxs = [s.pollidxs EXCEPT ![fd] = 0, ![ps[n].fd] = idx]]
      ELSE [s EXCEPT !.polls = SubSeq(ps, 1, n - 1), !.pollidxs[fd] = 0]

Registered(s, fd) == {r \in s.reg : r.fd = fd /\ r.file = s.file[fd]}

\* What a successful EPOLL_CTL_ADD, MOD or DEL leaves behind.
Control(s, fd, mask, gen) ==
  [s EXCEPT !.reg = (s.reg \ Registered(s, fd)) \cup
     IF mask = {} THEN {} ELSE {[fd |-> fd, file |-> s.file[fd], mask |-> mask, gen |-> gen]}]

epoll_error(s, fd, mod) ==
  IF ~fd_valid(s, fd) THEN "EBADF"
  ELSE IF fd \in s.regular THEN "EPERM"
  ELSE IF ~mod /\ Registered(s, fd) # {} THEN "EEXIST"
  ELSE IF mod /\ Registered(s, fd) = {} THEN "ENOENT"
  ELSE "OK"

\* Interest that ends is not told to the kernel.  After ENOENT it is an ADD,
\* after EEXIST with another mask a MOD, that succeeds.
epoll_modify(s, fd, oev, nev) ==
  LET old    == s.anfds[fd].emask
      gen    == s.anfds[fd].egen + 1
      tried  == [s EXCEPT !.anfds[fd].emask = nev]
      error  == epoll_error(s, fd, oev # {} /\ old # nev)
  IN  IF nev = {} THEN s
      ELSE IF error = "EPERM"
        THEN [s EXCEPT !.anfds[fd].emask = {"EPERM"}, !.anfds[fd].egen = gen,
                       !.eperms = IF "EPERM" \in old THEN @ ELSE Append(@, fd)]
      ELSE IF error = "EBADF" THEN fd_kill(tried, fd)
      ELSE IF error = "EEXIST" /\ old = nev THEN tried
      ELSE Control([tried EXCEPT !.anfds[fd].egen = gen], fd, nev, gen)

kqueue_modify(s, fd, oev, nev) ==
  LET Filter(evs, f, add) ==
        IF f \in evs THEN <<[fd |-> fd, filter |-> f, add |-> add]>> ELSE <<>>
      Told(evs, add) == Filter(evs, "READ", add) \o Filter(evs, "WRITE", add)
  IN  [s EXCEPT !.changes = @ \o Told(IF oev # nev THEN oev ELSE {}, FALSE) \o Told(nev, TRUE)]

port_modify(s, fd, oev, nev) ==
  IF nev # {} /\ ~fd_valid(s, fd) THEN fd_kill(s, fd)
  ELSE [s EXCEPT !.reg = {r \in @ : r.fd # fd} \cup
          IF nev = {} THEN {} ELSE {[fd |-> fd, file |-> s.file[fd], mask |-> nev, gen |-> 0]}]

backend_modify(s, fd, oev, nev) ==
  CASE s.backend = "select" -> select_modify(s, fd, oev, nev)
    [] s.backend = "poll"   -> poll_modify(s, fd, oev, nev)
    [] s.backend = "epoll"  -> epoll_modify(s, fd, oev, nev)
    [] s.backend = "kqueue" -> kqueue_modify(s, fd, oev, nev)
    [] s.backend = "port"   -> port_modify(s, fd, oev, nev)

\* Mutant: a change of the file behind the fd is not noticed.
Reify_NoFdset(s, fd) ==
  LET old == s.anfds[fd]
      evs == UNION {s.events[w] : w \in ToSet(old.head)}
      t   == [s EXCEPT !.anfds[fd].reify = {}, !.anfds[fd].events = evs]
  IN  IF evs # old.events THEN backend_modify(t, fd, old.events, evs) ELSE t

\* What fd_reify does for one of the fdchanges.
Reify(s, fd) ==
  LET old == s.anfds[fd]
      evs == UNION {s.events[w] : w \in ToSet(old.head)}
      t   == [s EXCEPT !.anfds[fd].reify = {}, !.anfds[fd].events = evs]
  IN  IF evs # old.events \/ "IOFDSET" \in old.reify
        THEN backend_modify(t, fd, old.events, evs)
        ELSE t

ReifyRound == [x \in Loop \X Fd |-> Reify(x[1], x[2])]

\* backend_modify may kill an fd, which comes to fdchanges again, without
\* watchers, so that it is not killed twice.
fd_reify(s) ==
  LET once   == Along(ReifyRound, s, s.fdchanges)
      killed == SubSeq(once.fdchanges, Len(s.fdchanges) + 1, Len(once.fdchanges))
  IN  [Along(ReifyRound, once, killed) EXCEPT !.fdchanges = <<>>]
-----------------------------------------------------------------------------
(* backend_poll: got maps some of what the kernel watches to the events    *)
(* that it reports, nomem says that the call failed with ENOMEM.           *)

\* All that is reported for an fd.
Got(got, fd) == UNION {got[e] : e \in {x \in DOMAIN got : x.fd = fd}}

SelectRound(got) ==
  [x \in Loop \X Fd |->
     IF Got(got, x[2]) = {} THEN x[1] ELSE fd_event(x[1], x[2], Got(got, x[2]))]

select_poll(s, got, nomem) ==
  IF \E fd \in Fd : s.vec[fd] # {} /\ ~fd_valid(s, fd) THEN fd_ebadf(s)
  ELSE IF nomem THEN fd_enomem(s)
  ELSE Along(SelectRound(got), s, Ascending)

PollRound(got) ==
  [x \in Loop \X Pollfd |->
     LET s  == x[1]
         fd == x[2].fd
     IN  IF ~fd_valid(s, fd) THEN fd_kill(s, fd)
         ELSE IF Got(got, fd) = {} THEN s
         ELSE fd_event(s, fd, Got(got, fd))]

poll_poll(s, got, nomem) ==
  IF nomem THEN fd_enomem(s) ELSE Along(PollRound(got), s, s.polls)

\* Mutant: the generation is not looked at.
EpollTold_NoGen(s, e, events) ==
  LET want == s.anfds[e.fd].events
      t    == [s EXCEPT !.anfds[e.fd].emask = want]
  IN  IF events \subseteq want THEN fd_event(s, e.fd, events)
      ELSE IF ~fd_valid(s, e.fd) \/ Registered(s, e.fd) = {} THEN [t EXCEPT !.postfork = TRUE]
      ELSE fd_event(Control(t, e.fd, want, e.gen), e.fd, events)

\* An entry of an older generation, or one that cannot be changed, makes the
\* loop recreate everything.
EpollTold(s, e, events) ==
  LET want == s.anfds[e.fd].events
      t    == [s EXCEPT !.anfds[e.fd].emask = want]
  IN  IF s.anfds[e.fd].egen # e.gen THEN [s EXCEPT !.postfork = TRUE]
      ELSE IF events \subseteq want THEN fd_event(s, e.fd, events)
      ELSE IF ~fd_valid(s, e.fd) \/ Registered(s, e.fd) = {} THEN [t EXCEPT !.postfork = TRUE]
      ELSE fd_event(Control(t, e.fd, want, e.gen), e.fd, events)

EpollRound(got) == [x \in Loop \X Registration |-> EpollTold(x[1], x[2], got[x[2]])]

\* The fd at i of epoll_eperms, or the last one in its place.
EpermRound ==
  [x \in Loop \X Nat |->
     LET s  == x[1]
         i  == x[2]
         n  == Len(s.eperms)
         fd == s.eperms[i]
     IN  IF "EPERM" \in s.anfds[fd].emask /\ s.anfds[fd].events # {}
           THEN fd_event(s, fd, s.anfds[fd].events)
           ELSE [s EXCEPT !.eperms = SubSeq([@ EXCEPT ![i] = s.eperms[n]], 1, n - 1)]]

epoll_poll(s, got) ==
  LET t == Along(EpollRound(got), s, SetToSeq(DOMAIN got))
      n == Len(t.eperms)
  IN  Along(EpermRound, t, [k \in 1..n |-> n + 1 - k])

\* kevent works off the changes, and what fails is reported like an event.
KeventRound(file) ==
  [x \in [reg : SUBSET Registration, errors : Seq(Failure)] \X Change |->
     LET k == x[1]
         c == x[2]
         r == [fd |-> c.fd, file |-> file[c.fd], mask |-> {c.filter}, gen |-> 0]
     IN  IF file[c.fd] = 0 THEN [k EXCEPT !.errors = Append(@, [fd |-> c.fd, error |-> "EBADF"])]
         ELSE IF c.add THEN [k EXCEPT !.reg = @ \cup {r}]
         ELSE IF r \in k.reg THEN [k EXCEPT !.reg = @ \ {r}]
         ELSE [k EXCEPT !.errors = Append(@, [fd |-> c.fd, error |-> "ENOENT"])]]

Kevent(s) == Along(KeventRound(s.file), [reg |-> s.reg, errors |-> <<>>], s.changes)

FailureRound ==
  [x \in Loop \X Failure |->
     LET s  == x[1]
         fd == x[2].fd
     IN  IF s.anfds[fd].events = {} THEN s
         ELSE IF x[2].error = "ENOENT" \/ fd_valid(s, fd)
           THEN kqueue_modify(s, fd, {}, s.anfds[fd].events)
           ELSE fd_kill(s, fd)]

KqueueRound(got) == [x \in Loop \X Registration |-> fd_event(x[1], x[2].fd, got[x[2]])]

kqueue_poll(s, got) ==
  LET k == Kevent(s)
      t == Along(FailureRound, [s EXCEPT !.changes = <<>>, !.reg = k.reg], k.errors)
  IN  Along(KqueueRound(got), t, SetToSeq(DOMAIN got))

\* An event ends the association; the next fd_reify renews it.
PortRound(got) ==
  [x \in Loop \X Registration |->
     LET e == x[2]
     IN  fd_change(fd_event([x[1] EXCEPT !.reg = @ \ {e}], e.fd, got[e]), e.fd, {"IOFDSET"})]

port_poll(s, got) == Along(PortRound(got), s, SetToSeq(DOMAIN got))

backend_poll(s, got, nomem) ==
  CASE s.backend = "select" -> select_poll(s, got, nomem)
    [] s.backend = "poll"   -> poll_poll(s, got, nomem)
    [] s.backend = "epoll"  -> epoll_poll(s, got)
    [] s.backend = "kqueue" -> kqueue_poll(s, got)
    [] s.backend = "port"   -> port_poll(s, got)

\* epoll_fork, kqueue_fork and port_fork: a new kernel object, nothing in it.
backend_fork(s) ==
  IF s.backend \in {"select", "poll"} THEN s ELSE fd_rearm_all([s EXCEPT !.reg = {}])
-----------------------------------------------------------------------------
(* The kernel.                                                             *)

Entry(s, fd, mask) == [fd |-> fd, file |-> s.file[fd], mask |-> mask, gen |-> 0]

\* What it looks at while backend_poll waits.
Watched(s) ==
  CASE s.backend = "select" -> {Entry(s, fd, s.vec[fd]) : fd \in {f \in Fd : s.vec[f] # {}}}
    [] s.backend = "poll"   -> {Entry(s, p.fd, p.events) : p \in ToSet(s.polls)}
    [] s.backend = "kqueue" -> Kevent(s).reg
    [] OTHER                -> s.reg

\* An error or a hangup is both readable and writable, where it is reported
\* without being asked for.
Reportable(s, e) ==
  {m \in SUBSET e.mask : m # {}} \cup IF s.backend \in {"poll", "epoll", "port"} THEN {Both} ELSE {}

Reports(s) ==
  UNION {{got \in [E -> SUBSET Both] : \A e \in E : got[e] \in Reportable(s, e)} :
           E \in SUBSET {e \in Watched(s) : e.file # 0}}

close(s, fd) ==
  [s EXCEPT !.file[fd] = 0,
            !.reg = {r \in @ : IF s.backend = "epoll" THEN r.file # s.file[fd] \/ r.file \in s.kept
                               ELSE r.fd # fd}]

open(s, fd, file) ==
  [s EXCEPT !.file[fd] = file]
=============================================================================
