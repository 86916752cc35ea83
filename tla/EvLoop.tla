-------------------------------- MODULE EvLoop --------------------------------
(***************************************************************************)
(* ev_run of libev (src/libev/ev.c) with the watchers that an iteration    *)
(* runs through: ev_fork, ev_prepare, ev_io on any backend, ev_idle,       *)
(* ev_check, ev_child, ev_cleanup, and callbacks that start and stop       *)
(* watchers, feed events, break or run the loop again, open and close file *)
(* descriptors and fork.  Timers are in EvTimers, ev_async and signals in  *)
(* EvPipe: of them childev is left, which SIGCHLD makes pending.           *)
(***************************************************************************)
EXTENDS EvFds

CONSTANTS
  Programs,     \* what programs do, see ProgramAssumption
  MaxCalls,     \* bound on the calls of the program
  MaxDepth,     \* bound on nested ev_run
  MaxFiles      \* bound on the files opened

MAXPRI == CHOOSE p \in Priorities : \A o \in Priorities : o <= p
Ops    == {"start", "stop", "feed", "break", "run", "set", "close", "open", "dup", "dup2",
           "fork", "destroy", "exit"}

ASSUME ProgramAssumption ==
  /\ childev \notin Watcher /\ NoWatcher \notin Watcher \cup {childev}
  /\ IsFiniteSet(Watcher) /\ IsFiniteSet(Priorities)
  /\ Priorities # {} /\ Priorities \subseteq Int
  /\ {MaxCalls, MaxDepth, MaxFiles} \subseteq Nat /\ anfdmax \in 0..MaxFiles
  /\ Programs \subseteq
       [backend : {"select", "poll", "epoll", "kqueue", "port"},
        kind : [Watcher -> Kinds], pri : [Watcher -> Priorities],
        fd : [Watcher -> Fd], events : [Watcher -> SUBSET Both],
        pid : [Watcher -> Nat], ops : SUBSET Ops, started : SUBSET Watcher,
        regular : SUBSET Fd, calls : 0..MaxCalls]

VARIABLES
  s,        \* struct ev_loop, and what the kernel keeps for it
  frames,   \* the calls of ev_run that have not returned, the last one on top
  program,
  calls,    \* how often the program called
  heard     \* history: what the last backend_poll reported

vars == <<s, frames, program, calls, heard>>

kind == program.kind
Io   == {w \in Watcher : kind[w] = "io"}
-----------------------------------------------------------------------------
(* Watchers that are kept in arrays.                                       *)

Key(t, w)   == <<kind[w], IF kind[w] = "idle" THEN t.pri[w] ELSE 0>>
Counted(w)  == IF kind[w] = "cleanup" THEN 0 ELSE 1

ArrayStart(t, w) ==
  LET k == Key(t, w)
  IN  IF t.active[w] # 0 THEN t
      ELSE [t EXCEPT !.arrays[k] = Append(@, w), !.active[w] = Len(t.arrays[k]) + 1,
                     !.activecnt = @ + Counted(w)]

\* Mutant: the watcher that is moved does not learn its new place.
ArrayStop_Moved(t, w) ==
  LET k == Key(t, w)
      a == t.arrays[k]
      c == [t EXCEPT !.q = ClearPending(t.q, t.pri, w)]
  IN  IF t.active[w] = 0 THEN c
      ELSE [c EXCEPT !.arrays[k] = SubSeq([a EXCEPT ![t.active[w]] = Last(a)], 1, Len(a) - 1),
                     !.active[w] = 0, !.activecnt = @ - Counted(w)]

\* The last one of the array takes the place.
ArrayStop(t, w) ==
  LET k == Key(t, w)
      a == t.arrays[k]
      c == [t EXCEPT !.q = ClearPending(t.q, t.pri, w)]
  IN  IF t.active[w] = 0 THEN c
      ELSE [c EXCEPT !.arrays[k] = SubSeq([a EXCEPT ![t.active[w]] = Last(a)], 1, Len(a) - 1),
                     !.active = [t.active EXCEPT ![Last(a)] = t.active[w], ![w] = 0],
                     !.activecnt = @ - Counted(w)]

queue_all(t, k, type) == [t EXCEPT !.q = queue_events(t.q, t.pri, t.arrays[k], type)]
-----------------------------------------------------------------------------
(* Children.                                                               *)

Chain(pid) == pid % HASHSIZE

ev_child_start(t, w) ==
  IF t.active[w] # 0 THEN t
  ELSE [t EXCEPT !.active[w] = 1, !.activecnt = @ + 1,
                 !.childs[Chain(program.pid[w])] = <<w>> \o @]

ev_child_stop(t, w) ==
  LET c == [t EXCEPT !.q = ClearPending(t.q, t.pri, w)]
      h == Chain(program.pid[w])
  IN  IF t.active[w] = 0 THEN c
      ELSE [c EXCEPT !.active[w] = 0, !.activecnt = @ - 1,
                     !.childs[h] = Unlinked(t.childs[h], w)]

\* Children only end here: that one was stopped or continued is not modelled.
ReapRound(pid) ==
  [x \in Loop \X Watcher |->
     LET t == x[1]
         w == x[2]
     IN  IF program.pid[w] \notin {pid, 0} THEN t
         ELSE Feed([t EXCEPT !.pri[w] = MAXPRI, !.rpid[w] = pid], w, {"CHILD"})]

child_reap(t, chain, pid) == Along(ReapRound(pid), t, t.childs[Chain(chain)])

\* Mutant: the loop's own watcher is fed after the others.
childcb_Last(t, pid) ==
  Feed(child_reap(child_reap([t EXCEPT !.zombies = @ \ {pid}], pid, pid), 0, pid),
       childev, {"SIGNAL"})

\* waitpid returns pid.
childcb(t, pid) ==
  LET u == Feed([t EXCEPT !.zombies = @ \ {pid}], childev, {"SIGNAL"})
  IN  child_reap(child_reap(u, pid, pid), 0, pid)
-----------------------------------------------------------------------------
Start(t, w) ==
  CASE kind[w] = "io"    -> ev_io_start(t, w)
    [] kind[w] = "child" -> ev_child_start(t, w)
    [] OTHER             -> ArrayStart(t, w)

Stop(t, w) ==
  CASE kind[w] = "io"    -> ev_io_stop(t, w)
    [] kind[w] = "child" -> ev_child_stop(t, w)
    [] OTHER             -> ArrayStop(t, w)

StartRound == [x \in Loop \X Watcher |-> Start(x[1], x[2])]

loop_init(p) ==
  [backend |-> p.backend, postfork |-> FALSE, activecnt |-> 0, loop_done |-> "CANCEL",
   pri |-> [w \in Watcher \cup {childev, NoWatcher} |->
              IF w \in Watcher THEN p.pri[w] ELSE MAXPRI],
   q |-> EmptyQueue(Priorities, Watcher \cup {childev}),
   active |-> [w \in Watcher |-> 0], arrays |-> [k \in Keys |-> <<>>],
   fd |-> p.fd, events |-> p.events, set |-> [w \in Watcher |-> TRUE],
   anfds |-> [f \in Fd |-> [head |-> <<>>, events |-> {}, reify |-> {}, emask |-> {}, egen |-> 0]],
   fdchanges |-> <<>>,
   vec |-> [f \in Fd |-> {}], polls |-> <<>>, pollidxs |-> [f \in Fd |-> 0],
   eperms |-> <<>>, changes |-> <<>>, file |-> [f \in Fd |-> f], kept |-> {}, regular |-> p.regular,
   reg |-> {},
   childs |-> [h \in 0..(HASHSIZE - 1) |-> <<>>], rpid |-> [w \in Watcher |-> 0],
   zombies |-> {}, sigchld |-> FALSE]

Frame(at, once) == [at |-> at, pri |-> MAXPRI, once |-> once, cb |-> FALSE]

\* The program has started some watchers and calls ev_run.
Init ==
  /\ program \in Programs
  /\ s = Along(StartRound, loop_init(program), SetToSeq(program.started))
  /\ frames = <<Frame("entry", FALSE)>>
  /\ calls = 0 /\ heard = {}

Top == Last(frames)
Replaced(f) == frames' = Append(Front(frames), f)
-----------------------------------------------------------------------------
(* ev_run.                                                                 *)

\* What ev_invoke_pending finds: it goes from the highest priority down, once.
Left(f) == {p \in Priorities : p <= f.pri /\ s.q.list[p] # <<>>}

Invoking == frames # <<>> /\ Top.at # "poll" /\ Left(Top) # {}
PassOver == frames # <<>> /\ Top.at # "poll" /\ Left(Top) = {}

Invoke ==
  LET p == CHOOSE x \in Left(Top) : \A o \in Left(Top) : o <= x
      w == Taken(s.q, p).w
      t == [s EXCEPT !.q = Take(s.q, p)]
  IN  /\ Invoking
      /\ Replaced([Top EXCEPT !.pri = p, !.cb = w \in Watcher])
      /\ IF w = childev /\ t.zombies # {}
           THEN \E pid \in t.zombies : s' = childcb(t, pid)
           ELSE s' = t
      /\ UNCHANGED <<program, calls, heard>>

\* From the prepare watchers on to backend_poll.  f is the frame.
loop_fork(t) == IF t.postfork THEN [backend_fork(t) EXCEPT !.postfork = FALSE] ELSE t

Forks    == <<"fork", 0>>
Prepares == <<"prepare", 0>>

Leave ==
  /\ frames' = Front(frames)
  /\ s' = [s EXCEPT !.loop_done = IF @ = "ONE" THEN "CANCEL" ELSE @]

ToPoll ==
  IF s.loop_done # "CANCEL" THEN Leave
  ELSE /\ s' = fd_reify(loop_fork(s))
       /\ Replaced([Top EXCEPT !.at = "poll", !.cb = FALSE])

ToPrepares ==
  IF s.arrays[Prepares] = <<>> THEN ToPoll
  ELSE /\ s' = queue_all(s, Prepares, "PREPARE")
       /\ Replaced([Top EXCEPT !.at = "prepares", !.pri = MAXPRI, !.cb = FALSE])

Iterate ==
  IF s.postfork /\ s.arrays[Forks] # <<>>
    THEN /\ s' = queue_all(s, Forks, "FORK")
         /\ Replaced([Top EXCEPT !.at = "forks", !.pri = MAXPRI, !.cb = FALSE])
    ELSE ToPrepares

\* The end of ev_loop_destroy.
Destroyed == frames' = <<>> /\ s' = [s EXCEPT !.backend = "none"]

\* The next part of ev_run, or of ev_loop_destroy, after all callbacks.
Continue ==
  /\ PassOver
  /\ CASE Top.at = "entry"    -> Iterate
       [] Top.at = "forks"    -> ToPrepares
       [] Top.at = "prepares" -> ToPoll
       [] Top.at = "cleanups" -> Destroyed
       [] Top.at = "end"      ->
            IF s.activecnt # 0 /\ s.loop_done = "CANCEL" /\ ~Top.once THEN Iterate ELSE Leave
  /\ UNCHANGED <<program, calls, heard>>

\* Idle watchers of the highest priority that has any, if nothing of this
\* priority or a higher one is pending.
idle_reify(t) ==
  LET busy(p) == t.q.list[p] # <<>> \/ t.arrays[<<"idle", p>>] # <<>>
      p == CHOOSE x \in Priorities : busy(x) /\ \A o \in Priorities : busy(o) => o <= x
  IN  IF (\A x \in Priorities : ~busy(x)) \/ t.q.list[p] # <<>> THEN t
      ELSE queue_all(t, <<"idle", p>>, "IDLE")

\* backend_poll, and what is queued before the callbacks.
Poll ==
  /\ frames # <<>> /\ Top.at = "poll"
  /\ \E got \in Reports(s), nomem \in BOOLEAN :
       LET t == backend_poll(s, got, nomem)
           u == IF t.sigchld THEN Feed([t EXCEPT !.sigchld = FALSE], childev, {"SIGNAL"}) ELSE t
       IN  /\ nomem => s.backend \in {"select", "poll"} /\ got = <<>>
           /\ s' = queue_all(idle_reify(u), <<"check", 0>>, "CHECK")
           /\ heard' = {[fd |-> e.fd, file |-> e.file] : e \in DOMAIN got}
  /\ Replaced([Top EXCEPT !.at = "end", !.pri = MAXPRI, !.cb = FALSE])
  /\ UNCHANGED <<program, calls>>
-----------------------------------------------------------------------------
(* The program, in a callback or outside of ev_run.                        *)

Call(op) ==
  /\ op \in program.ops /\ s.backend # "none"
  /\ frames # <<>> => Top.cb
  /\ calls < program.calls /\ calls' = calls + 1
  /\ UNCHANGED <<program, heard>>

CallStart(w) == Call("start") /\ s' = Start(s, w) /\ UNCHANGED frames
CallStop(w)  == Call("stop") /\ s' = Stop(s, w) /\ UNCHANGED frames
CallFeed(w)  == Call("feed") /\ s' = Feed(s, w, {"CUSTOM"}) /\ UNCHANGED frames

CallBreak(how) ==
  Call("break") /\ s' = [s EXCEPT !.loop_done = how] /\ UNCHANGED frames

CallRun(once) ==
  /\ Call("run") /\ Len(frames) < MaxDepth
  /\ frames' = Append(frames, Frame("entry", once))
  /\ s' = [s EXCEPT !.loop_done = "CANCEL"]

\* ev_io_set of a stopped watcher.
CallSet(w, events) ==
  /\ Call("set") /\ w \in Io /\ s.active[w] = 0
  /\ s' = [s EXCEPT !.events[w] = events, !.set[w] = TRUE]
  /\ UNCHANGED frames

CallClose(fd) ==
  Call("close") /\ fd_valid(s, fd) /\ s' = close(s, fd) /\ UNCHANGED frames

\* As ev.pod asks, watchers are stopped, and set again, when their fd gets
\* another file.
Replace(fd, file) ==
  /\ \A w \in Io : s.fd[w] = fd => s.active[w] = 0
  /\ s' = [open(close(s, fd), fd, file) EXCEPT
             !.set = [w \in Watcher |-> s.set[w] \/ (w \in Io /\ s.fd[w] = fd)]]
  /\ UNCHANGED frames

CallOpen(fd) ==
  /\ Call("open") /\ ~fd_valid(s, fd)
  /\ \E file \in 1..MaxFiles :
       /\ file = Max(Fd \cup Range(s.file) \cup s.kept \cup {r.file : r \in s.reg}) + 1
       /\ Replace(fd, file)

\* dup2: the fd gets a file that the program kept, maybe the one it had before.
CallDup2(fd) == Call("dup2") /\ \E file \in s.kept : Replace(fd, file)

\* Another fd, or another process, gets the file, too.
CallDup(fd) ==
  /\ Call("dup") /\ fd_valid(s, fd)
  /\ s' = [s EXCEPT !.kept = @ \cup {s.file[fd]}]
  /\ UNCHANGED frames

\* fork; the child goes on, with ev_loop_fork.  A kqueue is not inherited.
CallFork ==
  /\ Call("fork")
  /\ s' = [s EXCEPT !.postfork = TRUE, !.kept = @ \cup {s.file[f] : f \in Fd},
                    !.reg = IF s.backend = "kqueue" THEN {} ELSE @]
  /\ UNCHANGED frames

\* ev_loop_destroy.  Callbacks run only if there are cleanup watchers.
Cleanups == <<"cleanup", 0>>

CallDestroy ==
  /\ Call("destroy") /\ frames = <<>>
  /\ IF s.arrays[Cleanups] = <<>> THEN Destroyed
     ELSE /\ frames' = <<Frame("cleanups", TRUE)>>
          /\ s' = queue_all(s, Cleanups, "CLEANUP")

\* A child process ends.
Exit ==
  /\ "exit" \in program.ops /\ frames # <<>> /\ calls < program.calls /\ calls' = calls + 1
  /\ \E pid \in 1..2 :
       pid \notin s.zombies /\ s' = [s EXCEPT !.zombies = @ \cup {pid}, !.sigchld = TRUE]
  /\ UNCHANGED <<frames, program, heard>>

Next ==
  \/ Invoke \/ Continue \/ Poll \/ Exit
  \/ \E w \in Watcher : CallStart(w) \/ CallStop(w) \/ CallFeed(w)
  \/ \E w \in Watcher, events \in (SUBSET Both) \ {{}} : CallSet(w, events)
  \/ \E how \in {"ONE", "ALL"} : CallBreak(how)
  \/ \E once \in BOOLEAN : CallRun(once)
  \/ \E fd \in Fd : CallClose(fd) \/ CallOpen(fd) \/ CallDup(fd) \/ CallDup2(fd)
  \/ CallFork \/ CallDestroy

Spec == Init /\ [][Next]_vars
-----------------------------------------------------------------------------
\* What ev_verify asserts: every watcher that is active is at the place it
\* believes, in its array or its fd's list, pending ones are in the queue,
\* fdchanges are the fds to reify, the poll set is indexed, and the loop is
\* kept alive by exactly the active watchers.
Verified ==
  /\ \A k \in Keys : \A i \in DOMAIN s.arrays[k] : s.active[s.arrays[k][i]] = i
  /\ \A f \in Fd : \A w \in ToSet(s.anfds[f].head) : s.active[w] = 1 /\ s.fd[w] = f
  /\ QueueVerified(s.q, s.pri)
  /\ ToSet(s.fdchanges) = {f \in Fd : s.anfds[f].reify # {}}
  /\ Cardinality(ToSet(s.fdchanges)) = Len(s.fdchanges)
  /\ \A f \in Fd : s.pollidxs[f] # 0 => s.polls[s.pollidxs[f]].fd = f
  /\ s.activecnt = Cardinality({w \in Watcher : s.active[w] # 0 /\ Counted(w) = 1})

Wants(fd) == UNION {s.events[w] : w \in ToSet(s.anfds[fd].head)}
Asked(fd) ==
  UNION {e.mask : e \in {x \in Watched(s) : /\ x.fd = fd /\ x.file = s.file[fd]
                                            /\ s.backend = "epoll" => x.gen = s.anfds[fd].egen}}

\* Epoll may still have an entry of a file that dup2 brought back.  If its mask
\* is what was wanted last of the fd, epoll_modify believes that it has not
\* changed, and leaves the fd the generation of the file that was there before.
Returned(fd) ==
  /\ s.backend = "epoll" /\ "dup2" \in program.ops
  /\ s.file[fd] \in s.kept /\ Registered(s, fd) # {}

\* Whenever the loop waits, the kernel watches every open fd for all that the
\* active watchers want of it, whatever was started, stopped, closed, opened
\* or forked before, and epoll's entry will not be taken for an old one; except
\* an fd to which dup2 returned a file that epoll knows.
Armed ==
  frames # <<>> /\ Top.at = "poll" =>
    \A fd \in Fd : fd_valid(s, fd) =>
      \/ Wants(fd) \subseteq Asked(fd)
      \/ fd \in ToSet(s.eperms)
      \/ Returned(fd)

\* An ev_io is pending only while it is active, for events it waits for,
\* unless its fd was found bad or the program fed the event.
OnlyAsked ==
  \A w \in Io : s.q.pending[w] # 0 =>
    LET evs == s.q.list[s.pri[w]][s.q.pending[w]].events
    IN  {"ERROR", "CUSTOM"} \cap evs # {} \/ (s.active[w] # 0 /\ evs \subseteq s.events[w])

\* An event of a file that is no longer behind an fd never reaches the
\* watchers of the file that is there now, except one that dup2 returned.
NoStaleEvents ==
  [][frames # <<>> /\ Top.at = "poll" =>
       \A w \in Io : fd_valid(s, s.fd[w]) /\ s.q.pending[w] = 0 /\ s'.q.pending[w] # 0 =>
         \/ "ERROR" \in s'.q.list[s.pri[w]][s'.q.pending[w]].events
         \/ s.fd[w] \in ToSet(s.eperms) \/ Returned(s.fd[w])
         \/ [fd |-> s.fd[w], file |-> s.file[s.fd[w]]] \in heard']_vars

\* The status of a child is not overwritten before the callback has seen it.
ChildrenTold ==
  [][\A w \in Watcher :
       s.q.pending[w] # 0 /\ s'.q.pending[w] # 0 => s'.rpid[w] = s.rpid[w]]_vars
=============================================================================
