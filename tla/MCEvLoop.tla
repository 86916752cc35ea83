------------------------------ MODULE MCEvLoop -------------------------------
(***************************************************************************)
(* Programs for the libev loop.                                            *)
(***************************************************************************)
EXTENDS EvLoop, TLC

CONSTANTS w1, w2, w3

Three(a, b, c) == w1 :> a @@ w2 :> b @@ w3 :> c

Program(backend, kinds, pris, fds, events, pids, ops, started, n) ==
  [backend |-> backend, kind |-> kinds, pri |-> pris, fd |-> fds, events |-> events,
   pid |-> pids, ops |-> ops, started |-> started, regular |-> {}, calls |-> n]

R == {"READ"}

\* Two watchers share an fd, on every backend.
Sharing ==
  {Program(b, Three("io", "io", "io"), Three(0, 0, 0), Three(1, 1, 2), Three(R, e, R),
           Three(0, 0, 0), {"start", "stop", "close", "open"} \cup x, {w1, w2, w3}, 4) :
     b \in {"select", "poll", "epoll", "kqueue", "port"}, e \in {{"WRITE"}, Both},
     x \in {{"dup"}, {"fork"}}}

\* The file behind an fd is replaced by another one.
Reopening ==
  {Program(b, Three("io", "io", "io"), Three(0, 0, 0), Three(1, 2, 2), Three(Both, R, R),
           Three(0, 0, 0), {"start", "stop", "close", "open"} \cup x, {w1, w2}, 6) :
     b \in {"select", "poll", "epoll", "kqueue", "port"}, x \in {{"dup", "dup2"}, {"fork"}}}

\* It comes back, when epoll was told about another one meanwhile.
Returning ==
  {Program("epoll", Three("io", "io", "prepare"), Three(0, 0, 0), Three(1, 1, 2), Three(R, e, {}),
           Three(0, 0, 0), {"start", "stop", "close", "open", "dup", "dup2"}, {w1}, 8) :
     e \in {R, {"WRITE"}}}

\* They also change what they wait for.
Changing ==
  {Program(b, Three("io", "io", "io"), Three(0, 1, 0), Three(1, 1, 2), Three(R, Both, R),
           Three(0, 0, 0), {"start", "stop", "set"}, {w1, w2}, 4) :
     b \in {"select", "poll", "epoll", "kqueue", "port"}}

\* Behind fd 1 is a file that epoll does not take.  Its watchers are not all
\* stopped: fd_reify would not put it back on epoll_eperms.
Snobbish ==
  {[Program("epoll", Three("io", "io", "io"), Three(0, 0, 0), Three(1, 1, 2), Three(R, e, R),
            Three(0, 0, 0), {"start", "feed"}, {w1}, 4) EXCEPT !.regular = {1}] :
     e \in {{"WRITE"}, Both}}

\* All that an iteration runs through, at two priorities.
Mixed ==
  {Program("select", Three(a, b, c), Three(p, 0, 0), Three(1, 1, 1), Three(R, R, R),
           Three(0, 0, 0), {"start", "stop", "feed", "break", "run", "fork", "destroy"},
           {w1, w2, w3}, 4) :
     a \in {"io", "idle"}, b \in {"fork", "prepare", "idle"}, c \in {"check", "cleanup", "fork", "io"},
     p \in {0, 1}}

\* A watcher for any child and two for one each.
Family ==
  {Program("select", Three("child", "child", "child"), Three(0, p, 0), Three(1, 1, 1),
           Three(R, R, R), Three(0, 1, 2), {"start", "stop", "exit", "run"}, {w1, w2, w3}, 4) :
     p \in {0, 1}}

\* The same, and the program feeds them events, too.  Not in All: child_reap
\* changes the priority of a watcher that may be pending, and Verified fails.
Feeding == {[p EXCEPT !.ops = @ \cup {"feed"}] : p \in Family}

All == Sharing \cup Reopening \cup Returning \cup Changing \cup Snobbish \cup Mixed \cup Family
=============================================================================
