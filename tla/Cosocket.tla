------------------------------ MODULE Cosocket ------------------------------
(***************************************************************************)
(* The sockets of coasio/cosocket.h on top of the reactor, acceptor.h and  *)
(* connector.h included.                                                   *)
(*                                                                         *)
(* A call tries the system call at once or waits in the reactor first, and *)
(* tries (again) when the reactor has let it go on, for whatever reason.   *)
(* EINTR is tried again until something else comes, so it does not show.   *)
(* Every step of the reactor is a step of Coreactor; here it learns which  *)
(* descriptor an event watches and when that is ready.                     *)
(***************************************************************************)
EXTENDS Coreactor

CONSTANTS
  Sock,      \* the cosocket_t objects that are connected
  Listener,  \* the one of the acceptor_t
  Users,     \* the coroutines that call the sockets
  Apis,      \* what programs call: each is a set of names
  MaxClients \* bound on the clients that wait to be accepted

ASSUME SockAssumption ==
  Listener \notin Sock /\ Null \notin Sock \cup {Listener} /\ Users \subseteq OneShot
  /\ MaxClients \in Nat
  /\ Null \notin [sock : Sock \cup {Listener}, dir : {"READ", "WRITE"}]

VARIABLES
  net,       \* of each socket: closed, new, pending, up or broken
  incoming,  \* nothing, data, or eof: the peer has closed
  room,      \* the sockets that can be written to
  nonblock,  \* those that have O_NONBLOCK
  clients,   \* how many wait to be accepted
  watched,   \* what each armed event is about
  op,        \* the call of each coroutine
  stopped,   \* _stopped of the acceptor
  api,       \* what this program calls
  returned   \* history: the call that returns in this step, or NoCall

sockets   == <<net, incoming, room, nonblock, clients, stopped, api>>
allVars   == <<vars, sockets, watched, op, returned>>

\* early: the wait ended or may have ended by other means than genuine
\* readiness.  stuck: the system call blocks.  large: it has moved the part of
\* its data that there was room for.
NoCall == [name |-> "none", sock |-> Null, early |-> FALSE, stuck |-> FALSE,
           large |-> FALSE, value |-> "none"]
CallOf(name, f) == [NoCall EXCEPT !.name = name, !.sock = f]

Receiving == {"read", "recv", "recvv", "recv_from"}
Sending   == {"write", "send", "sendv", "send_to"}
TryFirst  == {"recv", "recvv", "send", "sendv"}
Dir(name) == IF name \in Receiving \cup {"accept"} THEN "READ" ELSE "WRITE"

\* With MSG_DONTWAIT or on a descriptor made non-blocking.
Blocks(name, f) == name \notin {"send", "recv"} /\ f \notin nonblock

\* What a system call meets.
Outcome(f, dir) ==
  IF f = Listener THEN IF clients > 0 THEN "some" ELSE "again"
  ELSE IF net[f] = "pending" THEN "again"
  ELSE IF net[f] # "up" THEN "error"
  ELSE IF dir = "WRITE" THEN IF f \in room THEN "some" ELSE "again"
  ELSE [nothing |-> "again", data |-> "some", eof |-> "eof"][incoming[f]]

\* What the call returns then: a number, 0, or -1.
Value(name, outcome) ==
  CASE outcome = "some"  -> "some"
    [] outcome = "eof"   -> "zero"
    [] outcome = "again" -> IF name \in {"recv_from", "send_to", "accept"} THEN "error" ELSE "zero"
    [] outcome = "error" -> "error"

Idle(c) == InUser(c) /\ op[c] = NoCall

Calls(c, name) == Idle(c) /\ name \in api

\* Somebody else who waits for the same may find nothing any more.
Overtaken(ops, c, f, dir) ==
  [d \in Coro |-> IF d # c /\ f # Null /\ ops[d].sock = f /\ Dir(ops[d].name) = dir
                    THEN [ops[d] EXCEPT !.early = TRUE] ELSE ops[d]]

\* The system call moves data or takes a client.
Moved(c, name, f, outcome) ==
  LET some == outcome = "some"
      dir  == Dir(name)
  IN  /\ incoming' = IF some /\ dir = "READ" /\ f # Listener
                       THEN [incoming EXCEPT ![f] = "nothing"] ELSE incoming
      /\ room'     = IF some /\ dir = "WRITE" THEN room \ {f} ELSE room
      /\ clients'  = IF some /\ f = Listener THEN clients - 1 ELSE clients
      /\ UNCHANGED <<net, stopped, api>>

Returns(c, o, value) == returned' = [o EXCEPT !.value = value]

\* Mutant: it always waits until it can write.
SetEvent_Writable(c, f, dir, persist, timed) ==
  \E e \in Event :
    /\ SetIo(c, e, persist, timed)
    /\ watched' = IF _triggers[c] = Absent
                    THEN [watched EXCEPT ![e] = [sock |-> f, dir |-> "WRITE"]] ELSE watched

\* cosocket_t::set_event
SetEvent(c, f, dir, persist, timed) ==
  \E e \in Event :
    /\ SetIo(c, e, persist, timed)
    /\ watched' = IF _triggers[c] = Absent
                    THEN [watched EXCEPT ![e] = [sock |-> f, dir |-> dir]] ELSE watched

\* read, recv, recvv, recv_from, write, send, sendv or send_to up to the wait.
Begin(c, name, f, timed) ==
  LET outcome == Outcome(f, Dir(name))
  IN  /\ Calls(c, name) /\ c \in Users
      /\ net[f] \in {"up", "broken"}
      /\ nonblock' = IF name \in {"sendv", "recvv"} THEN nonblock \cup {f} ELSE nonblock
      /\ IF name \in TryFirst /\ outcome # "again"
           THEN /\ Moved(c, name, f, outcome)
                /\ op' = IF outcome = "some" THEN Overtaken(op, c, f, Dir(name)) ELSE op
                /\ Returns(c, CallOf(name, f), Value(name, outcome))
                /\ UNCHANGED <<vars, watched>>
           ELSE /\ SetEvent(c, f, Dir(name), FALSE, timed)
                /\ op' = [op EXCEPT ![c] = CallOf(name, f)]
                /\ returned' = NoCall
                /\ UNCHANGED <<net, incoming, room, clients, stopped, api>>

Forgotten(c) ==
  watched' = [e \in Event |-> IF e \in held' THEN watched[e] ELSE Null]

\* The system call behind the wait blocks the whole thread: nothing is there, or
\* only part of what it sends fits.
Stuck(c, outcome) ==
  /\ Blocks(op[c].name, op[c].sock)
  /\ returned' = NoCall
  /\ \/ /\ outcome = "again"
        /\ op' = [op EXCEPT ![c].stuck = TRUE]
        /\ UNCHANGED sockets
     \/ /\ outcome = "some" /\ op[c].name \in Sending
        /\ op' = Overtaken([op EXCEPT ![c] = [@ EXCEPT !.stuck = TRUE, !.large = TRUE]],
                           c, op[c].sock, "WRITE")
        /\ Moved(c, op[c].name, op[c].sock, outcome)
        /\ UNCHANGED nonblock

\* Or it comes back, after an error with the number of what it had moved.
Attempt(c, outcome) ==
  LET mine == op[c]
      f     == mine.sock
  IN  \/ Stuck(c, outcome)
      \/ /\ outcome = "again" => ~ Blocks(mine.name, f)
         /\ op' = Overtaken([op EXCEPT ![c] = NoCall], c,
                            IF outcome = "some" THEN f ELSE Null, Dir(mine.name))
         /\ Moved(c, mine.name, f, outcome)
         /\ \/ Returns(c, mine, Value(mine.name, outcome))
            \/ mine.large /\ outcome = "error" /\ Returns(c, mine, "some")
         /\ UNCHANGED nonblock

\* Mutant: a call that is interrupted ends.
Continued_Interrupted(c) ==
  /\ op[c].sock # Null /\ op[c].name # "connect" /\ ~op[c].stuck
  /\ Return(c) /\ Forgotten(c)
  /\ \E outcome \in {Outcome(op[c].sock, Dir(op[c].name)), "again"} : Attempt(c, outcome)

Continued(c) ==
  /\ op[c].sock # Null /\ op[c].name # "connect" /\ ~op[c].stuck
  /\ Return(c) /\ Forgotten(c)
  /\ Attempt(c, Outcome(op[c].sock, Dir(op[c].name)))

Unblocked(c) ==
  /\ op[c].stuck /\ Outcome(op[c].sock, Dir(op[c].name)) # "again"
  /\ Attempt(c, Outcome(op[c].sock, Dir(op[c].name)))
  /\ UNCHANGED <<vars, watched>>
-----------------------------------------------------------------------------
(* Connecting and accepting                                                *)

\* connect: at once, refused at once, or in progress.
Connect(c, f, timed) ==
  /\ Calls(c, "connect") /\ c \in Users
  /\ net[f] = "new"
  /\ \/ /\ net' = [net EXCEPT ![f] = "up"] /\ nonblock' = nonblock \ {f}
        /\ Returns(c, CallOf("connect", f), "zero")
        /\ UNCHANGED <<vars, watched, op>>
     \/ /\ net' = [net EXCEPT ![f] = "broken"] /\ nonblock' = nonblock \cup {f}
        /\ Returns(c, CallOf("connect", f), "error")
        /\ UNCHANGED <<vars, watched, op>>
     \/ /\ net' = [net EXCEPT ![f] = "pending"] /\ nonblock' = nonblock \cup {f}
        /\ SetEvent(c, f, "WRITE", FALSE, timed)
        /\ op' = [op EXCEPT ![c] = CallOf("connect", f)]
        /\ returned' = NoCall
  /\ UNCHANGED <<incoming, room, clients, stopped, api>>

\* Mutant: SO_ERROR is not looked at.
Failed_NotAsked(f) == FALSE

\* SO_ERROR, or the descriptor is -1.
Failed(f) == net[f] \in {"broken", "closed"}

Connected(c) ==
  LET f == op[c].sock
  IN  /\ op[c].name = "connect"
      /\ Return(c) /\ Forgotten(c)
      /\ nonblock' = IF Failed(f) THEN nonblock ELSE nonblock \ {f}
      /\ Returns(c, op[c], IF Failed(f) THEN "error" ELSE "zero")
      /\ op' = [op EXCEPT ![c] = NoCall]
      /\ UNCHANGED <<net, incoming, room, clients, stopped, api>>

\* The loop of acceptor_t::operator(), whose listener does not block.
Accept(c) ==
  /\ Calls(c, "accept") /\ c \in Persistent
  /\ ~stopped
  /\ \E timed \in BOOLEAN : SetEvent(c, Listener, "READ", TRUE, timed)
  /\ op' = [op EXCEPT ![c] = CallOf("accept", Listener)]
  /\ returned' = NoCall
  /\ UNCHANGED sockets

\* acceptor_t::stop cancels what the CALLER waits for, which is nothing.
Stop(c) ==
  /\ Calls(c, "stop") /\ c \in Users
  /\ _triggers[c] = Absent
  /\ stopped' = TRUE
  /\ returned' = NoCall
  /\ UNCHANGED <<vars, watched, op, net, incoming, room, nonblock, clients, api>>

\* Nobody is still in a call of the object.
Create(c, f) ==
  /\ Calls(c, "connect") /\ c \in Users
  /\ net[f] = "closed"
  /\ \A d \in Coro : op[d].sock # f
  /\ net' = [net EXCEPT ![f] = "new"]
  /\ returned' = NoCall
  /\ UNCHANGED <<vars, watched, op, incoming, room, nonblock, clients, stopped, api>>

\* libev is not told.
Close(c, f) ==
  /\ Calls(c, "close") /\ c \in Users
  /\ net[f] # "closed"
  /\ net' = [net EXCEPT ![f] = "closed"]
  /\ incoming' = [incoming EXCEPT ![f] = "nothing"]
  /\ room' = room \ {f} /\ nonblock' = nonblock \ {f}
  /\ op' = Overtaken(Overtaken(op, c, f, "READ"), c, f, "WRITE")
  /\ returned' = NoCall
  /\ UNCHANGED <<vars, watched, clients, stopped, api>>
-----------------------------------------------------------------------------
(* The reactor, the other end, and the rest of the program                 *)

Ended(c) == op' = IF op[c].sock = Null THEN op ELSE [op EXCEPT ![c].early = TRUE]

\* What an event is about has come.  libev may say so although it has not
\* ("spurious" readiness).
Ready(e) == watched[e] # Null => Outcome(watched[e].sock, watched[e].dir) # "again"

Reactor1 ==
  /\ \/ Run /\ Idle(Reactor) /\ UNCHANGED op
     \/ LoopYield /\ UNCHANGED op
     \/ LoopTest /\ UNCHANGED op
     \/ \E c \in Coro : Resume(c) /\ UNCHANGED op
     \/ \E e \in Event : FireIo(e) /\ IF Ready(e) THEN UNCHANGED op ELSE Ended(arg[e])
     \/ \E e \in Event : (FireError(e) \/ FireTimer(e)) /\ Ended(arg[e])
  /\ returned' = NoCall
  /\ UNCHANGED <<sockets, watched>>

Peer ==
  /\ \/ \E f \in Sock :
          \/ /\ net[f] = "pending"
             /\ \E to \in {"up", "broken"} : net' = [net EXCEPT ![f] = to]
             /\ UNCHANGED <<incoming, room, clients>>
          \/ /\ net[f] = "up" /\ net' = [net EXCEPT ![f] = "broken"]
             /\ incoming' = [incoming EXCEPT ![f] = "nothing"] /\ room' = room \ {f}
             /\ UNCHANGED clients
          \/ /\ net[f] = "up" /\ incoming[f] = "nothing"
             /\ \E in \in {"data", "eof"} : incoming' = [incoming EXCEPT ![f] = in]
             /\ UNCHANGED <<net, room, clients>>
          \/ /\ net[f] = "up" /\ f \notin room /\ room' = room \cup {f}
             /\ UNCHANGED <<net, incoming, clients>>
     \/ clients < MaxClients /\ clients' = clients + 1 /\ UNCHANGED <<net, incoming, room>>
  /\ returned' = NoCall
  /\ UNCHANGED <<vars, watched, op, nonblock, stopped, api>>

Others(c) ==
  /\ Idle(c)
  /\ \/ (Yield(c) \/ End(c)) /\ UNCHANGED <<op, watched>>
     \/ \E t \in Cancelled : "cancel" \in api /\ Cancel(c, t) /\ Ended(t) /\ UNCHANGED watched
     \/ \E e \in Event, kind \in {"timer", "signal"} :
          kind \in api /\ c \in OneShot /\ SetAlone(c, e, kind) /\ UNCHANGED <<op, watched>>
  /\ returned' = NoCall
  /\ UNCHANGED sockets

\* The end of set_timeout and set_signal.
Awake(c) ==
  /\ op[c] = NoCall
  /\ Return(c)
  /\ returned' = NoCall
  /\ UNCHANGED <<sockets, watched, op>>

Socket(c) ==
  \/ \E f \in Sock, name \in api \cap (Receiving \cup Sending), timed \in BOOLEAN : Begin(c, name, f, timed)
  \/ \E f \in Sock, timed \in BOOLEAN : Connect(c, f, timed)
  \/ \E f \in Sock : Create(c, f) \/ Close(c, f)
  \/ Accept(c) \/ Stop(c)

Behind(c) == Continued(c) \/ Connected(c) \/ Awake(c)

NextSocket ==
  \/ Reactor1 \/ Peer
  \/ \E c \in Coro : Socket(c) \/ Others(c) \/ Behind(c) \/ Unblocked(c)

\* _stopped is not initialised.  A socket may also come from an acceptor.
InitSocket ==
  /\ Init
  /\ api \in Apis
  /\ net \in [Sock -> {"closed", "up"}] /\ incoming = [f \in Sock |-> "nothing"]
  /\ room = {} /\ nonblock = {Listener} \cup {f \in Sock : net[f] = "up"} /\ clients = 0
  /\ watched = [e \in Event |-> Null]
  /\ op = [c \in Coro |-> NoCall]
  /\ stopped \in BOOLEAN
  /\ returned = NoCall

SpecSocket == InitSocket /\ [][NextSocket]_allVars
=============================================================================
