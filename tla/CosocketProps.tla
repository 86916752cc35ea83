---------------------------- MODULE CosocketProps ----------------------------
(***************************************************************************)
(* What the sockets tell their callers.                                    *)
(***************************************************************************)
EXTENDS Cosocket, CoreactorProps

\* A call that returns 0 although the peer has not closed was timed out,
\* cancelled, woken by an error or by spurious readiness, or overtaken by
\* another coroutine at the same socket: behind genuine readiness it has data,
\* and EINTR is no way out.
ZeroHasReason ==
  returned.name \in Receiving \cup Sending /\ returned.value = "zero" =>
    \/ returned.early
    \/ returned.name \in Receiving /\ incoming[returned.sock] = "eof"

\* connect returns 0 for a socket that is connected, or was just now, and -1
\* for one that is not, if the wait ended with genuine readiness.
ConnectTells ==
  returned.name = "connect" /\ ~returned.early =>
    (returned.value = "zero") = (net[returned.sock] = "up")

\* "connected" (connector.h): connect returns 0 only when it is.
ConnectedIsUp ==
  returned.name = "connect" /\ returned.value = "zero" => net[returned.sock] = "up"

\* A system call blocks the thread, and with it every coroutine, only behind a
\* wait that ended early, or in the middle of more data than there is room for:
\* a read never does behind genuine readiness.
BlocksOnlyEarly ==
  \A c \in Coro : op[c].stuck => op[c].early \/ (op[c].large /\ op[c].name \in Sending)

=============================================================================
