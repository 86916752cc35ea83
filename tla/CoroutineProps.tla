--------------------------- MODULE CoroutineProps ---------------------------
(***************************************************************************)
(* What the scheduler of Coroutine has to keep true.                       *)
(***************************************************************************)
EXTENDS Coroutine

Ops == {"drain", "execute", "resume_childs", "resume", "transfer",
        "coro_transfer", "yield", "mget", "await"}

\* The functions the main context can be in; the others are member functions
\* of a coroutine and run only on the stack of one.
MainOps == {"drain", "resume_childs", "resume", "transfer", "coro_transfer"}

Frames == [op : Ops, co : Ctx, kid : Ctx, left : Nat]

\* Every variable has its type, in every reachable state.
TypeOK ==
  /\ current  \in Ctx
  /\ stat     \in [Coro -> {FREED, CORO_STAT_INIT, CORO_STAT_WAIT,
                            CORO_STAT_BUSY, CORO_STAT_DONE}]
  /\ evet     \in [Coro -> SUBSET {"WAIT", "CHLD"}]
  /\ msg      \in [Coro -> SUBSET {"WAIT", "CHLD"}]
  /\ pre      \in [Coro -> Ctx]
  /\ parent   \in [Coro -> Ctx]
  /\ level    \in [Coro -> Nat]
  /\ childs   \in [Ctx -> Seq(Coro)]
  /\ messages \in [Coro -> Seq(Message)]
  /\ stack    \in [Ctx -> Seq(Frames)]

MainOnly(s) == \A i \in 1..Len(s) : s[i].op \in MainOps

MainStack == MainOnly(stack[Nil])

-----------------------------------------------------------------------------
(* The return chain *)

\* r is inside coro_transfer(): it resumed somebody and waits to be returned to.
Resumer(r) == stack[r] # <<>> /\ Top(stack[r]).op = "coro_transfer"

\* _stat says BUSY of the coroutine that runs and of no other, although each
\* transfer shifts the _stat of two coroutines without looking (transfer and
\* transfer_pre of coroutine.cpp).
OneRunner == \A c \in Coro : stat[c] = CORO_STAT_BUSY <=> current = c

\* The context a coroutine will switch back to is one that waits for exactly
\* this coroutine, suspended in the coro_transfer() that switched to it; and
\* every context that waits so is returned to by somebody.  _coro_pre is
\* overwritten at each transfer, so a coroutine resumed twice before it yielded
\* would leave one of its resumers suspended for ever.
ReturnChain ==
  /\ \A c \in Coro :
       (c = current \/ Resumer(c)) =>
         Resumer(pre[c]) /\ pre[c] # current /\ Top(stack[pre[c]]).co = c
  /\ \A r \in Ctx :
       Resumer(r) /\ r # current =>
         LET c == Top(stack[r]).co
         IN  (c = current \/ Resumer(c)) /\ pre[c] = r

\* The three asserts on _stat that a context switch passes hold whenever the
\* code comes to them: in transfer(), transfer_pre() and execute().
AssertionsHold ==
  /\ In("transfer") =>
       LET c == Top(stack[current]).co
       IN  Waits(c) \/ stat[c] \in {CORO_STAT_INIT, CORO_STAT_WAIT}
  /\ In("yield") \/ (In("execute") /\ childs[current] = <<>>) =>
       pre[current] = Nil \/ stat[pre[current]] = CORO_STAT_WAIT
  /\ InUser /\ current # Nil => stat[current] = CORO_STAT_BUSY

-----------------------------------------------------------------------------
(* Ownership *)

Places(c) ==
  {<<"list", p, i>> : p \in {q \in Ctx : \E j \in DOMAIN childs[q] : childs[q][j] = c},
                      i \in {j \in 1..Cardinality(Coro) :
                              \E q \in Ctx : j \in DOMAIN childs[q] /\ childs[q][j] = c}}
  \cup
  UNION {{<<"kid", r, i>> : i \in {j \in DOMAIN stack[r] : stack[r][j].kid = c}} : r \in Ctx}

\* A coroutine that exists is in exactly one place: on the list of its parent
\* or in the hands of one loop of resume_childs that took it off that list; an
\* address that holds no coroutine is in no place.  Two places would destroy
\* it twice, none would leak it.
OwnedOnce ==
  \A c \in Coro : Cardinality(Places(c)) = IF c \in Live THEN 1 ELSE 0

\* resume_childs counts the list once, at entry, and then takes that many
\* elements, while the children it runs resume, create and finish coroutines:
\* front() never meets an empty list, which would be a null pointer.
NoNullFront ==
  \A r \in Ctx : \A i \in DOMAIN stack[r] :
    LET f == stack[r][i]
    IN  f.op = "resume_childs" => f.left <= Len(childs[f.co])

\* A coroutine is destroyed only when it is done, has no child left, nobody
\* is to return to it and no coroutine still names it as its parent.
DestroyedClean ==
  [][\A c \in Coro :
       stat[c] # FREED /\ stat'[c] = FREED =>
         /\ stat[c] = CORO_STAT_DONE
         /\ childs[c] = <<>>
         /\ stack[c] = <<>>
         /\ \A d \in Live \ {c} : parent[d] # c]_vars

-----------------------------------------------------------------------------
(* Wake-ups *)

\* The lost wake-up of a mailbox: nobody is marked as waiting for a message
\* while there is one, whatever runs between the test of the queue, the
\* marking, the sweep of the children and the switch in mget().
NoParkedMail == \A c \in Coro : "WAIT" \in msg[c] => messages[c] = <<>>

\* c is switched out in a blocking call, and what it waits for has come.
Woken(c) ==
  /\ c # current /\ stack[c] # <<>>
  /\ \/ Top(stack[c]).op = "mget" /\ messages[c] # <<>>
     \/ Top(stack[c]).op = "await" /\ "WAIT" \notin evet[c]

Parked(c) == stat[c] = CORO_STAT_WAIT /\ ~Resumer(c) /\ Waits(c)

\* A loop over the children of p has yet to come to q, or is at q.
SweepReaches(p, q) ==
  \E r \in Ctx : \E i \in DOMAIN stack[r] :
    LET f == stack[r][i]
    IN  /\ f.op = "resume_childs" /\ f.co = p
        /\ f.kid = q \/ \E j \in 1..f.left : j \in DOMAIN childs[p] /\ childs[p][j] = q

\* The lost wake-up of the tree: resume() of a parked coroutine goes down to
\* the children only if its CHLD bit is set, and each sweep clears that bit.
\* For a coroutine whose event or message has come, every parked ancestor
\* still has the bit, or a sweep under way will come to the branch it is on.
WakeReaches ==
  \A c \in Live :
    Woken(c) =>
      \A q \in {c} \cup Ancestors(c) :
        LET p == parent[q]
        IN  p \in Coro /\ Parked(p) => ChildUp(p) \/ SweepReaches(p, q)

-----------------------------------------------------------------------------
(* Liveness *)

\* c gives the processor back: the code is cooperative, and relies on the
\* user's functions to do it.  An mget() that finds a message does not.
Leave(c) ==
  /\ current = c
  /\ Yield \/ Await \/ Finish \/ (Mget /\ messages[c] = <<>>)

\* The library makes its next step; a coroutine that is given the processor
\* again and again gives it back again and again; the main context goes on
\* resuming (the loop of this_coroutine::resume()).
Fairness ==
  /\ WF_vars(Library)
  /\ WF_vars(ResumeAll)
  /\ \A c \in Coro : SF_vars(Leave(c))

FairSpec == Spec /\ Fairness

\* In addition no coroutine's function runs for ever.
FinishSpec == FairSpec /\ \A c \in Coro : SF_vars(current = c /\ Finish)

\* What a parked coroutine waits for has come: it runs again.  It takes a main
\* loop that sweeps, ancestors that are parked or not at that moment, and CHLD
\* bits that were not cleared in between.
WokenRuns == \A c \in Coro : Woken(c) ~> current = c

\* "coro add child coro, then coro will be freed by the parent": a coroutine
\* that was added with child() is started, run to its end and destroyed, unless
\* it has children itself, or it, an ancestor or a descendant is parked (the
\* children of a parked coroutine run only when one of them is woken).
FreedByParent ==
  \A c \in Coro :
    stat[c] = CORO_STAT_INIT ~>
      \/ stat[c] = FREED \/ childs[c] # <<>>
      \/ \E d \in {c} \cup Ancestors(c) \cup Descendants(c) : Parked(d)

=============================================================================
