----------------------------- MODULE CoroutineInv -----------------------------
(***************************************************************************)
(* The inductive invariant of the scheduler.                               *)
(*                                                                         *)
(* What CoroutineProps asks of the scheduler is not inductive: whether a   *)
(* loop still finds the children it counted, or a switch the stat that it  *)
(* asserts, depends on what the calls under way, on the stacks of all      *)
(* contexts, are about to do.  They do not get into each other's way       *)
(* because each of them works deeper in the tree of coroutines than all    *)
(* those that were made before it, on whichever stack.                     *)
(***************************************************************************)
EXTENDS CoroutineProps

-----------------------------------------------------------------------------
(* The tree *)

\* The level of a context: the main context is above all coroutines.
Lv(c) == IF c = Nil THEN 0 ELSE level[c]

\* The parent of a coroutine exists as long as it does, one level up.
Tree == \A d \in Live : parent[d] \in Live \cup {Nil} /\ level[d] = Lv(parent[d]) + 1

-----------------------------------------------------------------------------
(* Lists and stacks *)

\* What is on a list, and that it is there once.
Elems(s) == {s[i] : i \in 1..Len(s)}

NoDup(s) == \A i, j \in 1..Len(s) : s[i] = s[j] => i = j

\* The children that the loops of a stack have taken off their lists.
Hands(s) == {s[i].kid : i \in 1..Len(s)} \ {Nil}

-----------------------------------------------------------------------------
(* Calls *)

\* The calls that go down the tree.
Nest == {"resume_childs", "resume", "transfer", "coro_transfer"}

\* How deep in the tree a call works.
Depth(f) == IF f.op = "resume_childs" THEN 2 * Lv(f.co) + 1 ELSE 2 * Lv(f.co)

\* The contexts that are to be returned to, and the one that runs.
Chain == {current} \cup {r \in Ctx : Resumer(r)}

\* A call of context r: it works on coroutines below r that exist, is about to
\* switch only to one that can be switched to, and does not count children that
\* are not there.  A child in its hands is on no list.
Fits(f, r) ==
  /\ f.op \in Nest => f.co \in Live \cup {Nil} /\ 2 * Lv(r) < Depth(f)
  /\ f.op = "drain" => r = Nil
  /\ f.op = "transfer" => stat[f.co] \in {CORO_STAT_INIT, CORO_STAT_WAIT}
  /\ f.op = "resume_childs" => f.left <= Len(childs[f.co])
  /\ f.kid # Nil =>
       /\ f.op = "resume_childs"
       /\ f.kid \in Live /\ parent[f.kid] = f.co /\ f.kid \notin Elems(childs[f.co])
       /\ f.co # Nil => stat[f.co] # CORO_STAT_DONE

\* Each call of a stack works deeper than the one that made it ...
Ordered(s) ==
  \A i, j \in 1..Len(s) :
    i < j /\ s[i].op \in Nest => s[j].op \in Nest /\ Depth(s[i]) < Depth(s[j])

\* ... and what else is on a stack is below all of them.
Based(s) ==
  \A i \in 1..Len(s) :
    s[i].op \notin Nest => i = 1 \/ (i = 2 /\ s[2].op = "yield" /\ s[1].op \in {"mget", "await"})

Good(s, r) == Based(s) /\ Ordered(s) /\ \A i \in 1..Len(s) : Fits(s[i], r)

Stacks == \A r \in Ctx : Good(stack[r], r)

\* A coroutine that exists is on its parent's list or in somebody's hands.  One
\* that is done has no children.
Lists ==
  /\ \A q \in Ctx : NoDup(childs[q]) /\ \A d \in Elems(childs[q]) : d \in Live /\ parent[d] = q
  /\ \A d \in Live : d \in Elems(childs[parent[d]]) \/ \E r \in Ctx : d \in Hands(stack[r])
  /\ \A c \in Coro : stat[c] = CORO_STAT_DONE => childs[c] = <<>>

\* The levels of the chain grow from each context to the one it resumed, so
\* that what is resumed next is not on the chain yet.
Links ==
  /\ \A r, q \in Chain : Lv(r) = Lv(q) => r = q
  /\ \A r \in Chain \ {current} :
       /\ Top(stack[r]).co \in Chain
       /\ pre[Top(stack[r]).co] = r
       /\ \A q \in Chain : Lv(r) < Lv(q) => Lv(Top(stack[r]).co) <= Lv(q)
  /\ \A c \in Chain \ {Nil} : pre[c] \in Chain \ {current} /\ Top(stack[pre[c]]).co = c
  /\ \A r \in Chain : Lv(r) <= Lv(current)
  /\ \A r \in Chain \ {Nil, current} : stat[r] = CORO_STAT_WAIT

\* What else is switched out has yielded.
Parks ==
  /\ \A r \in Ctx \ Chain : stack[r] = <<>> \/ (Len(stack[r]) = 1 /\ stack[r][1].op \in {"mget", "await"})
  /\ \A c \in Coro : stack[c] # <<>> => stat[c] \in {CORO_STAT_WAIT, CORO_STAT_BUSY}

SchedInv == OneRunner /\ Tree /\ Stacks /\ Lists /\ Links /\ Parks

-----------------------------------------------------------------------------
(* Wake-ups *)

\* c and all who are above it.
Line(c) == {c} \cup Ancestors(c)

\* c is in a call that waits, behind the point where it parked.
Blocked(c, op) ==
  stack[c] # <<>> /\ stack[c][1].op = op /\ (c # current \/ Len(stack[c]) > 1)

\* What c waits for has come.
Due(c) ==
  \/ Blocked(c, "mget") /\ messages[c] # <<>>
  \/ Blocked(c, "await") /\ "WAIT" \notin evet[c]

\* The WAIT bit is in the word of the call that waits, in the other word there
\* is none, and who was resumed has none at all.
Word(c) ==
  /\ Blocked(c, "mget") => "WAIT" \notin evet[c] /\ (messages[c] = <<>> => "WAIT" \in msg[c])
  /\ Blocked(c, "await") => "WAIT" \notin msg[c]
  /\ c \in Chain /\ ~Blocked(c, "mget") /\ ~Blocked(c, "await") => ~Waits(c)

\* What resume_childs calls for the child in its hands.
Serve == {"resume", "transfer", "coro_transfer"}

\* A loop that has a child in its hands is resuming it, or about to put it back.
\* A call that waits goes on only when its yield() has returned.
Serves(s) ==
  \A i \in 1..Len(s) :
    /\ s[i].op = "resume_childs" =>
         IF s[i].kid = Nil THEN i = Len(s)
         ELSE i < Len(s) => s[i+1].op \in Serve /\ s[i+1].co = s[i].kid
    /\ s[i].op \in {"resume", "coro_transfer"} => i = Len(s)
    /\ i = 1 /\ s[i].op \in {"mget", "await"} /\ Len(s) > 1 => s[2].op = "yield"

\* Everybody above q has the CHLD bit.
Told(q) == \A a \in Ancestors(q) : ChildUp(a)

\* A loop over the children of q has yet to come to the branch that c is on.
Heads(q, c) == \E d \in Line(c) : parent[d] = q /\ SweepReaches(q, d)

Yields(q) == \E j \in 1..Len(stack[q]) : stack[q][j].op = "yield"

\* The call g of r, which serves q, has yet to look at the bits of q, or is going
\* to run q, which then sweeps before it yields.
Looks(g, r, q, c) ==
  \/ g.op = "resume"
  \/ g.op = "transfer" /\ (c = q \/ ~Waits(q) \/ Heads(q, c))
  \/ g.op = "coro_transfer" /\ r # current /\ c # q /\ (~Yields(q) \/ Heads(q, c))

\* A loop puts the child in its hands back only when everybody above has been
\* told of what has come for c, a coroutine of the child's branch.
HandTold(r, i, c) ==
  LET q == stack[r][i].kid
  IN  q # Nil /\ Due(c) /\ q \in Line(c) =>
        Told(q) \/ (i < Len(stack[r]) /\ Looks(stack[r][i+1], r, q, c))

Held == \A r \in Ctx : \A i \in 1..Len(stack[r]) : \A c \in Coro : HandTold(r, i, c)

\* Every waiting coroutine above c has been told, or a loop is going to reach
\* the branch of c below it.
Reached(c) ==
  \A q \in Line(c) :
    parent[q] \in Coro /\ Waits(parent[q]) =>
      ChildUp(parent[q]) \/ SweepReaches(parent[q], q)

WakeInv ==
  /\ \A c \in Coro : Word(c)
  /\ \A r \in Ctx : Serves(stack[r])
  /\ Held
  /\ \A c \in Coro : Due(c) => Reached(c)

=============================================================================
