------------------------------- MODULE Cothread -------------------------------
(***************************************************************************)
(* cothread/cothread.{h,cpp}: threads as a tree.  A thread creates         *)
(* cothreads, adds them to its list of children, starts them and joins     *)
(* them; a cothread whose function returned joins and deletes the children *)
(* that are left before its own thread ends.                               *)
(*                                                                         *)
(* Assumed of the program: a cothread that was added is started once,      *)
(* before its parent joins it or returns; a detached one is added to       *)
(* nobody, since its parent would delete it while it runs (_joined is set, *)
(* so that join() does not wait).                                          *)
(***************************************************************************)
EXTENDS Integers, Sequences

CONSTANTS
  Cothread,  \* the addresses of cothread_base_t objects
  Main,      \* the thread that is no cothread
  Null,
  JoinsOne   \* the threads whose program joins a single child

ASSUME ContextAssumption ==
  Main \notin Cothread /\ Null \notin Cothread /\ JoinsOne \subseteq Cothread \cup {Main}

VARIABLES
  object,   \* the addresses where an object is
  _joined,  \* the objects with _joined set
  thread,   \* the main thread, and the pthread of each object
  _childs,  \* the lists of children
  call      \* the library function each thread is in, and the child it has there

vars == <<object, _joined, thread, _childs, call>>

Context == Cothread \cup {Main}

Call(at, child) == [at |-> at, child |-> child]
User == Call("user", Null)

Runs(r)   == thread[r] = "running"
InUser(r) == Runs(r) /\ call[r] = User

\* pthread_join(): the thread has ended, or there is no need to wait.
Ended(c) == c \in _joined \/ thread[c] = "exited"

-----------------------------------------------------------------------------
\* create_cothread() and child()
Child(r, c) ==
  /\ InUser(r) /\ c \notin object
  /\ object' = object \cup {c}
  /\ _childs' = [_childs EXCEPT ![r] = Append(@, c)]
  /\ UNCHANGED <<_joined, thread, call>>

\* resume()
Resume(r, c) ==
  /\ InUser(r) /\ \E i \in DOMAIN _childs[r] : _childs[r][i] = c
  /\ thread[c] = "none"
  /\ thread' = [thread EXCEPT ![c] = "created"]
  /\ UNCHANGED <<object, _joined, _childs, call>>

\* create_cothread() and resume() with detachable()
Launch(r, c) ==
  /\ InUser(r) /\ c \notin object
  /\ object' = object \cup {c}
  /\ _joined' = _joined \cup {c}
  /\ thread' = [thread EXCEPT ![c] = "created"]
  /\ UNCHANGED <<_childs, call>>

\* The new thread enters execute() and the user's function.
Start(c) ==
  /\ thread[c] = "created"
  /\ thread' = [thread EXCEPT ![c] = "running"]
  /\ UNCHANGED <<object, _joined, _childs, call>>

AllStarted(r) == \A i \in DOMAIN _childs[r] : thread[_childs[r][i]] # "none"

-----------------------------------------------------------------------------
\* this_cothread::join(c) for one child, which stays in the list
JoinOne(r, c) ==
  /\ InUser(r) /\ r \in JoinsOne
  /\ \E i \in DOMAIN _childs[r] : _childs[r][i] = c
  /\ thread[c] # "none" /\ c \notin _joined
  /\ call' = [call EXCEPT ![r] = Call("join", c)]
  /\ UNCHANGED <<object, _joined, thread, _childs>>

\* The flag is not set.
OneJoined_NoFlag(r) ==
  /\ Runs(r) /\ call[r].at = "join"
  /\ LET c == call[r].child
     IN  /\ thread[c] = "exited"
         /\ thread' = [thread EXCEPT ![c] = "joined"]
  /\ call' = [call EXCEPT ![r] = User]
  /\ UNCHANGED <<object, _joined, _childs>>

\* It sets _joined in a cothread, which calls join(child); the main thread
\* calls child->join(), which does not.
OneJoined(r) ==
  /\ Runs(r) /\ call[r].at = "join"
  /\ LET c == call[r].child
     IN  /\ thread[c] = "exited"
         /\ thread' = [thread EXCEPT ![c] = "joined"]
         /\ _joined' = IF r = Main THEN _joined ELSE _joined \cup {c}
  /\ call' = [call EXCEPT ![r] = User]
  /\ UNCHANGED <<object, _childs>>

\* this_cothread::join() for all children
JoinAll(r) ==
  /\ InUser(r) /\ AllStarted(r)
  /\ call' = [call EXCEPT ![r] = Call("join_all", Null)]
  /\ UNCHANGED <<object, _joined, thread, _childs>>

\* The user's function returns to execute().
Return(c) ==
  /\ c \in Cothread /\ InUser(c) /\ AllStarted(c)
  /\ call' = [call EXCEPT ![c] = Call("execute", Null)]
  /\ UNCHANGED <<object, _joined, thread, _childs>>

InLoop(r) == Runs(r) /\ call[r].at \in {"join_all", "execute"}

\* front() without pop_front()
NextChild_NotPopped(r) ==
  /\ InLoop(r) /\ call[r].child = Null /\ _childs[r] # <<>>
  /\ call' = [call EXCEPT ![r].child = Head(_childs[r])]
  /\ UNCHANGED <<object, _joined, thread, _childs>>

\* The loop in both: child() takes one off the list.
NextChild(r) ==
  /\ InLoop(r) /\ call[r].child = Null /\ _childs[r] # <<>>
  /\ call' = [call EXCEPT ![r].child = Head(_childs[r])]
  /\ _childs' = [_childs EXCEPT ![r] = Tail(@)]
  /\ UNCHANGED <<object, _joined, thread>>

\* The child is deleted at once.
ChildJoined_NoWait(r) ==
  /\ InLoop(r) /\ call[r].child # Null
  /\ object' = object \ {call[r].child}
  /\ call' = [call EXCEPT ![r].child = Null]
  /\ UNCHANGED <<_joined, thread, _childs>>

\* The child is put back, as resume_childs() does with coroutines.
ChildJoined_PutBack(r) ==
  /\ InLoop(r) /\ call[r].child # Null /\ Ended(call[r].child)
  /\ _joined' = _joined \cup {call[r].child}
  /\ _childs' = [_childs EXCEPT ![r] = Append(@, call[r].child)]
  /\ call' = [call EXCEPT ![r].child = Null]
  /\ UNCHANGED <<object, thread>>

\* join() returns, and the child is deleted.
ChildJoined(r) ==
  /\ InLoop(r) /\ call[r].child # Null /\ Ended(call[r].child)
  /\ object' = object \ {call[r].child}
  /\ thread' = [thread EXCEPT ![call[r].child] = "none"]
  /\ _joined' = _joined \ {call[r].child}
  /\ call' = [call EXCEPT ![r].child = Null]
  /\ UNCHANGED _childs

\* No child is left: join() returns, or the thread ends.
LoopDone(r) ==
  /\ InLoop(r) /\ call[r].child = Null /\ _childs[r] = <<>>
  /\ call' = [call EXCEPT ![r] = User]
  /\ thread' = IF call[r].at = "execute" THEN [thread EXCEPT ![r] = "exited"] ELSE thread
  /\ UNCHANGED <<object, _joined, _childs>>

Init ==
  /\ object = {} /\ _joined = {}
  /\ thread = [r \in Context |-> IF r = Main THEN "running" ELSE "none"]
  /\ _childs = [r \in Context |-> <<>>]
  /\ call = [r \in Context |-> User]

Library(r) == OneJoined(r) \/ NextChild(r) \/ ChildJoined(r) \/ LoopDone(r)

Next ==
  \/ \E r \in Context :
       \/ JoinAll(r) \/ Return(r) \/ Library(r)
       \/ \E c \in Cothread : Child(r, c) \/ Resume(r, c) \/ Launch(r, c) \/ JoinOne(r, c)
  \/ \E c \in Cothread : Start(c)

\* Threads run; a child that was added is started; no function runs for ever.
Fairness ==
  /\ \A r \in Context :
       /\ WF_vars(Library(r))
       /\ SF_vars(\E c \in Cothread : Resume(r, c))
  /\ \A c \in Cothread : WF_vars(Start(c)) /\ SF_vars(Return(c))

Spec == Init /\ [][Next]_vars /\ Fairness

-----------------------------------------------------------------------------
Alive(c) == thread[c] \in {"created", "running"}

\* execute() works on an object that exists: nobody deletes a cothread before
\* its thread has ended, whoever joins it and in whatever loop.
ObjectOutlives == \A c \in Cothread : Alive(c) => c \in object

\* pthread_join() is called for a thread that was created, is not detached and
\* was not joined before (the asserts around pthread_join hold).
JoinValid ==
  \A r \in Context :
    LET c == call[r].child
    IN  c # Null /\ c \notin _joined => thread[c] \in {"created", "running", "exited"}

\* Where r has its children: in its list, or in place 0 in a loop that has
\* taken one off and deletes it next.
HasAt(r, i, c) ==
  \/ i \in DOMAIN _childs[r] /\ _childs[r][i] = c
  \/ i = 0 /\ call[r].at \in {"join_all", "execute"} /\ call[r].child = c

Places(r, c) == {i \in 0..Len(_childs[r]) : HasAt(r, i, c)}

\* A child has one parent, which will delete it once; an object that is gone,
\* or that was detached, is held by nobody.  A parent outlives its children.
OwnedOnce ==
  /\ \A r \in Context, c \in Cothread :
       Places(r, c) # {} =>
         /\ \E i \in Places(r, c) : Places(r, c) = {i}
         /\ c \in object
         /\ \A q \in Context \ {r} : Places(q, c) = {}
         /\ r = Main \/ (r \in object /\ Alive(r))
  /\ \A c \in Cothread :
       Alive(c) /\ c \notin _joined => \E r \in Context : Places(r, c) # {}

\* join() returns: the tree of threads has no wait that never ends.
JoinReturns == \A r \in Context : call[r] # User ~> call[r] = User

=============================================================================
