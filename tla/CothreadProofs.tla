---------------------------- MODULE CothreadProofs ----------------------------
(***************************************************************************)
(* The tree of threads, for any number of cothreads, if the main thread    *)
(* does not join a single child; and coro_create(), which the threads      *)
(* call, with a mutex around it.                                           *)
(***************************************************************************)
EXTENDS Cothread, CoroCreate, TLAPS

-----------------------------------------------------------------------------
(* coro_create() *)

Inside == {"new", "create", "transfer", "init", "back"}

CreateType ==
  /\ pc \in [Thread -> Inside \cup {"start", "done"}]
  /\ stack \in [Thread -> Coros \cup {Own(t) : t \in Thread} \cup {NoStack}]
  /\ arg \in [Coros -> Coros \cup {NoStack}]

OneInside == \A t, u \in Thread : pc[t] \in Inside /\ pc[u] \in Inside => t = u

\* While a thread is inside, the statics hold what it has put there.
StaticsMine ==
  \A t \in Thread :
    /\ pc[t] \in Inside => coro_init_arg = Coro(t)
    /\ pc[t] \in Inside \ {"new"} => new_coro = Coro(t)
    /\ pc[t] \in {"transfer", "init", "back"} => create_coro = Own(t)
    /\ pc[t] \in {"init", "back"} => stack[t] = Coro(t)
    /\ pc[t] = "back" => arg[Coro(t)] = Coro(t)

CreateInv == CreateType /\ OneInside /\ StaticsMine /\ Created

\* Coroutines of different threads are different, and no step renames them.
LEMMA CoroDistinct == \A t, u \in Thread : Coro(t) = Coro(u) => t = u
  BY DEF Coro

LEMMA CreateInvInit == CreateInit => CreateInv
  BY DEF CreateInit, CreateInv, CreateType, OneInside, StaticsMine, Created, Inside, Coros

LEMMA CreateInvStep ==
  ASSUME Locked, CreateInv, [CreateNext]_createVars PROVE CreateInv'
<1>. USE DEF CreateInv, CreateType, OneInside, StaticsMine, Created, Inside, Goto, statics
<1>0. \A t \in Thread : Coro(t) \in Coros
  BY DEF Coros
<1>1. ASSUME NEW t \in Thread, SetArg(t) PROVE CreateInv'
  <2>1. \A u \in Thread : pc[u] \in {"start", "done"}
    BY <1>1 DEF SetArg, MayEnter
  <2>. QED
    BY <1>1, <2>1 DEF SetArg
<1>2. ASSUME NEW t \in Thread, SetNew(t) PROVE CreateInv'
  BY <1>2 DEF SetNew
<1>3. ASSUME NEW t \in Thread, SetCreate(t) PROVE CreateInv'
  BY <1>3 DEF SetCreate
<1>4. ASSUME NEW t \in Thread, TransferIn(t) PROVE CreateInv'
  BY <1>0, <1>4 DEF TransferIn
<1>5. ASSUME NEW t \in Thread, InitArg(t) PROVE CreateInv'
  <2>1. stack[t] = Coro(t) /\ coro_init_arg = Coro(t)
    BY <1>5 DEF InitArg
  <2>2. \A u \in Thread : arg'[Coro(u)] = IF u = t THEN Coro(t) ELSE arg[Coro(u)]
    BY <1>0, <1>5, <2>1, CoroDistinct DEF InitArg
  <2>3. arg' \in [Coros -> Coros \cup {NoStack}]
    BY <1>0, <1>5, <2>1 DEF InitArg
  <2>. QED
    BY <1>5, <2>2, <2>3 DEF InitArg
<1>6. ASSUME NEW t \in Thread, TransferBack(t) PROVE CreateInv'
  <2>1. create_coro = Own(t)
    BY <1>6 DEF TransferBack
  <2>. QED
    BY <1>6, <2>1 DEF TransferBack
<1>7. CASE UNCHANGED createVars
  BY <1>7 DEF createVars
<1>. QED
  BY <1>1, <1>2, <1>3, <1>4, <1>5, <1>6, <1>7 DEF CreateNext

\* "This function is not reentrant, but putting a mutex around it will work":
\* if the program does, every context that coro_create() returns starts with
\* its own coroutine, and every thread comes back to its own stack.
THEOREM MutexWorks == ASSUME Locked PROVE CreateSpec => []Created
<1>1. CreateInit => CreateInv
  BY CreateInvInit
<1>2. CreateInv /\ [CreateNext]_createVars => CreateInv'
  BY CreateInvStep
<1>3. CreateInv => Created
  BY DEF CreateInv
<1>. QED
  BY <1>1, <1>2, <1>3, PTL DEF CreateSpec

-----------------------------------------------------------------------------
(* The tree of threads *)

Loops == {"join_all", "execute"}

TypeOK ==
  /\ object \subseteq Cothread
  /\ _joined \subseteq Cothread
  /\ thread \in [Context -> {"none", "created", "running", "exited", "joined"}]
  /\ _childs \in [Context -> Seq(Cothread)]
  /\ call \in [Context -> [at : {"user", "join"} \cup Loops, child : Cothread \cup {Null}]]

\* A thread is in the call it can be in.
CallsFit ==
  \A r \in Context :
    /\ call[r].at = "user" => call[r].child = Null
    /\ call[r].at = "join" =>
         /\ r # Main
         /\ call[r].child \in Cothread
         /\ \E i \in Nat : HasAt(r, i, call[r].child)
         /\ thread[call[r].child] \in {"created", "running", "exited"}

\* What c is to a thread that has it.
Fits(r, c) ==
  /\ c \in object
  /\ c \in _joined => thread[c] = "joined"
  /\ r = Main \/ (r \in object /\ Alive(r))
  /\ call[r].at \in Loops => thread[c] # "none"

ChildrenFit == \A r \in Context, i \in Nat, c \in Cothread : HasAt(r, i, c) => Fits(r, c)

\* A cothread is in one place.
OnePlace ==
  \A r, q \in Context, i, j \in Nat, c \in Cothread :
    HasAt(r, i, c) /\ HasAt(q, j, c) => r = q /\ i = j

\* The flags go with the pthread.
FlagsFit ==
  \A c \in Cothread :
    /\ c \notin object => thread[c] = "none" /\ c \notin _joined
    /\ thread[c] = "joined" => c \in _joined

\* A thread that is not detached has a parent.
HasParent ==
  \A c \in Cothread :
    Alive(c) /\ c \notin _joined => \E r \in Context, i \in Nat : HasAt(r, i, c)

TreeInv == TypeOK /\ CallsFit /\ ChildrenFit /\ OnePlace /\ FlagsFit /\ HasParent

USE ContextAssumption DEF Context, Call, User, Runs, InUser, Ended, Alive, Loops, InLoop

-----------------------------------------------------------------------------
LEMMA TreeInvInit == Init => TreeInv
<1>. SUFFICES ASSUME Init
              PROVE  TreeInv
  OBVIOUS
<1>1. TypeOK
  BY DEF Init, TypeOK
<1>2. \A r \in Context : _childs[r] = <<>> /\ call[r].at = "user" /\ call[r].child = Null
  BY DEF Init
<1>3. \A r \in Context, i \in Nat, c \in Cothread : ~ HasAt(r, i, c)
  BY <1>2 DEF HasAt
<1>4. \A c \in Cothread : thread[c] = "none" /\ c \notin _joined
  BY DEF Init
<1>5. CallsFit
  BY <1>2 DEF CallsFit
<1>6. ChildrenFit /\ OnePlace
  BY <1>3 DEF ChildrenFit, OnePlace
<1>7. FlagsFit /\ HasParent
  BY <1>4 DEF FlagsFit, HasParent
<1>. QED
  BY <1>1, <1>5, <1>6, <1>7 DEF TreeInv

\* create_cothread() and child()
LEMMA ChildStep ==
  ASSUME TreeInv, NEW r \in Context, NEW c \in Cothread, Child(r, c)
  PROVE  TreeInv'
<1>. DEFINE last == Len(_childs[r]) + 1
<1>1. /\ InUser(r) /\ c \notin object
      /\ object' = object \cup {c}
      /\ UNCHANGED <<_joined, thread, call>>
      /\ _childs' = [_childs EXCEPT ![r] = Append(_childs[r], c)]
  BY DEF Child
<1>2. TypeOK'
  BY <1>1 DEF TreeInv, TypeOK
<1>3. /\ \A q \in Context : q # r => _childs'[q] = _childs[q]
      /\ _childs[r] \in Seq(Cothread)
      /\ _childs'[r] = Append(_childs[r], c)
  BY <1>1 DEF TreeInv, TypeOK
<1>4. /\ DOMAIN _childs'[r] = DOMAIN _childs[r] \cup {last}
      /\ last \in Nat \ DOMAIN _childs[r] /\ last # 0
      /\ _childs'[r][last] = c
      /\ \A i \in DOMAIN _childs[r] : _childs'[r][i] = _childs[r][i]
  BY <1>3
<1>. HIDE DEF last
<1>5. \A q \in Context, i \in Nat, d \in Cothread :
        HasAt(q, i, d)' <=> HasAt(q, i, d) \/ (q = r /\ i = last /\ d = c)
  <2>. SUFFICES ASSUME NEW q \in Context, NEW i \in Nat, NEW d \in Cothread
                PROVE  HasAt(q, i, d)' <=> HasAt(q, i, d) \/ (q = r /\ i = last /\ d = c)
    OBVIOUS
  <2>1. CASE q = r
    BY <1>1, <1>4, <2>1 DEF HasAt
  <2>2. CASE q # r
    BY <1>1, <1>3, <2>2 DEF HasAt
  <2>. QED
    BY <2>1, <2>2
<1>6. \A q \in Context, i \in Nat : ~ HasAt(q, i, c)
  BY <1>1 DEF TreeInv, ChildrenFit, Fits
<1>7. thread[c] = "none" /\ c \notin _joined /\ (r = Main \/ r \in object)
  BY <1>1 DEF TreeInv, FlagsFit
<1>8. CallsFit'
  BY <1>1, <1>2, <1>5 DEF TreeInv, TypeOK, CallsFit
<1>9. ChildrenFit'
  BY <1>1, <1>5, <1>7 DEF TreeInv, ChildrenFit, Fits
<1>10. OnePlace'
  BY <1>5, <1>6 DEF TreeInv, OnePlace
<1>11. FlagsFit' /\ HasParent'
  BY <1>1, <1>5 DEF TreeInv, FlagsFit, HasParent
<1>. QED
  BY <1>2, <1>8, <1>9, <1>10, <1>11 DEF TreeInv

\* A step that moves no child.
LEMMA SamePlaces ==
  ASSUME TreeInv,
         \A q \in Context, i \in Nat, d \in Cothread : HasAt(q, i, d)' <=> HasAt(q, i, d),
         \A q \in Context, i \in Nat, d \in Cothread : HasAt(q, i, d) => Fits(q, d)'
  PROVE  ChildrenFit' /\ OnePlace'
  BY DEF TreeInv, ChildrenFit, OnePlace

\* resume()
LEMMA ResumeStep ==
  ASSUME TreeInv, NEW r \in Context, NEW c \in Cothread, Resume(r, c)
  PROVE  TreeInv'
<1>1. /\ InUser(r) /\ thread[c] = "none"
      /\ \E i \in DOMAIN _childs[r] : _childs[r][i] = c
      /\ thread' = [thread EXCEPT ![c] = "created"]
      /\ UNCHANGED <<object, _joined, _childs, call>>
  BY DEF Resume
<1>2. TypeOK'
  BY <1>1 DEF TreeInv, TypeOK
<1>3. thread'[c] = "created" /\ \A d \in Context : d # c => thread'[d] = thread[d]
  BY <1>1 DEF TreeInv, TypeOK
<1>4. PICK i \in Nat : HasAt(r, i, c)
  BY <1>1 DEF TreeInv, TypeOK, HasAt
<1>5. c \in object /\ c \notin _joined
  BY <1>1, <1>4 DEF TreeInv, ChildrenFit, Fits
<1>6. \A q \in Context, j \in Nat, d \in Cothread : HasAt(q, j, d)' <=> HasAt(q, j, d)
  BY <1>1 DEF HasAt
<1>7. CallsFit'
  BY <1>1, <1>3, <1>6 DEF TreeInv, CallsFit
<1>8. FlagsFit' /\ HasParent'
  BY <1>1, <1>3, <1>4, <1>5, <1>6 DEF TreeInv, FlagsFit, HasParent
<1>9. \A q \in Context, j \in Nat, d \in Cothread : HasAt(q, j, d) => Fits(q, d)'
  BY <1>1, <1>3, <1>5 DEF TreeInv, ChildrenFit, Fits
<1>. QED
  BY <1>2, <1>6, <1>7, <1>8, <1>9, SamePlaces DEF TreeInv

\* resume() of a detachable cothread
LEMMA LaunchStep ==
  ASSUME TreeInv, NEW r \in Context, NEW c \in Cothread, Launch(r, c)
  PROVE  TreeInv'
<1>1. /\ c \notin object /\ object' = object \cup {c}
      /\ _joined' = _joined \cup {c}
      /\ thread' = [thread EXCEPT ![c] = "created"]
      /\ UNCHANGED <<_childs, call>>
  BY DEF Launch
<1>2. TypeOK'
  BY <1>1 DEF TreeInv, TypeOK
<1>3. thread'[c] = "created" /\ \A d \in Context : d # c => thread'[d] = thread[d]
  BY <1>1 DEF TreeInv, TypeOK
<1>4. \A q \in Context, j \in Nat : ~ HasAt(q, j, c)
  BY <1>1 DEF TreeInv, ChildrenFit, Fits
<1>5. \A q \in Context, j \in Nat, d \in Cothread : HasAt(q, j, d)' <=> HasAt(q, j, d)
  BY <1>1 DEF HasAt
<1>6. CallsFit'
  BY <1>1, <1>3, <1>5 DEF TreeInv, CallsFit
<1>7. FlagsFit' /\ HasParent'
  BY <1>1, <1>3, <1>5 DEF TreeInv, FlagsFit, HasParent
<1>8. \A q \in Context, j \in Nat, d \in Cothread : HasAt(q, j, d) => Fits(q, d)'
  BY <1>1, <1>3, <1>4 DEF TreeInv, ChildrenFit, Fits
<1>. QED
  BY <1>2, <1>5, <1>6, <1>7, <1>8, SamePlaces DEF TreeInv

\* The new thread runs.
LEMMA StartStep ==
  ASSUME TreeInv, NEW c \in Cothread, Start(c)
  PROVE  TreeInv'
<1>1. /\ thread[c] = "created" /\ thread' = [thread EXCEPT ![c] = "running"]
      /\ UNCHANGED <<object, _joined, _childs, call>>
  BY DEF Start
<1>2. TypeOK'
  BY <1>1 DEF TreeInv, TypeOK
<1>3. thread'[c] = "running" /\ \A d \in Context : d # c => thread'[d] = thread[d]
  BY <1>1 DEF TreeInv, TypeOK
<1>4. \A q \in Context, j \in Nat, d \in Cothread : HasAt(q, j, d)' <=> HasAt(q, j, d)
  BY <1>1 DEF HasAt
<1>5. CallsFit'
  BY <1>1, <1>3, <1>4 DEF TreeInv, CallsFit
<1>6. FlagsFit' /\ HasParent'
  BY <1>1, <1>3, <1>4 DEF TreeInv, FlagsFit, HasParent
<1>7. \A q \in Context, j \in Nat, d \in Cothread : HasAt(q, j, d) => Fits(q, d)'
  BY <1>1, <1>3 DEF TreeInv, ChildrenFit, Fits
<1>. QED
  BY <1>2, <1>4, <1>5, <1>6, <1>7, SamePlaces DEF TreeInv

\* join() of one child
LEMMA JoinOneStep ==
  ASSUME Main \notin JoinsOne, TreeInv, NEW r \in Context, NEW c \in Cothread, JoinOne(r, c)
  PROVE  TreeInv'
<1>1. /\ InUser(r) /\ r # Main /\ thread[c] # "none" /\ c \notin _joined
      /\ \E i \in DOMAIN _childs[r] : _childs[r][i] = c
      /\ call' = [call EXCEPT ![r] = [at |-> "join", child |-> c]]
      /\ UNCHANGED <<object, _joined, thread, _childs>>
  BY DEF JoinOne
<1>2. TypeOK'
  BY <1>1 DEF TreeInv, TypeOK
<1>3. /\ call'[r] = [at |-> "join", child |-> c] /\ call[r].at = "user"
      /\ \A d \in Context : d # r => call'[d] = call[d]
  BY <1>1 DEF TreeInv, TypeOK
<1>4. PICK i \in Nat : HasAt(r, i, c)
  BY <1>1 DEF TreeInv, TypeOK, HasAt
<1>5. \A q \in Context, j \in Nat, d \in Cothread : HasAt(q, j, d)' <=> HasAt(q, j, d)
  BY <1>1, <1>3 DEF HasAt
<1>6. thread[c] \in {"created", "running", "exited"}
  BY <1>1 DEF TreeInv, TypeOK, FlagsFit
<1>7. CallsFit'
  BY <1>1, <1>3, <1>4, <1>5, <1>6 DEF TreeInv, CallsFit
<1>8. FlagsFit' /\ HasParent'
  BY <1>1, <1>5 DEF TreeInv, FlagsFit, HasParent
<1>9. \A q \in Context, j \in Nat, d \in Cothread : HasAt(q, j, d) => Fits(q, d)'
  BY <1>1, <1>3 DEF TreeInv, ChildrenFit, Fits
<1>. QED
  BY <1>2, <1>5, <1>7, <1>8, <1>9, SamePlaces DEF TreeInv

\* It returns.
LEMMA OneJoinedStep ==
  ASSUME TreeInv, NEW r \in Context, OneJoined(r)
  PROVE  TreeInv'
<1>. DEFINE c == call[r].child
<1>1. /\ Runs(r) /\ call[r].at = "join" /\ r # Main /\ c \in Cothread
      /\ thread[c] = "exited" /\ thread' = [thread EXCEPT ![c] = "joined"]
      /\ _joined' = _joined \cup {c}
      /\ call' = [call EXCEPT ![r] = [at |-> "user", child |-> Null]]
      /\ UNCHANGED <<object, _childs>>
  BY DEF OneJoined, TreeInv, CallsFit
<1>2. PICK i \in Nat : HasAt(r, i, c)
  BY <1>1 DEF TreeInv, CallsFit
<1>3. /\ call'[r] = [at |-> "user", child |-> Null]
      /\ \A d \in Context : d # r => call'[d] = call[d]
  BY <1>1 DEF TreeInv, TypeOK
<1>4. \A q \in Context, j \in Nat : HasAt(q, j, c) => q = r
  BY <1>1, <1>2 DEF TreeInv, OnePlace
<1>5. c \in object
  BY <1>1, <1>2 DEF TreeInv, ChildrenFit, Fits
<1>6. \A q \in Context : q # r /\ call[q].at = "join" => call[q].child # c
  BY <1>4 DEF TreeInv, CallsFit
<1>. HIDE DEF c
<1>7. TypeOK'
  BY <1>1 DEF TreeInv, TypeOK
<1>8. thread'[c] = "joined" /\ \A d \in Context : d # c => thread'[d] = thread[d]
  BY <1>1 DEF TreeInv, TypeOK
<1>9. \A q \in Context, j \in Nat, d \in Cothread : HasAt(q, j, d)' <=> HasAt(q, j, d)
  BY <1>1, <1>3 DEF HasAt
<1>10. CallsFit'
  BY <1>1, <1>3, <1>6, <1>8, <1>9 DEF TreeInv, CallsFit
<1>11. FlagsFit' /\ HasParent'
  BY <1>1, <1>5, <1>8, <1>9 DEF TreeInv, FlagsFit, HasParent
<1>12. \A q \in Context, j \in Nat, d \in Cothread : HasAt(q, j, d) => Fits(q, d)'
  BY <1>1, <1>3, <1>8 DEF TreeInv, ChildrenFit, Fits
<1>. QED
  BY <1>7, <1>9, <1>10, <1>11, <1>12, SamePlaces DEF TreeInv

\* A loop over all children begins.
LEMMA LoopStep ==
  ASSUME TreeInv, NEW r \in Context, JoinAll(r) \/ Return(r)
  PROVE  TreeInv'
<1>1. PICK at \in Loops :
        /\ InUser(r) /\ AllStarted(r)
        /\ call' = [call EXCEPT ![r] = [at |-> at, child |-> Null]]
        /\ UNCHANGED <<object, _joined, thread, _childs>>
  BY DEF JoinAll, Return
<1>2. TypeOK'
  BY <1>1 DEF TreeInv, TypeOK
<1>3. /\ call'[r] = [at |-> at, child |-> Null] /\ call[r].at = "user"
      /\ \A d \in Context : d # r => call'[d] = call[d]
  BY <1>1 DEF TreeInv, TypeOK
<1>4. \A q \in Context, j \in Nat, d \in Cothread : HasAt(q, j, d)' <=> HasAt(q, j, d)
  BY <1>1, <1>3 DEF HasAt
<1>5. CallsFit'
  BY <1>1, <1>3, <1>4 DEF TreeInv, CallsFit
<1>6. FlagsFit' /\ HasParent'
  BY <1>1, <1>4 DEF TreeInv, FlagsFit, HasParent
<1>7. \A q \in Context, j \in Nat, d \in Cothread : HasAt(q, j, d) => Fits(q, d)'
  <2>1. \A j \in Nat, d \in Cothread : HasAt(r, j, d) => thread[d] # "none"
    BY <1>1, <1>3 DEF HasAt, AllStarted
  <2>. QED
    BY <1>1, <1>3, <2>1 DEF TreeInv, ChildrenFit, Fits
<1>. QED
  BY <1>2, <1>4, <1>5, <1>6, <1>7, SamePlaces DEF TreeInv

\* child() in a loop: the first child moves to place 0, and all others one
\* place down.
LEMMA NextChildStep ==
  ASSUME TreeInv, NEW r \in Context, NextChild(r)
  PROVE  TreeInv'
<1>. DEFINE s == _childs[r]
            c == Head(s)
<1>1. /\ Runs(r) /\ call[r].at \in Loops /\ call[r].child = Null /\ s # <<>>
      /\ call' = [call EXCEPT ![r].child = c]
      /\ _childs' = [_childs EXCEPT ![r] = Tail(s)]
      /\ UNCHANGED <<object, _joined, thread>>
  BY DEF NextChild
<1>2. s \in Seq(Cothread) /\ _childs \in [Context -> Seq(Cothread)]
  BY DEF TreeInv, TypeOK
<1>3. /\ c \in Cothread /\ c = s[1] /\ 1 \in DOMAIN s
      /\ Tail(s) \in Seq(Cothread)
      /\ \A i \in Nat : i \in DOMAIN Tail(s) <=> i # 0 /\ i + 1 \in DOMAIN s
      /\ \A i \in DOMAIN Tail(s) : Tail(s)[i] = s[i + 1]
  BY <1>1, <1>2
<1>4. TypeOK'
  BY <1>1, <1>3 DEF TreeInv, TypeOK
<1>5. /\ call'[r].child = c /\ call'[r].at = call[r].at
      /\ _childs'[r] = Tail(s)
      /\ \A q \in Context : q # r => call'[q] = call[q] /\ _childs'[q] = _childs[q]
  BY <1>1, <1>2 DEF TreeInv, TypeOK
<1>6. \A j \in Nat, d \in Cothread : HasAt(r, j, d)' <=> HasAt(r, j + 1, d)
  <2>. SUFFICES ASSUME NEW j \in Nat, NEW d \in Cothread
                PROVE  HasAt(r, j, d)' <=> HasAt(r, j + 1, d)
    OBVIOUS
  <2>1. HasAt(r, j + 1, d) <=> j + 1 \in DOMAIN s /\ s[j + 1] = d
    BY DEF HasAt
  <2>2. CASE j = 0
    BY <1>1, <1>3, <1>5, <2>1, <2>2 DEF HasAt
  <2>3. CASE j # 0
    BY <1>3, <1>5, <2>1, <2>3 DEF HasAt
  <2>. QED
    BY <2>2, <2>3
<1>7. \A q \in Context, j \in Nat, d \in Cothread :
        q # r => (HasAt(q, j, d)' <=> HasAt(q, j, d))
  BY <1>5 DEF HasAt
<1>8. \A d \in Cothread : ~ HasAt(r, 0, d)
  BY <1>1, <1>2 DEF HasAt
<1>. HIDE DEF s, c
<1>9. CallsFit'
  <2>. SUFFICES ASSUME NEW q \in Context
                PROVE  /\ call'[q].at = "user" => call'[q].child = Null
                       /\ call'[q].at = "join" =>
                            /\ q # Main
                            /\ call'[q].child \in Cothread
                            /\ \E i \in Nat : HasAt(q, i, call[q].child)'
                            /\ thread[call'[q].child] \in {"created", "running", "exited"}
    BY <1>1 DEF CallsFit
  <2>1. CASE q = r
    BY <1>1, <1>5, <2>1
  <2>2. CASE q # r
    <3>1. CASE call[q].at = "join"
      <4>1. PICK i \in Nat : HasAt(q, i, call[q].child)
        BY <3>1 DEF TreeInv, CallsFit
      <4>2. HasAt(q, i, call[q].child)'
        BY <1>5, <2>2, <4>1 DEF HasAt
      <4>. QED
        BY <1>5, <2>2, <3>1, <4>2 DEF TreeInv, CallsFit
    <3>2. CASE call[q].at # "join"
      BY <1>5, <2>2, <3>2 DEF TreeInv, CallsFit
    <3>. QED
      BY <3>1, <3>2
  <2>. QED
    BY <2>1, <2>2
<1>10. ChildrenFit'
  <2>. SUFFICES ASSUME NEW q \in Context, NEW j \in Nat, NEW d \in Cothread, HasAt(q, j, d)'
                PROVE  Fits(q, d)'
    BY DEF ChildrenFit
  <2>1. Fits(q, d)
    <3>1. CASE q = r
      BY <1>6, <3>1 DEF TreeInv, ChildrenFit
    <3>2. CASE q # r
      BY <1>7, <3>2 DEF TreeInv, ChildrenFit
    <3>. QED
      BY <3>1, <3>2
  <2>. QED
    BY <1>1, <1>5, <2>1 DEF Fits
<1>11. OnePlace'
  <2>. SUFFICES ASSUME NEW q \in Context, NEW p \in Context, NEW i \in Nat, NEW j \in Nat,
                       NEW d \in Cothread, HasAt(q, i, d)', HasAt(p, j, d)'
                PROVE  q = p /\ i = j
    BY DEF OnePlace
  <2>1. IF q = r THEN HasAt(q, i + 1, d) ELSE HasAt(q, i, d)
    BY <1>6, <1>7
  <2>2. IF p = r THEN HasAt(p, j + 1, d) ELSE HasAt(p, j, d)
    BY <1>6, <1>7
  <2>. QED
    BY <2>1, <2>2 DEF TreeInv, OnePlace
<1>12. FlagsFit'
  BY <1>1 DEF TreeInv, FlagsFit
<1>13. HasParent'
  <2>. SUFFICES ASSUME NEW d \in Cothread, Alive(d), d \notin _joined
                PROVE  \E q \in Context, j \in Nat : HasAt(q, j, d)'
    BY <1>1 DEF HasParent
  <2>1. PICK q \in Context, i \in Nat : HasAt(q, i, d)
    BY DEF TreeInv, HasParent
  <2>2. CASE q = r
    <3>1. i # 0 /\ i - 1 \in Nat /\ (i - 1) + 1 = i
      BY <1>8, <2>1, <2>2
    <3>2. HasAt(r, (i - 1) + 1, d)
      BY <2>1, <2>2, <3>1
    <3>3. HasAt(r, i - 1, d)'
      BY <1>6, <3>1, <3>2
    <3>. QED
      BY <3>1, <3>3
  <2>3. CASE q # r
    BY <1>7, <2>1, <2>3
  <2>. QED
    BY <2>2, <2>3
<1>. QED
  BY <1>4, <1>9, <1>10, <1>11, <1>12, <1>13 DEF TreeInv

\* The child in place 0 is deleted.
LEMMA ChildJoinedStep ==
  ASSUME TreeInv, NEW r \in Context, ChildJoined(r)
  PROVE  TreeInv'
<1>. DEFINE c == call[r].child
<1>1. /\ Runs(r) /\ call[r].at \in Loops /\ c \in Cothread /\ Ended(c)
      /\ object' = object \ {c}
      /\ thread' = [thread EXCEPT ![c] = "none"]
      /\ _joined' = _joined \ {c}
      /\ call' = [call EXCEPT ![r].child = Null]
      /\ UNCHANGED _childs
  BY DEF ChildJoined, TreeInv, TypeOK
<1>2. HasAt(r, 0, c)
  BY <1>1 DEF HasAt
<1>3. c \in object /\ thread[c] \in {"exited", "joined"}
  BY <1>1, <1>2 DEF TreeInv, ChildrenFit, Fits
<1>4. \A q \in Context, j \in Nat : HasAt(q, j, c) => q = r /\ j = 0
  BY <1>1, <1>2 DEF TreeInv, OnePlace
<1>5. /\ call'[r].at = call[r].at /\ call'[r].child = Null
      /\ \A q \in Context : q # r => call'[q] = call[q]
  BY <1>1 DEF TreeInv, TypeOK
<1>6. \A d \in Cothread, j \in Nat : HasAt(c, j, d) => c = Main
  BY <1>1, <1>3 DEF TreeInv, ChildrenFit, Fits
<1>7. \A q \in Context, j \in Nat, d \in Cothread :
        HasAt(q, j, d)' <=> HasAt(q, j, d) /\ d # c
  <2>. SUFFICES ASSUME NEW q \in Context, NEW j \in Nat, NEW d \in Cothread
                PROVE  HasAt(q, j, d)' <=> HasAt(q, j, d) /\ d # c
    OBVIOUS
  <2>1. 0 \notin DOMAIN _childs[q]
    BY DEF TreeInv, TypeOK
  <2>2. CASE q = r /\ j = 0
    BY <1>1, <1>5, <2>1, <2>2 DEF HasAt
  <2>3. CASE ~ (q = r /\ j = 0)
    <3>1. HasAt(q, j, d) => d # c
      BY <1>4, <2>3
    <3>2. HasAt(q, j, d)' <=> HasAt(q, j, d)
      BY <1>1, <1>5, <2>3 DEF HasAt
    <3>. QED
      BY <3>1, <3>2
  <2>. QED
    BY <2>2, <2>3
<1>8. \A q \in Context : q # r /\ call[q].at = "join" => call[q].child # c
  BY <1>4 DEF TreeInv, CallsFit
<1>. HIDE DEF c
<1>9. TypeOK'
  BY <1>1 DEF TreeInv, TypeOK
<1>10. thread'[c] = "none" /\ \A d \in Context : d # c => thread'[d] = thread[d]
  BY <1>1 DEF TreeInv, TypeOK
<1>11. CallsFit'
  BY <1>1, <1>5, <1>7, <1>8, <1>10 DEF TreeInv, CallsFit
<1>12. ChildrenFit'
  <2>. SUFFICES ASSUME NEW q \in Context, NEW j \in Nat, NEW d \in Cothread,
                       HasAt(q, j, d), d # c
                PROVE  Fits(q, d)'
    BY <1>7 DEF ChildrenFit
  <2>1. Fits(q, d) /\ (q = c => q = Main)
    BY <1>6 DEF TreeInv, ChildrenFit
  <2>. QED
    BY <1>1, <1>5, <1>10, <2>1 DEF Fits
<1>13. OnePlace'
  BY <1>7 DEF TreeInv, OnePlace
<1>14. FlagsFit' /\ HasParent'
  BY <1>1, <1>3, <1>7, <1>10 DEF TreeInv, FlagsFit, HasParent
<1>. QED
  BY <1>9, <1>11, <1>12, <1>13, <1>14 DEF TreeInv

\* The loop is over, and with the one of execute() the thread.
LEMMA LoopDoneStep ==
  ASSUME TreeInv, NEW r \in Context, LoopDone(r)
  PROVE  TreeInv'
<1>1. /\ Runs(r) /\ call[r].at \in Loops /\ call[r].child = Null /\ _childs[r] = <<>>
      /\ call' = [call EXCEPT ![r] = [at |-> "user", child |-> Null]]
      /\ \/ thread' = [thread EXCEPT ![r] = "exited"]
         \/ thread' = thread
      /\ UNCHANGED <<object, _joined, _childs>>
  BY DEF LoopDone
<1>2. TypeOK'
  BY <1>1 DEF TreeInv, TypeOK
<1>3. /\ call'[r] = [at |-> "user", child |-> Null]
      /\ \A q \in Context : q # r => call'[q] = call[q]
  BY <1>1 DEF TreeInv, TypeOK
<1>4. \A d \in Context : d = r \/ thread'[d] = thread[d]
  BY <1>1 DEF TreeInv, TypeOK
<1>5. thread[r] = "running" /\ thread'[r] \in {"exited", "running"}
  BY <1>1 DEF TreeInv, TypeOK
<1>6. \A j \in Nat, d \in Cothread : ~ HasAt(r, j, d)
  BY <1>1 DEF HasAt
<1>7. \A q \in Context, j \in Nat, d \in Cothread : HasAt(q, j, d)' <=> HasAt(q, j, d)
  BY <1>1, <1>3 DEF HasAt
<1>8. CallsFit'
  BY <1>1, <1>3, <1>4, <1>5, <1>7 DEF TreeInv, CallsFit
<1>9. FlagsFit' /\ HasParent'
  BY <1>1, <1>4, <1>5, <1>7 DEF TreeInv, FlagsFit, HasParent
<1>10. \A q \in Context, j \in Nat, d \in Cothread : HasAt(q, j, d) => Fits(q, d)'
  BY <1>1, <1>3, <1>4, <1>5, <1>6 DEF TreeInv, ChildrenFit, Fits
<1>. QED
  BY <1>2, <1>7, <1>8, <1>9, <1>10, SamePlaces DEF TreeInv

LEMMA TreeInvStep ==
  ASSUME Main \notin JoinsOne, TreeInv, [Next]_vars
  PROVE  TreeInv'
<1>1. CASE \E r \in Context : JoinAll(r) \/ Return(r)
  BY <1>1, LoopStep
<1>2. CASE \E r \in Context : Library(r)
  BY <1>2, OneJoinedStep, NextChildStep, ChildJoinedStep, LoopDoneStep DEF Library
<1>3. CASE \E r \in Context, c \in Cothread : Child(r, c) \/ Resume(r, c)
  BY <1>3, ChildStep, ResumeStep
<1>4. CASE \E r \in Context, c \in Cothread : Launch(r, c) \/ JoinOne(r, c)
  BY <1>4, LaunchStep, JoinOneStep
<1>5. CASE \E c \in Cothread : Start(c)
  BY <1>5, StartStep
<1>6. CASE UNCHANGED vars
  BY <1>6 DEF vars, TreeInv, TypeOK, CallsFit, ChildrenFit, Fits, OnePlace, FlagsFit,
              HasParent, HasAt
<1>. QED
  BY <1>1, <1>2, <1>3, <1>4, <1>5, <1>6 DEF Next

-----------------------------------------------------------------------------
\* The invariant holds in every reachable state.
THEOREM TreeInvariant == ASSUME Main \notin JoinsOne PROVE Spec => []TreeInv
<1>1. Init => TreeInv
  BY TreeInvInit
<1>2. TreeInv /\ [Next]_vars => TreeInv'
  BY TreeInvStep
<1>. QED
  BY <1>1, <1>2, PTL DEF Spec

\* No cothread is deleted before its thread has ended: execute() works on an
\* object that exists.
THEOREM ObjectsOutlive == ASSUME Main \notin JoinsOne PROVE Spec => []ObjectOutlives
<1>1. TreeInv => ObjectOutlives
  BY DEF TreeInv, FlagsFit, ObjectOutlives
<1>. QED
  BY <1>1, TreeInvariant, PTL

\* pthread_join() is called once for each cothread, and for none that is
\* detached or was not started.
THEOREM JoinsValid == ASSUME Main \notin JoinsOne PROVE Spec => []JoinValid
<1>1. TreeInv => JoinValid
  <2>. SUFFICES ASSUME TreeInv, NEW r \in Context,
                       call[r].child # Null, call[r].child \notin _joined
                PROVE  thread[call[r].child] \in {"created", "running", "exited"}
    BY DEF JoinValid
  <2>1. call[r].child \in Cothread /\ call[r].at \in {"join"} \cup Loops
    BY DEF TreeInv, TypeOK, CallsFit
  <2>2. call[r].at \in Loops => HasAt(r, 0, call[r].child)
    BY DEF HasAt
  <2>. QED
    BY <2>1, <2>2 DEF TreeInv, TypeOK, CallsFit, ChildrenFit, Fits, FlagsFit
<1>. QED
  BY <1>1, TreeInvariant, PTL

\* Every child is in one place, from where it is deleted, and its parent has
\* not ended.
THEOREM ChildrenOwned == ASSUME Main \notin JoinsOne PROVE Spec => []OwnedOnce
<1>1. TreeInv => OwnedOnce
  <2>. SUFFICES ASSUME TreeInv
                PROVE  OwnedOnce
    OBVIOUS
  <2>1. \A r \in Context : Len(_childs[r]) \in Nat /\ DOMAIN _childs[r] = 1..Len(_childs[r])
    BY DEF TreeInv, TypeOK
  <2>2. \A r \in Context, c \in Cothread, i \in Nat : i \in Places(r, c) <=> HasAt(r, i, c)
    BY <2>1 DEF Places, HasAt
  <2>3. \A r \in Context, c \in Cothread : Places(r, c) \subseteq Nat
    BY <2>1 DEF Places
  <2>4. ASSUME NEW r \in Context, NEW c \in Cothread, Places(r, c) # {}
        PROVE  /\ \E i \in Places(r, c) : Places(r, c) = {i}
               /\ c \in object
               /\ \A q \in Context \ {r} : Places(q, c) = {}
               /\ r = Main \/ (r \in object /\ Alive(r))
    <3>1. PICK i \in Nat : i \in Places(r, c)
      BY <2>3, <2>4
    <3>2. HasAt(r, i, c)
      BY <2>2, <3>1
    <3>3. \A q \in Context, j \in Nat : HasAt(q, j, c) => q = r /\ j = i
      BY <3>2 DEF TreeInv, OnePlace
    <3>4. Places(r, c) = {i}
      BY <2>2, <2>3, <3>1, <3>3
    <3>5. \A q \in Context \ {r} : Places(q, c) = {}
      BY <2>2, <2>3, <3>3
    <3>6. Fits(r, c)
      BY <3>2 DEF TreeInv, ChildrenFit
    <3>. QED
      BY <3>1, <3>4, <3>5, <3>6 DEF Fits
  <2>5. ASSUME NEW c \in Cothread, Alive(c), c \notin _joined
        PROVE  \E r \in Context : Places(r, c) # {}
    BY <2>2, <2>5 DEF TreeInv, HasParent
  <2>. QED
    BY <2>4, <2>5 DEF OwnedOnce
<1>. QED
  BY <1>1, TreeInvariant, PTL
=============================================================================
