--------------------------- MODULE CosocketProofs ---------------------------
(***************************************************************************)
(* What CoreactorProps promises of events and waits, and CosocketProps of  *)
(* the sockets, holds for any number of coroutines, events, sockets and    *)
(* callers, if persistent and other waits are made by different            *)
(* coroutines, and persistent ones are not cancelled.                      *)
(* The sockets use the reactor as Coreactor says.                          *)
(***************************************************************************)
EXTENDS CoreactorProps, CosocketProps, TLAPS

-----------------------------------------------------------------------------
(* The reactor *)

\* Persistent and other waits are made by different coroutines.
Separate == Persistent \cap (OneShot \cup Cancelled) = {}

\* c has event e: to free it when its call returns, or in the table.
Has(c, e) == _triggers[c] = e \/ (Kind(c) \in Returning /\ call[c].event = e)

\* The call a coroutine is in goes with its entry in the table.
CallMatches(c) ==
  /\ Kind(c) \in Returning =>
       /\ c \in OneShot
       /\ call[c].event \in held
       /\ _triggers[c] \in {call[c].event, Null}
  /\ Kind(c) \notin Returning =>
       \/ _triggers[c] = Absent
       \/ /\ c \in Persistent
          /\ _triggers[c] \in held \cap sticky \cap (ioArmed \cup spent)
          /\ arg[_triggers[c]] = c
  /\ Kind(c) = "persist" => c \in Persistent /\ _triggers[c] # Absent
  /\ Kind(c) = "gone" => c \in OneShot
  /\ call[c].found => Kind(c) = "persist"

CallsMatch == \A c \in Coro : CallMatches(c)

\* An event has one coroutine.
HasUnique == \A c, d \in Coro, e \in Event : Has(c, e) /\ Has(d, e) => c = d

HeldHad == \A e \in held : \E c \in Coro : Has(c, e)

ArmedMatches(e) ==
  /\ e \in held
  /\ arg[e] \in Coro /\ Has(arg[e], e)

ArmedHad == \A e \in Armed : ArmedMatches(e)

\* Who waits is not running, and has its event in the table and armed, if
\* set_io did not find one that was not.
WaitersArmed ==
  \A c \in waiting :
    /\ c # running
    /\ Kind(c) \in Waiting
    /\ arg[_triggers[c]] = c
    /\ \/ _triggers[c] \in Armed
       \/ Kind(c) = "persist" /\ call[c].found /\ _triggers[c] \in spent

ReactorInv ==
  TypeOK /\ CallsMatch /\ HasUnique /\ HeldHad /\ ArmedHad /\ WaitersArmed

-----------------------------------------------------------------------------
LEMMA ReactorInvInit == Init => ReactorInv
  BY PointerAssumption, CoroAssumption
  DEF Init, ReactorInv, TypeOK, CallsMatch, CallMatches, HasUnique, HeldHad, ArmedHad,
      ArmedMatches, WaitersArmed, Armed, Has, Kind, Plain, Call, Kinds, Waiting, Returning

USE DEF Separate, Kind, Plain, Call, Kinds, Waiting, Returning, Armed, libev, InUser

\* Who is not in a call has no entry, or its persistent event.
LEMMA UserEntry ==
  ASSUME ReactorInv, NEW c \in Coro, InUser(c)
  PROVE  _triggers[c] # Absent =>
           /\ c \in Persistent
           /\ _triggers[c] \in held \cap sticky \cap (ioArmed \cup spent)
           /\ arg[_triggers[c]] = c
  BY PointerAssumption, CoroAssumption DEF ReactorInv, CallsMatch, CallMatches

\* Who has an event has one that malloc handed out.
LEMMA HadHeld ==
  ASSUME ReactorInv, NEW c \in Coro, NEW e \in Event, Has(c, e)
  PROVE  e \in held
  BY PointerAssumption, CoroAssumption DEF Has, ReactorInv, CallsMatch, CallMatches

\* A new event that c waits for.
LEMMA FreshWait ==
  ASSUME Separate, ReactorInv, NEW c \in Coro, NEW e \in Event, NEW kind \in Waiting,
         NEW io \in BOOLEAN, NEW timer \in BOOLEAN, NEW persist \in BOOLEAN,
         InUser(c), _triggers[c] = Absent,
         Park(c, Call(kind, e, FALSE)), Heap!Malloc(e), EventAdd(e, c, io, timer, persist),
         io \/ timer,
         IF kind = "persist" THEN c \in Persistent /\ io /\ persist
                             ELSE c \in OneShot,
         _triggers' = [_triggers EXCEPT ![c] = e]
  PROVE  ReactorInv'
<1>. USE PointerAssumption, CoroAssumption
<1>. USE DEF Park, EventAdd, Heap!Malloc
<1>. DEFINE frame == [kind |-> kind, event |-> e, found |-> FALSE]
<1>1. TypeOK'
  BY DEF ReactorInv, TypeOK
<1>2. /\ e \notin held /\ held' = held \cup {e}
      /\ call' = [call EXCEPT ![c] = frame]
      /\ call'[c] = frame /\ _triggers'[c] = e /\ arg'[e] = c
      /\ \A d \in Coro : d # c => call'[d] = call[d] /\ _triggers'[d] = _triggers[d]
      /\ \A f \in Event : f # e => arg'[f] = arg[f]
  BY DEF ReactorInv, TypeOK
<1>3. \A d \in Coro : ~ Has(d, e)
  BY <1>2, HadHeld
<1>4. ~ e \in Armed
  BY <1>2 DEF ReactorInv, ArmedHad, ArmedMatches
<1>5. CallsMatch'
  <2>. SUFFICES ASSUME NEW d \in Coro
                PROVE  CallMatches(d)'
    BY DEF CallsMatch
  <2>. QED
    BY <1>1, <1>2, <1>3, <1>4 DEF ReactorInv, TypeOK, CallsMatch, CallMatches
<1>6. \A d \in Coro, f \in Event :
       /\ Has(d, f)' <=> (Has(d, f) \/ (d = c /\ f = e))
       /\ ~ Has(c, f)
  BY <1>2 DEF Has, ReactorInv, TypeOK, CallsMatch, CallMatches
<1>7. HasUnique'
  BY <1>3, <1>6 DEF ReactorInv, HasUnique
<1>8. HeldHad'
  BY <1>2, <1>6 DEF ReactorInv, TypeOK, HeldHad
<1>9. ArmedHad'
  <2>. SUFFICES ASSUME NEW f \in Event, f \in Armed'
                PROVE  ArmedMatches(f)'
    BY <1>1 DEF ArmedHad, TypeOK
  <2>. USE DEF ArmedMatches
  <2>1. CASE f = e
    BY <2>1, <1>2, <1>4, <1>6 DEF EventAdd
  <2>2. CASE f # e
    <3>1. f \in Armed /\ (f \in timerArmed' => f \in timerArmed)
      BY <2>2
    <3>2. arg[f] \in Coro /\ Has(arg[f], f) /\ arg[f] # c
      BY <3>1, <1>2, <1>6 DEF ReactorInv, ArmedHad
    <3>. QED
      BY <2>2, <3>1, <3>2, <1>2, <1>6 DEF ReactorInv, ArmedHad, ArmedMatches
  <2>. QED
    BY <2>1, <2>2
<1>10. WaitersArmed'
  BY <1>1, <1>2, <1>3, <1>4 DEF ReactorInv, WaitersArmed, TypeOK, Has
<1>. QED
  BY <1>1, <1>5, <1>7, <1>8, <1>9, <1>10 DEF ReactorInv

\* A step that gives and takes no event.
LEMMA SameEvents ==
  ASSUME ReactorInv, TypeOK', CallsMatch', WaitersArmed',
         \A d \in Coro, f \in Event : Has(d, f)' <=> Has(d, f),
         held' = held, arg' = arg,
         ioArmed' \subseteq ioArmed, timerArmed' \subseteq timerArmed
  PROVE  ReactorInv'
<1>. USE PointerAssumption, CoroAssumption
<1>1. HasUnique'
  BY DEF ReactorInv, HasUnique
<1>2. HeldHad'
  BY DEF ReactorInv, TypeOK, HeldHad
<1>3. ArmedHad'
  <2>. SUFFICES ASSUME NEW f \in Event, f \in Armed'
                PROVE  ArmedMatches(f)'
    BY DEF ArmedHad, TypeOK
  <2>1. f \in Armed /\ ArmedMatches(f) /\ (f \in timerArmed' => f \in timerArmed)
    BY DEF ReactorInv, ArmedHad
  <2>. QED
    BY <2>1 DEF ArmedMatches
<1>. QED
  BY <1>1, <1>2, <1>3 DEF ReactorInv

\* A coroutine waits for its persistent event once more.
LEMMA WaitAgain ==
  ASSUME Separate, ReactorInv, NEW c \in Persistent, NEW e \in Event,
         NEW timed, SetIo(c, e, TRUE, timed), _triggers[c] # Absent
  PROVE  ReactorInv'
<1>. USE PointerAssumption, CoroAssumption
<1>. DEFINE frame == [kind |-> "persist", event |-> e, found |-> TRUE]
<1>1. /\ c \in Coro /\ running' = Null /\ waiting' = waiting \cup {c}
      /\ call' = [call EXCEPT ![c] = frame]
      /\ UNCHANGED <<held, _triggers, libev>>
      /\ _triggers[c] \in held \cap sticky \cap (ioArmed \cup spent)
      /\ arg[_triggers[c]] = c
  BY UserEntry DEF SetIo, Park
<1>2. TypeOK'
  BY <1>1 DEF ReactorInv, TypeOK
<1>3. /\ call'[c] = frame /\ call[c].kind = "user"
      /\ \A d \in Coro : d # c => call'[d] = call[d]
  BY <1>1 DEF ReactorInv, TypeOK, SetIo
<1>4. CallsMatch'
  BY <1>1, <1>3 DEF ReactorInv, CallsMatch, CallMatches
<1>5. WaitersArmed'
  BY <1>1, <1>2, <1>3 DEF ReactorInv, WaitersArmed, TypeOK
<1>6. \A d \in Coro, f \in Event : Has(d, f)' <=> Has(d, f)
  BY <1>1, <1>3 DEF Has
<1>7. ioArmed' = ioArmed /\ timerArmed' = timerArmed
  BY <1>1
<1>. QED
  BY <1>1, <1>2, <1>4, <1>5, <1>6, <1>7, SameEvents

\* The three calls that wait.
LEMMA WaitStep ==
  ASSUME Separate, ReactorInv, NEW c \in Coro, Waits(c)
  PROVE  ReactorInv'
<1>. USE PointerAssumption, CoroAssumption
<1>1. PICK e \in Event :
        \/ c \in OneShot /\ \E timed \in BOOLEAN : SetIo(c, e, FALSE, timed)
        \/ c \in Persistent /\ \E timed \in BOOLEAN : SetIo(c, e, TRUE, timed)
        \/ c \in OneShot /\ \E kind \in {"timer", "signal"} : SetAlone(c, e, kind)
  BY DEF Waits
<1>2. InUser(c)
  BY <1>1 DEF SetIo, SetAlone
<1>3. CASE c \in OneShot /\ \E timed \in BOOLEAN : SetIo(c, e, FALSE, timed)
  <2>1. _triggers[c] = Absent
    BY <1>2, <1>3, UserEntry
  <2>2. PICK timed \in BOOLEAN : SetIo(c, e, FALSE, timed)
    BY <1>3
  <2>3. /\ Park(c, Call("io", e, FALSE)) /\ Heap!Malloc(e)
        /\ EventAdd(e, c, TRUE, timed, FALSE)
        /\ _triggers' = [_triggers EXCEPT ![c] = e]
    BY <2>1, <2>2 DEF SetIo
  <2>. QED
    BY <1>2, <1>3, <2>1, <2>3, FreshWait
<1>4. CASE c \in Persistent /\ \E timed \in BOOLEAN : SetIo(c, e, TRUE, timed)
  <2>1. PICK timed \in BOOLEAN : SetIo(c, e, TRUE, timed)
    BY <1>4
  <2>2. CASE _triggers[c] = Absent
    <3>1. /\ Park(c, Call("persist", e, FALSE)) /\ Heap!Malloc(e)
          /\ EventAdd(e, c, TRUE, timed, TRUE)
          /\ _triggers' = [_triggers EXCEPT ![c] = e]
      BY <2>1, <2>2 DEF SetIo
    <3>. QED
      BY <1>2, <1>4, <2>2, <3>1, FreshWait
  <2>3. CASE _triggers[c] # Absent
    BY <1>4, <2>1, <2>3, WaitAgain
  <2>. QED
    BY <2>2, <2>3
<1>5. CASE c \in OneShot /\ \E kind \in {"timer", "signal"} : SetAlone(c, e, kind)
  <2>1. _triggers[c] = Absent
    BY <1>2, <1>5, UserEntry
  <2>2. PICK kind \in {"timer", "signal"} : SetAlone(c, e, kind)
    BY <1>5
  <2>3. /\ Park(c, Call(kind, e, FALSE)) /\ Heap!Malloc(e)
        /\ EventAdd(e, c, kind = "signal", kind = "timer", kind = "signal")
        /\ _triggers' = [_triggers EXCEPT ![c] = e]
    BY <2>1, <2>2 DEF SetAlone, ReactorInv, TypeOK
  <2>. QED
    BY <1>2, <1>5, <2>1, <2>2, <2>3, FreshWait
<1>. QED
  BY <1>1, <1>3, <1>4, <1>5

\* A call that ends behind its yield().
LEMMA ReturnStep ==
  ASSUME ReactorInv, NEW c \in Coro, Return(c)
  PROVE  ReactorInv'
<1>. USE PointerAssumption, CoroAssumption
<1>1. /\ running = c /\ running' = running /\ waiting' = waiting
      /\ call' = [call EXCEPT ![c] = Plain("user")]
      /\ c \notin waiting
  BY DEF Return, ReactorInv, WaitersArmed
<1>2. /\ call'[c].kind = "user" /\ call'[c].found = FALSE
      /\ \A d \in Coro : d # c => call'[d] = call[d]
  BY <1>1 DEF ReactorInv, TypeOK
<1>3. CASE Kind(c) = "persist"
  <2>1. UNCHANGED <<_triggers, held, libev>>
    BY <1>3 DEF Return
  <2>2. TypeOK'
    BY <1>1, <2>1 DEF ReactorInv, TypeOK
  <2>3. CallsMatch'
    BY <1>2, <1>3, <2>1 DEF ReactorInv, CallsMatch, CallMatches
  <2>4. WaitersArmed'
    BY <1>1, <1>2, <2>1 DEF ReactorInv, TypeOK, WaitersArmed
  <2>5. \A d \in Coro, f \in Event : Has(d, f)' <=> Has(d, f)
    BY <1>2, <1>3, <2>1 DEF Has
  <2>. QED
    BY <2>1, <2>2, <2>3, <2>4, <2>5, SameEvents
<1>4. CASE Kind(c) \in Returning
  <2>. DEFINE e == call[c].event
  <2>1. /\ e \in Event /\ e \in held /\ Has(c, e) /\ c \in OneShot
        /\ _triggers[c] \in {e, Null}
    BY <1>4 DEF ReactorInv, TypeOK, CallsMatch, CallMatches, Has
  <2>2. /\ _triggers' = [_triggers EXCEPT ![c] = Absent]
        /\ ioArmed' = ioArmed \ {e} /\ timerArmed' = timerArmed \ {e}
        /\ held' = held \ {e} /\ arg' = [arg EXCEPT ![e] = Null] /\ sticky' = sticky \ {e}
        /\ spent' = spent \ {e}
    BY <1>4 DEF Return, EventDel, Free
  <2>3. /\ _triggers'[c] = Absent
        /\ \A d \in Coro : d # c => _triggers'[d] = _triggers[d]
        /\ \A f \in Event : f # e => arg'[f] = arg[f]
    BY <2>1, <2>2 DEF ReactorInv, TypeOK
  <2>. HIDE DEF e
  <2>4. \A d \in Coro : d # c => ~ Has(d, e)
    BY <2>1 DEF ReactorInv, HasUnique
  <2>5. TypeOK'
    BY <1>1, <2>1, <2>2 DEF ReactorInv, TypeOK
  <2>6. CallsMatch'
    <3>. SUFFICES ASSUME NEW d \in Coro
                  PROVE  CallMatches(d)'
      BY DEF CallsMatch
    <3>1. CASE d = c
      BY <1>2, <2>3, <3>1 DEF CallMatches
    <3>2. CASE d # c
      <4>1. CallMatches(d) /\ _triggers[d] # e /\ (Kind(d) \in Returning => call[d].event # e)
        BY <2>4, <3>2 DEF ReactorInv, CallsMatch, Has
      <4>2. call'[d] = call[d] /\ _triggers'[d] = _triggers[d]
        BY <1>2, <2>3, <3>2
      <4>3. _triggers[d] \in held => arg'[_triggers[d]] = arg[_triggers[d]]
        BY <2>3, <4>1 DEF ReactorInv, TypeOK
      <4>. QED
        BY <2>2, <4>1, <4>2, <4>3 DEF CallMatches
    <3>. QED
      BY <3>1, <3>2
  <2>7. \A d \in Coro, f \in Event : Has(d, f)' <=> Has(d, f) /\ d # c
    BY <1>2, <2>3 DEF Has
  <2>8. \A f \in Event : Has(c, f) => f = e
    BY <1>4, <2>1 DEF Has, e
  <2>9. HasUnique'
    BY <2>7 DEF ReactorInv, HasUnique
  <2>10. HeldHad'
    BY <2>2, <2>7, <2>8 DEF ReactorInv, TypeOK, HeldHad
  <2>11. ArmedHad'
    <3>. SUFFICES ASSUME NEW f \in Event, f \in Armed'
                  PROVE  ArmedMatches(f)'
      BY <2>5 DEF ArmedHad, TypeOK
    <3>1. f # e /\ f \in Armed /\ (f \in timerArmed' => f \in timerArmed)
      BY <2>2
    <3>2. ArmedMatches(f) /\ arg[f] # c /\ f \in Event
      BY <2>8, <3>1 DEF ReactorInv, ArmedHad, ArmedMatches
    <3>. QED
      BY <2>2, <2>3, <2>7, <3>1, <3>2 DEF ArmedMatches
  <2>12. WaitersArmed'
    <3>. SUFFICES ASSUME NEW d \in waiting, d \in Coro, d # c
                  PROVE  /\ d # running /\ Kind(d)' \in Waiting
                         /\ arg'[_triggers'[d]] = d
                         /\ \/ _triggers'[d] \in Armed'
                            \/ Kind(d)' = "persist" /\ call'[d].found /\ _triggers'[d] \in spent'
      BY <1>1 DEF ReactorInv, TypeOK, WaitersArmed
    <3>1. /\ d # running /\ Kind(d) \in Waiting
          /\ arg[_triggers[d]] = d
          /\ \/ _triggers[d] \in Armed
             \/ Kind(d) = "persist" /\ call[d].found /\ _triggers[d] \in spent
      BY DEF ReactorInv, WaitersArmed
    <3>2. _triggers[d] \in Event /\ _triggers[d] # e
      BY <2>4, <3>1 DEF ReactorInv, TypeOK, Has
    <3>. QED
      BY <1>2, <2>2, <2>3, <3>1, <3>2
  <2>. QED
    BY <2>5, <2>6, <2>9, <2>10, <2>11, <2>12 DEF ReactorInv
<1>. QED
  BY <1>3, <1>4 DEF Return

\* cancel().
LEMMA CancelStep ==
  ASSUME Separate, ReactorInv, NEW c \in Coro, NEW t \in Cancelled, Cancel(c, t)
  PROVE  ReactorInv'
<1>. USE PointerAssumption, CoroAssumption
<1>. DEFINE e == _triggers[t]
<1>1. /\ t \in Coro /\ e \in Event /\ UNCHANGED <<running, call, held, arg, sticky, spent>>
      /\ waiting' = waiting \ {t}
      /\ ioArmed' = ioArmed \ {e} /\ timerArmed' = timerArmed \ {e}
      /\ _triggers' = [_triggers EXCEPT ![t] = Null]
  BY DEF Cancel, EventDel
<1>2. Kind(t) \in Returning /\ call[t].event = e /\ Has(t, e)
  BY <1>1 DEF ReactorInv, CallsMatch, CallMatches, Has
<1>3. /\ _triggers'[t] = Null
      /\ \A d \in Coro : d # t => _triggers'[d] = _triggers[d]
  BY <1>1 DEF ReactorInv, TypeOK
<1>. HIDE DEF e
<1>4. \A d \in Coro : d # t => ~ Has(d, e)
  BY <1>1, <1>2 DEF ReactorInv, HasUnique
<1>5. TypeOK'
  BY <1>1 DEF ReactorInv, TypeOK
<1>6. CallsMatch'
  <2>. SUFFICES ASSUME NEW d \in Coro
                PROVE  CallMatches(d)'
    BY DEF CallsMatch
  <2>1. CASE d = t
    BY <1>1, <1>2, <1>3, <2>1 DEF ReactorInv, CallsMatch, CallMatches
  <2>2. CASE d # t
    BY <1>1, <1>3, <1>4, <2>2 DEF ReactorInv, CallsMatch, CallMatches, Has
  <2>. QED
    BY <2>1, <2>2
<1>7. \A d \in Coro, f \in Event : Has(d, f)' <=> Has(d, f)
  BY <1>1, <1>2, <1>3 DEF Has, e
<1>8. WaitersArmed'
  <2>. SUFFICES ASSUME NEW d \in waiting, d \in Coro, d # t
                PROVE  /\ d # running /\ Kind(d) \in Waiting
                       /\ arg[_triggers'[d]] = d
                       /\ \/ _triggers'[d] \in Armed'
                          \/ Kind(d) = "persist" /\ call[d].found /\ _triggers'[d] \in spent
    BY <1>1 DEF ReactorInv, TypeOK, WaitersArmed
  <2>1. /\ d # running /\ Kind(d) \in Waiting
        /\ arg[_triggers[d]] = d
        /\ \/ _triggers[d] \in Armed
           \/ Kind(d) = "persist" /\ call[d].found /\ _triggers[d] \in spent
    BY DEF ReactorInv, WaitersArmed
  <2>2. _triggers[d] # e
    BY <1>4 DEF Has
  <2>. QED
    BY <1>1, <1>3, <2>1, <2>2
<1>. QED
  BY <1>1, <1>5, <1>6, <1>7, <1>8, SameEvents

\* A callback of libev, which disarms the event or leaves it as it is.
LEMMA FireStep ==
  ASSUME ReactorInv, NEW e \in Event, FireIo(e) \/ FireError(e) \/ FireTimer(e)
  PROVE  ReactorInv'
<1>. USE PointerAssumption, CoroAssumption
<1>1. /\ e \in Armed /\ UNCHANGED <<running, call, _triggers, held, arg, sticky>>
      /\ waiting' = waiting \ {arg[e]}
      /\ \/ UNCHANGED <<ioArmed, timerArmed>>
         \/ ioArmed' = ioArmed \ {e} /\ timerArmed' = timerArmed \ {e}
      /\ spent \subseteq spent' /\ spent' \subseteq spent \cup {e}
      /\ e \in sticky => e \in ioArmed' \/ e \in spent' \/ ioArmed' = ioArmed
  BY DEF FireIo, FireError, FireTimer, Wake, Disarm, EventDel
<1>2. arg[e] \in Coro /\ Has(arg[e], e)
  BY <1>1 DEF ReactorInv, ArmedHad, ArmedMatches
<1>3. \A d \in Coro : d # arg[e] => ~ Has(d, e)
  BY <1>2 DEF ReactorInv, HasUnique
<1>4. TypeOK'
  BY <1>1 DEF ReactorInv, TypeOK
<1>5. CallsMatch'
  <2>. SUFFICES ASSUME NEW d \in Coro
                PROVE  CallMatches(d)'
    BY DEF CallsMatch
  <2>1. _triggers[d] \in held \cap sticky \cap (ioArmed \cup spent)
          => _triggers[d] \in ioArmed' \cup spent'
    BY <1>1
  <2>. QED
    BY <1>1, <2>1 DEF ReactorInv, CallsMatch, CallMatches
<1>6. \A d \in Coro, f \in Event : Has(d, f)' <=> Has(d, f)
  BY <1>1 DEF Has
<1>7. WaitersArmed'
  <2>. SUFFICES ASSUME NEW d \in waiting, d \in Coro, d # arg[e]
                PROVE  /\ d # running /\ Kind(d) \in Waiting
                       /\ arg[_triggers[d]] = d
                       /\ \/ _triggers[d] \in Armed'
                          \/ Kind(d) = "persist" /\ call[d].found /\ _triggers[d] \in spent'
    BY <1>1 DEF ReactorInv, TypeOK, WaitersArmed
  <2>1. /\ d # running /\ Kind(d) \in Waiting
        /\ arg[_triggers[d]] = d
        /\ \/ _triggers[d] \in Armed
           \/ Kind(d) = "persist" /\ call[d].found /\ _triggers[d] \in spent
    BY DEF ReactorInv, WaitersArmed
  <2>. QED
    BY <1>1, <2>1
<1>. QED
  BY <1>1, <1>4, <1>5, <1>6, <1>7, SameEvents

\* A step of the scheduler, of user code or of run().
LEMMA ControlStep ==
  ASSUME ReactorInv,
         \/ \E c \in Coro : Resume(c) \/ Yield(c) \/ End(c)
         \/ Run \/ LoopYield \/ LoopTest
  PROVE  ReactorInv'
<1>. USE PointerAssumption, CoroAssumption
<1>1. /\ UNCHANGED <<waiting, _triggers, held, libev>>
      /\ running' \in Coro \cup {Null}
      /\ running' # running => running' \notin waiting
  BY DEF ReactorInv, TypeOK, WaitersArmed, Resume, Yield, End, Run, LoopYield, LoopTest,
         Dispatching
<1>2. \/ call' = call
      \/ \E c \in Coro, kind \in {"user", "dispatch", "loop", "gone"} :
           /\ running = c /\ Kind(c) \notin Waiting
           /\ kind = "gone" => c \in OneShot
           /\ call' = [call EXCEPT ![c] = Plain(kind)]
  BY DEF Resume, Yield, End, Run, LoopYield, LoopTest, Dispatching
<1>3. CASE call' = call
  <2>1. TypeOK' /\ CallsMatch' /\ WaitersArmed' /\ \A d \in Coro, f \in Event : Has(d, f)' <=> Has(d, f)
    BY <1>1, <1>3
    DEF ReactorInv, TypeOK, CallsMatch, CallMatches, WaitersArmed, Has
  <2>. QED
    BY <1>1, <2>1, SameEvents
<1>4. ASSUME NEW c \in Coro, NEW kind \in {"user", "dispatch", "loop", "gone"},
             running = c, Kind(c) \notin Waiting,
             kind = "gone" => c \in OneShot,
             call' = [call EXCEPT ![c] = Plain(kind)]
      PROVE  ReactorInv'
  <2>1. /\ call'[c].kind = kind
        /\ \A d \in Coro : d # c => call'[d] = call[d]
    BY <1>4 DEF ReactorInv, TypeOK
  <2>2. TypeOK'
    BY <1>1, <1>4 DEF ReactorInv, TypeOK
  <2>3. CallsMatch'
    <3>. SUFFICES ASSUME NEW d \in Coro
                  PROVE  CallMatches(d)'
      BY DEF CallsMatch
    <3>1. CallMatches(d)
      BY DEF ReactorInv, CallsMatch
    <3>. QED
      BY <1>1, <1>4, <2>1, <3>1 DEF CallMatches
  <2>4. WaitersArmed'
    BY <1>1, <1>4, <2>1 DEF ReactorInv, TypeOK, WaitersArmed
  <2>5. \A d \in Coro, f \in Event : Has(d, f)' <=> Has(d, f)
    BY <1>1, <1>4, <2>1 DEF Has
  <2>. QED
    BY <1>1, <2>2, <2>3, <2>4, <2>5, SameEvents
<1>. QED
  BY <1>2, <1>3, <1>4

\* Every step keeps the invariant.
LEMMA ReactorInvStep ==
  ASSUME Separate, ReactorInv, [Next]_vars
  PROVE  ReactorInv'
<1>. USE PointerAssumption, CoroAssumption
<1>1. CASE \E c \in Coro : Waits(c)
  BY <1>1, WaitStep
<1>2. CASE \E c \in Coro : Return(c)
  BY <1>2, ReturnStep
<1>3. CASE \E c \in Coro, t \in Cancelled : Cancel(c, t)
  BY <1>3, CancelStep
<1>4. CASE \E e \in Event : FireIo(e) \/ FireError(e) \/ FireTimer(e)
  BY <1>4, FireStep
<1>5. CASE \/ \E c \in Coro : Resume(c) \/ Yield(c) \/ End(c)
           \/ Run \/ LoopYield \/ LoopTest
  BY <1>5, ControlStep
<1>6. CASE UNCHANGED vars
  BY <1>6 DEF vars, ReactorInv, TypeOK, CallsMatch, CallMatches, HasUnique, HeldHad,
              ArmedHad, ArmedMatches, WaitersArmed, Has
<1>. QED
  BY <1>1, <1>2, <1>3, <1>4, <1>5, <1>6 DEF Next

-----------------------------------------------------------------------------
\* The invariant holds in every reachable state.
THEOREM ReactorInvariant == ASSUME Separate PROVE Spec => []ReactorInv
<1>. USE PointerAssumption, CoroAssumption
<1>1. Init => ReactorInv
  BY ReactorInvInit
<1>2. ReactorInv /\ [Next]_vars => ReactorInv'
  BY ReactorInvStep
<1>. QED
  BY <1>1, <1>2, PTL DEF Spec

\* An event is freed once, by the coroutine whose call allocated it, whatever
\* order callbacks, cancel() and returns come in.
THEOREM EventsOwned == ASSUME Separate PROVE Spec => []OwnedOnce
<1>. USE PointerAssumption, CoroAssumption
<1>1. ReactorInv => OwnedOnce
  <2>. SUFFICES ASSUME ReactorInv, NEW e \in Event
                PROVE  IF e \in held THEN \E c \in Coro : Owners(e) = {c} ELSE Owners(e) = {}
    BY DEF OwnedOnce
  <2>1. Owners(e) = {c \in Coro : Has(c, e)}
    BY DEF Owners, Has
  <2>2. CASE e \in held
    BY <2>1, <2>2 DEF ReactorInv, HeldHad, HasUnique
  <2>3. CASE e \notin held
    BY <2>1, <2>3, HadHeld
  <2>. QED
    BY <2>2, <2>3
<1>. QED
  BY <1>1, ReactorInvariant, PTL

\* libev never holds a freed event and never calls back for a coroutine that
\* has ended.
THEOREM CallbacksOwned == ASSUME Separate PROVE Spec => []ArmedOwned
<1>. USE PointerAssumption, CoroAssumption
<1>1. ReactorInv => ArmedOwned
  <2>. SUFFICES ASSUME ReactorInv, NEW e \in Armed
                PROVE  e \in held /\ Owners(e) = {arg[e]} /\ Kind(arg[e]) # "gone"
    BY DEF ArmedOwned
  <2>1. e \in Event /\ ArmedMatches(e)
    BY DEF ReactorInv, TypeOK, ArmedHad
  <2>2. Owners(e) = {c \in Coro : Has(c, e)}
    BY DEF Owners, Has
  <2>3. Owners(e) = {arg[e]}
    BY <2>1, <2>2 DEF ReactorInv, HasUnique, ArmedMatches
  <2>4. Kind(arg[e]) # "gone"
    BY <2>1 DEF ReactorInv, CallsMatch, CallMatches, ArmedMatches, Has
  <2>. QED
    BY <2>1, <2>3, <2>4 DEF ArmedMatches
<1>. QED
  BY <1>1, ReactorInvariant, PTL

\* Whoever waits has an armed event that will wake it, but for a coroutine that
\* calls set_io again after libev disarmed its persistent event.
THEOREM WaitersWoken == ASSUME Separate PROVE Spec => []WaiterArmed
<1>. USE PointerAssumption, CoroAssumption
<1>1. ReactorInv => WaiterArmed
  BY DEF ReactorInv, TypeOK, WaitersArmed, WaiterArmed
<1>. QED
  BY <1>1, ReactorInvariant, PTL

\* The table, which decides when run() ends, has an entry exactly for each
\* coroutine that waits and each persistent event.
THEOREM RunSeesWaiters == ASSUME Separate PROVE Spec => []TableExact
<1>. USE PointerAssumption, CoroAssumption
<1>1. ReactorInv => TableExact
  BY DEF ReactorInv, TypeOK, CallsMatch, CallMatches, TableExact
<1>. QED
  BY <1>1, ReactorInvariant, PTL

\* What set_io takes for a persistent event is one, and the new call is for a
\* persistent event too: the comment in set_io is right for such programs.
THEOREM FoundPersistent == ASSUME Separate PROVE Spec => []ExistsPersistent
<1>. USE PointerAssumption, CoroAssumption
<1>1. ReactorInv => ExistsPersistent
  BY DEF ReactorInv, CallsMatch, CallMatches, ExistsPersistent
<1>. QED
  BY <1>1, ReactorInvariant, PTL

HIDE DEF Separate, Kind, Plain, Call, Kinds, Waiting, Returning, Armed, libev, InUser

-----------------------------------------------------------------------------
(* The sockets *)

\* The calls that wait at a connected or connecting socket.
Working == Receiving \cup Sending \cup {"connect"}

Directions == {"READ", "WRITE"}

Op == [name  : Working \cup {"accept", "none"},
       sock  : Sock \cup {Listener, Null},
       early : BOOLEAN, stuck : BOOLEAN, large : BOOLEAN, value : {"none"}]

Ops == [Coro -> Op]

SockTyped ==
  /\ net \in [Sock -> {"closed", "new", "pending", "up", "broken"}]
  /\ incoming \in [Sock -> {"nothing", "data", "eof"}]
  /\ room \subseteq Sock
  /\ Listener \in nonblock
  /\ op \in Ops
  /\ watched \in [Event -> [sock : Sock \cup {Listener}, dir : Directions] \cup {Null}]

\* A call in progress has its socket, is in the reactor until it is stuck, and
\* its event watches what the call is about.
OpMatches(c) ==
  /\ \/ op[c] = NoCall
     \/ op[c].name = "accept" /\ op[c].sock = Listener
     \/ op[c].name \in Working /\ op[c].sock \in Sock
  /\ op[c].stuck => (op[c].early \/ op[c].large) /\ op[c].name # "connect"
  /\ op[c].large => op[c].stuck /\ op[c].name \in Sending
  /\ op[c].name \in Working /\ ~op[c].stuck =>
       /\ call[c].kind = "io"
       /\ watched[call[c].event] = [sock |-> op[c].sock, dir |-> Dir(op[c].name)]

\* A system call at f would find nothing to do.
Blocked(f, dir) ==
  \/ net[f] = "pending"
  \/ net[f] = "up" /\ IF dir = "READ" THEN incoming[f] = "nothing" ELSE f \notin room

\* A wait that nothing has ended early is for an open socket, and is only over
\* when there is something to do, or was until a part of it was done.
WaitMatches(c) ==
  op[c].name \in Working /\ ~op[c].early /\ ~op[c].large =>
    /\ net[op[c].sock] \notin {"closed", "new"}
    /\ c \notin waiting => ~Blocked(op[c].sock, Dir(op[c].name))

SockInv == SockTyped /\ \A c \in Coro : OpMatches(c) /\ WaitMatches(c)

Told == ZeroHasReason /\ ConnectTells

-----------------------------------------------------------------------------
(* The sockets do with the reactor what Coreactor allows. *)

LEMMA SetEventWaits ==
  ASSUME NEW c \in Coro, NEW f, NEW dir, NEW persist \in BOOLEAN, NEW timed \in BOOLEAN,
         SetEvent(c, f, dir, persist, timed),
         IF persist THEN c \in Persistent ELSE c \in OneShot
  PROVE  Next
<1>1. PICK e \in Event : SetIo(c, e, persist, timed)
  BY DEF SetEvent
<1>2. Waits(c)
  BY <1>1 DEF Waits
<1> QED BY <1>2 DEF Next

LEMMA SocketSteps == NextSocket => [Next]_vars
<1>1. ASSUME NEW c \in Coro, Socket(c) PROVE [Next]_vars
  <2>1. ASSUME NEW f \in Sock, NEW name, NEW timed \in BOOLEAN, Begin(c, name, f, timed)
        PROVE  [Next]_vars
    <3>1. c \in OneShot
      BY <2>1, SockAssumption DEF Begin
    <3>2. UNCHANGED vars \/ SetEvent(c, f, Dir(name), FALSE, timed)
      BY <2>1 DEF Begin
    <3> QED BY <3>1, <3>2, SetEventWaits
  <2>2. ASSUME NEW f \in Sock, NEW timed \in BOOLEAN, Connect(c, f, timed)
        PROVE  [Next]_vars
    <3>1. c \in OneShot
      BY <2>2, SockAssumption DEF Connect
    <3>2. UNCHANGED vars \/ SetEvent(c, f, "WRITE", FALSE, timed)
      BY <2>2 DEF Connect
    <3> QED BY <3>1, <3>2, SetEventWaits
  <2>3. CASE Accept(c)
    BY <2>3, SetEventWaits DEF Accept
  <2>4. CASE Stop(c) \/ \E f \in Sock : Create(c, f) \/ Close(c, f)
    BY <2>4 DEF Stop, Create, Close
  <2> QED BY <1>1, <2>1, <2>2, <2>3, <2>4 DEF Socket
<1>2. ASSUME NEW c \in Coro, Others(c) PROVE [Next]_vars
  <2>1. CASE Yield(c) \/ End(c) \/ \E t \in Cancelled : Cancel(c, t)
    BY <2>1 DEF Next
  <2>2. ASSUME NEW e \in Event, NEW kind \in {"timer", "signal"}, c \in OneShot,
               SetAlone(c, e, kind)
        PROVE  [Next]_vars
    BY <2>2 DEF Next, Waits
  <2> QED BY <1>2, <2>1, <2>2 DEF Others
<1>3. ASSUME NEW c \in Coro, Behind(c) PROVE [Next]_vars
  BY <1>3 DEF Behind, Continued, Connected, Awake, Next
<1>4. ASSUME NEW c \in Coro, Unblocked(c) PROVE [Next]_vars
  BY <1>4 DEF Unblocked
<1>5. CASE Reactor1
  BY <1>5 DEF Reactor1, Next
<1>6. CASE Peer
  BY <1>6 DEF Peer
<1> QED BY <1>1, <1>2, <1>3, <1>4, <1>5, <1>6 DEF NextSocket

\* Whatever holds of the reactor with arbitrary users holds with the sockets.
THEOREM SocketsUseReactor == SpecSocket => Spec
<1>1. InitSocket => Init
  BY DEF InitSocket
<1>2. [NextSocket]_allVars => [Next]_vars
  BY SocketSteps DEF allVars
<1> QED BY <1>1, <1>2, PTL DEF SpecSocket, Spec

-----------------------------------------------------------------------------
(* What the helpers do. *)

LEMMA DirIsDirection == ASSUME NEW name PROVE Dir(name) \in Directions
  BY DEF Dir, Directions

\* What a system call meets, by what it would find to do.
LEMMA OutcomeMeets ==
  ASSUME SockTyped, NEW f \in Sock, NEW dir \in Directions
  PROVE  /\ Outcome(f, dir) \in {"some", "eof", "again", "error"}
         /\ Outcome(f, dir) = "again" <=> Blocked(f, dir)
         /\ Outcome(f, dir) = "eof" => dir = "READ" /\ incoming[f] = "eof"
<1>1. f # Listener
  BY SockAssumption
<1>2. CASE net[f] \in {"closed", "new", "broken"}
  BY <1>1, <1>2 DEF Outcome, Blocked
<1>3. CASE net[f] = "pending"
  BY <1>1, <1>3 DEF Outcome, Blocked
<1>4. CASE net[f] = "up" /\ dir = "READ"
  <2>1. Outcome(f, dir) = [nothing |-> "again", data |-> "some", eof |-> "eof"][incoming[f]]
    BY <1>1, <1>4 DEF Outcome
  <2>2. incoming[f] \in {"nothing", "data", "eof"}
    BY DEF SockTyped
  <2> QED BY <1>4, <2>1, <2>2 DEF Blocked
<1>5. CASE net[f] = "up" /\ dir = "WRITE"
  BY <1>1, <1>5 DEF Outcome, Blocked
<1> QED BY <1>2, <1>3, <1>4, <1>5 DEF SockTyped, Directions

\* Moving data takes work away only from those who wait for the same.
LEMMA MovedKeeps ==
  ASSUME SockTyped, NEW c, NEW name, NEW f, NEW outcome, Moved(c, name, f, outcome)
  PROVE  /\ net' = net
         /\ incoming' \in [Sock -> {"nothing", "data", "eof"}]
         /\ room' \subseteq Sock
         /\ outcome # "some" => incoming' = incoming /\ room' = room
         /\ \A g \in Sock, dir \in Directions :
              /\ ~Blocked(g, dir)
              /\ outcome # "some" \/ g # f \/ dir # Dir(name)
              => ~Blocked(g, dir)'
<1>1. net' = net
  BY DEF Moved
<1>2. /\ incoming' \in [Sock -> {"nothing", "data", "eof"}]
      /\ room' \subseteq Sock
      /\ outcome # "some" => incoming' = incoming /\ room' = room
      /\ \A g \in Sock : outcome # "some" \/ Dir(name) # "READ" \/ g # f => incoming'[g] = incoming[g]
      /\ \A g \in Sock : outcome # "some" \/ Dir(name) # "WRITE" \/ g # f => (g \in room' <=> g \in room)
  BY DEF Moved, SockTyped
<1>3. ASSUME NEW g \in Sock, NEW dir \in Directions, ~Blocked(g, dir),
             outcome # "some" \/ g # f \/ dir # Dir(name)
      PROVE  ~Blocked(g, dir)'
  <2>1. CASE dir = "READ"
    BY <1>1, <1>2, <1>3, <2>1 DEF Blocked
  <2>2. CASE dir = "WRITE"
    BY <1>1, <1>2, <1>3, <2>2 DEF Blocked
  <2> QED BY <2>1, <2>2 DEF Directions
<1> QED BY <1>1, <1>2, <1>3

\* What another coroutine does to a call: nothing, or its wait ends early.
LeftOrEarly(new, old) == new = old \/ (old.sock # Null /\ new = [old EXCEPT !.early = TRUE])

LEMMA OpEarly ==
  ASSUME NEW o \in Op
  PROVE  /\ [o EXCEPT !.early = TRUE] \in Op
         /\ [o EXCEPT !.early = TRUE].early = TRUE
         /\ [o EXCEPT !.early = TRUE].name = o.name /\ [o EXCEPT !.early = TRUE].sock = o.sock
         /\ [o EXCEPT !.early = TRUE].stuck = o.stuck /\ [o EXCEPT !.early = TRUE].large = o.large
  BY DEF Op

LEMMA OpStuck ==
  ASSUME NEW o \in Op
  PROVE  /\ [o EXCEPT !.stuck = TRUE] \in Op
         /\ [o EXCEPT !.stuck = TRUE].stuck = TRUE
         /\ [o EXCEPT !.stuck = TRUE].name = o.name /\ [o EXCEPT !.stuck = TRUE].sock = o.sock
         /\ [o EXCEPT !.stuck = TRUE].early = o.early /\ [o EXCEPT !.stuck = TRUE].large = o.large
  BY DEF Op

LEMMA OpPart ==
  ASSUME NEW o \in Op
  PROVE  /\ [o EXCEPT !.stuck = TRUE, !.large = TRUE] \in Op
         /\ [o EXCEPT !.stuck = TRUE, !.large = TRUE].stuck = TRUE
         /\ [o EXCEPT !.stuck = TRUE, !.large = TRUE].large = TRUE
         /\ [o EXCEPT !.stuck = TRUE, !.large = TRUE].name = o.name
         /\ [o EXCEPT !.stuck = TRUE, !.large = TRUE].sock = o.sock
  BY DEF Op

LEMMA OpValue ==
  ASSUME NEW o \in Op, NEW value
  PROVE  /\ [o EXCEPT !.value = value].value = value
         /\ [o EXCEPT !.value = value].name = o.name /\ [o EXCEPT !.value = value].sock = o.sock
         /\ [o EXCEPT !.value = value].early = o.early
  BY DEF Op

LEMMA OvertakenEarly ==
  ASSUME NEW ops \in Ops, NEW c, NEW f, NEW dir
  PROVE  /\ Overtaken(ops, c, f, dir) \in Ops
         /\ c \in Coro => Overtaken(ops, c, f, dir)[c] = ops[c]
         /\ \A d \in Coro : LeftOrEarly(Overtaken(ops, c, f, dir)[d], ops[d])
         /\ \A d \in Coro \ {c} :
              f # Null /\ ops[d].sock = f /\ Dir(ops[d].name) = dir
                => Overtaken(ops, c, f, dir)[d].early
  BY OpEarly DEF Overtaken, Ops, LeftOrEarly

LEMMA NoCallTyped ==
  NoCall \in Op
  BY DEF NoCall, Op

LEMMA CallOfTyped ==
  ASSUME NEW name \in Working \cup {"accept"}, NEW f \in Sock \cup {Listener}
  PROVE  /\ CallOf(name, f) \in Op
         /\ CallOf(name, f).name = name /\ CallOf(name, f).sock = f
         /\ CallOf(name, f).early = FALSE /\ CallOf(name, f).stuck = FALSE
         /\ CallOf(name, f).large = FALSE
  BY DEF CallOf, NoCall, Op

\* A call that goes on and was not ended early is what it was.
LEMMA StillWaiting ==
  ASSUME op \in Ops, NEW d \in Coro, OpMatches(d), LeftOrEarly(op'[d], op[d]),
         op[d].name \in Working, ~op'[d].early, ~op[d].large
  PROVE  op'[d] = op[d] /\ op[d].sock \in Sock
<1>1. op[d] \in Op
  BY DEF Ops
<1>2. op'[d] = op[d]
  BY <1>1, OpEarly DEF LeftOrEarly
<1>3. op[d].name # "accept" /\ op[d].name # "none"
  BY DEF Working, Receiving, Sending
<1>4. op[d] # NoCall
  BY <1>3 DEF NoCall
<1> QED BY <1>2, <1>3, <1>4 DEF OpMatches

\* A call that another coroutine leaves alone or ends early stays what it was.
LEMMA OthersKept ==
  ASSUME op \in Ops, op' \in Ops, NEW d \in Coro, OpMatches(d), WaitMatches(d),
         LeftOrEarly(op'[d], op[d]),
         op[d] # NoCall /\ call[d].kind = "io" =>
           call'[d] = call[d] /\ watched'[call[d].event] = watched[call[d].event],
         op[d].name \in Working /\ ~op'[d].early /\ ~op[d].large =>
           /\ net'[op[d].sock] \notin {"closed", "new"}
           /\ d \notin waiting' => ~Blocked(op[d].sock, Dir(op[d].name))'
  PROVE  OpMatches(d)' /\ WaitMatches(d)'
<1>1. CASE op'[d] = op[d]
  <2>1. op[d].name \in Working => op[d] # NoCall
    BY DEF NoCall, Working, Receiving, Sending
  <2>2. OpMatches(d)'
    BY <1>1, <2>1 DEF OpMatches
  <2>3. WaitMatches(d)'
    BY <1>1 DEF WaitMatches
  <2> QED BY <2>2, <2>3
<1>2. CASE op[d].sock # Null /\ op'[d] = [op[d] EXCEPT !.early = TRUE]
  <2>1. /\ op'[d].name = op[d].name /\ op'[d].sock = op[d].sock
        /\ op'[d].early = TRUE /\ op'[d].stuck = op[d].stuck /\ op'[d].large = op[d].large
    BY <1>2, OpEarly DEF Ops
  <2>2. op[d] # NoCall
    BY <1>2 DEF NoCall
  <2>3. OpMatches(d)'
    BY <2>1, <2>2 DEF OpMatches
  <2>4. WaitMatches(d)'
    BY <2>1 DEF WaitMatches
  <2> QED BY <2>3, <2>4
<1> QED BY <1>1, <1>2 DEF LeftOrEarly

-----------------------------------------------------------------------------
(* Beginning and ending a wait *)

LEMMA WaitBegun ==
  ASSUME Separate, ReactorInv, SockTyped, NEW c \in Coro,
         NEW f \in Sock \cup {Listener}, NEW dir \in Directions,
         NEW persist \in BOOLEAN, NEW timed \in BOOLEAN, SetEvent(c, f, dir, persist, timed)
  PROVE  /\ waiting' = waiting \cup {c}
         /\ watched' \in [Event -> [sock : Sock \cup {Listener}, dir : Directions] \cup {Null}]
         /\ \A d \in Coro \ {c} :
              /\ call'[d] = call[d]
              /\ call[d].kind = "io" => watched'[call[d].event] = watched[call[d].event]
         /\ c \in OneShot /\ ~persist =>
              /\ call'[c].kind = "io"
              /\ watched'[call'[c].event] = [sock |-> f, dir |-> dir]
<1>1. PICK e \in Event :
        /\ SetIo(c, e, persist, timed)
        /\ watched' = IF _triggers[c] = Absent
                        THEN [watched EXCEPT ![e] = [sock |-> f, dir |-> dir]] ELSE watched
  BY DEF SetEvent
<1>2. /\ waiting' = waiting \cup {c} /\ e \notin held /\ InUser(c)
      /\ call' = [call EXCEPT ![c] = Call(IF persist THEN "persist" ELSE "io", e, _triggers[c] # Absent)]
  BY <1>1 DEF SetIo, Park, Heap!Malloc
<1>3. /\ \A d \in Coro \ {c} : call'[d] = call[d]
      /\ call'[c] = Call(IF persist THEN "persist" ELSE "io", e, _triggers[c] # Absent)
  BY <1>2 DEF ReactorInv, TypeOK
<1>4. watched' \in [Event -> [sock : Sock \cup {Listener}, dir : Directions] \cup {Null}]
  BY <1>1 DEF SockTyped
<1>5. ASSUME NEW d \in Coro \ {c}, call[d].kind = "io"
      PROVE  watched'[call[d].event] = watched[call[d].event]
  <2>1. call[d].event \in held /\ call[d].event # e
    BY <1>2, <1>5 DEF ReactorInv, CallsMatch, CallMatches, Kind, Returning
  <2> QED BY <1>1, <2>1 DEF SockTyped
<1>6. ASSUME c \in OneShot, ~persist
      PROVE  /\ call'[c].kind = "io"
             /\ watched'[call'[c].event] = [sock |-> f, dir |-> dir]
  <2>1. _triggers[c] = Absent
    BY <1>2, <1>6, UserEntry DEF Separate
  <2>2. call'[c].kind = "io" /\ call'[c].event = e
    BY <1>3, <1>6 DEF Call
  <2> QED BY <1>1, <2>1, <2>2 DEF SockTyped
<1> QED BY <1>2, <1>3, <1>4, <1>5, <1>6

\* ... of a coroutine that waits once.
LEMMA CallBegun ==
  ASSUME Separate, ReactorInv, SockTyped, NEW c \in OneShot,
         NEW f \in Sock, NEW dir \in Directions,
         NEW timed \in BOOLEAN, SetEvent(c, f, dir, FALSE, timed)
  PROVE  /\ waiting' = waiting \cup {c}
         /\ watched' \in [Event -> [sock : Sock \cup {Listener}, dir : Directions] \cup {Null}]
         /\ \A d \in Coro \ {c} :
              /\ call'[d] = call[d]
              /\ call[d].kind = "io" => watched'[call[d].event] = watched[call[d].event]
         /\ call'[c].kind = "io"
         /\ watched'[call'[c].event] = [sock |-> f, dir |-> dir]
<1>1. PICK persist \in BOOLEAN : ~persist /\ SetEvent(c, f, dir, persist, timed)
  OBVIOUS
<1>2. f \in Sock \cup {Listener} /\ c \in Coro
  BY CoroAssumption
<1> QED BY <1>1, <1>2, WaitBegun

\* ... of an acceptor.
LEMMA ListenBegun ==
  ASSUME Separate, ReactorInv, SockTyped, NEW c \in Coro,
         NEW timed \in BOOLEAN, SetEvent(c, Listener, "READ", TRUE, timed)
  PROVE  /\ waiting' = waiting \cup {c}
         /\ watched' \in [Event -> [sock : Sock \cup {Listener}, dir : Directions] \cup {Null}]
         /\ \A d \in Coro \ {c} :
              /\ call'[d] = call[d]
              /\ call[d].kind = "io" => watched'[call[d].event] = watched[call[d].event]
<1>1. Listener \in Sock \cup {Listener} /\ "READ" \in Directions
  BY DEF Directions
<1>2. PICK f \in Sock \cup {Listener}, dir \in Directions, persist \in BOOLEAN :
        SetEvent(c, f, dir, persist, timed)
  BY <1>1
<1>3. /\ waiting' = waiting \cup {c}
      /\ watched' \in [Event -> [sock : Sock \cup {Listener}, dir : Directions] \cup {Null}]
      /\ \A d \in Coro \ {c} :
           /\ call'[d] = call[d]
           /\ call[d].kind = "io" => watched'[call[d].event] = watched[call[d].event]
      /\ c \in OneShot /\ ~persist =>
           /\ call'[c].kind = "io"
           /\ watched'[call'[c].event] = [sock |-> f, dir |-> dir]
  BY <1>2, WaitBegun
<1> QED BY <1>3

LEMMA WaitOver ==
  ASSUME ReactorInv, ReactorInv', SockTyped, NEW c \in Coro, Return(c), Forgotten(c)
  PROVE  /\ waiting' = waiting /\ c \notin waiting
         /\ watched' \in [Event -> [sock : Sock \cup {Listener}, dir : Directions] \cup {Null}]
         /\ \A d \in Coro \ {c} :
              /\ call'[d] = call[d]
              /\ call[d].kind = "io" => watched'[call[d].event] = watched[call[d].event]
<1>1. /\ waiting' = waiting /\ running = c
      /\ call' = [call EXCEPT ![c] = Plain("user")]
  BY DEF Return
<1>2. c \notin waiting
  BY <1>1 DEF ReactorInv, WaitersArmed
<1>3. \A d \in Coro \ {c} : call'[d] = call[d]
  BY <1>1 DEF ReactorInv, TypeOK
<1>4. watched' \in [Event -> [sock : Sock \cup {Listener}, dir : Directions] \cup {Null}]
  BY DEF Forgotten, SockTyped
<1>5. ASSUME NEW d \in Coro \ {c}, call[d].kind = "io"
      PROVE  watched'[call[d].event] = watched[call[d].event]
  <2>1. call[d].event \in held' /\ call[d].event \in Event
    BY <1>3, <1>5 DEF ReactorInv, CallsMatch, CallMatches, Kind, Returning, TypeOK
  <2> QED BY <2>1 DEF Forgotten
<1> QED BY <1>1, <1>2, <1>3, <1>4, <1>5

\* A step that returns nothing tells nothing wrong.
LEMMA NothingTold == ASSUME returned' = NoCall PROVE Told'
  BY DEF Told, ZeroHasReason, ConnectTells, NoCall, Receiving, Sending

\* Who runs user code and has no call in progress is not about to be told.
LEMMA IdleFine ==
  ASSUME NEW c \in Coro, op'[c] = NoCall
  PROVE  OpMatches(c)' /\ WaitMatches(c)'
  BY DEF OpMatches, WaitMatches, NoCall, Working, Receiving, Sending

\* A coroutine that begins to wait for an open socket.
LEMMA BegunFine ==
  ASSUME NEW c \in Coro, NEW name \in Working, NEW f \in Sock, op'[c] = CallOf(name, f),
         c \in waiting', net'[f] \notin {"closed", "new"},
         call'[c].kind = "io",
         watched'[call'[c].event] = [sock |-> f, dir |-> Dir(name)]
  PROVE  OpMatches(c)' /\ WaitMatches(c)'
<1>1. /\ op'[c].name = name /\ op'[c].sock = f
      /\ op'[c].early = FALSE /\ op'[c].stuck = FALSE /\ op'[c].large = FALSE
  <2>1. name \in Working \cup {"accept"} /\ f \in Sock \cup {Listener}
    OBVIOUS
  <2>2. /\ CallOf(name, f).name = name /\ CallOf(name, f).sock = f
        /\ CallOf(name, f).early = FALSE /\ CallOf(name, f).stuck = FALSE
        /\ CallOf(name, f).large = FALSE
    BY <2>1, CallOfTyped
  <2> QED BY <2>2
<1>2. OpMatches(c)'
  BY <1>1 DEF OpMatches
<1>3. WaitMatches(c)'
  BY <1>1 DEF WaitMatches
<1> QED BY <1>2, <1>3

-----------------------------------------------------------------------------
(* Reading, writing and accepting *)

LEMMA BeginStep ==
  ASSUME Separate, ReactorInv, SockInv, NEW c \in Coro, NEW f \in Sock,
         NEW name \in Receiving \cup Sending, NEW timed \in BOOLEAN, Begin(c, name, f, timed)
  PROVE  SockInv' /\ Told'
<1> DEFINE dir == Dir(name)
           outcome == Outcome(f, dir)
<1>1. /\ op[c] = NoCall /\ c \in OneShot
      /\ net[f] \in {"up", "broken"}
      /\ nonblock \subseteq nonblock'
  BY SockAssumption DEF Begin, Calls, Idle
<1>2. dir \in Directions /\ name \in Working /\ (dir = "READ" => name \in Receiving)
  BY DEF Dir, Directions, Working, Receiving, Sending
<1>3. /\ outcome \in {"some", "eof", "again", "error"}
      /\ outcome = "again" <=> Blocked(f, dir)
      /\ outcome = "eof" => dir = "READ" /\ incoming[f] = "eof"
  BY <1>2, OutcomeMeets DEF SockInv
<1>4. op \in Ops /\ f # Null
  BY SockAssumption DEF SockInv, SockTyped, Ops
<1>7. /\ CallOf(name, f) \in Op
       /\ CallOf(name, f).name = name /\ CallOf(name, f).sock = f
  <2>1. name \in Working \cup {"accept"} /\ f \in Sock \cup {Listener}
    BY <1>2
  <2> QED BY <2>1, CallOfTyped
<1> HIDE DEF dir, outcome
<1>5. CASE name \in TryFirst /\ outcome # "again"
  <2>1. /\ Moved(c, name, f, outcome)
        /\ op' = IF outcome = "some" THEN Overtaken(op, c, f, dir) ELSE op
        /\ returned' = [CallOf(name, f) EXCEPT !.value = Value(name, outcome)]
        /\ UNCHANGED <<vars, watched>>
    BY <1>5 DEF Begin, Returns, outcome, dir
  <2>2. /\ op' \in Ops /\ op'[c] = NoCall
        /\ \A d \in Coro : LeftOrEarly(op'[d], op[d])
        /\ \A d \in Coro \ {c} : outcome = "some" /\ op[d].sock = f /\ Dir(op[d].name) = dir => op'[d].early
    BY <1>1, <1>4, <2>1, OvertakenEarly DEF LeftOrEarly
  <2>3. /\ net' = net /\ room' \subseteq Sock
        /\ incoming' \in [Sock -> {"nothing", "data", "eof"}]
        /\ outcome # "some" => incoming' = incoming
        /\ \A g \in Sock, dr \in Directions :
             ~Blocked(g, dr) /\ (outcome # "some" \/ g # f \/ dr # dir) => ~Blocked(g, dr)'
    BY <2>1, MovedKeeps DEF SockInv, dir
  <2>4. SockTyped'
    BY <1>1, <2>1, <2>2, <2>3 DEF SockInv, SockTyped, Ops
  <2>5. UNCHANGED <<call, waiting>>
    BY <2>1 DEF vars
  <2>6. ASSUME NEW d \in Coro PROVE OpMatches(d)' /\ WaitMatches(d)'
    <3>1. CASE d = c
      BY <2>2, <3>1, IdleFine
    <3>2. CASE d # c
      <4>1. OpMatches(d) /\ WaitMatches(d) /\ LeftOrEarly(op'[d], op[d])
        BY <2>2 DEF SockInv
      <4>2. ASSUME op[d].name \in Working, ~op'[d].early, ~op[d].large
            PROVE  /\ net'[op[d].sock] \notin {"closed", "new"}
                   /\ d \notin waiting' => ~Blocked(op[d].sock, Dir(op[d].name))'
        <5>1. op[d] = op'[d] /\ op[d].sock \in Sock
          BY <1>4, <4>1, <4>2, StillWaiting
        <5>2. outcome # "some" \/ op[d].sock # f \/ Dir(op[d].name) # dir
          BY <2>2, <3>2, <4>2
        <5>3. d \notin waiting => ~Blocked(op[d].sock, Dir(op[d].name))'
          BY <2>3, <4>1, <4>2, <5>1, <5>2, DirIsDirection DEF WaitMatches
        <5> QED BY <2>3, <2>5, <4>1, <4>2, <5>1, <5>3 DEF WaitMatches
      <4> QED BY <1>4, <2>1, <2>2, <2>5, <4>1, <4>2, OthersKept
    <3> QED BY <3>1, <3>2
  <2>7. /\ returned'.name = name /\ returned'.sock = f /\ returned'.value = Value(name, outcome)
    BY <1>7, <2>1, OpValue
  <2>8. Told'
    <3>1. name # "connect"
      BY DEF Receiving, Sending
    <3>2. returned'.value = "zero" => outcome = "eof"
      BY <1>3, <1>5, <2>7 DEF Value
    <3> QED BY <1>2, <1>3, <2>3, <2>7, <3>1, <3>2 DEF Told, ZeroHasReason, ConnectTells
  <2> QED BY <2>4, <2>6, <2>8 DEF SockInv
<1>6. CASE ~(name \in TryFirst /\ outcome # "again")
  <2>1. /\ SetEvent(c, f, dir, FALSE, timed)
        /\ op' = [op EXCEPT ![c] = CallOf(name, f)]
        /\ returned' = NoCall
        /\ UNCHANGED <<net, incoming, room, clients, stopped, api>>
    BY <1>6 DEF Begin, outcome, dir
  <2>2. /\ waiting' = waiting \cup {c}
        /\ watched' \in [Event -> [sock : Sock \cup {Listener}, dir : Directions] \cup {Null}]
        /\ \A d \in Coro \ {c} :
             /\ call'[d] = call[d]
             /\ call[d].kind = "io" => watched'[call[d].event] = watched[call[d].event]
        /\ call'[c].kind = "io"
        /\ watched'[call'[c].event] = [sock |-> f, dir |-> dir]
    BY <1>1, <1>2, <2>1, CallBegun DEF SockInv
  <2>3. op' \in Ops /\ op'[c] = CallOf(name, f) /\ \A d \in Coro \ {c} : op'[d] = op[d]
    BY <1>4, <1>7, <2>1 DEF Ops
  <2>4. SockTyped'
    BY <1>1, <2>1, <2>2, <2>3 DEF SockInv, SockTyped, Ops
  <2>5. ASSUME NEW d \in Coro PROVE OpMatches(d)' /\ WaitMatches(d)'
    <3>1. CASE d = c
      <4>1. c \in waiting' /\ net'[f] \notin {"closed", "new"}
        BY <1>1, <2>1, <2>2
      <4> QED BY <1>2, <2>2, <2>3, <3>1, <4>1, BegunFine DEF dir
    <3>2. CASE d # c
      <4>1. OpMatches(d) /\ WaitMatches(d) /\ LeftOrEarly(op'[d], op[d]) /\ op'[d] = op[d]
        BY <2>3, <3>2 DEF SockInv, LeftOrEarly
      <4>2. ASSUME op[d].name \in Working, ~op'[d].early, ~op[d].large
            PROVE  /\ net'[op[d].sock] \notin {"closed", "new"}
                   /\ d \notin waiting' => ~Blocked(op[d].sock, Dir(op[d].name))'
        BY <2>1, <2>2, <4>1, <4>2 DEF WaitMatches, Blocked
      <4> QED BY <1>4, <2>2, <2>3, <3>2, <4>1, <4>2, OthersKept
    <3> QED BY <3>1, <3>2
  <2> QED BY <2>1, <2>4, <2>5, NothingTold DEF SockInv
<1> QED BY <1>5, <1>6

\* The system call behind a wait, or one that was stuck.
LEMMA AttemptStep ==
  ASSUME SockInv, NEW c \in Coro, op[c].sock # Null, op[c].name # "connect",
         NEW outcome, outcome = Outcome(op[c].sock, Dir(op[c].name)), Attempt(c, outcome),
         c \notin waiting \/ op[c].early \/ op[c].large, op[c].large => outcome # "again",
         waiting' = waiting,
         watched' \in [Event -> [sock : Sock \cup {Listener}, dir : Directions] \cup {Null}],
         \A d \in Coro \ {c} :
           /\ call'[d] = call[d]
           /\ call[d].kind = "io" => watched'[call[d].event] = watched[call[d].event]
  PROVE  SockInv' /\ Told'
<1> DEFINE f == op[c].sock
           name == op[c].name
           dir == Dir(name)
<1>1. /\ op \in Ops /\ OpMatches(c) /\ WaitMatches(c) /\ dir \in Directions
      /\ \/ name = "accept" /\ f = Listener
         \/ name \in Receiving \cup Sending /\ f \in Sock
  <2>1. op \in Ops /\ OpMatches(c) /\ WaitMatches(c) /\ dir \in Directions
    BY DirIsDirection DEF SockInv, SockTyped
  <2>2. op[c] # NoCall
    BY DEF NoCall
  <2> QED BY <2>1, <2>2 DEF OpMatches, Working
<1>2. ASSUME f \in Sock, outcome = "again" PROVE op[c].early
  <2>1. name \in Working
    BY <1>1, <1>2, SockAssumption DEF Working
  <2>2. Blocked(f, dir)
    <3>1. SockTyped
      BY DEF SockInv
    <3>2. Outcome(f, dir) = "again" <=> Blocked(f, dir)
      BY <1>1, <1>2, <3>1, OutcomeMeets
    <3> QED BY <1>2, <3>2
  <2> QED BY <1>1, <1>2, <2>1, <2>2 DEF WaitMatches
<1>3. CASE /\ outcome = "again" /\ Blocks(name, f)
           /\ op' = [op EXCEPT ![c].stuck = TRUE]
           /\ returned' = NoCall
           /\ UNCHANGED sockets
  <2>1. /\ op' = [op EXCEPT ![c].stuck = TRUE]
        /\ returned' = NoCall
        /\ UNCHANGED sockets
    BY <1>3
  <2>2. f # Listener
    BY <1>3 DEF Blocks, SockInv, SockTyped
  <2>3. op[c].early
    BY <1>1, <1>2, <1>3, <2>2
  <2>4. /\ op' \in Ops /\ op'[c].early = TRUE /\ op'[c].stuck = TRUE
        /\ op'[c].name = name /\ op'[c].sock = f /\ op'[c].large = op[c].large
        /\ \A d \in Coro \ {c} : op'[d] = op[d]
    <3>1. /\ [op[c] EXCEPT !.stuck = TRUE] \in Op
          /\ [op[c] EXCEPT !.stuck = TRUE].stuck = TRUE
          /\ [op[c] EXCEPT !.stuck = TRUE].early = op[c].early
          /\ [op[c] EXCEPT !.stuck = TRUE].large = op[c].large
          /\ [op[c] EXCEPT !.stuck = TRUE].name = name
          /\ [op[c] EXCEPT !.stuck = TRUE].sock = f
      BY <1>1, OpStuck DEF Ops
    <3>2. op' = [op EXCEPT ![c] = [op[c] EXCEPT !.stuck = TRUE]]
      BY <2>1
    <3> QED BY <1>1, <2>3, <3>1, <3>2 DEF Ops
  <2>5. SockTyped'
    BY <2>1, <2>4 DEF sockets, SockInv, SockTyped, Ops
  <2>6. ASSUME NEW d \in Coro PROVE OpMatches(d)' /\ WaitMatches(d)'
    <3>1. CASE d = c
      BY <1>1, <2>4, <3>1, SockAssumption DEF OpMatches, WaitMatches, Working
    <3>2. CASE d # c
      <4>1. OpMatches(d) /\ WaitMatches(d) /\ LeftOrEarly(op'[d], op[d]) /\ op'[d] = op[d]
        BY <2>4, <3>2 DEF SockInv, LeftOrEarly
      <4>2. ASSUME op[d].name \in Working, ~op'[d].early, ~op[d].large
            PROVE  /\ net'[op[d].sock] \notin {"closed", "new"}
                   /\ d \notin waiting' => ~Blocked(op[d].sock, Dir(op[d].name))'
        BY <2>1, <4>1, <4>2 DEF WaitMatches, Blocked, sockets
      <4> QED BY <1>1, <2>4, <3>2, <4>1, <4>2, OthersKept
    <3> QED BY <3>1, <3>2
  <2> QED BY <2>1, <2>5, <2>6, NothingTold DEF SockInv
<1>4. CASE /\ op' = Overtaken([op EXCEPT ![c] = NoCall], c,
                              IF outcome = "some" THEN f ELSE Null, dir)
           /\ Moved(c, name, f, outcome)
           /\ \/ Returns(c, op[c], Value(name, outcome))
              \/ outcome = "error" /\ Returns(c, op[c], "some")
           /\ UNCHANGED nonblock
  <2> DEFINE ops == [op EXCEPT ![c] = NoCall]
             taken == IF outcome = "some" THEN f ELSE Null
  <2>1. /\ op' = Overtaken(ops, c, taken, dir)
        /\ Moved(c, name, f, outcome)
        /\ nonblock' = nonblock
    BY <1>4
  <2>2. ops \in Ops /\ ops[c] = NoCall /\ \A d \in Coro \ {c} : ops[d] = op[d]
    BY <1>1, NoCallTyped DEF Ops
  <2> HIDE DEF ops
  <2>3. /\ op' \in Ops /\ op'[c] = NoCall
        /\ \A d \in Coro \ {c} : LeftOrEarly(op'[d], op[d])
        /\ \A d \in Coro \ {c} : outcome = "some" /\ op[d].sock = f /\ Dir(op[d].name) = dir => op'[d].early
    BY <2>1, <2>2, OvertakenEarly
  <2>4. /\ net' = net /\ room' \subseteq Sock
        /\ incoming' \in [Sock -> {"nothing", "data", "eof"}]
        /\ outcome # "some" => incoming' = incoming
        /\ \A g \in Sock, dr \in Directions :
             ~Blocked(g, dr) /\ (outcome # "some" \/ g # f \/ dr # dir) => ~Blocked(g, dr)'
    BY <2>1, MovedKeeps DEF SockInv
  <2>5. SockTyped'
    BY <2>1, <2>3, <2>4 DEF SockInv, SockTyped, Ops
  <2>6. ASSUME NEW d \in Coro PROVE OpMatches(d)' /\ WaitMatches(d)'
    <3>1. CASE d = c
      BY <2>3, <3>1, IdleFine
    <3>2. CASE d # c
      <4>1. OpMatches(d) /\ WaitMatches(d) /\ LeftOrEarly(op'[d], op[d])
        BY <2>3, <3>2 DEF SockInv
      <4>2. ASSUME op[d].name \in Working, ~op'[d].early, ~op[d].large
            PROVE  /\ net'[op[d].sock] \notin {"closed", "new"}
                   /\ d \notin waiting' => ~Blocked(op[d].sock, Dir(op[d].name))'
        <5>1. op[d] = op'[d] /\ op[d].sock \in Sock
          BY <1>1, <4>1, <4>2, StillWaiting
        <5>2. outcome # "some" \/ op[d].sock # f \/ Dir(op[d].name) # dir
          BY <2>3, <3>2, <4>2
        <5>3. d \notin waiting => ~Blocked(op[d].sock, Dir(op[d].name))'
          BY <2>4, <4>1, <4>2, <5>1, <5>2, DirIsDirection DEF WaitMatches
        <5> QED BY <2>4, <4>1, <4>2, <5>1, <5>3 DEF WaitMatches
      <4> QED BY <1>1, <2>3, <3>2, <4>1, <4>2, OthersKept
    <3> QED BY <3>1, <3>2
  <2>7. /\ returned'.name = name /\ returned'.sock = f /\ returned'.early = op[c].early
        /\ returned'.value = "zero" => Value(name, outcome) = "zero"
    <3>1. op[c] \in Op
      BY <1>1 DEF Ops
    <3>2. PICK value : /\ returned' = [op[c] EXCEPT !.value = value]
                       /\ value = "zero" => Value(name, outcome) = "zero"
      BY <1>4 DEF Returns
    <3> QED BY <3>1, <3>2, OpValue
  <2>8. ZeroHasReason'
    <3> SUFFICES ASSUME name \in Receiving \cup Sending, Value(name, outcome) = "zero", ~op[c].early
                 PROVE  name \in Receiving /\ incoming'[f] = "eof"
      BY <2>7 DEF ZeroHasReason
    <3>1. f \in Sock
      BY <1>1 DEF Receiving, Sending
    <3>2. /\ outcome \in {"some", "eof", "again", "error"}
          /\ outcome = "eof" => dir = "READ" /\ incoming[f] = "eof"
      BY <1>1, <3>1, OutcomeMeets DEF SockInv
    <3>3. outcome # "again"
      BY <1>2, <3>1
    <3>4. outcome = "eof"
      BY <3>2, <3>3 DEF Value
    <3> QED BY <2>4, <3>2, <3>4 DEF Dir, Receiving, Sending
  <2>9. ConnectTells'
    BY <2>7 DEF ConnectTells
  <2> QED BY <2>5, <2>6, <2>8, <2>9 DEF SockInv, Told
\* Only part of what it sends fits.
<1>5. CASE /\ outcome = "some" /\ name \in Sending
           /\ op' = Overtaken([op EXCEPT ![c] = [@ EXCEPT !.stuck = TRUE, !.large = TRUE]],
                              c, f, "WRITE")
           /\ Moved(c, name, f, outcome)
           /\ UNCHANGED nonblock
           /\ returned' = NoCall
  <2> DEFINE part == [op[c] EXCEPT !.stuck = TRUE, !.large = TRUE]
             ops == [op EXCEPT ![c] = part]
  <2>1. op' = Overtaken(ops, c, f, dir) /\ dir = "WRITE" /\ f \in Sock
    BY <1>1, <1>5, SockAssumption DEF Dir, Receiving, Sending
  <2>2. /\ part \in Op /\ part.stuck = TRUE /\ part.large = TRUE
        /\ part.name = name /\ part.sock = f
    BY <1>1, OpPart DEF Ops
  <2> HIDE DEF part
  <2>3. ops \in Ops /\ ops[c] = part /\ \A d \in Coro \ {c} : ops[d] = op[d]
    BY <1>1, <2>2 DEF Ops
  <2> HIDE DEF ops
  <2>4. /\ op' \in Ops /\ op'[c] = part
        /\ \A d \in Coro \ {c} : LeftOrEarly(op'[d], op[d])
        /\ \A d \in Coro \ {c} : op[d].sock = f /\ Dir(op[d].name) = dir => op'[d].early
    BY <2>1, <2>3, OvertakenEarly, SockAssumption
  <2>5. /\ net' = net /\ room' \subseteq Sock
        /\ incoming' \in [Sock -> {"nothing", "data", "eof"}]
        /\ \A g \in Sock, dr \in Directions :
             ~Blocked(g, dr) /\ (g # f \/ dr # dir) => ~Blocked(g, dr)'
    BY <1>5, MovedKeeps DEF SockInv
  <2>6. SockTyped'
    BY <1>5, <2>4, <2>5 DEF SockInv, SockTyped, Ops
  <2>7. ASSUME NEW d \in Coro PROVE OpMatches(d)' /\ WaitMatches(d)'
    <3>1. CASE d = c
      BY <1>5, <2>1, <2>2, <2>4, <3>1 DEF OpMatches, WaitMatches, Working, Sending
    <3>2. CASE d # c
      <4>1. OpMatches(d) /\ WaitMatches(d) /\ LeftOrEarly(op'[d], op[d])
        BY <2>4, <3>2 DEF SockInv
      <4>2. ASSUME op[d].name \in Working, ~op'[d].early, ~op[d].large
            PROVE  /\ net'[op[d].sock] \notin {"closed", "new"}
                   /\ d \notin waiting' => ~Blocked(op[d].sock, Dir(op[d].name))'
        <5>1. op[d] = op'[d] /\ op[d].sock \in Sock
          BY <1>1, <4>1, <4>2, StillWaiting
        <5>2. op[d].sock # f \/ Dir(op[d].name) # dir
          BY <2>4, <3>2, <4>2
        <5>3. d \notin waiting => ~Blocked(op[d].sock, Dir(op[d].name))'
          BY <2>5, <4>1, <4>2, <5>1, <5>2, DirIsDirection DEF WaitMatches
        <5> QED BY <2>5, <4>1, <4>2, <5>1, <5>3 DEF WaitMatches
      <4> QED BY <1>1, <2>4, <3>2, <4>1, <4>2, OthersKept
    <3> QED BY <3>1, <3>2
  <2> QED BY <1>5, <2>6, <2>7, NothingTold DEF SockInv
<1> QED BY <1>3, <1>4, <1>5 DEF Attempt, Stuck

LEMMA ContinuedStep ==
  ASSUME ReactorInv, ReactorInv', SockInv, NEW c \in Coro, Continued(c)
  PROVE  SockInv' /\ Told'
<1>1. /\ op[c].sock # Null /\ op[c].name # "connect"
      /\ Return(c) /\ Forgotten(c)
      /\ Attempt(c, Outcome(op[c].sock, Dir(op[c].name)))
      /\ ~op[c].large
  BY DEF Continued, SockInv, OpMatches
<1> QED BY <1>1, WaitOver, AttemptStep DEF SockInv

LEMMA UnblockedStep ==
  ASSUME ReactorInv, SockInv, NEW c \in Coro, Unblocked(c)
  PROVE  SockInv' /\ Told'
<1>1. /\ op[c].stuck /\ (op[c].early \/ op[c].large) /\ op[c].name # "connect"
      /\ Outcome(op[c].sock, Dir(op[c].name)) # "again"
      /\ Attempt(c, Outcome(op[c].sock, Dir(op[c].name)))
      /\ UNCHANGED <<vars, watched>>
  BY DEF Unblocked, SockInv, OpMatches
<1>2. op[c] # NoCall /\ op[c].sock # Null
  <2>1. op[c] # NoCall
    BY <1>1 DEF NoCall
  <2> QED BY <2>1, SockAssumption DEF SockInv, OpMatches
<1>3. /\ UNCHANGED <<call, waiting>>
      /\ watched' \in [Event -> [sock : Sock \cup {Listener}, dir : Directions] \cup {Null}]
  BY <1>1 DEF vars, SockInv, SockTyped
<1> QED BY <1>1, <1>2, <1>3, AttemptStep

-----------------------------------------------------------------------------
(* The rest *)

\* A step that begins and returns no call.
LEMMA KeptStep ==
  ASSUME SockInv, SockTyped', returned' = NoCall,
         \A d \in Coro :
           /\ LeftOrEarly(op'[d], op[d])
           /\ op[d] # NoCall /\ call[d].kind = "io" =>
                call'[d] = call[d] /\ watched'[call[d].event] = watched[call[d].event]
           /\ op[d].name \in Working /\ ~op'[d].early /\ ~op[d].large =>
                /\ net'[op[d].sock] \notin {"closed", "new"}
                /\ d \notin waiting' => ~Blocked(op[d].sock, Dir(op[d].name))'
  PROVE  SockInv' /\ Told'
  BY OthersKept, NothingTold DEF SockInv, SockTyped

LEMMA ConnectStep ==
  ASSUME Separate, ReactorInv, SockInv, NEW c \in Coro, NEW f \in Sock, NEW timed \in BOOLEAN,
         Connect(c, f, timed)
  PROVE  SockInv' /\ Told'
<1>1. /\ op[c] = NoCall /\ c \in OneShot /\ net[f] = "new"
      /\ UNCHANGED <<incoming, room, clients, stopped, api>>
  BY SockAssumption DEF Connect, Calls, Idle
<1>2. PICK to \in {"up", "broken", "pending"} :
        /\ net' = [net EXCEPT ![f] = to]
        /\ nonblock' = IF to = "up" THEN nonblock \ {f} ELSE nonblock \cup {f}
        /\ IF to = "pending"
             THEN /\ SetEvent(c, f, "WRITE", FALSE, timed)
                  /\ op' = [op EXCEPT ![c] = CallOf("connect", f)]
                  /\ returned' = NoCall
             ELSE /\ Returns(c, CallOf("connect", f), IF to = "up" THEN "zero" ELSE "error")
                  /\ UNCHANGED <<vars, watched, op>>
  BY DEF Connect
<1>3. /\ net' \in [Sock -> {"closed", "new", "pending", "up", "broken"}]
      /\ net'[f] = to /\ \A g \in Sock \ {f} : net'[g] = net[g]
      /\ Listener \in nonblock'
  BY <1>2, SockAssumption DEF SockInv, SockTyped
<1>4. /\ "connect" \in Working /\ "connect" \in Working \cup {"accept"}
      /\ f \in Sock \cup {Listener} /\ Dir("connect") = "WRITE" /\ "WRITE" \in Directions
  BY DEF Working, Dir, Receiving, Sending, Directions
<1>5. CallOf("connect", f) \in Op /\ CallOf("connect", f).name = "connect"
      /\ CallOf("connect", f).sock = f
  BY <1>4, CallOfTyped
<1>6. op \in Ops /\ SockTyped
  BY DEF SockInv, SockTyped
\* Nobody else has a call at f that goes on.
<1>7. ASSUME NEW d \in Coro, OpMatches(d), WaitMatches(d), op[d].name \in Working,
             op'[d] = op[d], ~op[d].early, ~op[d].large,
             d \notin waiting' => d \notin waiting
      PROVE  /\ net'[op[d].sock] \notin {"closed", "new"}
             /\ d \notin waiting' => ~Blocked(op[d].sock, Dir(op[d].name))'
  <2>1. op[d].sock \in Sock \ {f}
    BY <1>1, <1>6, <1>7, StillWaiting DEF WaitMatches, LeftOrEarly
  <2>2. net'[op[d].sock] = net[op[d].sock]
    BY <1>3, <2>1
  <2> QED BY <1>1, <1>7, <2>2 DEF WaitMatches, Blocked
<1>8. CASE to = "pending"
  <2>1. /\ SetEvent(c, f, "WRITE", FALSE, timed)
        /\ op' = [op EXCEPT ![c] = CallOf("connect", f)]
        /\ returned' = NoCall
    BY <1>2, <1>8
  <2>2. /\ waiting' = waiting \cup {c}
        /\ watched' \in [Event -> [sock : Sock \cup {Listener}, dir : Directions] \cup {Null}]
        /\ \A d \in Coro \ {c} :
             /\ call'[d] = call[d]
             /\ call[d].kind = "io" => watched'[call[d].event] = watched[call[d].event]
        /\ call'[c].kind = "io"
        /\ watched'[call'[c].event] = [sock |-> f, dir |-> "WRITE"]
    BY <1>1, <1>4, <1>6, <2>1, CallBegun
  <2>3. op' \in Ops /\ op'[c] = CallOf("connect", f) /\ \A d \in Coro \ {c} : op'[d] = op[d]
    BY <1>5, <1>6, <2>1 DEF Ops
  <2>4. SockTyped'
    BY <1>1, <1>3, <2>2, <2>3 DEF SockInv, SockTyped
  <2>5. ASSUME NEW d \in Coro PROVE OpMatches(d)' /\ WaitMatches(d)'
    <3>1. CASE d = c
      <4>1. c \in waiting' /\ net'[f] \notin {"closed", "new"}
        BY <1>3, <1>8, <2>2
      <4> QED BY <1>4, <2>2, <2>3, <3>1, <4>1, BegunFine
    <3>2. CASE d # c
      <4>1. OpMatches(d) /\ WaitMatches(d) /\ LeftOrEarly(op'[d], op[d]) /\ op'[d] = op[d]
        BY <2>3, <3>2 DEF SockInv, LeftOrEarly
      <4> QED BY <1>6, <1>7, <2>2, <2>3, <3>2, <4>1, OthersKept
    <3> QED BY <3>1, <3>2
  <2> QED BY <2>1, <2>4, <2>5, NothingTold DEF SockInv
<1>9. CASE to # "pending"
  <2>1. /\ returned' = [CallOf("connect", f) EXCEPT !.value = IF to = "up" THEN "zero" ELSE "error"]
        /\ UNCHANGED <<vars, watched, op>>
    BY <1>2, <1>9 DEF Returns
  <2>2. SockTyped'
    BY <1>1, <1>3, <2>1 DEF SockInv, SockTyped
  <2>3. UNCHANGED <<call, waiting>>
    BY <2>1 DEF vars
  <2>4. ASSUME NEW d \in Coro PROVE OpMatches(d)' /\ WaitMatches(d)'
    <3>1. OpMatches(d) /\ WaitMatches(d) /\ LeftOrEarly(op'[d], op[d]) /\ op'[d] = op[d]
      BY <2>1 DEF SockInv, LeftOrEarly
    <3> QED BY <1>6, <1>7, <2>1, <2>3, <3>1, OthersKept
  <2>5. /\ returned'.name = "connect" /\ returned'.sock = f
        /\ returned'.value = IF to = "up" THEN "zero" ELSE "error"
    BY <1>5, <2>1, OpValue
  <2>6. Told'
    <3>1. "connect" \notin Receiving \cup Sending
      BY DEF Receiving, Sending
    <3>2. (returned'.value = "zero") = (net'[f] = "up")
      BY <1>3, <2>5
    <3> QED BY <2>5, <3>1, <3>2 DEF Told, ZeroHasReason, ConnectTells
  <2> QED BY <2>2, <2>4, <2>6 DEF SockInv
<1> QED BY <1>8, <1>9

LEMMA ConnectedStep ==
  ASSUME ReactorInv, ReactorInv', SockInv, NEW c \in Coro, Connected(c)
  PROVE  SockInv' /\ Told'
<1> DEFINE f == op[c].sock
<1>1. /\ op[c].name = "connect" /\ Return(c) /\ Forgotten(c)
      /\ nonblock' = IF Failed(f) THEN nonblock ELSE nonblock \ {f}
      /\ returned' = [op[c] EXCEPT !.value = IF Failed(f) THEN "error" ELSE "zero"]
      /\ op' = [op EXCEPT ![c] = NoCall]
      /\ UNCHANGED <<net, incoming, room, clients, stopped, api>>
  BY DEF Connected, Returns
<1>2. SockTyped /\ op \in Ops /\ op[c] \in Op /\ OpMatches(c) /\ WaitMatches(c)
  BY DEF SockInv, SockTyped, Ops
<1>3. "connect" \in Working /\ Dir("connect") = "WRITE" /\ "connect" \notin Receiving \cup Sending
  BY DEF Working, Dir, Receiving, Sending
<1>4. f \in Sock
  <2>1. op[c] # NoCall
    BY <1>1 DEF NoCall
  <2> QED BY <1>1, <1>2, <2>1 DEF OpMatches
<1>5. /\ waiting' = waiting /\ c \notin waiting
      /\ watched' \in [Event -> [sock : Sock \cup {Listener}, dir : Directions] \cup {Null}]
      /\ \A d \in Coro \ {c} :
           /\ call'[d] = call[d]
           /\ call[d].kind = "io" => watched'[call[d].event] = watched[call[d].event]
  BY <1>1, <1>2, WaitOver
<1>6. op' \in Ops /\ op'[c] = NoCall /\ \A d \in Coro \ {c} : op'[d] = op[d]
  BY <1>1, <1>2, NoCallTyped DEF Ops
<1>7. Listener \in nonblock'
  BY <1>1, <1>4, SockAssumption DEF SockInv, SockTyped
<1>8. SockTyped'
  BY <1>1, <1>2, <1>5, <1>6, <1>7 DEF SockTyped
<1>9. ASSUME NEW d \in Coro PROVE OpMatches(d)' /\ WaitMatches(d)'
  <2>1. CASE d = c
    BY <1>6, <2>1, IdleFine
  <2>2. CASE d # c
    <3>1. OpMatches(d) /\ WaitMatches(d) /\ LeftOrEarly(op'[d], op[d]) /\ op'[d] = op[d]
      BY <1>6, <2>2 DEF SockInv, LeftOrEarly
    <3>2. ASSUME op[d].name \in Working, ~op'[d].early, ~op[d].large
          PROVE  /\ net'[op[d].sock] \notin {"closed", "new"}
                 /\ d \notin waiting' => ~Blocked(op[d].sock, Dir(op[d].name))'
      BY <1>1, <1>5, <3>1, <3>2 DEF WaitMatches, Blocked
    <3> QED BY <1>2, <1>5, <1>6, <2>2, <3>1, <3>2, OthersKept
  <2> QED BY <2>1, <2>2
<1>10. /\ returned'.name = "connect" /\ returned'.sock = f /\ returned'.early = op[c].early
       /\ returned'.value = IF Failed(f) THEN "error" ELSE "zero"
  BY <1>1, <1>2, OpValue
<1>11. ~op[c].early => (~Failed(f) <=> net'[f] = "up")
  <2>1. ~op[c].large
    BY <1>1, <1>2 DEF OpMatches, Sending
  <2> QED BY <1>1, <1>2, <1>3, <1>4, <1>5, <2>1 DEF WaitMatches, Blocked, Failed, SockTyped
<1>12. Told'
  BY <1>3, <1>10, <1>11 DEF Told, ZeroHasReason, ConnectTells
<1> QED BY <1>8, <1>9, <1>12 DEF SockInv

LEMMA AcceptStep ==
  ASSUME Separate, ReactorInv, SockInv, NEW c \in Coro, Accept(c)
  PROVE  SockInv' /\ Told'
<1>1. /\ op[c] = NoCall
      /\ \E timed \in BOOLEAN : SetEvent(c, Listener, "READ", TRUE, timed)
      /\ op' = [op EXCEPT ![c] = CallOf("accept", Listener)]
      /\ returned' = NoCall
      /\ UNCHANGED sockets
  BY DEF Accept, Calls, Idle
<1>2. "accept" \in Working \cup {"accept"} /\ Listener \in Sock \cup {Listener}
      /\ "READ" \in Directions /\ "accept" \notin Working
  BY DEF Working, Receiving, Sending, Directions
<1>3. /\ CallOf("accept", Listener) \in Op
      /\ CallOf("accept", Listener).name = "accept" /\ CallOf("accept", Listener).sock = Listener
      /\ CallOf("accept", Listener).early = FALSE /\ CallOf("accept", Listener).stuck = FALSE
      /\ CallOf("accept", Listener).large = FALSE
  BY <1>2, CallOfTyped
<1>4. SockTyped /\ op \in Ops
  BY DEF SockInv, SockTyped
<1>5. /\ waiting' = waiting \cup {c}
      /\ watched' \in [Event -> [sock : Sock \cup {Listener}, dir : Directions] \cup {Null}]
      /\ \A d \in Coro \ {c} :
           /\ call'[d] = call[d]
           /\ call[d].kind = "io" => watched'[call[d].event] = watched[call[d].event]
  BY <1>1, <1>4, ListenBegun
<1>6. op' \in Ops /\ op'[c] = CallOf("accept", Listener) /\ \A d \in Coro \ {c} : op'[d] = op[d]
  BY <1>1, <1>3, <1>4 DEF Ops
<1>7. SockTyped'
  BY <1>1, <1>4, <1>5, <1>6 DEF SockTyped, sockets
<1>8. ASSUME NEW d \in Coro PROVE OpMatches(d)' /\ WaitMatches(d)'
  <2>1. CASE d = c
    BY <1>2, <1>3, <1>6, <2>1 DEF OpMatches, WaitMatches
  <2>2. CASE d # c
    <3>1. OpMatches(d) /\ WaitMatches(d) /\ LeftOrEarly(op'[d], op[d]) /\ op'[d] = op[d]
      BY <1>6, <2>2 DEF SockInv, LeftOrEarly
    <3>2. ASSUME op[d].name \in Working, ~op'[d].early, ~op[d].large
          PROVE  /\ net'[op[d].sock] \notin {"closed", "new"}
                 /\ d \notin waiting' => ~Blocked(op[d].sock, Dir(op[d].name))'
      BY <1>1, <1>5, <3>1, <3>2 DEF WaitMatches, Blocked, sockets
    <3> QED BY <1>4, <1>5, <1>6, <2>2, <3>1, <3>2, OthersKept
  <2> QED BY <2>1, <2>2
<1> QED BY <1>1, <1>7, <1>8, NothingTold DEF SockInv

LEMMA StopStep ==
  ASSUME SockInv, NEW c \in Coro, Stop(c)
  PROVE  SockInv' /\ Told'
<1>1. /\ returned' = NoCall
      /\ UNCHANGED <<vars, watched, op, net, incoming, room, nonblock, clients, api>>
  BY DEF Stop
<1>2. UNCHANGED <<call, waiting>>
  BY <1>1 DEF vars
<1>3. SockTyped'
  BY <1>1 DEF SockInv, SockTyped
<1>4. ASSUME NEW d \in Coro, op[d].name \in Working, ~op'[d].early, ~op[d].large
      PROVE  /\ net'[op[d].sock] \notin {"closed", "new"}
             /\ d \notin waiting' => ~Blocked(op[d].sock, Dir(op[d].name))'
  BY <1>1, <1>2, <1>4 DEF SockInv, WaitMatches, Blocked
<1> QED BY <1>1, <1>2, <1>3, <1>4, KeptStep DEF LeftOrEarly

LEMMA CreateStep ==
  ASSUME SockInv, NEW c \in Coro, NEW f \in Sock, Create(c, f)
  PROVE  SockInv' /\ Told'
<1>1. /\ \A d \in Coro : op[d].sock # f
      /\ net' = [net EXCEPT ![f] = "new"]
      /\ returned' = NoCall
      /\ UNCHANGED <<vars, watched, op, incoming, room, nonblock, clients, stopped, api>>
  BY DEF Create
<1>2. UNCHANGED <<call, waiting>>
  BY <1>1 DEF vars
<1>3. SockTyped'
  BY <1>1 DEF SockInv, SockTyped
<1>4. ASSUME NEW d \in Coro, op[d].name \in Working, ~op'[d].early, ~op[d].large
      PROVE  /\ net'[op[d].sock] \notin {"closed", "new"}
             /\ d \notin waiting' => ~Blocked(op[d].sock, Dir(op[d].name))'
  <2>1. op[d].sock \in Sock /\ OpMatches(d) /\ WaitMatches(d) /\ ~op[d].early
    BY <1>1, <1>4, StillWaiting DEF SockInv, SockTyped, LeftOrEarly
  <2>2. net'[op[d].sock] = net[op[d].sock]
    BY <1>1, <2>1 DEF SockInv, SockTyped
  <2> QED BY <1>1, <1>2, <1>4, <2>1, <2>2 DEF WaitMatches, Blocked
<1> QED BY <1>1, <1>2, <1>3, <1>4, KeptStep DEF LeftOrEarly

\* Whoever waits at a socket that is closed is told early.
LEMMA CloseStep ==
  ASSUME SockInv, NEW c \in Coro, NEW f \in Sock, Close(c, f)
  PROVE  SockInv' /\ Told'
<1> DEFINE once == Overtaken(op, c, f, "READ")
<1>1. /\ op[c] = NoCall /\ net[f] # "closed"
      /\ net' = [net EXCEPT ![f] = "closed"]
      /\ incoming' = [incoming EXCEPT ![f] = "nothing"]
      /\ room' = room \ {f} /\ nonblock' = nonblock \ {f}
      /\ op' = Overtaken(once, c, f, "WRITE")
      /\ returned' = NoCall
      /\ UNCHANGED <<vars, watched, clients, stopped, api>>
  BY DEF Close, Calls, Idle
<1>2. op \in Ops /\ f # Null
  BY SockAssumption DEF SockInv, SockTyped
<1>3. /\ once \in Ops /\ once[c] = NoCall
      /\ \A d \in Coro : LeftOrEarly(once[d], op[d])
      /\ \A d \in Coro \ {c} : op[d].sock = f /\ Dir(op[d].name) = "READ" => once[d].early
  BY <1>1, <1>2, OvertakenEarly
<1> HIDE DEF once
<1>4. /\ op' \in Ops /\ op'[c] = NoCall
      /\ \A d \in Coro : LeftOrEarly(op'[d], once[d])
      /\ \A d \in Coro \ {c} : once[d].sock = f /\ Dir(once[d].name) = "WRITE" => op'[d].early
  BY <1>1, <1>2, <1>3, OvertakenEarly
<1>5. ASSUME NEW d \in Coro
      PROVE  /\ LeftOrEarly(op'[d], op[d])
             /\ d # c /\ op[d].sock = f => op'[d].early
  <2>1. op[d] \in Op /\ once[d] \in Op
    BY <1>2, <1>3 DEF Ops
  <2>2. /\ LeftOrEarly(once[d], op[d]) /\ LeftOrEarly(op'[d], once[d])
        /\ once[d].sock = op[d].sock /\ once[d].name = op[d].name
        /\ once[d].early => op'[d].early
    BY <1>3, <1>4, <2>1, OpEarly DEF LeftOrEarly
  <2>3. LeftOrEarly(op'[d], op[d])
    BY <2>1, <2>2, OpEarly DEF LeftOrEarly, Op
  <2>4. d # c /\ op[d].sock = f => op'[d].early
    <3>1. Dir(op[d].name) \in {"READ", "WRITE"}
      BY DEF Dir
    <3> QED BY <1>3, <1>4, <2>2, <3>1
  <2> QED BY <2>3, <2>4
<1>6. UNCHANGED <<call, waiting>>
  BY <1>1 DEF vars
<1>7. SockTyped'
  <2>1. Listener \in nonblock'
    BY <1>1, SockAssumption DEF SockInv, SockTyped
  <2> QED BY <1>1, <1>4, <2>1 DEF SockInv, SockTyped
<1>8. ASSUME NEW d \in Coro, op[d].name \in Working, ~op'[d].early, ~op[d].large
      PROVE  /\ net'[op[d].sock] \notin {"closed", "new"}
             /\ d \notin waiting' => ~Blocked(op[d].sock, Dir(op[d].name))'
  <2>1. op'[d] = op[d] /\ op[d].sock \in Sock /\ WaitMatches(d) /\ ~op[d].early
    BY <1>2, <1>5, <1>8, StillWaiting DEF SockInv
  <2>2. d # c /\ op[d].sock # f
    BY <1>1, <1>5, <1>8 DEF NoCall, Working, Receiving, Sending
  <2>3. /\ net'[op[d].sock] = net[op[d].sock] /\ incoming'[op[d].sock] = incoming[op[d].sock]
        /\ op[d].sock \in room' <=> op[d].sock \in room
    BY <1>1, <2>1, <2>2 DEF SockInv, SockTyped
  <2> QED BY <1>6, <1>8, <2>1, <2>3 DEF WaitMatches, Blocked
<1> QED BY <1>1, <1>5, <1>6, <1>7, <1>8, KeptStep

\* The peer gives waits something to do and never takes it away.
LEMMA PeerStep == ASSUME SockInv, Peer PROVE SockInv' /\ Told'
<1>1. /\ returned' = NoCall
      /\ UNCHANGED <<vars, watched, op, nonblock, stopped, api>>
  BY DEF Peer
<1>2. UNCHANGED <<call, waiting>>
  BY <1>1 DEF vars
<1>3. /\ net' \in [Sock -> {"closed", "new", "pending", "up", "broken"}]
      /\ incoming' \in [Sock -> {"nothing", "data", "eof"}]
      /\ room' \subseteq Sock
      /\ \A g \in Sock :
           /\ net[g] \notin {"closed", "new"} => net'[g] \notin {"closed", "new"}
           /\ net[g] # "pending" => net'[g] # "pending"
           /\ net[g] # "pending" /\ net'[g] = "up" =>
                /\ net[g] = "up"
                /\ incoming'[g] = "nothing" => incoming[g] = "nothing"
                /\ g \in room => g \in room'
  BY DEF Peer, SockInv, SockTyped
<1>4. SockTyped'
  BY <1>1, <1>3 DEF SockInv, SockTyped
<1>5. ASSUME NEW d \in Coro, op[d].name \in Working, ~op'[d].early, ~op[d].large
      PROVE  /\ net'[op[d].sock] \notin {"closed", "new"}
             /\ d \notin waiting' => ~Blocked(op[d].sock, Dir(op[d].name))'
  <2>1. op[d].sock \in Sock /\ OpMatches(d) /\ WaitMatches(d) /\ ~op[d].early
    BY <1>1, <1>5, StillWaiting DEF SockInv, SockTyped, LeftOrEarly
  <2> QED BY <1>1, <1>2, <1>3, <1>5, <2>1 DEF WaitMatches, Blocked
<1> QED BY <1>1, <1>2, <1>4, <1>5, KeptStep DEF LeftOrEarly

\* Every variable of the sockets stays, no call is begun or returned, and what
\* waits goes on waiting.
LEMMA QuietStep ==
  ASSUME SockInv, UNCHANGED <<sockets, watched, op>>, returned' = NoCall,
         \A d \in Coro : op[d] # NoCall /\ call[d].kind = "io" => call'[d] = call[d],
         \A d \in Coro : op[d] # NoCall => (d \in waiting => d \in waiting')
  PROVE  SockInv' /\ Told'
<1>1. SockTyped'
  BY DEF SockInv, SockTyped, sockets
<1>2. ASSUME NEW d \in Coro, op[d].name \in Working, ~op'[d].early, ~op[d].large
      PROVE  /\ net'[op[d].sock] \notin {"closed", "new"}
             /\ d \notin waiting' => ~Blocked(op[d].sock, Dir(op[d].name))'
  <2>1. op[d] # NoCall
    BY <1>2 DEF NoCall, Working, Receiving, Sending
  <2> QED BY <1>2, <2>1 DEF SockInv, WaitMatches, Blocked, sockets
<1> QED BY <1>1, <1>2, KeptStep DEF LeftOrEarly

\* The call of t is over early.
LEMMA EndedStep ==
  ASSUME SockInv, UNCHANGED <<sockets, watched, call>>, returned' = NoCall,
         NEW t \in Coro, Ended(t), waiting' = waiting \ {t}
  PROVE  SockInv' /\ Told'
<1>1. SockTyped /\ op \in Ops /\ op[t] \in Op
  BY DEF SockInv, SockTyped, Ops
<1>2. /\ op' \in Ops
      /\ \A d \in Coro \ {t} : op'[d] = op[d]
      /\ IF op[t].sock = Null THEN op'[t] = op[t] ELSE op'[t] = [op[t] EXCEPT !.early = TRUE]
  <2>1. CASE op[t].sock = Null
    BY <1>1, <2>1 DEF Ended
  <2>2. CASE op[t].sock # Null
    <3>1. op' = [op EXCEPT ![t] = [op[t] EXCEPT !.early = TRUE]]
      BY <2>2 DEF Ended
    <3>2. [op[t] EXCEPT !.early = TRUE] \in Op
      BY <1>1, OpEarly
    <3> QED BY <1>1, <2>2, <3>1, <3>2 DEF Ops
  <2> QED BY <2>1, <2>2
<1>3. SockTyped'
  BY <1>1, <1>2 DEF SockTyped, sockets
<1>4. \A d \in Coro : LeftOrEarly(op'[d], op[d])
  BY <1>2 DEF LeftOrEarly
<1>5. ASSUME NEW d \in Coro, op[d].name \in Working, ~op'[d].early, ~op[d].large
      PROVE  /\ net'[op[d].sock] \notin {"closed", "new"}
             /\ d \notin waiting' => ~Blocked(op[d].sock, Dir(op[d].name))'
  <2>1. op'[d] = op[d] /\ op[d].sock \in Sock /\ WaitMatches(d)
    BY <1>1, <1>4, <1>5, StillWaiting DEF SockInv
  <2>2. d # t
    BY <1>1, <1>2, <1>5, <2>1, SockAssumption, OpEarly
  <2> QED BY <1>5, <2>1, <2>2 DEF WaitMatches, Blocked, sockets
<1> QED BY <1>3, <1>4, <1>5, KeptStep

\* A descriptor that is ready when its callback comes is so for what is tried then.
LEMMA ReadyStep ==
  ASSUME ReactorInv, SockInv, UNCHANGED <<sockets, watched, op, call>>, returned' = NoCall,
         NEW e \in Event, FireIo(e), Ready(e)
  PROVE  SockInv' /\ Told'
<1>1. /\ e \in Armed /\ waiting' = waiting \ {arg[e]}
  BY DEF FireIo, Wake, Armed
<1>2. SockTyped' /\ SockTyped
  BY DEF SockInv, SockTyped, sockets
<1>3. ASSUME NEW d \in Coro, op[d].name \in Working, ~op'[d].early, ~op[d].large
      PROVE  /\ net'[op[d].sock] \notin {"closed", "new"}
             /\ d \notin waiting' => ~Blocked(op[d].sock, Dir(op[d].name))'
  <2>1. op[d].sock \in Sock /\ OpMatches(d) /\ WaitMatches(d) /\ ~op[d].early
    BY <1>3, StillWaiting DEF SockInv, SockTyped, LeftOrEarly
  <2>2. CASE d # arg[e] \/ d \notin waiting
    BY <1>1, <1>3, <2>1, <2>2 DEF WaitMatches, Blocked, sockets
  <2>3. CASE d = arg[e]
    <3>1. /\ call[d].kind = "io"
          /\ watched[call[d].event] = [sock |-> op[d].sock, dir |-> Dir(op[d].name)]
      BY <1>3, <2>1 DEF OpMatches
    <3>2. Has(d, e)
      BY <1>1, <2>3 DEF ReactorInv, ArmedHad, ArmedMatches
    <3>3. call[d].event = e
      BY <3>1, <3>2, PointerAssumption DEF Has, ReactorInv, CallsMatch, CallMatches, Kind, Returning
    <3>4. watched[e].sock = op[d].sock /\ watched[e].dir = Dir(op[d].name) /\ watched[e] # Null
      <4>1. [sock |-> op[d].sock, dir |-> Dir(op[d].name)] \in [sock : Sock \cup {Listener}, dir : {"READ", "WRITE"}]
        BY <2>1, DirIsDirection DEF Directions
      <4> QED BY <3>1, <3>3, <4>1, SockAssumption
    <3>5. Outcome(op[d].sock, Dir(op[d].name)) # "again"
      BY <3>4 DEF Ready
    <3>6. ~Blocked(op[d].sock, Dir(op[d].name))
      BY <1>2, <2>1, <3>5, OutcomeMeets, DirIsDirection
    <3> QED BY <1>3, <2>1, <3>6 DEF WaitMatches, Blocked, sockets
  <2> QED BY <2>2, <2>3
<1> QED BY <1>2, <1>3, KeptStep DEF LeftOrEarly

\* The end of set_timeout and set_signal.
LEMMA AwakeStep ==
  ASSUME ReactorInv, SockInv, NEW c \in Coro, Awake(c)
  PROVE  SockInv' /\ Told'
<1>1. /\ op[c] = NoCall /\ returned' = NoCall
      /\ UNCHANGED <<sockets, watched, op>>
      /\ waiting' = waiting
      /\ call' = [call EXCEPT ![c] = Plain("user")]
  BY DEF Awake, Return
<1>2. \A d \in Coro : op[d] # NoCall => call'[d] = call[d]
  BY <1>1 DEF ReactorInv, TypeOK
<1> QED BY <1>1, <1>2, QuietStep

\* The reactor goes on: only its dispatch ends waits.
LEMMA Reactor1Step ==
  ASSUME ReactorInv, SockInv, Reactor1
  PROVE  SockInv' /\ Told'
<1>1. returned' = NoCall /\ UNCHANGED <<sockets, watched>>
  BY DEF Reactor1
<1>2. ASSUME (Run /\ op[Reactor] = NoCall) \/ LoopYield \/ LoopTest, UNCHANGED op
      PROVE  SockInv' /\ Told'
  <2>1. /\ waiting' = waiting
        /\ \E kind : call' = [call EXCEPT ![Reactor] = Plain(kind)]
        /\ op[Reactor] = NoCall \/ call[Reactor].kind \in {"dispatch", "loop"}
    BY <1>2 DEF Run, LoopYield, LoopTest, Dispatching, Kind
  <2>2. \A d \in Coro : op[d] # NoCall /\ call[d].kind = "io" => call'[d] = call[d]
    BY <2>1 DEF ReactorInv, TypeOK
  <2> QED BY <1>1, <1>2, <2>1, <2>2, QuietStep
<1>3. ASSUME NEW c \in Coro, Resume(c), UNCHANGED op PROVE SockInv' /\ Told'
  BY <1>1, <1>3, QuietStep DEF Resume
<1>4. ASSUME NEW e \in Event, FireIo(e), Ready(e), UNCHANGED op PROVE SockInv' /\ Told'
  <2>1. UNCHANGED call
    BY <1>4 DEF FireIo
  <2> QED BY <1>1, <1>4, <2>1, ReadyStep
<1>5. ASSUME NEW e \in Event, FireIo(e) \/ FireError(e) \/ FireTimer(e), Ended(arg[e])
      PROVE  SockInv' /\ Told'
  <2>1. /\ e \in Armed /\ waiting' = waiting \ {arg[e]}
        /\ UNCHANGED call
    BY <1>5 DEF FireIo, FireError, FireTimer, Wake, Armed
  <2>2. arg[e] \in Coro
    BY <2>1 DEF ReactorInv, ArmedHad, ArmedMatches
  <2> QED BY <1>1, <1>5, <2>1, <2>2, EndedStep
<1> QED BY <1>2, <1>3, <1>4, <1>5 DEF Reactor1, Idle

LEMMA OthersStep ==
  ASSUME ReactorInv, SockInv, NEW c \in Coro, Others(c)
  PROVE  SockInv' /\ Told'
<1>1. op[c] = NoCall /\ returned' = NoCall /\ UNCHANGED sockets
  BY DEF Others, Idle
<1>2. ASSUME Yield(c) \/ End(c), UNCHANGED <<op, watched>> PROVE SockInv' /\ Told'
  <2>1. /\ waiting' = waiting
        /\ \A d \in Coro : d # c => call'[d] = call[d]
    BY <1>2 DEF Yield, End, ReactorInv, TypeOK
  <2> QED BY <1>1, <1>2, <2>1, QuietStep
<1>3. ASSUME NEW t \in Cancelled, Cancel(c, t), Ended(t), UNCHANGED watched
      PROVE  SockInv' /\ Told'
  <2>1. t \in Coro
    BY CoroAssumption
  <2>2. waiting' = waiting \ {t} /\ UNCHANGED call
    BY <1>3 DEF Cancel
  <2> QED BY <1>1, <1>3, <2>1, <2>2, EndedStep
<1>4. ASSUME NEW e \in Event, NEW kind, SetAlone(c, e, kind), UNCHANGED <<op, watched>>
      PROVE  SockInv' /\ Told'
  <2>1. /\ waiting' = waiting \cup {c}
        /\ \A d \in Coro : d # c => call'[d] = call[d]
    BY <1>4 DEF SetAlone, Park, ReactorInv, TypeOK
  <2> QED BY <1>1, <1>4, <2>1, QuietStep
<1> QED BY <1>2, <1>3, <1>4 DEF Others

-----------------------------------------------------------------------------
(* All steps together *)

LEMMA SockInvInit == InitSocket => SockInv /\ Told
<1> SUFFICES ASSUME InitSocket PROVE SockInv /\ Told
  OBVIOUS
<1>1. op = [c \in Coro |-> NoCall] /\ op \in Ops
  BY NoCallTyped DEF InitSocket, Ops
<1>2. SockTyped
  BY <1>1 DEF InitSocket, SockTyped
<1>3. \A c \in Coro : OpMatches(c) /\ WaitMatches(c)
  BY <1>1 DEF OpMatches, WaitMatches, NoCall, Working, Receiving, Sending
<1>4. Told
  BY DEF InitSocket, Told, ZeroHasReason, ConnectTells, NoCall, Receiving, Sending
<1> QED BY <1>2, <1>3, <1>4 DEF SockInv

LEMMA SocketStep ==
  ASSUME Separate, ReactorInv, ReactorInv', SockInv, Told, [NextSocket]_allVars
  PROVE  SockInv' /\ Told'
<1>1. CASE Reactor1
  BY <1>1, Reactor1Step
<1>2. CASE Peer
  BY <1>2, PeerStep
<1>3. ASSUME NEW c \in Coro, Socket(c) PROVE SockInv' /\ Told'
  <2>1. ASSUME NEW f \in Sock, NEW name \in api \cap (Receiving \cup Sending), NEW timed \in BOOLEAN,
               Begin(c, name, f, timed)
        PROVE  SockInv' /\ Told'
    BY <2>1, BeginStep
  <2>2. ASSUME NEW f \in Sock, NEW timed \in BOOLEAN, Connect(c, f, timed) PROVE SockInv' /\ Told'
    BY <2>2, ConnectStep
  <2>3. ASSUME NEW f \in Sock, Create(c, f) PROVE SockInv' /\ Told'
    BY <2>3, CreateStep
  <2>4. ASSUME NEW f \in Sock, Close(c, f) PROVE SockInv' /\ Told'
    BY <2>4, CloseStep
  <2>5. CASE Accept(c)
    BY <2>5, AcceptStep
  <2>6. CASE Stop(c)
    BY <2>6, StopStep
  <2> QED BY <1>3, <2>1, <2>2, <2>3, <2>4, <2>5, <2>6 DEF Socket
<1>4. ASSUME NEW c \in Coro, Others(c) PROVE SockInv' /\ Told'
  BY <1>4, OthersStep
<1>5. ASSUME NEW c \in Coro, Behind(c) PROVE SockInv' /\ Told'
  BY <1>5, ContinuedStep, ConnectedStep, AwakeStep DEF Behind
<1>6. ASSUME NEW c \in Coro, Unblocked(c) PROVE SockInv' /\ Told'
  BY <1>6, UnblockedStep
<1>7. CASE UNCHANGED allVars
  <2>1. UNCHANGED <<call, waiting, net, incoming, room, nonblock, watched, op, returned>>
    BY <1>7 DEF allVars, vars, sockets
  <2>2. SockTyped' /\ \A d \in Coro : OpMatches(d)' /\ WaitMatches(d)'
    BY <2>1 DEF SockInv, SockTyped, OpMatches, WaitMatches, Blocked
  <2>3. Told'
    BY <2>1 DEF Told, ZeroHasReason, ConnectTells
  <2> QED BY <2>2, <2>3 DEF SockInv
<1> QED BY <1>1, <1>2, <1>3, <1>4, <1>5, <1>6, <1>7 DEF NextSocket

\* In every reachable state of the sockets a call in progress watches what it
\* is about, a wait that was not ended early is only over when the system call
\* will find something to do, and what the last call returned is justified.
THEOREM SocketInvariant ==
  ASSUME Separate PROVE SpecSocket => [](ReactorInv /\ SockInv /\ Told)
<1>1. InitSocket => ReactorInv /\ SockInv /\ Told
  BY ReactorInvInit, SockInvInit DEF InitSocket
<1>2. ReactorInv /\ SockInv /\ Told /\ [NextSocket]_allVars => (ReactorInv /\ SockInv /\ Told)'
  <2>1. ASSUME ReactorInv, [NextSocket]_allVars PROVE ReactorInv'
    <3>1. [Next]_vars
      BY <2>1, SocketSteps DEF allVars
    <3> QED BY <2>1, <3>1, ReactorInvStep
  <2> QED BY <2>1, SocketStep
<1> QED BY <1>1, <1>2, PTL DEF SpecSocket

\* A read or write that returns 0 without an end of file was overtaken or not
\* ended by genuine readiness, whatever the sockets, callers and peers.
THEOREM ZeroIsExplained == ASSUME Separate PROVE SpecSocket => []ZeroHasReason
  BY SocketInvariant, PTL DEF Told

\* connect tells whether the socket is connected, if its wait ended with genuine
\* readiness.
THEOREM ConnectIsRight == ASSUME Separate PROVE SpecSocket => []ConnectTells
  BY SocketInvariant, PTL DEF Told

\* A system call blocks the thread only behind a wait that ended early, or when
\* it has sent what there was room for.
THEOREM BlocksEarly == ASSUME Separate PROVE SpecSocket => []BlocksOnlyEarly
<1>1. SockInv => BlocksOnlyEarly
  BY DEF SockInv, OpMatches, BlocksOnlyEarly
<1> QED BY <1>1, SocketInvariant, PTL

\* What the reactor keeps true of events and waits, it does for the sockets.
THEOREM ReactorServesSockets ==
  ASSUME Separate
  PROVE  SpecSocket => [](OwnedOnce /\ ArmedOwned /\ WaiterArmed /\ TableExact /\ ExistsPersistent)
  BY SocketsUseReactor, EventsOwned, CallbacksOwned, WaitersWoken, RunSeesWaiters, FoundPersistent, PTL
=============================================================================
