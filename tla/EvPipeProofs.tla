---------------------------- MODULE EvPipeProofs ----------------------------
(***************************************************************************)
(* No wake-up of a libev loop is lost, for any number of watchers, signals *)
(* and senders and any size of the pipe, if the stores of the loop are     *)
(* seen by the others in the order of the program.                         *)
(***************************************************************************)
EXTENDS EvPipe, TLAPS

Flags  == {"async", "sig"}
Points ==
  {"user", "want", "check", "poll", "unwant", "skipped", "read", "unskip", "scan",
   "invoke"} \cup Flags

\* What a sender may be at, with the watcher that it sends to.
Busy  == {"test", "set", "skip", "wanted", "clear", "write"}
Sends == [pc : Busy, of : Source]

Typed ==
  /\ raised \in [Source -> BOOLEAN] /\ flag \in [Flags -> BOOLEAN]
  /\ pipe_write_skipped \in BOOLEAN /\ pipe_write_wanted \in BOOLEAN
  /\ postfork \in BOOLEAN /\ waits \in BOOLEAN
  /\ pipe \in 0..PipeSize
  /\ sender \in [Sender -> Sends \cup {Idle}]
  /\ loop \in Points /\ back \in {"want", "invoke"}
  /\ handled \subseteq Signo /\ fed \subseteq Source
  /\ buffer = {}

\* The array of ev_asyncs and the indices in the watchers.
ArrayMatches ==
  /\ asyncs \in Seq(Async) /\ active \in [Async -> Nat]
  /\ \A i \in 1..Len(asyncs) : active[asyncs[i]] = i
  /\ \A a \in Async : active[a] # 0 => active[a] \in 1..Len(asyncs) /\ asyncs[active[a]] = a

\* What is known of the loop by the point it has reached.
LoopMatches ==
  /\ postfork => LoopAt("user")
  /\ LoopAt("check") \/ LoopAt("poll") \/ LoopAt("unwant") => pipe_write_wanted
  /\ LoopAt("scan") => scan # {} /\ (scan \subseteq Signo \/ scan \subseteq Async)
  /\ LoopAt("user") \/ LoopAt("invoke") => back = "invoke"
  /\ LoopAt("want") => back = "want"
  /\ (LoopAt("user") \/ LoopAt("check") \/ LoopAt("poll")) /\ back = "invoke" => fed = {}

\* Somebody is about to find or set the flag for w.
Announced(w) == \E t \in Sender : (At(t, "test") \/ At(t, "set")) /\ sender[t].of = w

\* What is owed a callback is queued, or raised where the loop will look for
\* it: because of the flag, which is set or will be, or already.
Found(w) ==
  /\ w \in Started
  /\ raised[w]
  /\ flag[Kind(w)] \/ (LoopAt("scan") /\ w \in scan) \/ Announced(w)

OwedFound == owed \subseteq Started /\ \A w \in owed \ fed : Found(w)

\* A sender has yet to say that it skipped the write, or to write.
Notifies == \E t \in Sender : At(t, "skip") \/ At(t, "clear") \/ At(t, "write")

\* The loop comes to the test of flag k before it can block.
Comes(k) ==
  \/ postfork
  \/ loop \in {"read", "unskip", "sig"}
  \/ k = "async" /\ (LoopAt("async") \/ (LoopAt("scan") /\ scan \cap Signo # {}))

\* A flag that is set is going to be looked at.
FlagsSeen ==
  \A k \in Flags : flag[k] => pipe_write_skipped \/ pipe > 0 \/ Notifies \/ Comes(k)

\* Who skips the write while the loop blocks is going to take it back.
SkipsTaken ==
  LoopAt("poll") /\ waits /\ pipe_write_skipped =>
    \E t \in Sender : At(t, "wanted") \/ At(t, "clear")

PipeInv == Typed /\ ArrayMatches /\ LoopMatches /\ OwedFound /\ FlagsSeen /\ SkipsTaken

-----------------------------------------------------------------------------
(* What the helpers do. *)

\* What is in the array is what has an index.
LEMMA RangeActive ==
  ASSUME ArrayMatches
  PROVE  Range(asyncs) = {a \in Async : active[a] # 0}
<1>1. ASSUME NEW a \in Range(asyncs) PROVE a \in Async /\ active[a] # 0
  <2>1. PICK i \in 1..Len(asyncs) : a = asyncs[i]
    BY <1>1 DEF Range, ArrayMatches
  <2> QED BY <2>1 DEF ArrayMatches
<1>2. ASSUME NEW a \in Async, active[a] # 0 PROVE a \in Range(asyncs)
  <2>1. active[a] \in 1..Len(asyncs) /\ asyncs[active[a]] = a
    BY <1>2 DEF ArrayMatches
  <2> QED BY <2>1 DEF Range, ArrayMatches
<1> QED BY <1>1, <1>2

LEMMA RangeActiveNext ==
  ASSUME ArrayMatches'
  PROVE  (Range(asyncs))' = {a \in Async : active'[a] # 0}
<1>1. ASSUME NEW a \in (Range(asyncs))' PROVE a \in Async /\ active'[a] # 0
  <2>1. PICK i \in 1..Len(asyncs') : a = asyncs'[i]
    BY <1>1 DEF Range, ArrayMatches
  <2> QED BY <2>1 DEF ArrayMatches
<1>2. ASSUME NEW a \in Async, active'[a] # 0 PROVE a \in (Range(asyncs))'
  <2>1. active'[a] \in 1..Len(asyncs') /\ asyncs'[active'[a]] = a
    BY <1>2 DEF ArrayMatches
  <2> QED BY <2>1 DEF Range, ArrayMatches
<1> QED BY <1>1, <1>2

\* Without delayed stores a fence changes nothing.
LEMMA FenceKeeps ==
  ASSUME Typed, Fence
  PROVE  flag' = flag /\ raised' = raised /\ buffer' = {}
  BY DEF Typed, Fence, Flags

\* ... and a store is seen at once.
LEMMA StoreFlag ==
  ASSUME Delayed = FALSE, NEW k \in Flags, Store(<<"flag", k>>)
  PROVE  flag' = [flag EXCEPT ![k] = FALSE] /\ raised' = raised /\ buffer' = buffer
  BY DEF Store, Clear

LEMMA StoreRaised ==
  ASSUME Delayed = FALSE, NEW w \in Source, Store(<<"raised", w>>)
  PROVE  raised' = [raised EXCEPT ![w] = FALSE] /\ flag' = flag /\ buffer' = buffer
  BY DEF Store, Clear

\* A sender that is in a call has a watcher.
LEMMA SenderBusy ==
  ASSUME Typed, NEW t \in Sender, ~At(t, "idle")
  PROVE  sender[t] \in Sends
  BY DEF Typed, At, Idle

LEMMA SenderGoes ==
  ASSUME Typed, NEW t \in Sender, NEW pc \in Busy,
         ~At(t, "idle"), Goto(t, pc)
  PROVE  /\ sender' \in [Sender -> Sends \cup {Idle}]
         /\ sender'[t].pc = pc /\ sender'[t].of = sender[t].of
         /\ \A u \in Sender \ {t} : sender'[u] = sender[u]
<1>1. sender[t] \in Sends
  BY SenderBusy
<1>2. [sender[t] EXCEPT !.pc = pc] \in Sends
  BY <1>1 DEF Sends
<1> QED BY <1>1, <1>2 DEF Goto, Typed, Sends

LEMMA SenderReturns ==
  ASSUME Typed, NEW t \in Sender, Return(t)
  PROVE  /\ sender' \in [Sender -> Sends \cup {Idle}]
         /\ sender'[t] = Idle
         /\ \A u \in Sender \ {t} : sender'[u] = sender[u]
  BY DEF Return, Typed

LEMMA KindIsFlag == ASSUME NEW w \in Source PROVE Kind(w) \in Flags
  BY DEF Kind, Flags

-----------------------------------------------------------------------------
(* The senders *)

\* A flag of the watcher and the first step of evpipe_write.
LEMMA AnnounceStep ==
  ASSUME PipeInv, NEW t \in Sender, NEW w \in Source, w \in Started, At(t, "idle"),
         raised' = [raised EXCEPT ![w] = TRUE],
         owed' = owed \cup {w},
         sender' = [sender EXCEPT ![t] = [pc |-> "test", of |-> w]],
         UNCHANGED <<flag, pipe_write_skipped, pipe_write_wanted, pipe, table, loopVars>>
  PROVE  PipeInv'
<1> USE DEF table, loopVars, pipecbVars
<1>1. /\ sender' \in [Sender -> Sends \cup {Idle}]
      /\ sender'[t] = [pc |-> "test", of |-> w]
      /\ \A u \in Sender \ {t} : sender'[u] = sender[u]
  <2>1. [pc |-> "test", of |-> w] \in Sends
    BY DEF Sends, Busy
  <2> QED BY <2>1 DEF PipeInv, Typed
<1>2. raised' \in [Source -> BOOLEAN] /\ raised'[w] /\ \A v \in Source : raised[v] => raised'[v]
  BY DEF PipeInv, Typed
<1>3. Typed'
  BY <1>1, <1>2 DEF PipeInv, Typed
<1>4. ArrayMatches' /\ LoopMatches'
  BY DEF PipeInv, ArrayMatches, LoopMatches, LoopAt
<1>5. OwedFound'
  <2>1. Started' = Started
    BY DEF Started, Range
  <2>2. ASSUME NEW v \in Source PROVE Announced(v) => Announced(v)'
    BY <1>1 DEF Announced, At
  <2>3. Announced(w)'
    BY <1>1 DEF Announced, At
  <2>4. owed' \subseteq Started'
    BY <2>1 DEF PipeInv, OwedFound
  <2>5. ASSUME NEW v \in owed' \ fed' PROVE Found(v)'
    <3>1. CASE v = w
      BY <1>2, <2>1, <2>3, <3>1 DEF Found
    <3>2. CASE v # w
      <4>1. v \in owed \ fed /\ Found(v)
        BY <2>5, <3>2 DEF PipeInv, OwedFound
      <4>2. v \in Source
        BY <4>1, RangeActive DEF PipeInv, OwedFound, Started, Typed, Source
      <4> QED BY <1>2, <2>1, <2>2, <4>1, <4>2 DEF Found, LoopAt
    <3> QED BY <3>1, <3>2
  <2> QED BY <2>4, <2>5 DEF OwedFound
<1>6. Notifies => Notifies'
  BY <1>1 DEF Notifies, At
<1>7. FlagsSeen'
  BY <1>6 DEF PipeInv, FlagsSeen, Comes, LoopAt
<1>8. SkipsTaken'
  BY <1>1 DEF PipeInv, SkipsTaken, LoopAt, At
<1> QED BY <1>3, <1>4, <1>5, <1>7, <1>8 DEF PipeInv

LEMMA SendStep ==
  ASSUME PipeInv, NEW t \in Sender, NEW a \in Async, Send(t, a)
  PROVE  PipeInv'
  BY AnnounceStep DEF Send, Started, Source

LEMMA RaiseStep ==
  ASSUME PipeInv, NEW t \in Sender, NEW s \in Signo, Raise(t, s)
  PROVE  PipeInv'
  BY AnnounceStep DEF Raise, Started, Source

\* A sender that is in a call may go on or return: what it has announced must
\* be known by then, and so must what it was to notify of.
LEMMA SenderFrame ==
  ASSUME PipeInv, NEW t \in Sender, ~At(t, "idle"),
         sender' \in [Sender -> Sends \cup {Idle}],
         \A u \in Sender \ {t} : sender'[u] = sender[u],
         \A k \in Flags : flag[k] => flag'[k],
         flag' \in [Flags -> BOOLEAN],
         At(t, "test") \/ At(t, "set") =>
            \/ flag'[Kind(sender[t].of)]
            \/ At(t, "set")' /\ sender'[t].of = sender[t].of,
         UNCHANGED <<raised, table, loopVars, owed>>
  PROVE  OwedFound' /\ ArrayMatches'
<1> USE DEF table, loopVars, pipecbVars
<1>1. Started' = Started
  BY DEF Started, Range
<1>2. ArrayMatches'
  BY DEF PipeInv, ArrayMatches
<1>3. ASSUME NEW w \in owed \ fed PROVE Found(w)'
  <2>1. Found(w)
    BY <1>3 DEF PipeInv, OwedFound
  <2>2. w \in Source
    BY <1>3, RangeActive DEF PipeInv, OwedFound, Started, Typed, Source
  <2>3. w \in Started' /\ raised'[w]
    BY <1>1, <2>1 DEF Found
  <2>4. CASE flag[Kind(w)]
    BY <2>2, <2>3, <2>4, KindIsFlag DEF Found
  <2>5. CASE LoopAt("scan") /\ w \in scan
    BY <2>3, <2>5 DEF Found, LoopAt
  <2>6. CASE Announced(w)
    <3>1. PICK u \in Sender : (At(u, "test") \/ At(u, "set")) /\ sender[u].of = w
      BY <2>6 DEF Announced
    <3>2. CASE u = t
      <4>1. flag'[Kind(w)] \/ Announced(w)'
        BY <3>1, <3>2 DEF Announced
      <4> QED BY <2>3, <4>1 DEF Found
    <3>3. CASE u # t
      <4>1. Announced(w)'
        BY <3>1, <3>3 DEF Announced, At
      <4> QED BY <2>3, <4>1 DEF Found
    <3> QED BY <3>2, <3>3
  <2> QED BY <2>1, <2>4, <2>5, <2>6 DEF Found
<1> QED BY <1>1, <1>2, <1>3 DEF PipeInv, OwedFound

LEMMA TestFlagStep ==
  ASSUME PipeInv, NEW t \in Sender, TestFlag(t)
  PROVE  PipeInv'
<1> USE DEF table, loopVars, pipecbVars, shared
<1>1. /\ At(t, "test") /\ ~At(t, "idle")
      /\ UNCHANGED <<shared, table, loopVars, owed>>
  BY DEF TestFlag, At
<1>2. /\ sender' \in [Sender -> Sends \cup {Idle}]
      /\ \A u \in Sender \ {t} : sender'[u] = sender[u]
      /\ flag[Kind(sender[t].of)] \/ (At(t, "set")' /\ sender'[t].of = sender[t].of)
  <2>1. CASE flag[Kind(sender[t].of)]
    BY <1>1, <2>1, SenderReturns DEF TestFlag, PipeInv
  <2>2. CASE ~flag[Kind(sender[t].of)]
    BY <1>1, <2>2, SenderGoes DEF TestFlag, PipeInv, At, Busy
  <2> QED BY <2>1, <2>2
<1>3. OwedFound' /\ ArrayMatches'
  BY <1>1, <1>2, SenderFrame DEF PipeInv, Typed
<1>4. Typed' /\ LoopMatches'
  BY <1>1, <1>2 DEF PipeInv, Typed, LoopMatches, LoopAt
<1>5. Notifies => Notifies'
  BY <1>1, <1>2 DEF Notifies, At
<1>6. FlagsSeen'
  BY <1>1, <1>5 DEF PipeInv, FlagsSeen, Comes, LoopAt
<1>7. SkipsTaken'
  BY <1>1, <1>2 DEF PipeInv, SkipsTaken, LoopAt, At
<1> QED BY <1>3, <1>4, <1>6, <1>7 DEF PipeInv

LEMMA SetFlagStep ==
  ASSUME PipeInv, NEW t \in Sender, SetFlag(t)
  PROVE  PipeInv'
<1> USE DEF table, loopVars, pipecbVars
<1>1. /\ At(t, "set") /\ ~At(t, "idle") /\ ~At(t, "test") /\ Goto(t, "skip")
      /\ flag' = [flag EXCEPT ![Kind(sender[t].of)] = TRUE]
      /\ UNCHANGED <<raised, pipe_write_skipped, pipe_write_wanted, pipe, table, loopVars, owed>>
  BY DEF SetFlag, At
<1>2. /\ sender' \in [Sender -> Sends \cup {Idle}]
      /\ \A u \in Sender \ {t} : sender'[u] = sender[u]
      /\ sender'[t].pc = "skip"
  BY <1>1, SenderGoes DEF PipeInv, Busy
<1>3. /\ flag' \in [Flags -> BOOLEAN] /\ \A k \in Flags : flag[k] => flag'[k]
      /\ flag'[Kind(sender[t].of)]
  <2>1. sender[t].of \in Source
    BY <1>1, SenderBusy DEF PipeInv, Sends
  <2> QED BY <1>1, <2>1, KindIsFlag DEF PipeInv, Typed
<1>4. OwedFound' /\ ArrayMatches'
  BY <1>1, <1>2, <1>3, SenderFrame
<1>5. Typed' /\ LoopMatches'
  BY <1>1, <1>2, <1>3 DEF PipeInv, Typed, LoopMatches, LoopAt
<1>6. FlagsSeen'
  BY <1>2 DEF FlagsSeen, Notifies, At
<1>7. SkipsTaken'
  BY <1>1, <1>2 DEF PipeInv, SkipsTaken, LoopAt, At
<1> QED BY <1>4, <1>5, <1>6, <1>7 DEF PipeInv

LEMMA SetSkippedStep ==
  ASSUME PipeInv, NEW t \in Sender, SetSkipped(t)
  PROVE  PipeInv'
<1> USE DEF table, loopVars, pipecbVars
<1>1. /\ At(t, "skip") /\ ~At(t, "idle") /\ ~At(t, "test") /\ ~At(t, "set") /\ Goto(t, "wanted")
      /\ pipe_write_skipped'
      /\ pipe_write_skipped' \in BOOLEAN
      /\ UNCHANGED <<raised, flag, pipe_write_wanted, pipe, table, loopVars, owed>>
  BY DEF SetSkipped, At
<1>2. /\ sender' \in [Sender -> Sends \cup {Idle}]
      /\ \A u \in Sender \ {t} : sender'[u] = sender[u]
      /\ sender'[t].pc = "wanted"
  BY <1>1, SenderGoes DEF PipeInv, Busy
<1>3. OwedFound' /\ ArrayMatches'
  BY <1>1, <1>2, SenderFrame DEF PipeInv, Typed
<1>4. Typed' /\ LoopMatches'
  BY <1>1, <1>2 DEF PipeInv, Typed, LoopMatches, LoopAt
<1>5. FlagsSeen' /\ SkipsTaken'
  BY <1>1, <1>2 DEF FlagsSeen, SkipsTaken, At
<1> QED BY <1>3, <1>4, <1>5 DEF PipeInv

LEMMA TestWantedStep ==
  ASSUME PipeInv, NEW t \in Sender, TestWanted(t)
  PROVE  PipeInv'
<1> USE DEF shared, table, loopVars, pipecbVars
<1>1. /\ At(t, "wanted") /\ ~At(t, "idle") /\ ~At(t, "test") /\ ~At(t, "set")
      /\ UNCHANGED <<shared, table, loopVars, owed>>
  BY DEF TestWanted, At
<1>2. /\ sender' \in [Sender -> Sends \cup {Idle}]
      /\ \A u \in Sender \ {t} : sender'[u] = sender[u]
      /\ pipe_write_wanted => sender'[t].pc = "clear"
  <2>1. CASE pipe_write_wanted
    BY <1>1, <2>1, SenderGoes DEF TestWanted, PipeInv, Busy
  <2>2. CASE ~pipe_write_wanted
    BY <1>1, <2>2, SenderReturns DEF TestWanted, PipeInv
  <2> QED BY <2>1, <2>2
<1>3. OwedFound' /\ ArrayMatches'
  BY <1>1, <1>2, SenderFrame DEF PipeInv, Typed
<1>4. Typed' /\ LoopMatches'
  BY <1>1, <1>2 DEF PipeInv, Typed, LoopMatches, LoopAt
<1>5. FlagsSeen'
  <2>1. CASE pipe_write_wanted
    BY <1>2, <2>1 DEF FlagsSeen, Notifies, At
  <2>2. CASE ~pipe_write_wanted
    <3>1. Notifies => Notifies'
      BY <1>1, <1>2 DEF Notifies, At
    <3> QED BY <1>1, <1>2, <2>2, <3>1 DEF PipeInv, FlagsSeen, Comes, LoopAt
  <2> QED BY <2>1, <2>2
<1>6. SkipsTaken'
  BY <1>1, <1>2 DEF PipeInv, SkipsTaken, LoopMatches, LoopAt, At
<1> QED BY <1>3, <1>4, <1>5, <1>6 DEF PipeInv

\* The late store takes back what others have said, but its sender writes next.
LEMMA ClearSkippedStep ==
  ASSUME PipeInv, NEW t \in Sender, ClearSkipped(t)
  PROVE  PipeInv'
<1> USE DEF table, loopVars, pipecbVars
<1>1. /\ At(t, "clear") /\ ~At(t, "idle") /\ ~At(t, "test") /\ ~At(t, "set") /\ Goto(t, "write")
      /\ pipe_write_skipped' = FALSE
      /\ UNCHANGED <<raised, flag, pipe_write_wanted, pipe, table, loopVars, owed>>
  BY DEF ClearSkipped, At
<1>2. /\ sender' \in [Sender -> Sends \cup {Idle}]
      /\ \A u \in Sender \ {t} : sender'[u] = sender[u]
      /\ sender'[t].pc = "write"
  BY <1>1, SenderGoes DEF PipeInv, Busy
<1>3. OwedFound' /\ ArrayMatches'
  BY <1>1, <1>2, SenderFrame DEF PipeInv, Typed
<1>4. Typed' /\ LoopMatches'
  BY <1>1, <1>2 DEF PipeInv, Typed, LoopMatches, LoopAt
<1>5. FlagsSeen' /\ SkipsTaken'
  BY <1>1, <1>2 DEF FlagsSeen, Notifies, SkipsTaken, At
<1> QED BY <1>3, <1>4, <1>5 DEF PipeInv

LEMMA WriteStep ==
  ASSUME PipeInv, NEW t \in Sender, Write(t)
  PROVE  PipeInv'
<1> USE DEF table, loopVars, pipecbVars
<1>1. /\ At(t, "write") /\ ~At(t, "idle") /\ ~At(t, "test") /\ ~At(t, "set") /\ Return(t)
      /\ pipe' = IF pipe < PipeSize THEN pipe + 1 ELSE pipe
      /\ UNCHANGED <<raised, flag, pipe_write_skipped, pipe_write_wanted, table, loopVars, owed>>
  BY DEF Write, At
<1>2. /\ sender' \in [Sender -> Sends \cup {Idle}]
      /\ \A u \in Sender \ {t} : sender'[u] = sender[u]
  BY <1>1, SenderReturns DEF PipeInv
<1>3. pipe' \in 0..PipeSize /\ pipe' > 0
  BY <1>1, PipeAssumption DEF PipeInv, Typed
<1>4. OwedFound' /\ ArrayMatches'
  BY <1>1, <1>2, SenderFrame DEF PipeInv, Typed
<1>5. Typed' /\ LoopMatches'
  BY <1>1, <1>2, <1>3 DEF PipeInv, Typed, LoopMatches, LoopAt
<1>6. FlagsSeen'
  BY <1>3 DEF FlagsSeen
<1>7. SkipsTaken'
  BY <1>1, <1>2 DEF PipeInv, SkipsTaken, LoopAt, At
<1> QED BY <1>4, <1>5, <1>6, <1>7 DEF PipeInv

-----------------------------------------------------------------------------
(* Starting, stopping and forking *)

\* Where the user code runs no scan goes on and nobody blocks.
LEMMA UserFrame ==
  ASSUME PipeInv, LoopAt("user"),
         postfork' \in BOOLEAN,
         UNCHANGED <<flag, pipe_write_skipped, pipe_write_wanted, pipe, sender, loop, waits,
                     pipecbVars, buffer>>,
         fed' \subseteq fed, postfork => postfork'
  PROVE  LoopMatches' /\ FlagsSeen' /\ SkipsTaken'
<1> USE DEF pipecbVars
<1>1. LoopMatches' /\ SkipsTaken'
  BY DEF PipeInv, LoopMatches, SkipsTaken, LoopAt
<1>2. Notifies' = Notifies
  BY DEF Notifies, At
<1>3. FlagsSeen'
  BY <1>2 DEF PipeInv, FlagsSeen, Comes, LoopAt
<1> QED BY <1>1, <1>3

LEMMA AsyncStartStep ==
  ASSUME PipeInv, NEW a \in Async, AsyncStart(a)
  PROVE  PipeInv'
<1> USE DEF loopVars, pipecbVars
<1>1. /\ LoopAt("user") /\ active[a] = 0
      /\ raised' = [raised EXCEPT ![a] = FALSE]
      /\ asyncs' = Append(asyncs, a)
      /\ active' = [active EXCEPT ![a] = Len(asyncs) + 1]
      /\ UNCHANGED <<flag, pipe_write_skipped, pipe_write_wanted, pipe, handled,
                     postfork, sender, loopVars, owed>>
  BY DEF AsyncStart, LoopAt
<1>2. LoopMatches' /\ FlagsSeen' /\ SkipsTaken'
  BY <1>1, UserFrame DEF PipeInv, Typed
<1>3. Typed'
  BY <1>1 DEF PipeInv, Typed
<1>4. ArrayMatches'
  <2>1. /\ asyncs' \in Seq(Async) /\ Len(asyncs) \in Nat /\ Len(asyncs') = Len(asyncs) + 1
        /\ asyncs'[Len(asyncs) + 1] = a
        /\ \A i \in 1..Len(asyncs) : asyncs'[i] = asyncs[i] /\ asyncs[i] \in Async /\ asyncs[i] # a
    BY <1>1 DEF PipeInv, ArrayMatches
  <2>2. /\ active' \in [Async -> Nat] /\ active'[a] = Len(asyncs) + 1
        /\ \A b \in Async \ {a} : active'[b] = active[b]
    BY <1>1, <2>1 DEF PipeInv, ArrayMatches
  <2>3. \A i \in 1..Len(asyncs') : active'[asyncs'[i]] = i
    <3> SUFFICES ASSUME NEW i \in 1..Len(asyncs') PROVE active'[asyncs'[i]] = i
      OBVIOUS
    <3>1. CASE i = Len(asyncs) + 1
      BY <2>1, <2>2, <3>1
    <3>2. CASE i \in 1..Len(asyncs)
      <4>1. active[asyncs[i]] = i
        BY <3>2 DEF PipeInv, ArrayMatches
      <4>2. asyncs'[i] = asyncs[i] /\ asyncs[i] \in Async \ {a}
        BY <2>1, <3>2
      <4>3. active'[asyncs[i]] = active[asyncs[i]]
        BY <2>2, <4>2
      <4> QED BY <4>1, <4>2, <4>3
    <3> QED BY <2>1, <3>1, <3>2
  <2>4. \A b \in Async : active'[b] # 0 => active'[b] \in 1..Len(asyncs') /\ asyncs'[active'[b]] = b
    <3> SUFFICES ASSUME NEW b \in Async, active'[b] # 0
                 PROVE  active'[b] \in 1..Len(asyncs') /\ asyncs'[active'[b]] = b
      OBVIOUS
    <3>1. CASE b = a
      BY <2>1, <2>2, <3>1
    <3>2. CASE b # a
      <4>1. active[b] \in 1..Len(asyncs) /\ asyncs[active[b]] = b /\ active'[b] = active[b]
        BY <2>2, <3>2 DEF PipeInv, ArrayMatches
      <4> QED BY <2>1, <4>1
    <3> QED BY <3>1, <3>2
  <2> QED BY <2>1, <2>2, <2>3, <2>4 DEF ArrayMatches
<1>5. /\ Started' = Started \cup {a} /\ a \notin Started
      /\ \A b \in Async \ {a} : active'[b] = active[b]
  <2>1. Range(asyncs) = {b \in Async : active[b] # 0}
    BY RangeActive DEF PipeInv
  <2>2. (Range(asyncs))' = {b \in Async : active'[b] # 0}
    BY <1>4, RangeActiveNext
  <2>3. /\ active'[a] # 0
        /\ \A b \in Async \ {a} : active'[b] = active[b]
    BY <1>1 DEF PipeInv, ArrayMatches
  <2>4. a \notin handled
    BY PipeAssumption DEF PipeInv, Typed
  <2>5. (Range(asyncs))' = Range(asyncs) \cup {a}
    BY <2>1, <2>2, <2>3
  <2> QED BY <1>1, <2>1, <2>3, <2>4, <2>5 DEF Started
<1>6. OwedFound'
  <2>1. ASSUME NEW w \in owed \ fed PROVE Found(w)'
    <3>1. Found(w) /\ w # a /\ w \in Source
      BY <1>5, <2>1, RangeActive DEF PipeInv, OwedFound, Found, Started, Typed, Source
    <3>2. raised'[w] /\ w \in Started'
      BY <1>1, <1>5, <3>1 DEF PipeInv, Typed, Found
    <3>3. Announced(w)' = Announced(w)
      BY <1>1 DEF Announced, At
    <3> QED BY <1>1, <3>1, <3>2, <3>3 DEF Found, LoopAt
  <2> QED BY <1>1, <1>5, <2>1 DEF PipeInv, OwedFound
<1> QED BY <1>2, <1>3, <1>4, <1>6 DEF PipeInv

\* Who is stopped is owed nothing any more, the others keep what they had.
LEMMA StopFrame ==
  ASSUME PipeInv, NEW w \in Source, LoopAt("user"),
         ArrayMatches', handled' \subseteq Signo,
         Started' = Started \ {w}, fed' = fed \ {w}, owed' = owed \ {w},
         UNCHANGED <<shared, postfork, sender, loop, waits, pipecbVars, buffer>>
  PROVE  PipeInv'
<1> USE DEF shared, pipecbVars
<1>1. LoopMatches' /\ FlagsSeen' /\ SkipsTaken'
  BY UserFrame DEF PipeInv, Typed
<1>2. Typed'
  BY DEF PipeInv, Typed
<1>3. OwedFound'
  <2>1. ASSUME NEW v \in owed' \ fed' PROVE Found(v)'
    <3>1. Found(v) /\ v # w
      BY <2>1 DEF PipeInv, OwedFound
    <3>2. Announced(v)' = Announced(v)
      BY DEF Announced, At
    <3> QED BY <3>1, <3>2 DEF Found, LoopAt
  <2> QED BY <2>1 DEF PipeInv, OwedFound
<1> QED BY <1>1, <1>2, <1>3 DEF PipeInv

LEMMA AsyncStopStep ==
  ASSUME PipeInv, NEW a \in Async, AsyncStop(a)
  PROVE  PipeInv'
<1> DEFINE n == Len(asyncs)
           last == asyncs[n]
           k == active[a]
<1>1. /\ LoopAt("user") /\ k # 0
      /\ asyncs' = Front([asyncs EXCEPT ![k] = last])
      /\ active' = [active EXCEPT ![last] = k, ![a] = 0]
      /\ fed' = fed \ {a} /\ owed' = owed \ {a}
      /\ UNCHANGED <<shared, handled, postfork, sender, loop, waits, pipecbVars, buffer>>
  BY DEF AsyncStop, LoopAt
<1>2. /\ n \in Nat \ {0} /\ k \in 1..n /\ asyncs[k] = a
      /\ last \in Async /\ active[last] = n
      /\ \A i \in 1..n : asyncs[i] \in Async /\ active[asyncs[i]] = i
  BY <1>1 DEF PipeInv, ArrayMatches
<1>3. /\ asyncs' \in Seq(Async) /\ Len(asyncs') = n - 1
      /\ \A i \in 1..(n - 1) : asyncs'[i] = IF i = k THEN last ELSE asyncs[i]
  <2> DEFINE s == [asyncs EXCEPT ![k] = last]
  <2>1. /\ s \in Seq(Async) /\ Len(s) = n
        /\ \A i \in 1..n : s[i] = IF i = k THEN last ELSE asyncs[i]
    BY <1>2 DEF PipeInv, ArrayMatches
  <2>2. asyncs' = SubSeq(s, 1, n - 1)
    BY <1>1, <2>1 DEF Front
  <2> HIDE DEF s
  <2> QED BY <1>2, <2>1, <2>2
<1>4. /\ active' \in [Async -> Nat] /\ active'[a] = 0
      /\ last # a => active'[last] = k
      /\ \A b \in Async \ {a, last} : active'[b] = active[b]
  BY <1>1, <1>2 DEF PipeInv, ArrayMatches
<1>5. ArrayMatches'
  <2>1. \A i \in 1..Len(asyncs') : active'[asyncs'[i]] = i
    <3> SUFFICES ASSUME NEW i \in 1..(n - 1) PROVE active'[asyncs'[i]] = i
      BY <1>2, <1>3
    <3>1. CASE i = k
      <4>1. last # a
        BY <1>2, <3>1
      <4> QED BY <1>3, <1>4, <3>1, <4>1
    <3>2. CASE i # k
      <4>1. i \in 1..n /\ i # n /\ asyncs[i] # a /\ asyncs[i] # last
        BY <1>2, <3>2
      <4> QED BY <1>2, <1>3, <1>4, <3>2, <4>1
    <3> QED BY <3>1, <3>2
  <2>2. \A b \in Async : active'[b] # 0 => active'[b] \in 1..Len(asyncs') /\ asyncs'[active'[b]] = b
    <3> SUFFICES ASSUME NEW b \in Async, active'[b] # 0
                 PROVE  active'[b] \in 1..(n - 1) /\ asyncs'[active'[b]] = b
      BY <1>2, <1>3
    <3>1. b # a
      BY <1>4
    <3>2. CASE b = last
      <4>1. k # n
        BY <1>2, <3>1, <3>2
      <4>2. k \in 1..(n - 1) /\ active'[b] = k
        BY <1>2, <1>4, <3>1, <3>2, <4>1
      <4>3. asyncs'[k] = last
        BY <1>3, <4>2
      <4> QED BY <3>2, <4>2, <4>3
    <3>3. CASE b # last
      <4>1. active'[b] = active[b] /\ active[b] \in 1..n /\ asyncs[active[b]] = b
        BY <1>4, <3>1, <3>3 DEF PipeInv, ArrayMatches
      <4>2. active[b] # n /\ active[b] # k
        BY <1>2, <3>1, <3>3, <4>1
      <4> QED BY <1>2, <1>3, <4>1, <4>2
    <3> QED BY <3>2, <3>3
  <2> QED BY <1>3, <1>4, <2>1, <2>2 DEF ArrayMatches
<1>6. Started' = Started \ {a}
  <2>1. Range(asyncs) = {b \in Async : active[b] # 0}
    BY RangeActive DEF PipeInv
  <2>2. (Range(asyncs))' = {b \in Async : active'[b] # 0}
    BY <1>5, RangeActiveNext
  <2>3. \A b \in Async \ {a} : (active'[b] # 0) = (active[b] # 0)
    BY <1>2, <1>4
  <2>4. a \notin handled
    BY PipeAssumption DEF PipeInv, Typed
  <2>5. (Range(asyncs))' = Range(asyncs) \ {a}
    BY <1>4, <2>1, <2>2, <2>3
  <2> QED BY <1>1, <2>4, <2>5 DEF Started
<1>7. handled' \subseteq Signo /\ a \in Source
  BY <1>1 DEF PipeInv, Typed, Source
<1> QED BY <1>1, <1>5, <1>6, <1>7, StopFrame

LEMMA SignalStartStep ==
  ASSUME PipeInv, NEW s \in Signo, SignalStart(s)
  PROVE  PipeInv'
<1> USE DEF shared, loopVars, pipecbVars
<1>1. /\ LoopAt("user") /\ handled' = handled \cup {s}
      /\ UNCHANGED <<shared, asyncs, active, postfork, sender, loopVars, owed>>
  BY DEF SignalStart, LoopAt
<1>2. LoopMatches' /\ FlagsSeen' /\ SkipsTaken'
  BY <1>1, UserFrame DEF PipeInv, Typed
<1>3. Typed' /\ ArrayMatches'
  BY <1>1 DEF PipeInv, Typed, ArrayMatches
<1>4. Started \subseteq Started'
  BY <1>1 DEF Started, Range
<1>5. ASSUME NEW w \in owed \ fed PROVE Found(w)'
  <2>1. Announced(w)' = Announced(w)
    BY <1>1 DEF Announced, At
  <2> QED BY <1>1, <1>4, <1>5, <2>1 DEF PipeInv, OwedFound, Found, LoopAt
<1>6. OwedFound'
  BY <1>1, <1>4, <1>5 DEF PipeInv, OwedFound
<1> QED BY <1>2, <1>3, <1>6 DEF PipeInv

LEMMA SignalStopStep ==
  ASSUME PipeInv, NEW s \in Signo, SignalStop(s)
  PROVE  PipeInv'
<1>1. /\ LoopAt("user") /\ handled' = handled \ {s}
      /\ fed' = fed \ {s} /\ owed' = owed \ {s}
      /\ UNCHANGED <<shared, asyncs, active, postfork, sender, loop, waits, pipecbVars, buffer>>
  BY DEF SignalStop, LoopAt
<1>2. ArrayMatches'
  BY <1>1 DEF PipeInv, ArrayMatches
<1>3. Started' = Started \ {s}
  <2>1. Range(asyncs) \subseteq Async
    BY RangeActive DEF PipeInv
  <2>2. (Range(asyncs))' = Range(asyncs)
    BY <1>1 DEF Range
  <2> QED BY <1>1, <2>1, <2>2, PipeAssumption DEF Started
<1>4. handled' \subseteq Signo /\ s \in Source
  BY <1>1 DEF PipeInv, Typed, Source
<1> QED BY <1>1, <1>2, <1>3, <1>4, StopFrame

LEMMA ForkStep ==
  ASSUME PipeInv, Fork
  PROVE  PipeInv'
<1> USE DEF shared, loopVars, pipecbVars
<1>1. /\ LoopAt("user") /\ postfork'
      /\ sender' = [t \in Sender |-> Idle]
      /\ owed' = owed \ {sender[t].of : t \in {u \in Sender : ~At(u, "idle")}}
      /\ UNCHANGED <<shared, asyncs, active, handled, loopVars>>
  BY DEF Fork, LoopAt
<1>2. Typed' /\ ArrayMatches'
  BY <1>1 DEF PipeInv, Typed, ArrayMatches, Fork
<1>3. LoopMatches' /\ SkipsTaken'
  BY <1>1 DEF PipeInv, LoopMatches, SkipsTaken, LoopAt
<1>4. FlagsSeen'
  BY <1>1 DEF FlagsSeen, Comes
<1>5. Started' = Started
  BY <1>1 DEF Started, Range
<1>6. ASSUME NEW w \in owed' \ fed' PROVE Found(w)'
  <2>1. Found(w) /\ w \in owed'
    BY <1>1, <1>6 DEF PipeInv, OwedFound
  <2>2. ~Announced(w)
    BY <1>1, <2>1 DEF Announced, At
  <2> QED BY <1>1, <1>5, <2>1, <2>2 DEF Found, LoopAt
<1>7. OwedFound'
  BY <1>1, <1>5, <1>6 DEF PipeInv, OwedFound
<1> QED BY <1>2, <1>3, <1>4, <1>7 DEF PipeInv

LEMMA ParentStep ==
  ASSUME PipeInv, ParentUsesPipe
  PROVE  PipeInv'
<1> USE DEF table, loopVars, pipecbVars
<1>1. /\ postfork /\ pipe' \in 0..PipeSize
      /\ UNCHANGED <<raised, flag, pipe_write_skipped, pipe_write_wanted, table, sender,
                     loopVars, owed>>
  BY DEF ParentUsesPipe
<1>2. Typed' /\ ArrayMatches' /\ LoopMatches' /\ SkipsTaken' /\ FlagsSeen'
  BY <1>1 DEF PipeInv, Typed, ArrayMatches, LoopMatches, SkipsTaken, FlagsSeen, Comes, LoopAt, At
<1>3. Started' = Started
  BY <1>1 DEF Started, Range
<1>4. ASSUME NEW w \in owed \ fed PROVE Found(w)'
  <2>1. Announced(w)' = Announced(w)
    BY <1>1 DEF Announced, At
  <2> QED BY <1>1, <1>3, <1>4, <2>1 DEF PipeInv, OwedFound, Found, LoopAt
<1>5. OwedFound'
  BY <1>1, <1>3, <1>4 DEF PipeInv, OwedFound
<1> QED BY <1>2, <1>5 DEF PipeInv

-----------------------------------------------------------------------------
(* The loop *)

\* What the loop does between its scans takes nothing from those it owes.
LEMMA LoopFrame ==
  ASSUME PipeInv, ~LoopAt("scan"),
         UNCHANGED <<raised, flag, asyncs, active, handled, sender, fed, owed>>
  PROVE  ArrayMatches' /\ OwedFound' /\ Notifies' = Notifies
<1>1. ArrayMatches'
  BY DEF PipeInv, ArrayMatches
<1>2. Notifies' = Notifies
  BY DEF Notifies, At
<1>3. Started' = Started
  BY DEF Started, Range
<1>4. ASSUME NEW w \in owed \ fed PROVE Found(w)'
  <2>1. Announced(w)' = Announced(w)
    BY DEF Announced, At
  <2> QED BY <1>3, <1>4, <2>1 DEF PipeInv, OwedFound, Found
<1>5. OwedFound'
  BY <1>3, <1>4 DEF PipeInv, OwedFound
<1> QED BY <1>1, <1>2, <1>5

LEMMA ForkPipeStep == ASSUME PipeInv, ForkPipe PROVE PipeInv'
<1>1. flag' = flag /\ raised' = raised /\ buffer' = {}
  BY FenceKeeps DEF ForkPipe, PipeInv
<1>2. ArrayMatches' /\ OwedFound'
  BY <1>1, LoopFrame DEF ForkPipe, LoopAt
<1>3. Typed'
  <2>1. /\ postfork' = FALSE /\ pipe' = 0 /\ back' = "want" /\ loop' = "read"
        /\ UNCHANGED <<pipe_write_skipped, pipe_write_wanted, handled, sender, waits, fed>>
    BY DEF ForkPipe, Jump
  <2>2. pipe' \in 0..PipeSize
    BY <2>1, PipeAssumption
  <2> QED BY <1>1, <2>1, <2>2 DEF PipeInv, Typed, Points
<1>4. LoopMatches' /\ FlagsSeen' /\ SkipsTaken'
  BY DEF ForkPipe, Jump, LoopMatches, FlagsSeen, Comes, SkipsTaken, LoopAt
<1> QED BY <1>2, <1>3, <1>4 DEF PipeInv

LEMMA WantStep == ASSUME PipeInv, Want PROVE PipeInv'
<1> USE DEF table, pipecbVars
<1>1. flag' = flag /\ raised' = raised /\ buffer' = {}
  BY FenceKeeps DEF Want, PipeInv
<1>2. (LoopAt("user") \/ LoopAt("want")) /\ ~postfork /\ ~postfork'
  BY DEF Want, PipeInv, LoopMatches, LoopAt
<1>3. ArrayMatches' /\ OwedFound' /\ Notifies' = Notifies
  BY <1>1, <1>2, LoopFrame DEF Want, LoopAt
<1>4. Typed'
  <2>1. /\ pipe_write_wanted' = TRUE /\ loop' = "check"
        /\ UNCHANGED <<pipe_write_skipped, pipe, table, sender, waits, pipecbVars, fed>>
    BY DEF Want, Jump
  <2> QED BY <1>1, <2>1 DEF PipeInv, Typed, Points
<1>5. LoopMatches' /\ SkipsTaken'
  BY <1>2 DEF Want, Jump, PipeInv, LoopMatches, SkipsTaken, LoopAt
<1>6. FlagsSeen'
  BY <1>1, <1>2, <1>3 DEF Want, Jump, PipeInv, FlagsSeen, Comes, LoopAt
<1> QED BY <1>3, <1>4, <1>5, <1>6 DEF PipeInv

LEMMA CheckStep == ASSUME PipeInv, Check PROVE PipeInv'
<1> USE DEF shared, table, pipecbVars
<1>1. LoopAt("check") /\ UNCHANGED <<shared, table, sender, pipecbVars, fed, buffer, owed>>
  BY DEF Check
<1>2. ArrayMatches' /\ OwedFound' /\ Notifies' = Notifies
  BY <1>1, LoopFrame DEF LoopAt
<1>3. /\ loop' = "poll" /\ waits' \in BOOLEAN
      /\ waits' => ~pipe_write_skipped
  BY DEF Check, Jump, PipeInv, Typed
<1>4. Typed'
  BY <1>1, <1>3 DEF PipeInv, Typed, Points
<1>5. LoopMatches' /\ SkipsTaken'
  BY <1>1, <1>3 DEF PipeInv, LoopMatches, SkipsTaken, LoopAt
<1>6. FlagsSeen'
  BY <1>1, <1>2, <1>3 DEF PipeInv, FlagsSeen, Comes, LoopAt
<1> QED BY <1>2, <1>4, <1>5, <1>6 DEF PipeInv

LEMMA PollReturnStep == ASSUME PipeInv, PollReturn PROVE PipeInv'
<1> USE DEF shared, table
<1>1. /\ LoopAt("poll") /\ loop' = "unwant" /\ waits' = FALSE
      /\ UNCHANGED <<shared, table, sender, back, scan, fed, buffer, owed>>
  BY DEF PollReturn, Jump
<1>2. ArrayMatches' /\ OwedFound' /\ Notifies' = Notifies
  BY <1>1, LoopFrame DEF LoopAt
<1>3. Typed'
  BY <1>1 DEF PipeInv, Typed, Points
<1>4. LoopMatches' /\ SkipsTaken'
  BY <1>1 DEF PipeInv, LoopMatches, SkipsTaken, LoopAt
<1>5. FlagsSeen'
  BY <1>1, <1>2 DEF PipeInv, FlagsSeen, Comes, LoopAt
<1> QED BY <1>2, <1>3, <1>4, <1>5 DEF PipeInv

LEMMA UnwantStep == ASSUME PipeInv, Unwant PROVE PipeInv'
<1> USE DEF table, pipecbVars
<1>1. /\ LoopAt("unwant") /\ loop' = "skipped" /\ pipe_write_wanted' = FALSE
      /\ UNCHANGED <<raised, flag, pipe_write_skipped, pipe, table, sender, waits,
                     pipecbVars, fed, buffer, owed>>
  BY DEF Unwant, Jump
<1>2. ArrayMatches' /\ OwedFound' /\ Notifies' = Notifies
  BY <1>1, LoopFrame DEF LoopAt
<1>3. Typed'
  BY <1>1 DEF PipeInv, Typed, Points
<1>4. LoopMatches' /\ SkipsTaken'
  BY <1>1 DEF PipeInv, LoopMatches, SkipsTaken, LoopAt
<1>5. FlagsSeen'
  BY <1>1, <1>2 DEF PipeInv, FlagsSeen, Comes, LoopAt
<1> QED BY <1>2, <1>3, <1>4, <1>5 DEF PipeInv

LEMMA TestSkippedStep == ASSUME PipeInv, TestSkipped PROVE PipeInv'
<1> USE DEF shared, table
<1>1. /\ LoopAt("skipped") /\ loop' \in {"invoke", "read"} /\ back' = "invoke"
      /\ UNCHANGED <<shared, table, sender, waits, scan, fed, buffer, owed>>
  BY DEF TestSkipped, Jump
<1>2. ArrayMatches' /\ OwedFound' /\ Notifies' = Notifies
  BY <1>1, LoopFrame DEF LoopAt
<1>3. Typed'
  BY <1>1 DEF PipeInv, Typed, Points
<1>4. LoopMatches' /\ SkipsTaken'
  BY <1>1 DEF PipeInv, LoopMatches, SkipsTaken, LoopAt
<1>5. FlagsSeen'
  BY <1>1, <1>2 DEF PipeInv, FlagsSeen, Comes, LoopAt
<1> QED BY <1>2, <1>3, <1>4, <1>5 DEF PipeInv

LEMMA ReadPipeStep == ASSUME PipeInv, ReadPipe PROVE PipeInv'
<1> USE DEF table
<1>1. /\ LoopAt("read") /\ loop' = "unskip" /\ pipe' \in {pipe, pipe - 1, 0}
      /\ pipe > 0 \/ pipe' = pipe
      /\ UNCHANGED <<raised, flag, pipe_write_skipped, pipe_write_wanted, table, sender,
                     waits, back, scan, fed, buffer, owed>>
  BY DEF ReadPipe, Jump
<1>2. ArrayMatches' /\ OwedFound'
  BY <1>1, LoopFrame DEF LoopAt
<1>3. pipe' \in 0..PipeSize
  BY <1>1, PipeAssumption DEF PipeInv, Typed
<1>4. Typed'
  BY <1>1, <1>3 DEF PipeInv, Typed, Points
<1>5. LoopMatches' /\ SkipsTaken' /\ FlagsSeen'
  BY <1>1 DEF PipeInv, LoopMatches, SkipsTaken, FlagsSeen, Comes, LoopAt
<1> QED BY <1>2, <1>4, <1>5 DEF PipeInv

LEMMA UnskipStep == ASSUME PipeInv, Unskip PROVE PipeInv'
<1> USE DEF table, pipecbVars
<1>1. flag' = flag /\ raised' = raised /\ buffer' = {}
  BY FenceKeeps DEF Unskip, PipeInv
<1>2. ArrayMatches' /\ OwedFound'
  BY <1>1, LoopFrame DEF Unskip, LoopAt
<1>3. Typed'
  <2>1. /\ pipe_write_skipped' = FALSE /\ loop' = "sig"
        /\ UNCHANGED <<pipe_write_wanted, pipe, table, sender, waits, pipecbVars, fed>>
    BY DEF Unskip, Jump
  <2> QED BY <1>1, <2>1 DEF PipeInv, Typed, Points, Flags
<1>4. LoopMatches' /\ SkipsTaken' /\ FlagsSeen'
  BY DEF Unskip, Jump, PipeInv, LoopMatches, SkipsTaken, FlagsSeen, Comes, LoopAt
<1> QED BY <1>2, <1>3, <1>4 DEF PipeInv

LEMMA InvokeStep == ASSUME PipeInv, Invoke PROVE PipeInv'
<1> USE DEF shared, table, pipecbVars
<1>1. /\ LoopAt("invoke") /\ loop' = "user" /\ owed' = owed \ fed /\ fed' = {}
      /\ UNCHANGED <<shared, table, sender, waits, pipecbVars, buffer>>
  BY DEF Invoke, Jump
<1>2. Typed' /\ ArrayMatches' /\ LoopMatches' /\ SkipsTaken'
  BY <1>1 DEF PipeInv, Typed, Points, ArrayMatches, LoopMatches, SkipsTaken, LoopAt
<1>3. Notifies' = Notifies
  BY <1>1 DEF Notifies, At
<1>4. FlagsSeen'
  BY <1>1, <1>3 DEF PipeInv, FlagsSeen, Comes, LoopAt
<1>5. Started' = Started
  BY <1>1 DEF Started, Range
<1>6. ASSUME NEW w \in owed' \ fed' PROVE Found(w)'
  <2>1. Announced(w)' = Announced(w)
    BY <1>1 DEF Announced, At
  <2> QED BY <1>1, <1>5, <1>6, <2>1 DEF PipeInv, OwedFound, Found, LoopAt
<1>7. OwedFound'
  BY <1>1, <1>5, <1>6 DEF PipeInv, OwedFound
<1> QED BY <1>2, <1>4, <1>7 DEF PipeInv

LEMMA TestKindStep ==
  ASSUME Delayed = FALSE, PipeInv, NEW k \in Flags, TestKind(k)
  PROVE  PipeInv'
<1> USE DEF table
<1>1. /\ LoopAt(k) /\ ~LoopAt("scan") /\ ~LoopAt("user")
      /\ UNCHANGED <<pipe_write_skipped, pipe_write_wanted, pipe, table, sender, waits,
                     revents, back, fed, owed>>
  BY DEF TestKind, Flags, LoopAt
<1>2. /\ After(k) \in {"async", "want", "invoke"}
      /\ k = "sig" => After(k) = "async"
      /\ k = "async" => After(k) = back /\ After(k) # "async"
  BY DEF After, Flags, PipeInv, Typed
<1>3. Notifies' = Notifies /\ ArrayMatches' /\ Started' = Started
  BY <1>1 DEF PipeInv, Notifies, At, ArrayMatches, Started, Range
<1>4. CASE ~flag[k]
  <2>1. loop' = After(k) /\ UNCHANGED <<raised, flag, scan, buffer>>
    BY <1>4 DEF TestKind, Jump
  <2>2. OwedFound'
    BY <1>1, <2>1, LoopFrame
  <2>a. Typed' /\ SkipsTaken'
    BY <1>1, <1>2, <2>1 DEF PipeInv, Typed, Points, Flags, SkipsTaken, LoopAt
  <2>b. LoopMatches'
    <3>1. CASE k = "sig"
      BY <1>1, <1>2, <2>1, <3>1 DEF PipeInv, LoopMatches, LoopAt
    <3>2. CASE k = "async"
      BY <1>1, <1>2, <2>1, <3>2 DEF PipeInv, Typed, LoopMatches, LoopAt
    <3> QED BY <3>1, <3>2 DEF Flags
  <2>3. Typed' /\ LoopMatches' /\ SkipsTaken'
    BY <2>a, <2>b
  <2>4. FlagsSeen'
    BY <1>1, <1>2, <1>3, <1>4, <2>1 DEF PipeInv, FlagsSeen, Comes, LoopAt, Flags
  <2> QED BY <1>3, <2>2, <2>3, <2>4 DEF PipeInv
<1>5. CASE flag[k]
  <2>1. /\ flag' = [flag EXCEPT ![k] = FALSE] /\ raised' = raised /\ buffer' = buffer
        /\ scan' = IF k = "sig" THEN Signo ELSE Range(asyncs)
        /\ loop' = IF scan' # {} THEN "scan" ELSE After(k)
    BY <1>5, StoreFlag DEF TestKind, Jump
  <2>2. /\ flag' \in [Flags -> BOOLEAN] /\ ~flag'[k]
        /\ \A j \in Flags \ {k} : flag'[j] = flag[j]
    BY <2>1 DEF PipeInv, Typed
  <2>3. Range(asyncs) \subseteq Async
    BY RangeActive DEF PipeInv
  <2>4. Typed'
    BY <1>1, <1>2, <2>1, <2>2 DEF PipeInv, Typed, Points, Flags
  <2>5. LoopMatches' /\ SkipsTaken'
    <3>1. SkipsTaken'
      BY <1>1, <1>2, <2>1 DEF SkipsTaken, LoopAt
    <3>2. CASE k = "sig"
      BY <1>1, <1>2, <2>1, <3>1, <3>2 DEF PipeInv, LoopMatches, LoopAt
    <3>3. CASE k = "async"
      BY <1>1, <1>2, <2>1, <2>3, <3>1, <3>3 DEF PipeInv, Typed, LoopMatches, LoopAt
    <3> QED BY <3>2, <3>3 DEF Flags
  <2>6. FlagsSeen'
    <3> SUFFICES ASSUME NEW j \in Flags, flag'[j]
                 PROVE  (pipe_write_skipped \/ pipe > 0 \/ Notifies \/ Comes(j))'
      BY DEF FlagsSeen
    <3>1. j # k /\ flag[j]
      BY <2>2
    <3>2. pipe_write_skipped \/ pipe > 0 \/ Notifies \/ Comes(j)
      BY <3>1 DEF PipeInv, FlagsSeen
    <3>3. CASE k = "sig"
      <4>1. j = "async" /\ Comes(j)'
        <5>1. CASE Signo = {}
          BY <1>2, <2>1, <3>1, <3>3, <5>1 DEF Comes, LoopAt, Flags
        <5>2. CASE Signo # {}
          BY <2>1, <3>1, <3>3, <5>2 DEF Comes, LoopAt, Flags
        <5> QED BY <5>1, <5>2
      <4> QED BY <4>1
    <3>4. CASE k = "async"
      <4>1. j = "sig" /\ ~Comes(j)
        BY <1>1, <3>1, <3>4 DEF Comes, LoopAt, Flags, PipeInv, LoopMatches
      <4> QED BY <1>1, <1>3, <3>2, <4>1
    <3> QED BY <3>3, <3>4 DEF Flags
  <2>7. ASSUME NEW w \in owed \ fed PROVE Found(w)'
    <3>1. Found(w) /\ w \in Started /\ w \in Source
      BY <2>7, <2>3 DEF PipeInv, OwedFound, Started, Typed, Source
    <3>2. raised'[w] /\ w \in Started'
      BY <1>3, <2>1, <3>1 DEF Found
    <3>3. Announced(w)' = Announced(w)
      BY <1>1 DEF Announced, At
    <3>4. CASE Kind(w) = k
      <4>1. w \in scan'
        BY <2>1, <2>3, <3>1, <3>4, PipeAssumption DEF Kind, Started, PipeInv, Typed, Source
      <4> QED BY <2>1, <3>2, <4>1 DEF Found, LoopAt
    <3>5. CASE Kind(w) # k
      <4>1. flag'[Kind(w)] = flag[Kind(w)]
        BY <2>2, <3>1, <3>5, KindIsFlag
      <4> QED BY <1>1, <3>1, <3>2, <3>3, <4>1 DEF Found
    <3> QED BY <3>4, <3>5
  <2>8. OwedFound'
    BY <1>1, <1>3, <2>7 DEF PipeInv, OwedFound
  <2> QED BY <1>3, <2>4, <2>5, <2>6, <2>8 DEF PipeInv
<1> QED BY <1>4, <1>5

LEMMA ScanStep ==
  ASSUME Delayed = FALSE, PipeInv, NEW w \in Source, Scan(w)
  PROVE  PipeInv'
<1> USE DEF table
<1>1. /\ LoopAt("scan") /\ w \in scan /\ scan' = scan \ {w}
      /\ loop' = IF scan' # {} THEN "scan" ELSE After(Kind(w))
      /\ UNCHANGED <<pipe_write_skipped, pipe_write_wanted, pipe, table, sender, waits,
                     revents, back, owed>>
  BY DEF Scan, Jump
<1>2. /\ raised' \in [Source -> BOOLEAN] /\ flag' = flag /\ buffer' = buffer
      /\ \A v \in Source \ {w} : raised'[v] = raised[v]
      /\ fed \subseteq fed' /\ fed' \subseteq fed \cup {w}
      /\ raised[w] /\ w \in Started => w \in fed'
  <2>1. CASE raised[w] /\ w \in Started
    <3>1. Store(<<"raised", w>>) /\ fed' = fed \cup {w}
      BY <2>1 DEF Scan
    <3> QED BY <3>1, StoreRaised DEF PipeInv, Typed
  <2>2. CASE ~(raised[w] /\ w \in Started)
    BY <2>2 DEF Scan, PipeInv, Typed
  <2> QED BY <2>1, <2>2
<1>3. /\ After(Kind(w)) \in {"async", "want", "invoke"}
      /\ w \in Signo => After(Kind(w)) = "async"
      /\ w \in Async => After(Kind(w)) = back
  BY PipeAssumption DEF After, Kind, PipeInv, Typed
<1>4. Notifies' = Notifies /\ ArrayMatches' /\ Started' = Started
  BY <1>1 DEF PipeInv, Notifies, At, ArrayMatches, Started, Range
<1>5. ~postfork /\ (scan \subseteq Signo \/ scan \subseteq Async)
  BY <1>1 DEF PipeInv, LoopMatches, LoopAt
<1>6. Typed'
  BY <1>1, <1>2, <1>3 DEF PipeInv, Typed, Points, Flags
<1>7. LoopMatches' /\ SkipsTaken'
  BY <1>1, <1>3, <1>5 DEF LoopMatches, SkipsTaken, LoopAt
<1>8. FlagsSeen'
  <2> SUFFICES ASSUME NEW k \in Flags, flag[k]
               PROVE  (pipe_write_skipped \/ pipe > 0 \/ Notifies \/ Comes(k))'
    BY <1>2 DEF FlagsSeen
  <2>1. pipe_write_skipped \/ pipe > 0 \/ Notifies \/ Comes(k)
    BY DEF PipeInv, FlagsSeen
  <2>2. Comes(k) => Comes(k)'
    <3> SUFFICES ASSUME Comes(k) PROVE Comes(k)'
      OBVIOUS
    <3>1. k = "async" /\ scan \subseteq Signo
      BY <1>1, <1>5, PipeAssumption DEF Comes, LoopAt
    <3> QED BY <1>1, <1>3, <3>1 DEF Comes, LoopAt
  <2> QED BY <1>1, <1>4, <2>1, <2>2
<1>9. ASSUME NEW v \in owed \ fed' PROVE Found(v)'
  <2>1. Found(v) /\ v \in Started /\ v \in Source /\ v \notin fed
    BY <1>2, <1>9, RangeActive DEF PipeInv, OwedFound, Started, Typed, Source
  <2>2. v # w
    BY <1>2, <1>9, <2>1 DEF Found
  <2>3. raised'[v] /\ v \in Started'
    BY <1>2, <1>4, <2>1, <2>2 DEF Found
  <2>4. Announced(v)' = Announced(v)
    BY <1>1 DEF Announced, At
  <2>5. v \in scan => v \in scan' /\ loop' = "scan"
    BY <1>1, <2>2
  <2> QED BY <1>2, <2>1, <2>3, <2>4, <2>5 DEF Found, LoopAt
<1>10. OwedFound'
  BY <1>1, <1>4, <1>9 DEF PipeInv, OwedFound
<1> QED BY <1>4, <1>6, <1>7, <1>8, <1>10 DEF PipeInv

-----------------------------------------------------------------------------
LEMMA PipeInvInit == Init => PipeInv
<1> SUFFICES ASSUME Init PROVE PipeInv
  OBVIOUS
<1> USE DEF Init
<1>1. Typed
  <2>1. raised \in [Source -> BOOLEAN] /\ flag \in [Flags -> BOOLEAN]
    BY DEF Flags
  <2>2. sender \in [Sender -> Sends \cup {Idle}]
    OBVIOUS
  <2>3. pipe \in 0..PipeSize
    BY PipeAssumption
  <2>4. loop \in Points /\ back \in {"want", "invoke"} /\ handled \subseteq Signo
        /\ fed \subseteq Source /\ buffer = {}
    BY DEF Points
  <2> QED BY <2>1, <2>2, <2>3, <2>4 DEF Typed
<1>2. ArrayMatches
  <2>1. asyncs \in Seq(Async) /\ Len(asyncs) = 0
    BY SMT
  <2>2. active \in [Async -> Nat] /\ \A a \in Async : active[a] = 0
    BY SMT
  <2> QED BY <2>1, <2>2 DEF ArrayMatches
<1>3. LoopMatches /\ OwedFound /\ FlagsSeen /\ SkipsTaken
  BY DEF LoopMatches, OwedFound, FlagsSeen, SkipsTaken, LoopAt, Flags
<1> QED BY <1>1, <1>2, <1>3 DEF PipeInv

LEMMA PipeInvStep ==
  ASSUME Delayed = FALSE, PipeInv, [Next]_vars
  PROVE  PipeInv'
<1>1. CASE LoopStep
  <2>1. ASSUME NEW k \in {"async", "sig"}, TestKind(k) PROVE PipeInv'
    BY <2>1, TestKindStep DEF Flags
  <2>2. ASSUME NEW w \in Source, Scan(w) PROVE PipeInv'
    BY <2>2, ScanStep
  <2> QED BY <1>1, <2>1, <2>2, ForkPipeStep, WantStep, CheckStep, PollReturnStep, UnwantStep,
             TestSkippedStep, ReadPipeStep, UnskipStep, InvokeStep DEF LoopStep
<1>2. ASSUME NEW t \in Sender, SenderStep(t) PROVE PipeInv'
  BY <1>2, TestFlagStep, SetFlagStep, SetSkippedStep, TestWantedStep, ClearSkippedStep, WriteStep
     DEF SenderStep
<1>3. CASE UNCHANGED vars
  <2>1. UNCHANGED <<shared, table, sender, loopVars, owed>>
    BY <1>3 DEF vars
  <2>2. UNCHANGED <<raised, flag, pipe_write_skipped, pipe_write_wanted, pipe, asyncs, active,
                    handled, postfork, loop, waits, scan, back, fed, buffer>>
    BY <2>1 DEF shared, table, loopVars, pipecbVars
  <2>3. Typed' /\ ArrayMatches' /\ LoopMatches' /\ SkipsTaken'
    BY <2>1, <2>2 DEF PipeInv, Typed, ArrayMatches, LoopMatches, SkipsTaken, LoopAt, At
  <2>4. Notifies' = Notifies /\ Started' = Started
    BY <2>1, <2>2 DEF Notifies, At, Started, Range
  <2>5. FlagsSeen'
    BY <2>2, <2>4 DEF PipeInv, FlagsSeen, Comes, LoopAt
  <2>6. ASSUME NEW w \in owed \ fed PROVE Found(w)'
    <3>1. Announced(w)' = Announced(w)
      BY <2>1 DEF Announced, At
    <3> QED BY <2>2, <2>4, <2>6, <3>1 DEF PipeInv, OwedFound, Found, LoopAt
  <2>7. OwedFound'
    BY <2>1, <2>2, <2>4, <2>6 DEF PipeInv, OwedFound
  <2> QED BY <2>3, <2>5, <2>7 DEF PipeInv
<1> QED BY <1>1, <1>2, <1>3, SendStep, RaiseStep, AsyncStartStep, AsyncStopStep,
           SignalStartStep, SignalStopStep, ForkStep, ParentStep DEF Next

\* What the loop and the senders know of each other, at every step.
THEOREM PipeInvariant == ASSUME Delayed = FALSE PROVE Spec => []PipeInv
<1>1. PipeInv /\ [Next]_vars => PipeInv'
  BY PipeInvStep
<1> QED BY <1>1, PipeInvInit, PTL DEF Spec

\* No lost wake-up: a loop that blocks on an empty pipe while no sender is in
\* a call has called back for everything that was sent, save what loop_fork has
\* queued in the same iteration (ev_run and evpipe_write).
THEOREM NoLostWake == ASSUME Delayed = FALSE PROVE Spec => []WakeSeen
<1>1. PipeInv => WakeSeen
  <2> SUFFICES ASSUME PipeInv, LoopAt("poll"), waits, pipe = 0, \A t \in Sender : At(t, "idle"),
                      NEW w \in owed, ~(back = "want" /\ w \in fed)
               PROVE  FALSE
    BY DEF WakeSeen
  <2>0. w \notin fed
    BY DEF PipeInv, LoopMatches, Typed
  <2>1. Found(w) /\ w \in Source
    BY <2>0, RangeActive DEF PipeInv, OwedFound, Started, Typed, Source
  <2>2. flag[Kind(w)]
    BY <2>1 DEF Found, Announced, At, LoopAt
  <2>3. ~Notifies /\ ~Comes(Kind(w))
    BY DEF Notifies, Comes, At, LoopAt, PipeInv, LoopMatches
  <2>4. pipe_write_skipped
    BY <2>1, <2>2, <2>3, KindIsFlag DEF PipeInv, FlagsSeen
  <2> QED BY <2>4 DEF PipeInv, SkipsTaken, At
<1> QED BY <1>1, PipeInvariant, PTL
=============================================================================
