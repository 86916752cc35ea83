--------------------------- MODULE CoroutineProofs ---------------------------
(***************************************************************************)
(* Theorems about the scheduler, for every set of coroutines.              *)
(***************************************************************************)
EXTENDS CoroutineInv, CoroutineNesting, SequenceTheorems, FiniteSetTheorems, WellFoundedInduction, TLAPS

-----------------------------------------------------------------------------
(* Stacks *)

\* What pushing a frame does to a stack.
LEMMA PushLemma ==
  ASSUME NEW S, NEW s \in Seq(S), NEW e \in S
  PROVE  /\ Append(s, e) \in Seq(S)
         /\ Append(s, e) # <<>>
         /\ Len(Append(s, e)) = Len(s) + 1
         /\ \A i \in 1..Len(s) : Append(s, e)[i] = s[i]
         /\ Top(Append(s, e)) = e
BY AppendProperties DEF Top

\* What popping one does.
LEMMA PopLemma ==
  ASSUME NEW S, NEW s \in Seq(S), s # <<>>
  PROVE  /\ Len(s) \in Nat \ {0}
         /\ Top(s) \in S
         /\ Under(s) \in Seq(S)
         /\ Len(Under(s)) = Len(s) - 1
         /\ \A i \in 1..Len(s) - 1 : Under(s)[i] = s[i]
<1>1. Len(s) \in Nat /\ Len(s) > 0
  BY EmptySeq, LenProperties
<1>2. Top(s) \in S
  BY <1>1, ElementOfSeq DEF Top
<1>3. /\ Under(s) \in Seq(S)
      /\ Len(Under(s)) = Len(s) - 1
      /\ \A i \in 1..Len(s) - 1 : Under(s)[i] = s[i]
  <2>1. \A i \in 1..Len(s) - 1 : s[i] \in S
    BY <1>1, ElementOfSeq
  <2>2. 1 \in Int /\ Len(s) - 1 \in Int
    BY <1>1
  <2>3. /\ SubSeq(s, 1, Len(s) - 1) \in Seq(S)
        /\ Len(SubSeq(s, 1, Len(s) - 1)) =
             IF 1 <= Len(s) - 1 THEN Len(s) - 1 - 1 + 1 ELSE 0
        /\ \A i \in 1..Len(s) - 1 - 1 + 1 : SubSeq(s, 1, Len(s) - 1)[i] = s[1 + i - 1]
    BY <2>1, <2>2, SubSeqProperties
  <2>4. Len(SubSeq(s, 1, Len(s) - 1)) = Len(s) - 1
    <3>1. CASE Len(s) = 1
      BY <3>1, <2>3
    <3>2. CASE Len(s) > 1
      <4>1. 1 <= Len(s) - 1
        BY <3>2, <1>1
      <4>2. Len(SubSeq(s, 1, Len(s) - 1)) = Len(s) - 1 - 1 + 1
        BY <4>1, <2>3, Zenon
      <4>3. Len(s) - 1 - 1 + 1 = Len(s) - 1
        BY <1>1
      <4> QED
        BY <4>2, <4>3
    <3>3. Len(s) = 1 \/ Len(s) > 1
      <4>1. \A n \in Nat : n > 0 => n = 1 \/ n > 1
        OBVIOUS
      <4> QED
        BY <1>1, <4>1, Zenon
    <3> QED
      BY <3>1, <3>2, <3>3, Zenon
  <2>5. \A i \in 1..Len(s) - 1 : SubSeq(s, 1, Len(s) - 1)[i] = s[i]
    BY <1>1, <2>3
  <2> QED
    BY <2>3, <2>4, <2>5 DEF Under
<1> QED
  BY <1>1, <1>2, <1>3

\* What taking the first element of a list does.
LEMMA TailLemma ==
  ASSUME NEW S, NEW s \in Seq(S), s # <<>>
  PROVE  Head(s) \in S /\ Tail(s) \in Seq(S)
BY HeadTailProperties

-----------------------------------------------------------------------------
(* Types *)

LEMMA FrameType ==
  ASSUME NEW op \in Ops, NEW co \in Ctx, NEW kid \in Ctx, NEW left \in Nat
  PROVE  /\ Frame(op, co, kid, left) \in Frames
         /\ Mark(op) \in Frames
         /\ Call(op, co) \in Frames
BY DEF Frame, Mark, Call, Frames, Ctx

LEMMA MarkType == ASSUME NEW op \in Ops PROVE Mark(op) \in Frames
BY DEF Mark, Frame, Frames, Ctx

\* A context in a member function is a coroutine.
LEMMA MemberFunction ==
  ASSUME TypeOK, MainStack, NEW op, op \notin MainOps, In(op)
  PROVE  current # Nil
<1> SUFFICES ASSUME current = Nil PROVE FALSE
  OBVIOUS
<1>1. stack[Nil] \in Seq(Frames) /\ stack[Nil] # <<>>
  BY DEF TypeOK, In
<1>2. Len(stack[Nil]) \in 1..Len(stack[Nil])
  BY <1>1, PopLemma
<1> QED
  BY <1>2 DEF MainStack, MainOnly, In, Top

\* The running context's stack and its top frame.
LEMMA RunningFrame ==
  ASSUME TypeOK
  PROVE  /\ stack[current] \in Seq(Frames)
         /\ stack[current] # <<>> =>
              /\ Top(stack[current]) \in Frames
              /\ Under(stack[current]) \in Seq(Frames)
BY PopLemma DEF TypeOK

LEMMA BecomeType ==
  ASSUME TypeOK, NEW s \in Seq(Frames), Become(s)
  PROVE  stack' \in [Ctx -> Seq(Frames)]
BY DEF TypeOK, Become

LEMMA LoopType ==
  ASSUME TypeOK, NEW p \in Ctx, NEW s \in Seq(Frames), LoopOver(p, s)
  PROVE  stack' \in [Ctx -> Seq(Frames)]
<1>1. Len(childs[p]) \in Nat
  BY LenProperties DEF TypeOK
<1>2. Frame("resume_childs", p, Nil, Len(childs[p])) \in Frames
  BY <1>1, FrameType DEF Ops, Ctx
<1>3. Append(s, Frame("resume_childs", p, Nil, Len(childs[p]))) \in Seq(Frames)
  BY <1>2, PushLemma
<1> QED
  BY <1>3, BecomeType DEF LoopOver

LEMMA ClearType ==
  ASSUME NEW word \in [Coro -> SUBSET {"WAIT", "CHLD"}], NEW p
  PROVE  [word EXCEPT ![p] = @ \ {"CHLD"}] \in [Coro -> SUBSET {"WAIT", "CHLD"}]
<1> DEFINE word2 == [word EXCEPT ![p] = @ \ {"CHLD"}]
<1>1. \A c \in Coro : word2[c] \in SUBSET {"WAIT", "CHLD"}
  <2>1. SUFFICES ASSUME NEW c \in Coro PROVE word2[c] \in SUBSET {"WAIT", "CHLD"}
    OBVIOUS
  <2>2. word2[c] = word[c] \/ word2[c] = word[c] \ {"CHLD"}
    OBVIOUS
  <2> QED
    BY <2>2
<1> QED
  BY <1>1

LEMMA SweepType ==
  ASSUME TypeOK, NEW p \in Ctx, NEW s \in Seq(Frames), Sweep(p, s)
  PROVE  /\ stack' \in [Ctx -> Seq(Frames)]
         /\ evet' \in [Coro -> SUBSET {"WAIT", "CHLD"}]
         /\ msg'  \in [Coro -> SUBSET {"WAIT", "CHLD"}]
<1>1. stack' \in [Ctx -> Seq(Frames)]
  BY LoopType DEF Sweep
<1>2. /\ evet' \in [Coro -> SUBSET {"WAIT", "CHLD"}]
      /\ msg'  \in [Coro -> SUBSET {"WAIT", "CHLD"}]
  <2>1. CASE current = Nil
    BY <2>1 DEF Sweep, flags, TypeOK
  <2>2. CASE current # Nil
    <3>1. /\ evet' = [evet EXCEPT ![p] = @ \ {"CHLD"}]
          /\ msg'  = [msg  EXCEPT ![p] = @ \ {"CHLD"}]
      BY <2>2 DEF Sweep
    <3>2. /\ evet \in [Coro -> SUBSET {"WAIT", "CHLD"}]
          /\ msg  \in [Coro -> SUBSET {"WAIT", "CHLD"}]
      BY DEF TypeOK
    <3> HIDE DEF TypeOK
    <3>3. evet' \in [Coro -> SUBSET {"WAIT", "CHLD"}]
      BY <3>1, <3>2, ClearType
    <3>4. msg' \in [Coro -> SUBSET {"WAIT", "CHLD"}]
      BY <3>1, <3>2, ClearType
    <3> QED
      BY <3>3, <3>4
  <2> QED
    BY <2>1, <2>2
<1> QED
  BY <1>1, <1>2

LEMMA WordType ==
  ASSUME NEW word \in [Coro -> SUBSET {"WAIT", "CHLD"}], NEW c \in Coro
  PROVE  /\ RaiseChld(word, c) \in [Coro -> SUBSET {"WAIT", "CHLD"}]
         /\ DelWait(word, c) \in [Coro -> SUBSET {"WAIT", "CHLD"}]
<1>1. RaiseChld(word, c) \in [Coro -> SUBSET {"WAIT", "CHLD"}]
  BY DEF RaiseChld
<1> QED
  BY <1>1 DEF DelWait

LEMMA DestroyType ==
  ASSUME TypeOK, NEW c \in Coro, Destroy(c)
  PROVE  /\ stat'   \in [Coro -> {FREED, CORO_STAT_INIT, CORO_STAT_WAIT,
                                  CORO_STAT_BUSY, CORO_STAT_DONE}]
         /\ evet'   \in [Coro -> SUBSET {"WAIT", "CHLD"}]
         /\ msg'    \in [Coro -> SUBSET {"WAIT", "CHLD"}]
         /\ pre'    \in [Coro -> Ctx]
         /\ parent' \in [Coro -> Ctx]
         /\ level'  \in [Coro -> Nat]
         /\ messages' \in [Coro -> Seq(Message)]
BY DEF Destroy, TypeOK, Ctx

LEMMA TransferPreType ==
  ASSUME TypeOK, current # Nil,
         NEW own \in {FREED, CORO_STAT_INIT, CORO_STAT_WAIT, CORO_STAT_BUSY, CORO_STAT_DONE},
         TransferPre(own)
  PROVE  /\ current' \in Ctx
         /\ stat' \in [Coro -> {FREED, CORO_STAT_INIT, CORO_STAT_WAIT,
                                CORO_STAT_BUSY, CORO_STAT_DONE}]
<1> DEFINE p == pre[current]
           Stats == {FREED, CORO_STAT_INIT, CORO_STAT_WAIT, CORO_STAT_BUSY, CORO_STAT_DONE}
           self == [stat EXCEPT ![current] = own]
<1>1. current \in Coro /\ p \in Ctx
  BY DEF TypeOK, Ctx
<1>2. current' = p
  BY DEF TransferPre
<1>3. self \in [Coro -> Stats]
  BY <1>1 DEF TypeOK
<1>4. CASE p = Nil
  BY <1>1, <1>2, <1>3, <1>4 DEF TransferPre
<1>5. CASE p # Nil
  <2>1. p \in Coro /\ self[p] = CORO_STAT_WAIT /\ stat' = [self EXCEPT ![p] = 2 * @]
    BY <1>1, <1>5 DEF TransferPre, Ctx
  <2>2. 2 * self[p] = CORO_STAT_BUSY
    BY <2>1 DEF CORO_STAT_WAIT, CORO_STAT_BUSY
  <2> QED
    BY <1>1, <1>2, <1>3, <2>1, <2>2
<1> QED
  BY <1>4, <1>5

\* A step of the library keeps the types.
LEMMA LibraryType == TypeOK /\ MainStack /\ Library => TypeOK'
<1> SUFFICES ASSUME TypeOK, MainStack, Library PROVE TypeOK'
  OBVIOUS
<1> USE DEF flags, links
<1>0. /\ stack[current] \in Seq(Frames)
      /\ stack[current] # <<>> =>
           /\ Top(stack[current]) \in Frames
           /\ Under(stack[current]) \in Seq(Frames)
  BY RunningFrame
<1>pop. ASSUME stack[current] # <<>>, Pop PROVE stack' \in [Ctx -> Seq(Frames)]
  BY <1>0, <1>pop, BecomeType DEF Pop
<1>rep. ASSUME stack[current] # <<>>, NEW f \in Frames, Replace(f)
        PROVE  stack' \in [Ctx -> Seq(Frames)]
  <2>1. Append(Under(stack[current]), f) \in Seq(Frames)
    BY <1>0, <1>rep, PushLemma
  <2> QED
    BY <1>rep, <2>1, BecomeType DEF Replace
<1>1. CASE Drain
  <2>1. CASE childs[Nil] = <<>>
    BY <1>1, <2>1, <1>pop DEF Drain, In, TypeOK
  <2>2. CASE childs[Nil] # <<>>
    <3>1. Sweep(Nil, stack[Nil]) /\ UNCHANGED <<current, stat, links, childs, messages>>
      BY <1>1, <2>2 DEF Drain
    <3>2. Nil \in Ctx /\ stack[Nil] \in Seq(Frames)
      BY DEF TypeOK, Ctx
    <3>3. /\ stack' \in [Ctx -> Seq(Frames)]
          /\ evet' \in [Coro -> SUBSET {"WAIT", "CHLD"}]
          /\ msg'  \in [Coro -> SUBSET {"WAIT", "CHLD"}]
      BY <3>1, <3>2, SweepType
    <3> QED
      BY <3>1, <3>3 DEF TypeOK
  <2> QED
    BY <2>1, <2>2
<1>2. CASE TakeChild
  <2> DEFINE f == Top(stack[current])
             c == Head(childs[f.co])
             g == [f EXCEPT !.left = @ - 1]
             h == [f EXCEPT !.kid = c, !.left = @ - 1]
  <2>1. stack[current] # <<>> /\ f \in Frames
    BY <1>2, <1>0 DEF TakeChild, In
  <2>2. f.co \in Ctx /\ f.kid = Nil /\ f.left \in Nat /\ f.left - 1 \in Nat
    BY <1>2, <2>1 DEF TakeChild, Frames
  <2>3. childs[f.co] \in Seq(Coro) /\ childs[f.co] # <<>>
    BY <1>2, <2>2 DEF TakeChild, TypeOK
  <2>4. c \in Coro /\ Tail(childs[f.co]) \in Seq(Coro)
    BY <2>3, TailLemma
  <2>5. g \in Frames /\ h \in Frames
    BY <2>1, <2>2, <2>4 DEF Frames, Ctx
  <2>6. childs' \in [Ctx -> Seq(Coro)] /\ current' \in Ctx
    BY <1>2, <2>2, <2>4 DEF TakeChild, TypeOK
  <2>7. CASE stat[c] = CORO_STAT_DONE
    <3>1. Destroy(c) /\ Replace(g)
      BY <1>2, <2>7 DEF TakeChild
    <3>2. stack' \in [Ctx -> Seq(Frames)]
      BY <3>1, <2>1, <2>5, <1>rep
    <3> QED
      BY <3>1, <3>2, <2>4, <2>6, DestroyType DEF TypeOK
  <2>8. CASE stat[c] # CORO_STAT_DONE
    <3>1. /\ Become(Append(Append(Under(stack[current]), h), Call("resume", c)))
          /\ UNCHANGED <<stat, flags, links, messages>>
      BY <1>2, <2>8 DEF TakeChild
    <3>2. Call("resume", c) \in Frames
      BY <2>4, FrameType DEF Ops, Ctx, Call, Frame, Frames
    <3>3. Append(Under(stack[current]), h) \in Seq(Frames)
      BY <1>0, <2>1, <2>5, PushLemma
    <3>4. Append(Append(Under(stack[current]), h), Call("resume", c)) \in Seq(Frames)
      BY <3>2, <3>3, PushLemma
    <3>5. stack' \in [Ctx -> Seq(Frames)]
      BY <3>1, <3>4, BecomeType
    <3> QED
      BY <3>1, <3>5, <2>6 DEF TypeOK
  <2> QED
    BY <2>7, <2>8
<1>3. CASE PutChildBack
  <2> DEFINE f == Top(stack[current])
             g == [f EXCEPT !.kid = Nil]
  <2>1. stack[current] # <<>> /\ f \in Frames
    BY <1>3, <1>0 DEF PutChildBack, In
  <2>2. f.kid \in Coro /\ f.co \in Ctx /\ g \in Frames
    BY <1>3, <2>1 DEF PutChildBack, Frames, Ctx
  <2>3. stack' \in [Ctx -> Seq(Frames)] /\ current' \in Ctx
    <3>1. Replace(g) /\ current' = current
      BY <1>3 DEF PutChildBack
    <3> QED
      BY <3>1, <2>1, <2>2, <1>rep DEF TypeOK
  <2>4. CASE stat[f.kid] = CORO_STAT_DONE
    <3>1. Destroy(f.kid) /\ UNCHANGED childs
      BY <1>3, <2>4 DEF PutChildBack
    <3> QED
      BY <3>1, <2>2, <2>3, DestroyType DEF TypeOK
  <2>5. CASE stat[f.kid] # CORO_STAT_DONE
    <3>1. /\ childs' = [childs EXCEPT ![f.co] = Append(@, f.kid)]
          /\ UNCHANGED <<stat, flags, links, messages>>
      BY <1>3, <2>5 DEF PutChildBack
    <3>2. Append(childs[f.co], f.kid) \in Seq(Coro)
      BY <2>2, PushLemma DEF TypeOK
    <3>3. childs' \in [Ctx -> Seq(Coro)]
      BY <3>1, <3>2 DEF TypeOK
    <3> QED
      BY <3>1, <3>3, <2>3 DEF TypeOK
  <2> QED
    BY <2>4, <2>5
<1>4. CASE EndSweep
  BY <1>4, <1>pop DEF EndSweep, In, TypeOK
<1>5. CASE ResumeEntry
  <2> DEFINE c == Top(stack[current]).co
             behind == Append(Under(stack[current]), Call("transfer", c))
  <2>1. stack[current] # <<>> /\ c \in Ctx
    BY <1>5, <1>0 DEF ResumeEntry, In, Frames
  <2>2. Call("transfer", c) \in Frames
    BY <2>1 DEF Call, Frame, Frames, Ops, Ctx
  <2>3. behind \in Seq(Frames)
    BY <1>0, <2>1, <2>2, PushLemma
  <2>4. UNCHANGED <<current, stat, links, childs, messages>>
    BY <1>5 DEF ResumeEntry
  <2>5. /\ stack' \in [Ctx -> Seq(Frames)]
        /\ evet' \in [Coro -> SUBSET {"WAIT", "CHLD"}]
        /\ msg'  \in [Coro -> SUBSET {"WAIT", "CHLD"}]
    <3>1. CASE Pop /\ UNCHANGED flags
      BY <3>1, <2>1, <1>pop DEF TypeOK
    <3>2. CASE Sweep(c, behind)
      BY <3>2, <2>1, <2>3, SweepType
    <3>3. CASE Become(behind) /\ UNCHANGED flags
      BY <3>3, <2>3, BecomeType DEF TypeOK
    <3> QED
      BY <1>5, <3>1, <3>2, <3>3 DEF ResumeEntry
  <2> QED
    BY <2>4, <2>5 DEF TypeOK
<1>6. CASE Transfer
  <2> DEFINE c == Top(stack[current]).co
  <2>1. stack[current] # <<>> /\ c \in Ctx
    BY <1>6, <1>0 DEF Transfer, In, Frames
  <2>2. CASE Waits(c)
    BY SMTT(30), <1>6, <2>1, <2>2, <1>pop DEF Transfer, TypeOK
  <2>3. CASE ~Waits(c)
    <3> DEFINE woken == [stat EXCEPT ![c] = IF @ = CORO_STAT_INIT THEN 2 * @ ELSE @]
               busy  == [woken EXCEPT ![c] = 2 * @]
    <3>1. /\ woken[c] = CORO_STAT_WAIT
          /\ stat' = IF current = Nil THEN busy ELSE [busy EXCEPT ![current] = @ \div 2]
          /\ current' = c
          /\ pre' = [pre EXCEPT ![c] = current]
          /\ Replace(Call("coro_transfer", c))
          /\ UNCHANGED <<flags, parent, level, childs, messages>>
      BY <1>6, <2>3 DEF Transfer
    <3>2. stack' \in [Ctx -> Seq(Frames)]
      <4>1. Call("coro_transfer", c) \in Frames
        BY <2>1 DEF Call, Frame, Frames, Ops, Ctx
      <4> QED
        BY <4>1, <3>1, <2>1, <1>rep
    <3>3. pre' \in [Coro -> Ctx] /\ current' \in Ctx
      BY <3>1, <2>1 DEF TypeOK
    <3>4. stat' \in [Coro -> {FREED, CORO_STAT_INIT, CORO_STAT_WAIT,
                              CORO_STAT_BUSY, CORO_STAT_DONE}]
      <4> DEFINE Stats == {FREED, CORO_STAT_INIT, CORO_STAT_WAIT,
                           CORO_STAT_BUSY, CORO_STAT_DONE}
      <4> USE DEF FREED, CORO_STAT_INIT, CORO_STAT_WAIT, CORO_STAT_BUSY, CORO_STAT_DONE
      <4>1. stat \in [Coro -> Stats]
        BY DEF TypeOK
      <4>2. woken \in [Coro -> Stats]
        <5>1. \A x \in Stats : (IF x = CORO_STAT_INIT THEN 2 * x ELSE x) \in Stats
          OBVIOUS
        <5> QED
          BY <4>1, <5>1
      <4>3. 2 * woken[c] = CORO_STAT_BUSY
        BY <3>1
      <4>4. busy \in [Coro -> Stats]
        BY <4>2, <4>3
      <4>5. \A x \in Stats : x \div 2 \in Stats
        OBVIOUS
      <4>6. [busy EXCEPT ![current] = @ \div 2] \in [Coro -> Stats]
        BY <4>4, <4>5
      <4> QED
        BY <3>1, <4>4, <4>6
    <3> QED
      BY <3>1, <3>2, <3>3, <3>4 DEF TypeOK
  <2> QED
    BY <2>2, <2>3
<1>7. CASE Return
  BY <1>7, <1>pop DEF Return, In, TypeOK
<1>8. CASE YieldOut
  <2> DEFINE own == IF stat[current] = CORO_STAT_BUSY THEN CORO_STAT_WAIT ELSE stat[current]
  <2>1. In("yield") /\ Pop /\ TransferPre(own) /\ UNCHANGED <<flags, links, childs, messages>>
    BY <1>8 DEF YieldOut
  <2>2. stack' \in [Ctx -> Seq(Frames)]
    BY <2>1, <1>pop DEF In
  <2>3. current # Nil
    BY <2>1, MemberFunction DEF MainOps
  <2>4. own \in {FREED, CORO_STAT_INIT, CORO_STAT_WAIT, CORO_STAT_BUSY, CORO_STAT_DONE}
    BY <2>3 DEF TypeOK, Ctx
  <2> QED
    BY <2>1, <2>2, <2>3, <2>4, TransferPreType DEF TypeOK
<1>9. CASE MgetLoop
  <2>1. In("mget") /\ UNCHANGED <<current, stat, links, childs>>
    BY <1>9 DEF MgetLoop
  <2>2. current \in Coro /\ stack[current] # <<>>
    BY <2>1, MemberFunction DEF MainOps, In, TypeOK, Ctx
  <2>3. CASE messages[current] = <<>>
    <3>1. /\ LoopOver(current, Append(stack[current], Mark("yield")))
          /\ msg'  = [msg EXCEPT ![current] = {"WAIT"}]
          /\ evet' = [evet EXCEPT ![current] = @ \ {"CHLD"}]
          /\ UNCHANGED messages
      BY <1>9, <2>3 DEF MgetLoop
    <3>2. Append(stack[current], Mark("yield")) \in Seq(Frames)
      BY <1>0, MarkType, PushLemma DEF Ops
    <3>3. stack' \in [Ctx -> Seq(Frames)]
      BY <3>1, <3>2, <2>2, LoopType DEF Ctx
    <3>4. msg' \in [Coro -> SUBSET {"WAIT", "CHLD"}]
      BY <3>1 DEF TypeOK
    <3>5. evet' \in [Coro -> SUBSET {"WAIT", "CHLD"}]
      BY <3>1, ClearType DEF TypeOK
    <3> QED
      BY <2>1, <3>1, <3>3, <3>4, <3>5 DEF TypeOK
  <2>4. CASE messages[current] # <<>>
    <3>1. /\ Pop
          /\ messages' = [messages EXCEPT ![current] = Tail(@)]
          /\ UNCHANGED flags
      BY <1>9, <2>4 DEF MgetLoop
    <3>2. Tail(messages[current]) \in Seq(Message)
      BY <2>2, <2>4, TailLemma DEF TypeOK
    <3>3. messages' \in [Coro -> Seq(Message)]
      BY <3>1, <3>2 DEF TypeOK
    <3> QED
      BY <2>1, <2>2, <3>1, <3>3, <1>pop DEF TypeOK
  <2> QED
    BY <2>3, <2>4
<1>10. CASE AwaitReturn
  BY <1>10, <1>pop DEF AwaitReturn, In, TypeOK
<1>11. CASE Execute
  <2>1. In("execute") /\ UNCHANGED <<links, childs, messages>>
    BY <1>11 DEF Execute
  <2>2. current \in Coro /\ stack[current] # <<>>
    BY <2>1, MemberFunction DEF MainOps, In, TypeOK, Ctx
  <2>3. CASE childs[current] # <<>>
    <3>1. Sweep(current, stack[current]) /\ UNCHANGED <<current, stat>>
      BY <1>11, <2>3 DEF Execute
    <3>2. /\ stack' \in [Ctx -> Seq(Frames)]
          /\ evet' \in [Coro -> SUBSET {"WAIT", "CHLD"}]
          /\ msg'  \in [Coro -> SUBSET {"WAIT", "CHLD"}]
      BY <3>1, <2>2, <1>0, SweepType DEF Ctx
    <3> QED
      BY <2>1, <3>1, <3>2 DEF TypeOK
  <2>4. CASE childs[current] = <<>>
    <3>1. Pop /\ TransferPre(CORO_STAT_DONE) /\ UNCHANGED flags
      BY <1>11, <2>4 DEF Execute
    <3>2. stack' \in [Ctx -> Seq(Frames)]
      BY <3>1, <2>2, <1>pop
    <3>3. current # Nil
      BY <2>1, MemberFunction DEF MainOps
    <3>4. /\ current' \in Ctx
          /\ stat' \in [Coro -> {FREED, CORO_STAT_INIT, CORO_STAT_WAIT,
                                 CORO_STAT_BUSY, CORO_STAT_DONE}]
      BY <3>1, <3>3, TransferPreType
    <3> QED
      BY <2>1, <3>1, <3>2, <3>4 DEF TypeOK
  <2> QED
    BY <2>3, <2>4
<1> QED
  BY <1>1, <1>2, <1>3, <1>4, <1>5, <1>6, <1>7, <1>8, <1>9, <1>10, <1>11 DEF Library

\* A call of the user keeps the types.
LEMMA UserType == TypeOK /\ User => TypeOK'
<1> SUFFICES ASSUME TypeOK, User PROVE TypeOK'
  OBVIOUS
<1> USE DEF flags, links
<1>0. stack[current] \in Seq(Frames) /\ current \in Ctx
  BY DEF TypeOK
<1>push. ASSUME NEW f \in Frames, Push(f) PROVE stack' \in [Ctx -> Seq(Frames)]
  <2>1. Append(stack[current], f) \in Seq(Frames)
    BY <1>0, PushLemma
  <2> QED
    BY <1>push, <2>1, BecomeType DEF Push
<1>1. ASSUME NEW c \in Coro, NEW raw \in RawMsg, Child(c, raw) PROVE TypeOK'
  <2>1. raw \in SUBSET {"WAIT", "CHLD"}
    BY RawMsgAssumption
  <2> DEFINE fresh == [childs EXCEPT ![c] = <<>>]
  <2>2. fresh \in [Ctx -> Seq(Coro)] /\ Append(fresh[current], c) \in Seq(Coro)
    <3>1. <<>> \in Seq(Coro)
      OBVIOUS
    <3>2. fresh \in [Ctx -> Seq(Coro)]
      BY <3>1 DEF TypeOK
    <3>3. fresh[current] \in Seq(Coro)
      BY <3>2, <1>0
    <3> HIDE DEF fresh
    <3> QED
      BY <3>2, <3>3, PushLemma
  <2>3. childs' \in [Ctx -> Seq(Coro)]
    <3>1. childs' = [fresh EXCEPT ![current] = Append(@, c)]
      BY <1>1 DEF Child
    <3> HIDE DEF fresh
    <3> QED
      BY <3>1, <2>2
  <2>7. messages' \in [Coro -> Seq(Message)]
    BY <1>1 DEF Child, TypeOK
  <2>4. level' \in [Coro -> Nat]
    <3>1. (IF current = Nil THEN 1 ELSE level[current] + 1) \in Nat
      BY <1>0 DEF TypeOK, Ctx
    <3> QED
      BY <1>1, <3>1 DEF Child, TypeOK
  <2>5. /\ stat' \in [Coro -> {FREED, CORO_STAT_INIT, CORO_STAT_WAIT,
                                CORO_STAT_BUSY, CORO_STAT_DONE}]
        /\ evet' \in [Coro -> SUBSET {"WAIT", "CHLD"}]
        /\ msg'  \in [Coro -> SUBSET {"WAIT", "CHLD"}]
    BY <1>1, <2>1 DEF Child, TypeOK
  <2>6. pre' \in [Coro -> Ctx] /\ parent' \in [Coro -> Ctx]
    BY <1>0, <1>1 DEF Child, TypeOK, Ctx
  <2> QED
    BY <1>1, <2>3, <2>4, <2>5, <2>6, <2>7 DEF Child, TypeOK
<1>2. CASE ResumeAll
  <2>1. Mark("drain") \in Frames
    BY MarkType DEF Ops
  <2> QED
    BY <1>2, <2>1, <1>push DEF ResumeAll, TypeOK
<1>3. ASSUME NEW c \in Coro, Resume(c) PROVE TypeOK'
  <2>1. Call("resume", c) \in Frames
    BY DEF Call, Frame, Frames, Ops, Ctx
  <2> QED
    BY <1>3, <2>1, <1>push DEF Resume, TypeOK
<1>4. ASSUME NEW p \in Ctx, ResumeChilds(p) PROVE TypeOK'
  <2>1. Sweep(p, stack[current]) /\ UNCHANGED <<current, stat, links, childs, messages>>
    BY <1>4 DEF ResumeChilds
  <2>2. /\ stack' \in [Ctx -> Seq(Frames)]
        /\ evet' \in [Coro -> SUBSET {"WAIT", "CHLD"}]
        /\ msg'  \in [Coro -> SUBSET {"WAIT", "CHLD"}]
    BY <1>0, <2>1, SweepType
  <2> QED
    BY <2>1, <2>2 DEF TypeOK
<1>5. CASE ResumeOwnChilds
  <2>1. /\ Sweep(current, stack[current])
        /\ UNCHANGED <<current, stat, links, childs, messages>>
    BY <1>5 DEF ResumeOwnChilds
  <2>2. /\ stack' \in [Ctx -> Seq(Frames)]
        /\ evet' \in [Coro -> SUBSET {"WAIT", "CHLD"}]
        /\ msg'  \in [Coro -> SUBSET {"WAIT", "CHLD"}]
    BY <1>0, <2>1, SweepType
  <2> QED
    BY <2>1, <2>2 DEF TypeOK
<1>6. CASE Yield
  <2>1. /\ Sweep(current, <<Mark("yield")>>)
        /\ UNCHANGED <<current, stat, links, childs, messages>>
    BY <1>6 DEF Yield
  <2>2. <<Mark("yield")>> \in Seq(Frames)
    BY MarkType DEF Ops
  <2>3. /\ stack' \in [Ctx -> Seq(Frames)]
        /\ evet' \in [Coro -> SUBSET {"WAIT", "CHLD"}]
        /\ msg'  \in [Coro -> SUBSET {"WAIT", "CHLD"}]
    BY <1>0, <2>1, <2>2, SweepType
  <2> QED
    BY <2>1, <2>3 DEF TypeOK
<1>7. ASSUME NEW c \in Coro, NEW m \in Message, Mput(c, m) PROVE TypeOK'
  <2>1. Append(messages[c], m) \in Seq(Message)
    BY PushLemma DEF TypeOK
  <2>2. messages' \in [Coro -> Seq(Message)]
    BY <1>7, <2>1 DEF Mput, TypeOK
  <2>3. msg' \in [Coro -> SUBSET {"WAIT", "CHLD"}]
    BY <1>7, WordType DEF Mput, TypeOK
  <2> QED
    BY <1>7, <2>2, <2>3 DEF Mput, TypeOK
<1>8. ASSUME NEW p \in Coro, NEW m \in Message, Mbroadcast(p, m) PROVE TypeOK'
  <2> DEFINE receivers == {childs[p][i] : i \in DOMAIN childs[p]}
             woken     == {c \in receivers : "WAIT" \in msg[c]}
             told      == UNION {Ancestors(c) : c \in woken}
  <2>1. messages' = [c \in Coro |-> IF c \in receivers THEN Append(messages[c], m)
                                                       ELSE messages[c]]
    BY <1>8 DEF Mbroadcast
  <2>2. msg' = [c \in Coro |-> (msg[c] \cup (IF c \in told THEN {"CHLD"} ELSE {}))
                                        \ (IF c \in receivers THEN {"WAIT"} ELSE {})]
    BY <1>8 DEF Mbroadcast
  <2> HIDE DEF receivers, woken, told
  <2>3. messages' \in [Coro -> Seq(Message)]
    <3>1. \A c \in Coro : Append(messages[c], m) \in Seq(Message)
      BY PushLemma DEF TypeOK
    <3> QED
      BY <2>1, <3>1 DEF TypeOK
  <2>4. msg' \in [Coro -> SUBSET {"WAIT", "CHLD"}]
    BY <2>2 DEF TypeOK
  <2> QED
    BY <1>8, <2>3, <2>4 DEF Mbroadcast, TypeOK
<1>9. CASE Mget
  <2>1. Mark("mget") \in Frames
    BY MarkType DEF Ops
  <2> QED
    BY <1>9, <2>1, <1>push DEF Mget, TypeOK
<1>10. CASE TryMget
  <2>1. current \in Coro /\ messages[current] # <<>>
    BY <1>10, <1>0 DEF TryMget, Ctx
  <2>2. Tail(messages[current]) \in Seq(Message)
    BY <2>1, TailLemma DEF TypeOK
  <2>3. messages' \in [Coro -> Seq(Message)]
    BY <1>10, <2>2 DEF TryMget, TypeOK
  <2> QED
    BY <1>10, <2>3 DEF TryMget, TypeOK
<1>11. CASE Await
  <2>1. <<Mark("await"), Mark("yield")>> \in Seq(Frames)
    BY MarkType DEF Ops
  <2>2. stack' \in [Ctx -> Seq(Frames)]
    BY <1>0, <1>11, <2>1, LoopType DEF Await
  <2>3. evet' = [evet EXCEPT ![current] = {"WAIT"}] /\ msg' = [msg EXCEPT ![current] = @ \ {"CHLD"}]
    BY <1>11 DEF Await
  <2>4. msg' \in [Coro -> SUBSET {"WAIT", "CHLD"}]
    BY <2>3, ClearType DEF TypeOK
  <2>5. evet' \in [Coro -> SUBSET {"WAIT", "CHLD"}]
    BY <2>3 DEF TypeOK
  <2> QED
    BY <1>11, <2>2, <2>4, <2>5 DEF Await, TypeOK
<1>12. ASSUME NEW c \in Coro, Fire(c) PROVE TypeOK'
  <2>1. evet' \in [Coro -> SUBSET {"WAIT", "CHLD"}]
    BY <1>12, WordType DEF Fire, TypeOK
  <2> QED
    BY <1>12, <2>1 DEF Fire, TypeOK
<1>13. ASSUME NEW c \in Coro, EventAdd(c) PROVE TypeOK'
  <2>1. evet' \in [Coro -> SUBSET {"WAIT", "CHLD"}]
    BY <1>13, WordType DEF EventAdd, TypeOK
  <2> QED
    BY <1>13, <2>1 DEF EventAdd, TypeOK
<1>14. CASE Finish
  <2>1. Mark("execute") \in Frames
    BY MarkType DEF Ops
  <2> QED
    BY <1>14, <2>1, <1>push DEF Finish, TypeOK
<1> QED
  BY <1>1, <1>2, <1>3, <1>4, <1>5, <1>6, <1>7, <1>8, <1>9, <1>10, <1>11, <1>12,
     <1>13, <1>14 DEF User

-----------------------------------------------------------------------------
(* The main context is in no member function *)

LEMMA MainPush ==
  ASSUME NEW s \in Seq(Frames), MainOnly(s), NEW f \in Frames, f.op \in MainOps
  PROVE  MainOnly(Append(s, f))
<1>1. /\ Len(Append(s, f)) = Len(s) + 1
      /\ \A i \in 1..Len(s) : Append(s, f)[i] = s[i]
      /\ Append(s, f)[Len(s) + 1] = f
  BY AppendProperties
<1>2. SUFFICES ASSUME NEW i \in 1..Len(s) + 1 PROVE Append(s, f)[i].op \in MainOps
  BY <1>1 DEF MainOnly
<1>3. Len(s) \in Nat
  BY LenProperties
<1>4. CASE i \in 1..Len(s)
  BY <1>1, <1>4 DEF MainOnly
<1>5. CASE i = Len(s) + 1
  BY <1>1, <1>5
<1> QED
  BY <1>3, <1>4, <1>5

LEMMA MainPop ==
  ASSUME NEW s \in Seq(Frames), s # <<>>, MainOnly(s)
  PROVE  MainOnly(Under(s)) /\ Top(s).op \in MainOps
<1>1. /\ Len(s) \in Nat \ {0}
      /\ Len(Under(s)) = Len(s) - 1
      /\ \A i \in 1..Len(s) - 1 : Under(s)[i] = s[i]
  BY PopLemma
<1>2. \A i \in 1..Len(s) - 1 : Under(s)[i].op \in MainOps
  BY <1>1 DEF MainOnly
<1> QED
  BY <1>1, <1>2 DEF MainOnly, Top

LEMMA BecomeMain ==
  ASSUME TypeOK, MainStack, NEW s, Become(s), current = Nil => MainOnly(s)
  PROVE  MainStack'
BY DEF TypeOK, MainStack, Become, Ctx

LEMMA SweepMain ==
  ASSUME TypeOK, MainStack, NEW p \in Ctx, NEW s \in Seq(Frames),
         current = Nil => MainOnly(s), LoopOver(p, s)
  PROVE  MainStack'
<1> DEFINE f == Frame("resume_childs", p, Nil, Len(childs[p]))
<1>1. Len(childs[p]) \in Nat
  BY LenProperties DEF TypeOK
<1>2. f \in Frames /\ f.op \in MainOps
  BY <1>1 DEF Frame, Frames, Ops, MainOps, Ctx
<1>3. current = Nil => MainOnly(Append(s, f))
  BY <1>2, MainPush
<1> QED
  BY <1>3, BecomeMain DEF LoopOver

\* Every step leaves only functions of this_coroutine on the main stack.
LEMMA MainStackStep == TypeOK /\ MainStack /\ [Next]_vars => MainStack'
<1> SUFFICES ASSUME TypeOK, MainStack, [Next]_vars PROVE MainStack'
  OBVIOUS
<1>0. /\ stack[current] \in Seq(Frames) /\ current \in Ctx
      /\ current = Nil => MainOnly(stack[current])
      /\ stack[current] # <<>> =>
           /\ Top(stack[current]) \in Frames
           /\ Under(stack[current]) \in Seq(Frames)
           /\ current = Nil => MainOnly(Under(stack[current]))
  BY RunningFrame, MainPop DEF MainStack, TypeOK
<1>same. ASSUME stack' = stack PROVE MainStack'
  BY <1>same DEF MainStack
<1>pop. ASSUME stack[current] # <<>>, Pop PROVE MainStack'
  BY <1>0, <1>pop, BecomeMain DEF Pop
<1>push. ASSUME NEW f \in Frames, f.op \in MainOps, Push(f) PROVE MainStack'
  <2>1. current = Nil => MainOnly(Append(stack[current], f))
    BY <1>0, <1>push, MainPush
  <2> QED
    BY <1>push, <2>1, BecomeMain DEF Push
<1>rep. ASSUME stack[current] # <<>>, NEW f \in Frames, f.op \in MainOps, Replace(f)
        PROVE  MainStack'
  <2>1. current = Nil => MainOnly(Append(Under(stack[current]), f))
    BY <1>0, <1>rep, MainPush
  <2> QED
    BY <1>rep, <2>1, BecomeMain DEF Replace
<1>1. CASE Drain
  <2>1. Pop \/ LoopOver(Nil, stack[Nil])
    BY <1>1 DEF Drain, Sweep
  <2>2. Nil \in Ctx /\ stack[Nil] \in Seq(Frames) /\ MainOnly(stack[Nil])
    BY DEF TypeOK, Ctx, MainStack
  <2> QED
    BY <1>1, <1>pop, <2>1, <2>2, SweepMain DEF Drain, In
<1>2. CASE TakeChild
  <2> DEFINE f == Top(stack[current])
             c == Head(childs[f.co])
             g == [f EXCEPT !.left = @ - 1]
             h == [f EXCEPT !.kid = c, !.left = @ - 1]
  <2>1. stack[current] # <<>> /\ f \in Frames /\ f.op = "resume_childs"
    BY <1>2, <1>0 DEF TakeChild, In
  <2>2. f.co \in Ctx /\ f.left - 1 \in Nat /\ childs[f.co] # <<>>
    BY <1>2, <2>1 DEF TakeChild, Frames
  <2>3. c \in Coro
    BY <2>2, TailLemma DEF TypeOK
  <2>4. /\ g \in Frames /\ g.op \in MainOps
        /\ h \in Frames /\ h.op \in MainOps
        /\ Call("resume", c) \in Frames /\ Call("resume", c).op \in MainOps
    BY <2>1, <2>2, <2>3 DEF Frames, Ctx, MainOps, Ops, Call, Frame
  <2>5. CASE Replace(g)
    BY <2>1, <2>4, <2>5, <1>rep
  <2>6. CASE Become(Append(Append(Under(stack[current]), h), Call("resume", c)))
    <3>1. Append(Under(stack[current]), h) \in Seq(Frames)
      BY <1>0, <2>1, <2>4, PushLemma
    <3>2. current = Nil => MainOnly(Append(Under(stack[current]), h))
      BY <1>0, <2>1, <2>4, MainPush
    <3>3. current = Nil =>
            MainOnly(Append(Append(Under(stack[current]), h), Call("resume", c)))
      BY <2>4, <3>1, <3>2, MainPush
    <3> QED
      BY <2>6, <3>3, BecomeMain
  <2> QED
    BY <1>2, <2>5, <2>6 DEF TakeChild
<1>3. CASE PutChildBack
  <2> DEFINE g == [Top(stack[current]) EXCEPT !.kid = Nil]
  <2>1. stack[current] # <<>> /\ Replace(g)
    BY <1>3 DEF PutChildBack, In
  <2>2. g \in Frames /\ g.op \in MainOps
    BY <1>3, <1>0 DEF PutChildBack, In, Frames, Ctx, MainOps
  <2> QED
    BY <2>1, <2>2, <1>rep
<1>4. CASE EndSweep
  BY <1>4, <1>pop DEF EndSweep, In
<1>5. CASE ResumeEntry
  <2> DEFINE c == Top(stack[current]).co
             behind == Append(Under(stack[current]), Call("transfer", c))
  <2>1. stack[current] # <<>> /\ c \in Ctx
    BY <1>5, <1>0 DEF ResumeEntry, In, Frames
  <2>2. Call("transfer", c) \in Frames /\ Call("transfer", c).op \in MainOps
    BY <2>1 DEF Call, Frame, Frames, Ops, MainOps, Ctx
  <2>3. behind \in Seq(Frames) /\ (current = Nil => MainOnly(behind))
    BY <1>0, <2>1, <2>2, PushLemma, MainPush
  <2>4. Pop \/ LoopOver(c, behind) \/ Become(behind)
    BY <1>5 DEF ResumeEntry, Sweep
  <2> QED
    BY <2>1, <2>3, <2>4, <1>pop, SweepMain, BecomeMain
<1>6. CASE Transfer
  <2> DEFINE c == Top(stack[current]).co
  <2>1. stack[current] # <<>> /\ c \in Ctx
    BY <1>6, <1>0 DEF Transfer, In, Frames
  <2>2. Call("coro_transfer", c) \in Frames /\ Call("coro_transfer", c).op \in MainOps
    BY <2>1 DEF Call, Frame, Frames, Ops, MainOps, Ctx
  <2>3. Pop \/ Replace(Call("coro_transfer", c))
    BY <1>6 DEF Transfer
  <2> QED
    BY <2>1, <2>2, <2>3, <1>pop, <1>rep
<1>7. CASE Return
  BY <1>7, <1>pop DEF Return, In
<1>8. CASE YieldOut
  BY <1>8, <1>pop DEF YieldOut, In
<1>9. CASE MgetLoop
  <2>1. stack[current] # <<>> /\ current # Nil
    BY <1>9, MemberFunction DEF MgetLoop, In, MainOps
  <2>2. Append(stack[current], Mark("yield")) \in Seq(Frames)
    BY <1>0, MarkType, PushLemma DEF Ops
  <2>3. Pop \/ LoopOver(current, Append(stack[current], Mark("yield")))
    BY <1>9 DEF MgetLoop
  <2> QED
    BY <1>0, <2>1, <2>2, <2>3, <1>pop, SweepMain
<1>10. CASE AwaitReturn
  BY <1>10, <1>pop DEF AwaitReturn, In
<1>11. CASE Execute
  <2>1. stack[current] # <<>>
    BY <1>11 DEF Execute, In
  <2>2. Pop \/ LoopOver(current, stack[current])
    BY <1>11 DEF Execute, Sweep
  <2> QED
    BY <1>0, <2>1, <2>2, <1>pop, SweepMain
<1>12. ASSUME NEW c \in Coro, Resume(c) PROVE MainStack'
  <2>1. Call("resume", c) \in Frames /\ Call("resume", c).op \in MainOps
    BY DEF Call, Frame, Frames, Ops, MainOps, Ctx
  <2> QED
    BY <1>12, <2>1, <1>push DEF Resume
<1>13. CASE ResumeAll
  <2>1. Mark("drain") \in Frames /\ Mark("drain").op \in MainOps
    BY DEF Mark, Frame, Frames, Ops, MainOps, Ctx
  <2> QED
    BY <1>13, <2>1, <1>push DEF ResumeAll
<1>14. ASSUME NEW p \in Ctx, ResumeChilds(p) PROVE MainStack'
  BY <1>0, <1>14, SweepMain DEF ResumeChilds, Sweep
<1>15. CASE ResumeOwnChilds
  BY <1>0, <1>15, SweepMain DEF ResumeOwnChilds, Sweep
<1>16. CASE Yield \/ Mget \/ Await \/ Finish
  <2>1. current # Nil
    BY <1>16 DEF Yield, Mget, Await, Finish
  <2>2. \E s : Become(s)
    BY <1>16 DEF Yield, Mget, Await, Finish, Sweep, LoopOver, Push
  <2> QED
    BY <2>1, <2>2, BecomeMain
<1>17. CASE \/ TryMget
            \/ \E c \in Coro : Fire(c) \/ EventAdd(c)
            \/ \E c \in Coro, raw \in RawMsg : Child(c, raw)
            \/ \E c \in Coro, m \in Message : Mput(c, m) \/ Mbroadcast(c, m)
  BY <1>17, <1>same DEF TryMget, Fire, EventAdd, Child, Mput, Mbroadcast
<1>18. CASE UNCHANGED vars
  BY <1>18, <1>same DEF vars
<1> QED
  BY <1>1, <1>2, <1>3, <1>4, <1>5, <1>6, <1>7, <1>8, <1>9, <1>10, <1>11, <1>12,
     <1>13, <1>14, <1>15, <1>16, <1>17, <1>18 DEF Next, Library, User

-----------------------------------------------------------------------------
(* Type correctness *)

LEMMA InitType == Init => TypeOK /\ MainStack
<1> SUFFICES ASSUME Init PROVE TypeOK /\ MainStack
  OBVIOUS
<1>1. Len(<<>>) = 0 /\ \A S : <<>> \in Seq(S)
  OBVIOUS
<1>2. TypeOK
  BY <1>1 DEF Init, TypeOK, Ctx, FREED
<1>3. MainStack
  BY <1>1 DEF Init, MainStack, MainOnly, Ctx
<1> QED
  BY <1>2, <1>3

LEMMA TypeStep == TypeOK /\ MainStack /\ [Next]_vars => TypeOK' /\ MainStack'
<1> SUFFICES ASSUME TypeOK, MainStack, [Next]_vars PROVE TypeOK'
  BY MainStackStep
<1>1. CASE UNCHANGED vars
  BY <1>1 DEF vars, flags, links, TypeOK
<1> QED
  BY <1>1, LibraryType, UserType DEF Next

\* Every variable keeps its type, and the main context runs no member
\* function: get() is null there.
THEOREM TypeCorrect == Spec => []TypeOK
<1>1. Spec => [](TypeOK /\ MainStack)
  BY InitType, TypeStep, PTL DEF Spec
<1> QED
  BY <1>1, PTL

-----------------------------------------------------------------------------
(* No message at a parked mailbox *)

\* The lost wake-up of a mailbox cannot happen: no coroutine is marked as
\* waiting for a message while it has one.
THEOREM MailNeverParked == Spec => []NoParkedMail
<1>1. Init => NoParkedMail
  BY DEF Init, NoParkedMail
<1>2. TypeOK /\ MainStack /\ NoParkedMail /\ [Next]_vars => NoParkedMail'
  <2> SUFFICES ASSUME TypeOK, MainStack, NoParkedMail, [Next]_vars, NEW c \in Coro,
                      "WAIT" \in msg'[c]
               PROVE  messages'[c] = <<>>
    BY DEF NoParkedMail
  <2> USE DEF flags, links
  <2>same. ASSUME msg'[c] \subseteq msg[c], messages'[c] = messages[c]
           PROVE  messages'[c] = <<>>
    BY <2>same DEF NoParkedMail
  <2>1. CASE Drain
    BY <2>1, <2>same DEF Drain, Sweep, TypeOK
  <2>2. CASE TakeChild
    <3> DEFINE d == Head(childs[Top(stack[current]).co])
    <3>1. CASE Destroy(d)
      BY <3>1, <2>same DEF Destroy, TypeOK
    <3>2. CASE UNCHANGED <<flags, messages>>
      BY <3>2, <2>same
    <3> QED
      BY <2>2, <3>1, <3>2 DEF TakeChild
  <2>3. CASE PutChildBack
    <3> DEFINE d == Top(stack[current]).kid
    <3>1. CASE Destroy(d)
      BY <3>1, <2>same DEF Destroy, TypeOK
    <3>2. CASE UNCHANGED <<flags, messages>>
      BY <3>2, <2>same
    <3> QED
      BY <2>3, <3>1, <3>2 DEF PutChildBack
  <2>4. CASE EndSweep \/ Transfer \/ Return \/ YieldOut \/ AwaitReturn
    BY <2>4, <2>same DEF EndSweep, Transfer, Return, YieldOut, AwaitReturn
  <2>sweep. ASSUME NEW p, NEW s, Sweep(p, s), messages' = messages
            PROVE  messages'[c] = <<>>
    <3>1. msg'[c] \subseteq msg[c]
      BY <2>sweep DEF Sweep, TypeOK
    <3> QED
      BY <3>1, <2>sweep, <2>same
  <2>5. CASE ResumeEntry
    <3> DEFINE d == Top(stack[current]).co
               behind == Append(Under(stack[current]), Call("transfer", d))
    <3>1. messages' = messages /\ (UNCHANGED flags \/ Sweep(d, behind))
      BY <2>5 DEF ResumeEntry
    <3> QED
      BY <3>1, <2>same, <2>sweep
  <2>6. CASE MgetLoop
    <3>1. CASE messages[current] = <<>>
      BY <2>6, <3>1, <2>same DEF MgetLoop, TypeOK
    <3>2. CASE messages[current] # <<>>
      BY <2>6, <3>2 DEF MgetLoop, TypeOK, NoParkedMail
    <3> QED
      BY <3>1, <3>2
  <2>7. CASE Execute
    BY <2>7, <2>same DEF Execute, Sweep, TypeOK
  <2>8. CASE \E d \in Coro, raw \in RawMsg : Child(d, raw)
    <3>1. PICK d \in Coro, raw \in RawMsg : Child(d, raw)
      BY <2>8
    <3>2. CASE c = d
      BY <3>1, <3>2 DEF Child, TypeOK
    <3>3. CASE c # d
      BY <3>1, <3>3, <2>same DEF Child, TypeOK
    <3> QED
      BY <3>2, <3>3
  <2>9. CASE (\E p \in Ctx : ResumeChilds(p)) \/ ResumeOwnChilds \/ Yield
    <3>1. messages' = messages /\ \E p, s : Sweep(p, s)
      BY <2>9 DEF ResumeChilds, ResumeOwnChilds, Yield
    <3> QED
      BY <3>1, <2>sweep
  <2>10. CASE \E d \in Coro, m \in Message : Mput(d, m)
    <3>1. PICK d \in Coro, m \in Message : Mput(d, m)
      BY <2>10
    <3> DEFINE told == IF "WAIT" \in msg[d] THEN RaiseChld(msg, d) ELSE msg
    <3>2. msg' = [told EXCEPT ![d] = @ \ {"WAIT"}]
      BY <3>1 DEF Mput, DelWait
    <3>3. told \in [Coro -> SUBSET {"WAIT", "CHLD"}]
      BY WordType DEF TypeOK
    <3>4. "WAIT" \in told[c] => "WAIT" \in msg[c]
      BY DEF RaiseChld
    <3> HIDE DEF told
    <3>5. c # d /\ "WAIT" \in told[c]
      BY <3>2, <3>3
    <3>6. messages'[c] = messages[c]
      BY <3>1, <3>5 DEF Mput, TypeOK
    <3> QED
      BY <3>4, <3>5, <3>6 DEF NoParkedMail
  <2>11. CASE \E p \in Coro, m \in Message : Mbroadcast(p, m)
    BY <2>11 DEF Mbroadcast, TypeOK, NoParkedMail
  <2>12. CASE TryMget
    BY <2>12 DEF TryMget, TypeOK, NoParkedMail
  <2>13. CASE Await
    BY <2>13, <2>same DEF Await, TypeOK
  <2>14. CASE \/ ResumeAll \/ Mget \/ Finish
              \/ \E d \in Coro : Resume(d) \/ Fire(d) \/ EventAdd(d)
    BY <2>14, <2>same DEF ResumeAll, Mget, Finish, Resume, Fire, EventAdd
  <2>15. CASE UNCHANGED vars
    BY <2>15, <2>same DEF vars
  <2> QED
    BY <2>1, <2>2, <2>3, <2>4, <2>5, <2>6, <2>7, <2>8, <2>9, <2>10, <2>11,
       <2>12, <2>13, <2>14, <2>15 DEF Next, Library, User
<1>3. Spec => [](TypeOK /\ MainStack /\ NoParkedMail)
  BY <1>1, <1>2, InitType, TypeStep, PTL DEF Spec
<1> QED
  BY <1>3, PTL

-----------------------------------------------------------------------------
(* Induction over numbers *)

\* A set of numbers that is not empty has a least one.
LEMMA LeastNumber ==
  ASSUME NEW T, T \subseteq Nat, T # {}
  PROVE  \E n \in T : \A m \in T : n <= m
<1> DEFINE below == {ss \in Nat \X Nat : ss[1] < ss[2]}
<1>1. IsWellFoundedOn(below, Nat)
  BY NatLessThanWellFounded DEF OpToRel
<1> HIDE DEF below
<1>2. PICK n \in T : \A m \in T : <<m, n>> \notin below
  BY <1>1, WFMin
<1>3. ASSUME NEW m \in T PROVE n <= m
  <2>1. ~(m < n)
    <3>1. <<m, n>> \in Nat \X Nat /\ <<m, n>>[1] = m /\ <<m, n>>[2] = n
      OBVIOUS
    <3>2. <<m, n>> \notin below
      BY <1>2
    <3> QED BY <3>1, <3>2 DEF below
  <2>2. m \in Nat /\ n \in Nat
    OBVIOUS
  <2> QED BY <2>1, <2>2
<1> QED BY <1>3

LEMMA NumberInduction ==
  ASSUME NEW S, 0 \in S, \A n \in Nat : n \in S => n + 1 \in S
  PROVE  Nat \subseteq S
<1> DEFINE T == {n \in Nat : n \notin S}
<1> SUFFICES ASSUME T # {} PROVE FALSE
  OBVIOUS
<1>1. PICK n \in T : \A m \in T : n <= m
  <2>1. T \subseteq Nat
    OBVIOUS
  <2> HIDE DEF T
  <2> QED BY <2>1, LeastNumber
<1>2. n # 0
  OBVIOUS
<1>3. n - 1 \in Nat /\ n - 1 \notin T
  BY <1>1, <1>2
<1> QED BY <1>3

-----------------------------------------------------------------------------
(* The tree *)

\* up is the way up from c: c itself, its parent, and so on, N steps.
Climbs(up, c, N) ==
  up = [n \in 0..N |-> IF n = 0 THEN c ELSE IF up[n-1] = Nil THEN Nil ELSE parent[up[n-1]]]

LEMMA ClimbExists ==
  ASSUME NEW c, NEW N \in Nat
  PROVE  \E up : Climbs(up, c, N)
<1> DEFINE S == {n \in Nat : \E up : Climbs(up, c, n)}
<1>1. 0 \in S
  <2>1. Climbs([n \in 0..0 |-> c], c, 0)
    BY DEF Climbs
  <2> QED BY <2>1
<1>2. ASSUME NEW n \in Nat, n \in S PROVE n + 1 \in S
  <2>1. PICK up : Climbs(up, c, n)
    BY <1>2
  <2> DEFINE next == IF up[n] = Nil THEN Nil ELSE parent[up[n]]
             longer == [i \in 0..n + 1 |-> IF i = n + 1 THEN next ELSE up[i]]
  <2>2. ASSUME NEW i \in 0..n + 1
        PROVE  longer[i] = IF i = 0 THEN c ELSE IF longer[i-1] = Nil THEN Nil ELSE parent[longer[i-1]]
    <3>1. CASE i = n + 1
      <4>1. i # 0 /\ i - 1 \in 0..n + 1 /\ i - 1 # n + 1 /\ i - 1 = n
        BY <3>1
      <4>2. longer[i] = next /\ longer[i-1] = up[n]
        BY <3>1, <4>1
      <4> QED BY <4>1, <4>2
    <3>2. CASE i \in 1..n
      <4>1. i \in 0..n /\ i # 0 /\ i # n + 1 /\ i - 1 \in 0..n + 1 /\ i - 1 # n + 1
        BY <3>2
      <4>2. longer[i] = up[i] /\ longer[i-1] = up[i-1]
        BY <4>1
      <4>3. up[i] = IF up[i-1] = Nil THEN Nil ELSE parent[up[i-1]]
        BY <2>1, <4>1 DEF Climbs
      <4> QED BY <4>1, <4>2, <4>3
    <3>3. CASE i = 0
      <4>1. 0 \in 0..n /\ longer[0] = up[0]
        OBVIOUS
      <4>2. up[0] = c
        BY <2>1, <4>1 DEF Climbs
      <4> QED BY <3>3, <4>1, <4>2
    <3> QED BY <3>1, <3>2, <3>3
  <2>3. Climbs(longer, c, n + 1)
    <3>1. longer = [i \in 0..n + 1 |-> longer[i]]
      OBVIOUS
    <3> HIDE DEF longer
    <3> QED BY <2>2, <3>1 DEF Climbs
  <2>4. \E u : Climbs(u, c, n + 1)
    <3> HIDE DEF longer
    <3> QED BY <2>3
  <2> QED BY <2>4
<1>3. Nat \subseteq S
  <2> HIDE DEF S
  <2> QED BY <1>1, <1>2, NumberInduction
<1> QED BY <1>3

\* The ancestors of c are what is met on the way up.
LEMMA AncestorsClimbed ==
  ASSUME NEW c
  PROVE  \E up : /\ Climbs(up, c, Cardinality(Coro))
                 /\ Ancestors(c) = {p \in Coro : \E n \in 1..Cardinality(Coro) : up[n] = p}
<1> DEFINE N == Cardinality(Coro)
           climb == CHOOSE up :
             up = [n \in 0..Cardinality(Coro) |-> IF n = 0 THEN c
                     ELSE IF up[n-1] = Nil THEN Nil ELSE parent[up[n-1]]]
<1>1. Ancestors(c) = {p \in Coro : \E n \in 1..Cardinality(Coro) : climb[n] = p}
  BY DEF Ancestors
<1>2. \E up : Climbs(up, c, Cardinality(Coro))
  BY ClimbExists, CoroAssumption, FS_CardinalityType
<1>3. Climbs(climb, c, Cardinality(Coro))
  BY <1>2 DEF Climbs
<1> QED BY <1>1, <1>3

\* What is above a coroutine exists, and on a smaller level.
LEMMA AncestorsAbove ==
  ASSUME TypeOK, Tree, NEW c \in Live, NEW p \in Ancestors(c)
  PROVE  p \in Live /\ level[p] < level[c]
<1> DEFINE N == Cardinality(Coro)
<1>0. N \in Nat
  BY CoroAssumption, FS_CardinalityType
<1> HIDE DEF N
<1>1. PICK up : Climbs(up, c, N) /\ Ancestors(c) = {q \in Coro : \E n \in 1..N : up[n] = q}
  BY AncestorsClimbed DEF N
<1> DEFINE Higher(n) == n \in 1..N => up[n] = Nil \/ (up[n] \in Live /\ level[up[n]] < level[c])
           S == {n \in Nat : Higher(n)}
<1>2. \A q \in Live : level[q] \in Nat /\ (parent[q] = Nil \/ (parent[q] \in Live /\ level[parent[q]] < level[q]))
  BY SMTT(30), NilAssumption DEF Tree, TypeOK, Live, Lv
<1>3. ASSUME NEW n \in Nat, Higher(n) PROVE Higher(n + 1)
  <2> SUFFICES ASSUME n + 1 \in 1..N
               PROVE  up[n+1] = Nil \/ (up[n+1] \in Live /\ level[up[n+1]] < level[c])
    OBVIOUS
  <2>1. n + 1 \in 0..N /\ n + 1 # 0 /\ n + 1 - 1 = n /\ n \in 0..N
    BY <1>0
  <2>2. up[n+1] = IF up[n] = Nil THEN Nil ELSE parent[up[n]]
    BY <1>1, <2>1 DEF Climbs
  <2>3. CASE n = 0
    <3>1. up[n] = c /\ c # Nil
      BY <1>1, <2>1, <2>3, NilAssumption DEF Climbs, Live
    <3> QED BY <1>2, <2>2, <3>1
  <2>4. CASE n # 0
    <3>1. up[n] = Nil \/ (up[n] \in Live /\ level[up[n]] < level[c])
      BY <1>0, <1>3, <2>1, <2>4
    <3> QED BY <1>2, <2>2, <3>1
  <2> QED BY <2>3, <2>4
<1>4. Nat \subseteq S
  <2>1. 0 \in S
    OBVIOUS
  <2>2. \A n \in Nat : n \in S => n + 1 \in S
    BY <1>3
  <2> HIDE DEF S
  <2> QED BY <2>1, <2>2, NumberInduction
<1>5. PICK n \in 1..N : up[n] = p
  BY <1>1
<1>6. p # Nil /\ Higher(n)
  BY <1>0, <1>1, <1>4, NilAssumption
<1> QED BY <1>5, <1>6

-----------------------------------------------------------------------------
(* Lists and stacks *)

LEMMA ElemsAppend ==
  ASSUME NEW S, NEW s \in Seq(S), NEW e \in S
  PROVE  /\ Elems(Append(s, e)) = Elems(s) \cup {e}
         /\ Len(Append(s, e)) = Len(s) + 1
         /\ NoDup(s) /\ e \notin Elems(s) => NoDup(Append(s, e))
<1>1. /\ Len(s) \in Nat /\ Len(Append(s, e)) = Len(s) + 1
      /\ \A i \in 1..Len(s) : Append(s, e)[i] = s[i]
      /\ Append(s, e)[Len(s) + 1] = e
  BY AppendProperties, LenProperties
<1>2. 1..Len(s) + 1 = (1..Len(s)) \cup {Len(s) + 1}
  BY <1>1
<1>3. Elems(Append(s, e)) = Elems(s) \cup {e}
  BY <1>1, <1>2 DEF Elems
<1>4. ASSUME NoDup(s), e \notin Elems(s), NEW i \in 1..Len(s) + 1, NEW j \in 1..Len(s) + 1,
             Append(s, e)[i] = Append(s, e)[j]
      PROVE  i = j
  BY <1>1, <1>2, <1>4 DEF NoDup, Elems
<1> QED BY <1>1, <1>3, <1>4 DEF NoDup

LEMMA ElemsTail ==
  ASSUME NEW S, NEW s \in Seq(S), s # <<>>, NoDup(s)
  PROVE  /\ Head(s) \in Elems(s)
         /\ Elems(Tail(s)) = Elems(s) \ {Head(s)}
         /\ Len(Tail(s)) = Len(s) - 1
         /\ Len(s) \in Nat \ {0}
         /\ NoDup(Tail(s))
<1>1. /\ Len(s) \in Nat \ {0} /\ Len(Tail(s)) = Len(s) - 1
      /\ \A i \in 1..Len(s) - 1 : Tail(s)[i] = s[i+1]
      /\ Head(s) = s[1]
  BY HeadTailProperties, EmptySeq, LenProperties
<1>2. Head(s) \in Elems(s)
  BY <1>1 DEF Elems
<1>3. ASSUME NEW i \in 1..Len(s) - 1
      PROVE  i + 1 \in 1..Len(s) /\ Tail(s)[i] = s[i+1] /\ Tail(s)[i] # Head(s)
  <2>1. i + 1 \in 1..Len(s) /\ i + 1 # 1 /\ 1 \in 1..Len(s)
    BY <1>1
  <2> QED BY <1>1, <2>1 DEF NoDup
<1>4. ASSUME NEW e \in Elems(s), e # Head(s) PROVE e \in Elems(Tail(s))
  <2>1. PICK i \in 1..Len(s) : s[i] = e
    BY DEF Elems
  <2>2. i - 1 \in 1..Len(s) - 1 /\ i - 1 + 1 = i
    BY <1>1, <1>4, <2>1
  <2> QED BY <1>1, <2>1, <2>2 DEF Elems
<1>5. Elems(Tail(s)) = Elems(s) \ {Head(s)}
  BY <1>1, <1>3, <1>4 DEF Elems
<1>6. NoDup(Tail(s))
  <2> SUFFICES ASSUME NEW i \in 1..Len(s) - 1, NEW j \in 1..Len(s) - 1, Tail(s)[i] = Tail(s)[j]
               PROVE  i = j
    BY <1>1 DEF NoDup
  <2>1. i + 1 = j + 1
    BY <1>3 DEF NoDup
  <2> QED BY <1>1, <2>1
<1> QED BY <1>1, <1>2, <1>5, <1>6

LEMMA HandsPush ==
  ASSUME NEW s \in Seq(Frames), NEW f \in Frames
  PROVE  Hands(Append(s, f)) = Hands(s) \cup ({f.kid} \ {Nil})
<1>1. /\ Len(s) \in Nat /\ Len(Append(s, f)) = Len(s) + 1
      /\ \A i \in 1..Len(s) : Append(s, f)[i] = s[i]
      /\ Append(s, f)[Len(s) + 1] = f
  BY AppendProperties, LenProperties
<1>2. 1..Len(s) + 1 = (1..Len(s)) \cup {Len(s) + 1}
  BY <1>1
<1> QED BY <1>1, <1>2 DEF Hands

LEMMA HandsPop ==
  ASSUME NEW s \in Seq(Frames), s # <<>>
  PROVE  Hands(s) = Hands(Under(s)) \cup ({Top(s).kid} \ {Nil})
<1>1. /\ Len(s) \in Nat \ {0} /\ Len(Under(s)) = Len(s) - 1
      /\ \A i \in 1..Len(s) - 1 : Under(s)[i] = s[i]
  BY PopLemma
<1>2. 1..Len(s) = (1..Len(s) - 1) \cup {Len(s)}
  BY <1>1
<1> QED BY <1>1, <1>2 DEF Hands, Top

-----------------------------------------------------------------------------
(* Pushing and popping *)

\* All calls of a stack that go down the tree work above this depth.
Shallower(s, depth) == \A i \in 1..Len(s) : s[i].op \in Nest => Depth(s[i]) < depth

LEMMA LvNat == ASSUME TypeOK, NEW c \in Ctx PROVE Lv(c) \in Nat
  BY DEF TypeOK, Lv, Ctx

LEMMA DepthNat ==
  ASSUME TypeOK, NEW f \in Frames
  PROVE  Depth(f) \in Nat /\ Lv(f.co) \in Nat
<1>1. Lv(f.co) \in Nat
  BY LvNat DEF Frames
<1> QED BY <1>1 DEF Depth

LEMMA GoodPop ==
  ASSUME NEW s \in Seq(Frames), s # <<>>, NEW r, Good(s, r)
  PROVE  /\ Good(Under(s), r) /\ Fits(Top(s), r)
         /\ Top(s).op \in Nest => Shallower(Under(s), Depth(Top(s)))
<1>1. /\ Len(s) \in Nat \ {0} /\ Len(Under(s)) = Len(s) - 1
      /\ \A i \in 1..Len(s) - 1 : Under(s)[i] = s[i]
      /\ Len(s) \in 1..Len(s) /\ 1..Len(s) - 1 \subseteq 1..Len(s)
  BY PopLemma
<1>2. Fits(Top(s), r) /\ \A i \in 1..Len(s) - 1 : Fits(Under(s)[i], r)
  BY <1>1 DEF Good, Top
<1>3. Based(Under(s))
  <2> SUFFICES ASSUME NEW i \in 1..Len(s) - 1, Under(s)[i].op \notin Nest
               PROVE  i = 1 \/ (i = 2 /\ Under(s)[2].op = "yield" /\ Under(s)[1].op \in {"mget", "await"})
    BY <1>1 DEF Based
  <2>1. i = 1 \/ (i = 2 /\ s[2].op = "yield" /\ s[1].op \in {"mget", "await"})
    BY <1>1 DEF Good, Based
  <2>2. i = 2 => 1 \in 1..Len(s) - 1 /\ 2 \in 1..Len(s) - 1
    BY <1>1
  <2> QED BY <1>1, <2>1, <2>2
<1>4. Ordered(Under(s))
  BY <1>1 DEF Good, Ordered
<1>5. Top(s).op \in Nest => Shallower(Under(s), Depth(Top(s)))
  <2> SUFFICES ASSUME NEW i \in 1..Len(s) - 1, s[i].op \in Nest PROVE Depth(s[i]) < Depth(s[Len(s)])
    BY <1>1 DEF Shallower, Top
  <2>1. i < Len(s)
    BY <1>1
  <2> QED BY <1>1, <2>1 DEF Good, Ordered
<1> QED BY <1>1, <1>2, <1>3, <1>4, <1>5 DEF Good

LEMMA ShapePush ==
  ASSUME NEW s \in Seq(Frames), Based(s), Ordered(s), NEW f \in Frames, f.op \in Nest,
         Shallower(s, Depth(f))
  PROVE  Based(Append(s, f)) /\ Ordered(Append(s, f))
<1> DEFINE t == Append(s, f)
           n == Len(s) + 1
<1>1. /\ Len(s) \in Nat /\ Len(t) = n /\ t[n] = f
      /\ \A i \in 1..Len(s) : t[i] = s[i]
  BY AppendProperties, LenProperties
<1>2. 1..n = (1..Len(s)) \cup {n} /\ \A i \in 1..Len(s) : i < n
  BY <1>1
<1> HIDE DEF t
<1>4. Based(t)
  <2> SUFFICES ASSUME NEW i \in 1..n, t[i].op \notin Nest
               PROVE  i = 1 \/ (i = 2 /\ t[2].op = "yield" /\ t[1].op \in {"mget", "await"})
    BY <1>1 DEF Based
  <2>1. i \in 1..Len(s) /\ t[i] = s[i]
    BY <1>1, <1>2
  <2>2. i = 1 \/ (i = 2 /\ s[2].op = "yield" /\ s[1].op \in {"mget", "await"})
    BY <2>1 DEF Based
  <2>3. i = 2 => 1 \in 1..Len(s) /\ 2 \in 1..Len(s)
    BY <1>1, <2>1
  <2> QED BY <1>1, <2>2, <2>3
<1>5. Ordered(t)
  <2> SUFFICES ASSUME NEW i \in 1..n, NEW j \in 1..n, i < j, t[i].op \in Nest
               PROVE  t[j].op \in Nest /\ Depth(t[i]) < Depth(t[j])
    BY <1>1 DEF Ordered
  <2>1. i \in 1..Len(s)
    BY <1>1, <1>2
  <2>2. CASE j = n
    BY <1>1, <2>1, <2>2 DEF Shallower
  <2>3. CASE j \in 1..Len(s)
    BY <1>1, <2>1, <2>3 DEF Ordered
  <2> QED BY <1>2, <2>2, <2>3
<1> QED BY <1>4, <1>5 DEF t

LEMMA GoodPush ==
  ASSUME NEW s \in Seq(Frames), NEW r, Good(s, r), NEW f \in Frames, f.op \in Nest,
         Fits(f, r), Shallower(s, Depth(f))
  PROVE  Good(Append(s, f), r)
<1>1. /\ Len(s) \in Nat /\ Len(Append(s, f)) = Len(s) + 1
      /\ \A i \in 1..Len(s) : Append(s, f)[i] = s[i]
      /\ Append(s, f)[Len(s) + 1] = f
  BY AppendProperties, LenProperties
<1>2. 1..Len(s) + 1 = (1..Len(s)) \cup {Len(s) + 1}
  BY <1>1
<1>3. \A i \in 1..Len(s) + 1 : Fits(Append(s, f)[i], r)
  BY <1>1, <1>2 DEF Good
<1>4. Based(Append(s, f)) /\ Ordered(Append(s, f))
  BY ShapePush DEF Good
<1> QED BY <1>1, <1>3, <1>4 DEF Good

\* The bottom of a stack.
LEMMA GoodBase ==
  ASSUME NEW r
  PROVE  /\ Good(<<>>, r) /\ Hands(<<>>) = {}
         /\ \A f \in Frames : f.op \notin Nest /\ f.kid = Nil /\ (f.op = "drain" => r = Nil) =>
              /\ Good(<<f>>, r) /\ Hands(<<f>>) = {}
              /\ \A g \in Frames : g.op = "yield" /\ g.kid = Nil /\ f.op \in {"mget", "await"} =>
                   Good(<<f, g>>, r) /\ Hands(<<f, g>>) = {}
<1>1. Good(<<>>, r) /\ Hands(<<>>) = {}
  BY DEF Good, Based, Ordered, Fits, Hands
<1>2. ASSUME NEW f, f.op \notin Nest, f.kid = Nil, f.op = "drain" => r = Nil PROVE Fits(f, r)
  BY <1>2 DEF Fits, Nest
<1>3. ASSUME NEW f \in Frames, f.op \notin Nest, f.kid = Nil, f.op = "drain" => r = Nil
      PROVE  Good(<<f>>, r) /\ Hands(<<f>>) = {}
  BY <1>2, <1>3 DEF Good, Based, Ordered, Hands
<1>4. ASSUME NEW f \in Frames, f.op \in {"mget", "await"}, f.kid = Nil,
             NEW g \in Frames, g.op = "yield", g.kid = Nil
      PROVE  Good(<<f, g>>, r) /\ Hands(<<f, g>>) = {}
  <2>1. f.op \notin Nest /\ g.op \notin Nest
    BY <1>4 DEF Nest
  <2>2. Fits(f, r) /\ Fits(g, r)
    BY <1>2, <1>4, <2>1
  <2> DEFINE s == <<f, g>>
  <2>3. Len(s) = 2 /\ s[1] = f /\ s[2] = g
    OBVIOUS
  <2> HIDE DEF s
  <2>4. 1..Len(s) = {1, 2}
    BY <2>3
  <2> QED BY <1>4, <2>1, <2>2, <2>3, <2>4 DEF Good, Based, Ordered, Hands, s
<1> QED BY <1>1, <1>3, <1>4

-----------------------------------------------------------------------------
(* How deep the running context is *)

USE DEF SchedInv

\* Calls that other contexts are in do not work deeper than the one that runs.
LEMMA OthersAbove ==
  ASSUME TypeOK, SchedInv, NEW r \in Ctx, r # current,
         NEW i \in 1..Len(stack[r]), stack[r][i].op \in Nest
  PROVE  /\ r \in Chain
         /\ Depth(stack[r][i]) <= 2 * Lv(current)
         /\ \A q \in Chain : Lv(r) < Lv(q) => Depth(stack[r][i]) <= 2 * Lv(q)
<1>1. stack[r] \in Seq(Frames) /\ stack[r] # <<>>
  BY EmptySeq DEF TypeOK
<1>2. r \in Chain
  <2>1. CASE r \notin Chain
    <3>1. Len(stack[r]) = 1 /\ stack[r][1].op \in {"mget", "await"}
      BY <1>1, <2>1 DEF Parks
    <3>2. i = 1
      BY <3>1
    <3> QED BY <3>1, <3>2 DEF Nest
  <2> QED BY <2>1
<1>3. Resumer(r)
  BY <1>2 DEF Chain
<1> DEFINE t == Top(stack[r])
<1>4. t.op = "coro_transfer" /\ t \in Frames /\ stack[r][i] \in Frames
  BY <1>1, <1>3, PopLemma, ElementOfSeq DEF Resumer
<1>5. Depth(stack[r][i]) <= Depth(t)
  <2>1. Depth(stack[r][i]) \in Nat /\ Depth(t) \in Nat
    BY <1>4, DepthNat
  <2>2. Len(stack[r]) \in Nat \ {0} /\ Len(stack[r]) \in 1..Len(stack[r])
    BY <1>1, PopLemma
  <2>3. CASE i = Len(stack[r])
    BY <2>1, <2>3 DEF Top
  <2>4. CASE i < Len(stack[r])
    <3>1. Ordered(stack[r])
      BY DEF Stacks, Good
    <3>2. Depth(stack[r][i]) < Depth(stack[r][Len(stack[r])])
      BY <2>2, <2>4, <3>1 DEF Ordered
    <3> QED BY <2>1, <3>2 DEF Top
  <2> QED BY <2>2, <2>3, <2>4
<1>6. Depth(t) = 2 * Lv(t.co)
  BY <1>4 DEF Depth
<1>7. \A q \in Chain : Lv(q) \in Nat /\ Lv(q) <= Lv(current)
  BY LvNat DEF Links, Chain, TypeOK
<1>8. t.co \in Chain /\ \A q \in Chain : Lv(r) < Lv(q) => Lv(t.co) <= Lv(q)
  BY <1>2 DEF Links
<1>9. Depth(stack[r][i]) \in Nat /\ Lv(t.co) \in Nat /\ current \in Chain
  BY <1>4, DepthNat DEF Chain
<1>10. ASSUME NEW q \in Chain, Lv(t.co) <= Lv(q) PROVE Depth(stack[r][i]) <= 2 * Lv(q)
  BY <1>5, <1>6, <1>7, <1>9, <1>10
<1> QED BY <1>2, <1>7, <1>8, <1>9, <1>10

\* The call at the top of the running context works deeper than all others.
LEMMA TopDeepest ==
  ASSUME TypeOK, SchedInv, stack[current] # <<>>, Top(stack[current]).op \in Nest,
         NEW r \in Ctx, NEW i \in 1..Len(stack[r]), stack[r][i].op \in Nest,
         r # current \/ i # Len(stack[r])
  PROVE  Depth(stack[r][i]) < Depth(Top(stack[current]))
<1> DEFINE t == Top(stack[current])
<1>1. /\ stack[current] \in Seq(Frames) /\ t \in Frames /\ current \in Ctx
      /\ Len(stack[current]) \in Nat \ {0} /\ Len(stack[current]) \in 1..Len(stack[current])
  BY PopLemma DEF TypeOK
<1>2. stack[r][i] \in Frames
  BY ElementOfSeq DEF TypeOK
<1>3. Depth(t) \in Nat /\ Depth(stack[r][i]) \in Nat /\ Lv(current) \in Nat
  BY <1>1, <1>2, DepthNat, LvNat
<1>4. 2 * Lv(current) < Depth(t)
  BY <1>1 DEF Stacks, Good, Fits, Top
<1>5. CASE r # current
  <2>1. Depth(stack[r][i]) <= 2 * Lv(current)
    BY <1>5, OthersAbove
  <2> QED BY <1>3, <1>4, <2>1
<1>6. CASE r = current
  <2>1. i < Len(stack[current])
    BY <1>1, <1>6
  <2>2. Ordered(stack[current])
    BY <1>1 DEF Stacks, Good
  <2> QED BY <1>1, <1>6, <2>1, <2>2 DEF Ordered, Top
<1> QED BY <1>5, <1>6

\* The frames that are not at the top of the running context.
LEMMA RunningGood ==
  ASSUME TypeOK, SchedInv, stack[current] # <<>>
  PROVE  /\ stack[current] \in Seq(Frames) /\ Under(stack[current]) \in Seq(Frames)
         /\ Top(stack[current]) \in Frames
         /\ Good(stack[current], current) /\ Good(Under(stack[current]), current)
         /\ Fits(Top(stack[current]), current)
         /\ Top(stack[current]).op \in Nest =>
              Shallower(Under(stack[current]), Depth(Top(stack[current])))
         /\ Hands(stack[current]) =
              Hands(Under(stack[current])) \cup ({Top(stack[current]).kid} \ {Nil})
<1>1. stack[current] \in Seq(Frames) /\ Good(stack[current], current)
  BY DEF TypeOK, Stacks
<1> QED BY <1>1, PopLemma, GoodPop, HandsPop

-----------------------------------------------------------------------------
(* Steps that only change the stack of the running context *)

LEMMA ChainSame ==
  ASSUME TypeOK, NEW s, Become(s), UNCHANGED current
  PROVE  /\ Chain' = Chain
         /\ \A r \in Ctx : r # current => stack'[r] = stack[r]
         /\ stack'[current] = s
<1>1. \A r \in Ctx : r # current => stack'[r] = stack[r]
  BY DEF TypeOK, Become
<1>2. stack'[current] = s
  BY DEF TypeOK, Become
<1> QED BY <1>1, <1>2 DEF Chain, Resumer

LEMMA StackStep ==
  ASSUME TypeOK, SchedInv, UNCHANGED <<current, stat, links, childs>>,
         NEW s \in Seq(Frames), Become(s), Good(s, current),
         Hands(s) = Hands(stack[current])
  PROVE  SchedInv'
<1> USE DEF links
<1>1. /\ Chain' = Chain
      /\ \A r \in Ctx : r # current => stack'[r] = stack[r]
      /\ stack'[current] = s
  BY ChainSame
<1>2. \A c : Lv(c)' = Lv(c)
  BY DEF Lv
<1>3. OneRunner'
  BY DEF OneRunner
<1>4. Tree'
  BY DEF Tree, Live, Lv
<1>5. Stacks'
  <2> SUFFICES ASSUME NEW r \in Ctx PROVE Good(stack[r], r)'
    BY DEF Stacks
  <2>1. Good(stack'[r], r)
    BY <1>1 DEF Stacks
  <2> QED BY <2>1 DEF Good, Based, Ordered, Fits, Depth, Lv, Live
<1>6. Lists'
  <2>1. ASSUME NEW r \in Ctx PROVE Hands(stack[r])' = Hands(stack[r])
    <3>1. Hands(stack[r])' = Hands(stack'[r])
      BY DEF Hands
    <3> QED BY <1>1, <3>1
  <2> QED BY <2>1 DEF Lists, NoDup, Elems, Live
<1>7. Links'
  <2>1. \A r \in Chain \ {current} : Top(stack[r])' = Top(stack[r])
    BY <1>1 DEF Chain, Top, TypeOK
  <2>2. \A c \in Chain \ {Nil} : pre[c] \in Chain \ {current} /\ Top(stack[pre[c]])' = Top(stack[pre[c]])
    BY <2>1 DEF Links
  <2>3. \A r, q \in Chain : Lv(r)' = Lv(q)' => r = q
    BY <1>2 DEF Links
  <2>4. \A r \in Chain \ {current} :
          /\ Top(stack[r])'.co \in Chain
          /\ pre[Top(stack[r])'.co] = r
          /\ \A q \in Chain : Lv(r)' < Lv(q)' => Lv(Top(stack[r]).co)' <= Lv(q)'
    BY <1>2, <2>1 DEF Links
  <2>5. \A c \in Chain \ {Nil} : pre[c] \in Chain \ {current} /\ Top(stack[pre[c]])'.co = c
    BY <2>2 DEF Links
  <2>6. \A r \in Chain : Lv(r)' <= Lv(current)'
    BY <1>2 DEF Links
  <2>7. \A r \in Chain \ {Nil, current} : stat[r] = CORO_STAT_WAIT
    BY DEF Links
  <2> QED BY <1>1, <2>3, <2>4, <2>5, <2>6, <2>7 DEF Links
<1>8. Parks'
  <2>1. \A r \in Ctx \ Chain : stack'[r] = stack[r]
    BY <1>1 DEF Chain
  <2>2. \A c \in Coro : stack'[c] = stack[c] \/ stat[c] = CORO_STAT_BUSY
    BY <1>1 DEF OneRunner, Ctx
  <2> QED BY <1>1, <2>1, <2>2 DEF Parks
<1> QED BY <1>3, <1>4, <1>5, <1>6, <1>7, <1>8

\* Popping a call that has no child in its hands.
LEMMA PopStep ==
  ASSUME TypeOK, SchedInv, UNCHANGED <<current, stat, links, childs>>,
         stack[current] # <<>>, Top(stack[current]).kid = Nil, Pop
  PROVE  SchedInv'
  BY RunningGood, StackStep DEF Pop

-----------------------------------------------------------------------------
(* The calls that only change the stack *)

LEMMA CurrentLives ==
  ASSUME TypeOK, SchedInv
  PROVE  /\ current \in Ctx /\ current \in Live \cup {Nil}
         /\ current # Nil => current \in Coro /\ stat[current] = CORO_STAT_BUSY
<1>1. current \in Ctx
  BY DEF TypeOK
<1>2. ASSUME current # Nil PROVE current \in Coro /\ stat[current] = CORO_STAT_BUSY
  BY <1>1, <1>2 DEF Ctx, OneRunner
<1> QED BY <1>1, <1>2 DEF Live, FREED, CORO_STAT_BUSY

\* What may be resumed is below the running context.
LEMMA NestedBelow ==
  ASSUME TypeOK, SchedInv, NEW c \in Nested
  PROVE  c \in Live /\ c # Nil /\ Lv(current) < Lv(c)
<1>1. c \in Live /\ c # Nil
  BY NilAssumption DEF Nested, Descendants, Live
<1>2. CASE current = Nil
  <2>1. Lv(parent[c]) \in Nat
    BY <1>1, LvNat DEF TypeOK, Live
  <2> QED BY <1>1, <1>2, <2>1 DEF Tree, Lv
<1>3. CASE current # Nil
  <2>1. current \in Ancestors(c)
    BY <1>3 DEF Nested, Descendants
  <2> QED BY <1>1, <1>3, <2>1, AncestorsAbove DEF Lv
<1> QED BY <1>1, <1>2, <1>3

LEMMA ShallowerPush ==
  ASSUME TypeOK, NEW s \in Seq(Frames), NEW f \in Frames, NEW d \in Nat, NEW e \in Nat,
         Shallower(s, d), d <= e, Depth(f) < e
  PROVE  Shallower(Append(s, f), e)
<1>1. /\ Len(s) \in Nat /\ Len(Append(s, f)) = Len(s) + 1
      /\ \A i \in 1..Len(s) : Append(s, f)[i] = s[i]
      /\ Append(s, f)[Len(s) + 1] = f
  BY AppendProperties, LenProperties
<1>2. 1..Len(s) + 1 = (1..Len(s)) \cup {Len(s) + 1}
  BY <1>1
<1>3. ASSUME NEW i \in 1..Len(s), s[i].op \in Nest PROVE Depth(s[i]) < e
  <2>1. Depth(s[i]) < d /\ s[i] \in Frames
    BY <1>3, ElementOfSeq DEF Shallower
  <2>2. Depth(s[i]) \in Nat
    BY <2>1, DepthNat
  <2> QED BY <2>1, <2>2
<1> QED BY <1>1, <1>2, <1>3 DEF Shallower

\* A context that is in none of the calls that go down, or in user code.
LEMMA AtBase ==
  ASSUME TypeOK, SchedInv, stack[current] = <<>> \/ Top(stack[current]).op \notin Nest
  PROVE  /\ \A i \in 1..Len(stack[current]) : stack[current][i].op \notin Nest
         /\ \A depth : Shallower(stack[current], depth)
         /\ Hands(stack[current]) = {}
<1> DEFINE s == stack[current]
<1>1. s \in Seq(Frames) /\ Good(s, current)
  BY DEF TypeOK, Stacks
<1> HIDE DEF s
<1>2. ASSUME NEW i \in 1..Len(s) PROVE s[i].op \notin Nest
  <2>1. s # <<>>
    BY <1>1, EmptySeq
  <2>2. Len(s) \in 1..Len(s) /\ s[Len(s)].op \notin Nest /\ (i < Len(s) \/ i = Len(s))
    BY <1>1, <2>1, PopLemma DEF s, Top
  <2> QED BY <1>1, <2>2 DEF Good, Ordered
<1>3. \A i \in 1..Len(s) : s[i].kid = Nil
  BY <1>1, <1>2 DEF Good, Fits, Nest
<1> QED BY <1>2, <1>3 DEF Shallower, Hands, s

\* A loop over the children of p, which is the running context or below it.
LEMMA LoopStep ==
  ASSUME TypeOK, SchedInv, UNCHANGED <<current, stat, links, childs>>,
         NEW p \in Live \cup {Nil}, Lv(current) <= Lv(p),
         NEW s \in Seq(Frames), Good(s, current), Hands(s) = Hands(stack[current]),
         Shallower(s, 2 * Lv(p) + 1), LoopOver(p, s)
  PROVE  SchedInv'
<1> DEFINE f == Frame("resume_childs", p, Nil, Len(childs[p]))
<1>1. p \in Ctx /\ Len(childs[p]) \in Nat
  BY LenProperties DEF TypeOK, Live, Ctx
<1>2. f \in Frames /\ f.op = "resume_childs" /\ f.co = p /\ f.kid = Nil /\ f.left = Len(childs[p])
  BY <1>1 DEF Frame, Frames, Ops, Ctx
<1>3. Become(Append(s, f))
  BY DEF LoopOver
<1> HIDE DEF f
<1>4. Depth(f) = 2 * Lv(p) + 1 /\ Lv(p) \in Nat /\ Lv(current) \in Nat
  BY <1>1, <1>2, LvNat DEF Depth, TypeOK
<1>5. Fits(f, current)
  <2>1. 2 * Lv(current) < Depth(f)
    BY <1>4
  <2> QED BY <1>1, <1>2, <2>1 DEF Fits
<1>6. Good(Append(s, f), current)
  BY <1>2, <1>4, <1>5, GoodPush DEF Nest
<1>7. Hands(Append(s, f)) = Hands(stack[current])
  <2>1. Hands(Append(s, f)) = Hands(s) \cup ({f.kid} \ {Nil})
    BY <1>2, HandsPush
  <2>2. {f.kid} \ {Nil} = {}
    BY <1>2
  <2> QED BY <2>1, <2>2
<1>8. Append(s, f) \in Seq(Frames)
  BY <1>2, PushLemma
<1> QED BY <1>3, <1>6, <1>7, <1>8, StackStep

\* Its own children, from the bottom of the stack.
LEMMA OwnLoopStep ==
  ASSUME TypeOK, SchedInv, UNCHANGED <<current, stat, links, childs>>,
         NEW s \in Seq(Frames), Good(s, current), Hands(s) = {}, Hands(stack[current]) = {},
         \A i \in 1..Len(s) : s[i].op \notin Nest, LoopOver(current, s)
  PROVE  SchedInv'
<1>1. current \in Live \cup {Nil} /\ Lv(current) \in Nat
  BY CurrentLives, LvNat
<1>2. Shallower(s, 2 * Lv(current) + 1)
  BY DEF Shallower
<1> QED BY <1>1, <1>2, LoopStep

\* User code makes a call.
LEMMA FirstCall ==
  ASSUME TypeOK, SchedInv, UNCHANGED <<current, stat, links, childs>>,
         stack[current] = <<>>, NEW f \in Frames, f.kid = Nil, Push(f),
         f.op = "drain" => current = Nil,
         f.op \in Nest => f.op = "resume" /\ f.co \in Nested
  PROVE  SchedInv'
<1>1. Become(Append(<<>>, f)) /\ Append(<<>>, f) = <<f>> /\ <<f>> \in Seq(Frames) /\ <<>> \in Seq(Frames)
  BY DEF Push
<1>2. Hands(stack[current]) = {} /\ Good(<<>>, current)
  BY GoodBase
<1>3. CASE f.op \notin Nest
  <2>1. Good(<<f>>, current) /\ Hands(<<f>>) = {}
    BY <1>3, GoodBase
  <2> QED BY <1>1, <1>2, <2>1, StackStep
<1>4. CASE f.op \in Nest
  <2>1. /\ f.op = "resume" /\ f.co \in Live /\ Lv(current) < Lv(f.co)
        /\ Depth(f) = 2 * Lv(f.co) /\ Lv(f.co) \in Nat /\ Lv(current) \in Nat
    BY <1>4, NestedBelow, DepthNat, LvNat DEF Depth, TypeOK
  <2>2. Fits(f, current)
    BY <2>1 DEF Fits
  <2>3. Shallower(<<>>, Depth(f))
    BY DEF Shallower
  <2>4. Good(<<f>>, current)
    BY <1>1, <1>2, <1>4, <2>2, <2>3, GoodPush
  <2>5. Hands(<<f>>) = {}
    BY <1>1, <1>2, GoodBase, HandsPush
  <2> QED BY <1>1, <1>2, <2>4, <2>5, StackStep
<1> QED BY <1>3, <1>4

LEMMA AppendPair ==
  ASSUME NEW f, NEW g
  PROVE  Append(<<f>>, g) = <<f, g>>
<1> DEFINE S == {f, g}
           s == Append(<<f>>, g)
           t == <<f, g>>
<1>1. <<f>> \in Seq(S) /\ f \in S /\ g \in S /\ Len(<<f>>) = 1 /\ <<f>>[1] = f
  OBVIOUS
<1>2. t \in Seq(S) /\ Len(t) = 2 /\ t[1] = f /\ t[2] = g
  OBVIOUS
<1>3. s \in Seq(S) /\ Len(s) = 2 /\ s[1] = f /\ s[2] = g
  <2> HIDE DEF S
  <2> QED BY <1>1, AppendProperties
<1>4. \A i \in 1..2 : i = 1 \/ i = 2
  OBVIOUS
<1> HIDE DEF s, t, S
<1>5. \A i \in 1..2 : s[i] = t[i]
  BY <1>2, <1>3, <1>4
<1>6. s = t
  BY <1>2, <1>3, <1>5, SeqEqual
<1> QED BY <1>6 DEF s, t

LEMMA NoKid ==
  ASSUME TypeOK, SchedInv, NEW op, In(op)
  PROVE  /\ stack[current] # <<>> /\ Top(stack[current]).op = op /\ Top(stack[current]) \in Frames
         /\ op # "resume_childs" => Top(stack[current]).kid = Nil
  BY RunningGood DEF In, Fits

LEMMA DrainStep == ASSUME TypeOK, SchedInv, Drain PROVE SchedInv'
<1>1. /\ stack[current] # <<>> /\ Top(stack[current]).op = "drain" /\ Top(stack[current]).kid = Nil
      /\ UNCHANGED <<current, stat, links, childs>>
  BY NoKid DEF Drain
<1>2. current = Nil
  BY <1>1, RunningGood DEF Fits
<1>3. CASE Pop
  BY <1>1, <1>3, PopStep
<1>4. CASE LoopOver(Nil, stack[Nil])
  <2>1. /\ \A i \in 1..Len(stack[current]) : stack[current][i].op \notin Nest
        /\ Hands(stack[current]) = {} /\ Good(stack[current], current)
        /\ stack[current] \in Seq(Frames)
    BY <1>1, AtBase, RunningGood DEF Nest
  <2> QED BY <1>1, <1>2, <1>4, <2>1, OwnLoopStep
<1> QED BY <1>3, <1>4 DEF Drain, Sweep

LEMMA EndStep ==
  ASSUME TypeOK, SchedInv, EndSweep \/ Return \/ AwaitReturn PROVE SchedInv'
<1>1. /\ UNCHANGED <<current, stat, links, childs>> /\ Pop
      /\ stack[current] # <<>> /\ Top(stack[current]).kid = Nil
  BY NoKid DEF EndSweep, Return, AwaitReturn, In
<1> QED BY <1>1, PopStep

LEMMA MgetStep == ASSUME TypeOK, SchedInv, MgetLoop PROVE SchedInv'
<1> DEFINE s == stack[current]
           f == Top(s)
           g == Mark("yield")
<1>1. /\ s # <<>> /\ f.op = "mget" /\ f.kid = Nil /\ f \in Frames
      /\ UNCHANGED <<current, stat, links, childs>>
  BY NoKid DEF MgetLoop
<1>2. CASE Pop
  BY <1>1, <1>2, PopStep
<1>3. CASE LoopOver(current, Append(s, g))
  <2>1. s \in Seq(Frames) /\ Good(s, current) /\ Len(s) \in Nat \ {0}
    BY <1>1, RunningGood, PopLemma
  <2>2. Len(s) = 1
    <3>1. Len(s) \in 1..Len(s) /\ s[Len(s)].op = "mget"
      BY <1>1, <2>1 DEF Top
    <3> QED BY <2>1, <3>1 DEF Good, Based, Nest
  <2>3. g \in Frames /\ g.op = "yield" /\ g.kid = Nil
    BY MarkType DEF Mark, Frame, Ops
  <2> HIDE DEF g
  <2>4. Append(s, g) = <<f, g>>
    <3>1. s = <<f>>
      BY <2>1, <2>2 DEF Top
    <3>2. Append(<<f>>, g) = <<f, g>>
      BY AppendPair
    <3> HIDE DEF f, s
    <3> QED BY <3>1, <3>2
  <2>5. /\ Good(<<f, g>>, current) /\ Hands(<<f, g>>) = {} /\ Hands(s) = {}
        /\ <<f, g>> \in Seq(Frames)
    <3>1. f.op \notin Nest /\ f.op \in {"mget", "await"} /\ f.op # "drain"
      BY <1>1 DEF Nest
    <3>2. Hands(s) = {}
      BY <3>1, AtBase
    <3>3. f \in Frames /\ f.kid = Nil
      BY <1>1
    <3> HIDE DEF f
    <3>4. Good(<<f, g>>, current) /\ Hands(<<f, g>>) = {}
      BY <2>3, <3>1, <3>3, GoodBase
    <3>5. <<f, g>> \in Seq(Frames)
      BY <2>3, <3>3
    <3> QED BY <3>2, <3>4, <3>5
  <2>6. \A i \in 1..Len(<<f, g>>) : <<f, g>>[i].op \notin Nest
    <3>1. Len(<<f, g>>) = 2 /\ <<f, g>>[1] = f /\ <<f, g>>[2] = g
      OBVIOUS
    <3> HIDE DEF f
    <3> QED BY <1>1, <2>3, <3>1 DEF Nest
  <2> QED BY <1>1, <1>3, <2>4, <2>5, <2>6, OwnLoopStep
<1> QED BY <1>2, <1>3 DEF MgetLoop

\* execute() still has children to sweep.
LEMMA ExecuteLoopStep ==
  ASSUME TypeOK, SchedInv, Execute, childs[current] # <<>>
  PROVE  SchedInv'
<1>1. /\ stack[current] # <<>> /\ Top(stack[current]).op \notin Nest
      /\ UNCHANGED <<current, stat, links, childs>>
      /\ LoopOver(current, stack[current])
  BY DEF Execute, In, Sweep, Nest
<1>2. /\ \A i \in 1..Len(stack[current]) : stack[current][i].op \notin Nest
      /\ Hands(stack[current]) = {} /\ Good(stack[current], current)
      /\ stack[current] \in Seq(Frames)
  BY <1>1, AtBase, RunningGood
<1> QED BY <1>1, <1>2, OwnLoopStep

LEMMA ResumeEntryStep == ASSUME TypeOK, SchedInv, ResumeEntry PROVE SchedInv'
<1> DEFINE t == Top(stack[current])
           under == Under(stack[current])
           c == t.co
           f == Call("transfer", c)
           behind == Append(under, f)
<1>1. /\ stack[current] # <<>> /\ t.op = "resume" /\ t.kid = Nil /\ t \in Frames
      /\ UNCHANGED <<current, stat, links, childs>>
  BY NoKid DEF ResumeEntry
<1>2. CASE Pop
  BY <1>1, <1>2, PopStep
<1>3. CASE stat[c] \in {CORO_STAT_INIT, CORO_STAT_WAIT}
  <2>1. /\ Fits(t, current) /\ under \in Seq(Frames) /\ Good(under, current)
        /\ Shallower(under, Depth(t))
        /\ Hands(stack[current]) = Hands(under) \cup ({t.kid} \ {Nil})
    BY <1>1, RunningGood DEF Nest
  <2>2. Lv(c) \in Nat /\ Lv(current) \in Nat /\ Depth(t) = 2 * Lv(c)
    BY <1>1, DepthNat, LvNat DEF Depth, TypeOK
  <2>3. c \in Live /\ Lv(current) < Lv(c)
    <3>1. c \in Live \cup {Nil} /\ 2 * Lv(current) < Depth(t)
      BY <1>1, <2>1 DEF Fits, Nest
    <3>2. Lv(current) < Lv(c)
      BY <2>2, <3>1
    <3> QED BY <2>2, <3>1, <3>2 DEF Lv
  <2>4. f \in Frames /\ f.op = "transfer" /\ f.co = c /\ f.kid = Nil
    BY <1>1 DEF Call, Frame, Frames, Ops, Ctx
  <2> HIDE DEF f
  <2>5. Depth(f) = 2 * Lv(c)
    BY <2>4 DEF Depth
  <2>6. Fits(f, current)
    <3>1. 2 * Lv(current) < Depth(f)
      BY <2>2, <2>3, <2>5
    <3> QED BY <1>3, <2>3, <2>4, <3>1 DEF Fits
  <2> HIDE DEF t, under
  <2>7. Good(behind, current) /\ behind \in Seq(Frames)
    BY <2>1, <2>2, <2>4, <2>5, <2>6, GoodPush, PushLemma DEF Nest
  <2>8. Hands(behind) = Hands(stack[current])
    <3>1. Hands(behind) = Hands(under) \cup ({f.kid} \ {Nil})
      BY <2>1, <2>4, HandsPush
    <3>2. {f.kid} \ {Nil} = {} /\ {t.kid} \ {Nil} = {}
      BY <1>1, <2>4
    <3> QED BY <2>1, <3>1, <3>2
  <2>9. CASE Become(behind)
    BY <1>1, <2>7, <2>8, <2>9, StackStep
  <2>10. CASE LoopOver(c, behind)
    <3> DEFINE d == 2 * Lv(c)
               e == 2 * Lv(c) + 1
    <3>1. d \in Nat /\ e \in Nat /\ d <= e /\ Depth(f) < e /\ Shallower(under, d)
      BY <2>1, <2>2, <2>5
    <3> HIDE DEF d, e
    <3>2. Shallower(behind, e)
      BY <2>1, <2>4, <3>1, ShallowerPush
    <3>3. Lv(current) <= Lv(c)
      BY <2>2, <2>3
    <3> QED BY <1>1, <2>3, <2>7, <2>8, <2>10, <3>2, <3>3, LoopStep DEF e
  <2> QED BY <1>3, <2>9, <2>10 DEF ResumeEntry, Sweep, t, under, f
<1> QED BY <1>2, <1>3 DEF ResumeEntry

\* What user code calls, but for child().
LEMMA CallStep ==
  ASSUME TypeOK, SchedInv,
         \/ ResumeAll \/ ResumeOwnChilds \/ Yield \/ Mget \/ Await \/ Finish
         \/ \E c \in Coro : Resume(c)
         \/ \E p \in Ctx : ResumeChilds(p)
  PROVE  SchedInv'
<1>1. /\ stack[current] = <<>> /\ UNCHANGED <<current, stat, links, childs>>
  BY DEF ResumeAll, ResumeOwnChilds, Yield, Mget, Await, Finish, Resume, ResumeChilds, Calls, InUser
<1>2. /\ Good(<<>>, current) /\ Hands(<<>>) = {} /\ \A d : Shallower(<<>>, d)
      /\ <<>> \in Seq(Frames)
  BY GoodBase DEF Shallower
<1>m. ASSUME NEW op \in Ops
      PROVE  Mark(op) \in Frames /\ Mark(op).op = op /\ Mark(op).kid = Nil
  BY MarkType DEF Mark, Frame
<1>3. ASSUME NEW op \in Ops, op \notin Nest, op = "drain" => current = Nil, Push(Mark(op))
      PROVE  SchedInv'
  <2>1. Mark(op) \in Frames /\ Mark(op).op = op /\ Mark(op).kid = Nil
    BY <1>m
  <2> QED BY <1>1, <1>3, <2>1, FirstCall
<1>4. CASE ResumeAll \/ Mget \/ Finish
  BY <1>3, <1>4 DEF ResumeAll, Mget, Finish, Ops, Nest
<1>5. ASSUME NEW c \in Coro, Resume(c) PROVE SchedInv'
  <2> DEFINE f == Call("resume", c)
  <2>1. f \in Frames /\ f.op = "resume" /\ f.co = c /\ f.kid = Nil
    BY DEF Call, Frame, Frames, Ops, Ctx
  <2>2. Push(f) /\ c \in Nested
    BY <1>5 DEF Resume
  <2> HIDE DEF f
  <2> QED BY <1>1, <2>1, <2>2, FirstCall
<1>6. ASSUME NEW p \in Nested \cup {current}, LoopOver(p, <<>>) PROVE SchedInv'
  <2>1. p \in Live \cup {Nil} /\ Lv(current) <= Lv(p)
    <3>1. CASE p = current
      BY <3>1, CurrentLives, LvNat
    <3>2. CASE p \in Nested
      <4>1. p \in Live /\ Lv(current) < Lv(p)
        BY <3>2, NestedBelow
      <4>2. Lv(current) \in Nat /\ Lv(p) \in Nat
        BY <4>1, LvNat DEF TypeOK, Live, Ctx
      <4> QED BY <4>1, <4>2
    <3> QED BY <3>1, <3>2
  <2> QED BY <1>1, <1>2, <1>6, <2>1, LoopStep
<1>7. CASE ResumeOwnChilds
  BY <1>1, <1>6, <1>7 DEF ResumeOwnChilds, Sweep
<1>8. ASSUME NEW p \in Ctx, ResumeChilds(p) PROVE SchedInv'
  BY <1>1, <1>6, <1>8 DEF ResumeChilds, Sweep
<1>9. CASE Yield
  <2> DEFINE f == Mark("yield")
  <2>1. f \in Frames /\ f.op = "yield" /\ f.kid = Nil /\ f.op \notin Nest
    BY <1>m DEF Ops, Nest
  <2>2. LoopOver(current, <<f>>)
    BY <1>9 DEF Yield, Sweep
  <2> HIDE DEF f
  <2>3. Good(<<f>>, current) /\ Hands(<<f>>) = {}
    BY <2>1, GoodBase
  <2>4. <<f>> \in Seq(Frames) /\ \A i \in 1..Len(<<f>>) : <<f>>[i].op \notin Nest
    BY <2>1
  <2> QED BY <1>1, <1>2, <2>2, <2>3, <2>4, OwnLoopStep
<1>10. CASE Await
  <2> DEFINE f == Mark("await")
             g == Mark("yield")
  <2>1. /\ f \in Frames /\ f.op = "await" /\ f.kid = Nil /\ f.op \notin Nest
        /\ g \in Frames /\ g.op = "yield" /\ g.kid = Nil /\ g.op \notin Nest
    BY <1>m DEF Ops, Nest
  <2>2. LoopOver(current, <<f, g>>)
    BY <1>10 DEF Await
  <2> HIDE DEF f, g
  <2>3. Good(<<f, g>>, current) /\ Hands(<<f, g>>) = {}
    BY <2>1, GoodBase
  <2>4. <<f, g>> \in Seq(Frames) /\ \A i \in 1..Len(<<f, g>>) : <<f, g>>[i].op \notin Nest
    <3>1. Len(<<f, g>>) = 2 /\ <<f, g>>[1] = f /\ <<f, g>>[2] = g
      OBVIOUS
    <3> QED BY <2>1, <3>1
  <2> QED BY <1>1, <1>2, <2>2, <2>3, <2>4, OwnLoopStep
<1> QED BY <1>4, <1>5, <1>7, <1>8, <1>9, <1>10

\* Steps that touch bits and messages only.
LEMMA QuietStep ==
  ASSUME SchedInv, UNCHANGED <<current, stat, links, childs, stack>>
  PROVE  SchedInv'
<1>1. /\ UNCHANGED <<current, stat, pre, parent, level, childs, stack>>
      /\ Live' = Live /\ Chain' = Chain
  BY DEF links, Live, Chain, Resumer, Top
<1>2. OneRunner' /\ Tree' /\ Parks'
  BY <1>1 DEF OneRunner, Tree, Parks, Lv
<1>3. Links'
  BY <1>1 DEF Links, Lv, Top
<1>4. Lists'
  BY <1>1 DEF Lists, NoDup, Elems, Hands
<1>5. Stacks'
  <2>1. \A x : Lv(x)' = Lv(x) /\ Depth(x)' = Depth(x)
    BY <1>1 DEF Depth, Lv
  <2>2. \A x, r : Fits(x, r)' <=> Fits(x, r)
    BY <1>1, <2>1 DEF Fits, Elems
  <2>3. \A x : (Based(x)' <=> Based(x)) /\ (Ordered(x)' <=> Ordered(x))
    BY <2>1 DEF Based, Ordered
  <2>4. \A x, r : Good(x, r)' <=> Good(x, r)
    BY <2>2, <2>3 DEF Good
  <2> QED BY <1>1, <2>4 DEF Stacks
<1> QED BY <1>2, <1>3, <1>4, <1>5

-----------------------------------------------------------------------------
(* The loop of resume_childs *)

\* A context that is to be returned to resumed a coroutine below it.
LEMMA ResumerTop ==
  ASSUME TypeOK, SchedInv, NEW r \in Chain, r # current
  PROVE  /\ r \in Ctx /\ stack[r] \in Seq(Frames) /\ stack[r] # <<>>
         /\ Top(stack[r]) \in Frames /\ Top(stack[r]).op = "coro_transfer"
         /\ Len(stack[r]) \in 1..Len(stack[r])
         /\ Top(stack[r]).co \in Live /\ Top(stack[r]).co \in Coro \cap Chain
         /\ Lv(r) < Lv(Top(stack[r]).co)
<1>1. r \in Ctx /\ Resumer(r) /\ stack[r] \in Seq(Frames)
  BY DEF Chain, TypeOK
<1>2. /\ stack[r] # <<>> /\ Top(stack[r]) \in Frames /\ Top(stack[r]).op = "coro_transfer"
      /\ Len(stack[r]) \in 1..Len(stack[r])
  BY <1>1, PopLemma DEF Resumer
<1>3. Fits(Top(stack[r]), r)
  BY <1>1, <1>2 DEF Stacks, Good, Top
<1> DEFINE c == Top(stack[r]).co
<1>4. c \in Live \cup {Nil} /\ 2 * Lv(r) < 2 * Lv(c)
  BY <1>2, <1>3 DEF Fits, Nest, Depth
<1>5. Lv(r) \in Nat /\ Lv(c) \in Nat
  BY <1>1, <1>2, LvNat, DepthNat
<1>6. Lv(r) < Lv(c) /\ c # Nil
  BY <1>4, <1>5 DEF Lv
<1>7. c \in Chain
  BY DEF Links
<1> QED BY <1>1, <1>2, <1>4, <1>6, <1>7 DEF Live

\* A step that switches nowhere, and changes the coroutines in D, which nobody
\* is in or is to return to.
LEMMA ChainKeeps ==
  ASSUME TypeOK, SchedInv, UNCHANGED current, NEW s, Become(s), NEW D,
         \A c \in D : c \in Coro /\ c \notin Chain /\ stack[c] = <<>> /\ stat'[c] \in {FREED, CORO_STAT_INIT},
         \A c \in Coro \ D : stat'[c] = stat[c] /\ pre'[c] = pre[c] /\ level'[c] = level[c]
  PROVE  /\ Chain' = Chain /\ OneRunner' /\ Links' /\ Parks'
         /\ \A c \in Ctx \ D : Lv(c)' = Lv(c)
<1>1. /\ Chain' = Chain
      /\ \A r \in Ctx : r # current => stack'[r] = stack[r]
      /\ stack'[current] = s
  BY ChainSame
<1>2. \A c \in Ctx \ D : Lv(c)' = Lv(c)
  BY DEF Lv, Ctx
<1>3. \A c \in Chain : c \in Ctx /\ c \notin D /\ Lv(c)' = Lv(c)
  BY <1>2 DEF Chain, TypeOK
<1>4. OneRunner'
  BY DEF OneRunner, Chain, CORO_STAT_BUSY, CORO_STAT_INIT, FREED
<1>5. Links'
  <2>1. ASSUME NEW r \in Chain, r # current
        PROVE  stack'[r] = stack[r] /\ Top(stack[r]).co \in Coro \cap Chain
    BY <1>1, <1>3, <2>1, ResumerTop
  <2>2. ASSUME NEW c \in Chain, c # Nil
        PROVE  pre'[c] \in Chain /\ pre'[c] # current /\ Top(stack'[pre'[c]]).co = c
    <3>1. pre'[c] = pre[c] /\ pre[c] \in Chain /\ pre[c] # current /\ Top(stack[pre[c]]).co = c
      BY <1>3, <2>2 DEF Links, Ctx
    <3> QED BY <1>1, <1>3, <3>1
  <2>3. \A r, q \in Chain : Lv(r)' = Lv(q)' => r = q
    BY <1>3 DEF Links
  <2>4. ASSUME NEW r \in Chain, r # current
        PROVE  \E c \in Coro \cap Chain :
                 /\ Top(stack'[r]).co = c
                 /\ pre'[c] = r
                 /\ \A q \in Chain : Lv(r)' < Lv(q)' => Lv(c)' <= Lv(q)'
    <3>1. PICK c \in Coro \cap Chain : c = Top(stack[r]).co
      BY <2>1, <2>4
    <3>2. pre[c] = r /\ \A q \in Chain : Lv(r) < Lv(q) => Lv(c) <= Lv(q)
      BY <2>4, <3>1 DEF Links
    <3>3. pre'[c] = r
      BY <1>3, <3>1, <3>2
    <3>4. Lv(c)' = Lv(c) /\ \A q \in Chain : Lv(q)' = Lv(q)
      BY <1>3, <3>1
    <3> QED BY <2>1, <2>4, <3>1, <3>2, <3>3, <3>4
  <2>5. \A r \in Chain \ {current} :
          /\ Top(stack[r])'.co \in Chain
          /\ pre'[Top(stack[r])'.co] = r
          /\ \A q \in Chain : Lv(r)' < Lv(q)' => Lv(Top(stack[r]).co)' <= Lv(q)'
    BY <2>4 DEF Lv, Top
  <2>6. \A r \in Chain : Lv(r)' <= Lv(current)'
    BY <1>3 DEF Links, Chain
  <2>7. \A r \in Chain \ {Nil, current} : stat'[r] = CORO_STAT_WAIT
    BY <1>3 DEF Links, Ctx
  <2>8. \A c \in Chain : c # Nil => pre'[c] \in Chain \ {current} /\ Top(stack[pre[c]])'.co = c
    BY <2>2 DEF Top
  <2>9. current' = current
    OBVIOUS
  <2> QED BY <1>1, <2>2, <2>3, <2>5, <2>6, <2>8, <2>9, <2>7 DEF Links
<1>6. Parks'
  <2>1. \A r \in Ctx \ Chain : stack'[r] = stack[r]
    BY <1>1 DEF Chain
  <2>2. ASSUME NEW c \in Coro, stack'[c] # <<>> PROVE stat'[c] \in {CORO_STAT_WAIT, CORO_STAT_BUSY}
    <3>1. CASE c = current
      BY <1>4, <2>2, <3>1 DEF OneRunner
    <3>2. CASE c # current
      <4>1. stack[c] # <<>>
        BY <1>1, <2>2, <3>2 DEF Ctx
      <4>2. c \notin D
        BY <4>1
      <4> QED BY <4>1, <4>2 DEF Parks
    <3> QED BY <3>1, <3>2
  <2> QED BY <1>1, <2>1, <2>2 DEF Parks
<1> QED BY <1>1, <1>2, <1>4, <1>5, <1>6

\* A coroutine that its parent's loop finds done: nobody is in it, is to return
\* to it, works on it or is its child.
LEMMA DoneIsAlone ==
  ASSUME TypeOK, SchedInv, NEW c \in Coro, stat[c] = CORO_STAT_DONE
  PROVE  /\ c \notin Chain /\ stack[c] = <<>> /\ childs[c] = <<>>
         /\ \A d \in Live : parent[d] # c
<1>1. c # current
  BY DEF OneRunner, CORO_STAT_DONE, CORO_STAT_BUSY
<1>2. c \notin Chain
  BY <1>1, NilAssumption DEF Links, CORO_STAT_DONE, CORO_STAT_WAIT
<1>3. stack[c] = <<>>
  BY DEF Parks, CORO_STAT_DONE, CORO_STAT_WAIT, CORO_STAT_BUSY
<1>4. childs[c] = <<>>
  BY DEF Lists
<1>5. ASSUME NEW d \in Live, parent[d] = c PROVE FALSE
  <2>1. Elems(childs[c]) = {}
    BY <1>4 DEF Elems
  <2>2. PICK r \in Ctx : d \in Hands(stack[r])
    BY <1>5, <2>1 DEF Lists
  <2>3. PICK i \in 1..Len(stack[r]) : stack[r][i].kid = d /\ d # Nil
    BY <2>2 DEF Hands
  <2>4. Fits(stack[r][i], r)
    BY DEF Stacks, Good
  <2>5. stack[r][i].co = c /\ c # Nil
    BY <1>5, <2>3, <2>4, NilAssumption DEF Fits
  <2> QED BY <2>3, <2>4, <2>5 DEF Fits
<1> QED BY <1>2, <1>3, <1>4, <1>5

\* What the loop at the top of the running context works with, and that no
\* other call has to do with it.
LEMMA LoopFacts ==
  ASSUME TypeOK, SchedInv, In("resume_childs"), NEW p, p = Top(stack[current]).co,
         NEW c \in Live, parent[c] = p, c \in Elems(childs[p]) \/ Top(stack[current]).kid = c
  PROVE  /\ p \in Live \cup {Nil} /\ p \in Ctx /\ Lv(p) \in Nat /\ Lv(c) = Lv(p) + 1 /\ c # p
         /\ Lv(current) \in Nat /\ Lv(current) <= Lv(p)
         /\ p # Nil => p \in Coro /\ stat[p] # CORO_STAT_DONE
         /\ Depth(Top(stack[current])) = 2 * Lv(p) + 1
         /\ \A r \in Ctx : \A i \in 1..Len(stack[r]) :
              r # current \/ i # Len(stack[r]) =>
                /\ stack[r][i].op \in Nest => stack[r][i].co # c
                /\ stack[r][i].op = "resume_childs" => stack[r][i].co # p
                /\ stack[r][i].kid # c
<1> DEFINE t == Top(stack[current])
<1>1. /\ stack[current] # <<>> /\ t.op = "resume_childs" /\ t \in Frames
      /\ Fits(t, current) /\ current \in Ctx
  BY RunningGood DEF In, TypeOK
<1>2. p \in Live \cup {Nil} /\ p \in Ctx /\ Lv(p) \in Nat /\ Lv(current) \in Nat
  BY <1>1, LvNat DEF Fits, Nest, Live, Ctx
<1>3. Lv(c) = Lv(p) + 1 /\ c # p /\ c \in Coro /\ c # Nil
  <2>1. Lv(c) = Lv(p) + 1 /\ c \in Coro /\ c # Nil
    BY NilAssumption DEF Tree, Lv, Live
  <2> QED BY <1>2, <2>1
<1>4. Depth(t) = 2 * Lv(p) + 1
  BY <1>1 DEF Depth
<1>5. Lv(current) <= Lv(p)
  <2>1. 2 * Lv(current) < 2 * Lv(p) + 1
    BY <1>1, <1>4 DEF Fits, Nest
  <2> QED BY <1>2, <2>1
<1>6. ASSUME p # Nil PROVE p \in Coro /\ stat[p] # CORO_STAT_DONE
  <2>1. p \in Coro
    BY <1>2, <1>6 DEF Ctx
  <2>2. CASE t.kid = c
    BY <1>1, <1>3, <1>6, <2>1, <2>2 DEF Fits
  <2>3. CASE c \in Elems(childs[p])
    BY <2>1, <2>3 DEF Lists, Elems
  <2> QED BY <2>1, <2>2, <2>3
<1>7. ASSUME NEW r \in Ctx, NEW i \in 1..Len(stack[r]), r # current \/ i # Len(stack[r]),
             stack[r][i].op \in Nest
      PROVE  /\ stack[r][i].co # c
             /\ stack[r][i].op = "resume_childs" => stack[r][i].co # p
  <2>1. Depth(stack[r][i]) < 2 * Lv(p) + 1
    BY <1>1, <1>4, <1>7, TopDeepest DEF Nest
  <2>2. stack[r][i] \in Frames
    BY ElementOfSeq DEF TypeOK
  <2>3. Lv(stack[r][i].co) \in Nat
    BY <2>2, DepthNat
  <2>4. 2 * Lv(stack[r][i].co) < 2 * Lv(p) + 1
    BY <1>2, <2>1, <2>3 DEF Depth
  <2>5. stack[r][i].co # c
    BY <1>2, <1>3, <2>4
  <2>6. stack[r][i].op = "resume_childs" => stack[r][i].co # p
    BY <1>2, <2>1 DEF Depth
  <2> QED BY <2>5, <2>6
<1>8. ASSUME NEW r \in Ctx, NEW i \in 1..Len(stack[r]), r # current \/ i # Len(stack[r])
      PROVE  stack[r][i].kid # c
  <2> SUFFICES ASSUME stack[r][i].kid = c PROVE FALSE
    OBVIOUS
  <2>1. Fits(stack[r][i], r)
    BY DEF Stacks, Good
  <2>2. stack[r][i].op = "resume_childs" /\ stack[r][i].co = p
    BY <1>3, <2>1 DEF Fits
  <2> QED BY <1>7, <1>8, <2>2 DEF Nest
<1> QED BY <1>2, <1>3, <1>4, <1>5, <1>6, <1>7, <1>8 DEF Nest

LEMMA RunningLen ==
  ASSUME TypeOK, stack[current] # <<>>
  PROVE  /\ Len(stack[current]) \in Nat \ {0}
         /\ Len(Under(stack[current])) = Len(stack[current]) - 1
         /\ \A i \in 1..Len(stack[current]) - 1 : Under(stack[current])[i] = stack[current][i]
<1>1. stack[current] \in Seq(Frames)
  BY DEF TypeOK
<1> QED BY <1>1, PopLemma

\* What a stack has to be after a step to be good again.
LEMMA GoodNext ==
  ASSUME NEW y, Based(y), Ordered(y), NEW r, stack'[r] = y,
         \A i \in 1..Len(y) : Fits(y[i], r)' /\ (y[i].op \in Nest => Depth(y[i])' = Depth(y[i]))
  PROVE  Good(stack[r], r)'
<1>1. Ordered(y)'
  <2>1. ASSUME NEW i \in 1..Len(y), NEW j \in 1..Len(y), i < j, y[i].op \in Nest
        PROVE  y[j].op \in Nest /\ Depth(y[i])' < Depth(y[j])'
    <3>1. y[j].op \in Nest /\ Depth(y[i]) < Depth(y[j])
      BY <2>1 DEF Ordered
    <3>2. Depth(y[i])' = Depth(y[i]) /\ Depth(y[j])' = Depth(y[j])
      BY <2>1, <3>1
    <3> QED BY <3>1, <3>2
  <2> QED BY <2>1 DEF Ordered
<1>2. Good(y, r)'
  BY <1>1 DEF Good, Based
<1> QED BY <1>2 DEF Good, Based, Ordered, Fits, Depth, Lv

\* One turn of the loop of resume_childs, whose frame becomes g: the child c of
\* p is in the hands of the loop, on the list, or destroyed (D), and is resumed
\* or not.
Turn(p, c, D, list, g, s) ==
  /\ In("resume_childs") /\ UNCHANGED current /\ p = Top(stack[current]).co
  /\ c \in Live /\ parent[c] = p /\ Top(stack[current]).kid \in {Nil, c}
  /\ c \in Elems(childs[p]) \/ Top(stack[current]).kid = c
  /\ D = {} \/ (D = {c} /\ stat[c] = CORO_STAT_DONE)
  /\ \A d \in D : stat'[d] = FREED
  /\ \A d \in Coro \ D : /\ stat'[d] = stat[d] /\ pre'[d] = pre[d]
                         /\ level'[d] = level[d] /\ parent'[d] = parent[d]
  /\ list \in Seq(Coro) /\ NoDup(list) /\ childs' = [childs EXCEPT ![p] = list]
  /\ g \in Frames /\ g.op = "resume_childs" /\ g.co = p /\ g.kid \in {Nil, c}
  /\ g.left <= Len(list) /\ g.kid \notin Elems(list)
  /\ Elems(list) \cup ({g.kid} \ {Nil}) = (Elems(childs[p]) \cup {c}) \ D
  /\ Become(s)
  /\ \/ s = Append(Under(stack[current]), g)
     \/ D = {} /\ s = Append(Append(Under(stack[current]), g), Call("resume", c))

LEMMA LoopTurn ==
  ASSUME TypeOK, SchedInv, NEW p, NEW c, NEW D, NEW list, NEW g, NEW s, Turn(p, c, D, list, g, s)
  PROVE  SchedInv'
<1> SUFFICES
      ASSUME In("resume_childs"), UNCHANGED current, p = Top(stack[current]).co,
             c \in Live, parent[c] = p, Top(stack[current]).kid \in {Nil, c},
             c \in Elems(childs[p]) \/ Top(stack[current]).kid = c,
             D = {} \/ (D = {c} /\ stat[c] = CORO_STAT_DONE),
             \A d \in D : stat'[d] = FREED,
             \A d \in Coro \ D : /\ stat'[d] = stat[d] /\ pre'[d] = pre[d]
                                 /\ level'[d] = level[d] /\ parent'[d] = parent[d],
             list \in Seq(Coro), NoDup(list), childs' = [childs EXCEPT ![p] = list],
             g \in Frames, g.op = "resume_childs", g.co = p, g.kid \in {Nil, c},
             g.left <= Len(list), g.kid \notin Elems(list),
             Elems(list) \cup ({g.kid} \ {Nil}) = (Elems(childs[p]) \cup {c}) \ D,
             Become(s),
             \/ s = Append(Under(stack[current]), g)
             \/ D = {} /\ s = Append(Append(Under(stack[current]), g), Call("resume", c)),
             NEW t, t = Top(stack[current]), NEW under, under = Under(stack[current]),
             NEW s1, s1 = Append(under, g), NEW f, f = Call("resume", c)
      PROVE  SchedInv'
  BY DEF Turn
<1>1. /\ p \in Live \cup {Nil} /\ p \in Ctx /\ Lv(p) \in Nat /\ Lv(c) = Lv(p) + 1 /\ c # p
      /\ Lv(current) \in Nat /\ Lv(current) <= Lv(p)
      /\ p # Nil => p \in Coro /\ stat[p] # CORO_STAT_DONE
      /\ Depth(t) = 2 * Lv(p) + 1
      /\ \A r \in Ctx : \A i \in 1..Len(stack[r]) :
           r # current \/ i # Len(stack[r]) =>
             /\ stack[r][i].op \in Nest => stack[r][i].co # c
             /\ stack[r][i].op = "resume_childs" => stack[r][i].co # p
             /\ stack[r][i].kid # c
  BY LoopFacts
<1>2. /\ stack[current] # <<>> /\ t.op = "resume_childs" /\ t \in Frames /\ current \in Ctx
      /\ under \in Seq(Frames) /\ Based(under) /\ Ordered(under) /\ Shallower(under, Depth(t))
      /\ Hands(stack[current]) = Hands(under) \cup ({t.kid} \ {Nil})
      /\ Len(stack[current]) \in Nat \ {0} /\ Len(under) = Len(stack[current]) - 1
      /\ \A i \in 1..Len(under) : under[i] = stack[current][i]
  <2>1. stack[current] # <<>> /\ t.op = "resume_childs" /\ current \in Ctx
    BY DEF In, TypeOK
  <2>2. /\ t \in Frames /\ under \in Seq(Frames) /\ stack[current] \in Seq(Frames)
        /\ Good(under, current) /\ Shallower(under, Depth(t))
        /\ Hands(stack[current]) = Hands(under) \cup ({t.kid} \ {Nil})
    BY <2>1, RunningGood DEF Nest
  <2>3. /\ Len(stack[current]) \in Nat \ {0} /\ Len(under) = Len(stack[current]) - 1
        /\ \A i \in 1..Len(stack[current]) - 1 : under[i] = stack[current][i]
    BY <2>1, RunningLen
  <2> QED BY <2>1, <2>2, <2>3 DEF Good
<1>3. c \in Coro /\ c # Nil /\ c \in Ctx
  BY NilAssumption DEF Live, Ctx
<1>4. \A d \in D : /\ d = c /\ d \notin Chain /\ stack[d] = <<>> /\ stat'[d] \in {FREED, CORO_STAT_INIT}
                   /\ \A x \in Live : parent[x] # d
  BY <1>3, DoneIsAlone
<1>5. /\ Chain' = Chain /\ OneRunner' /\ Links' /\ Parks'
      /\ \A d \in Ctx \ D : Lv(d)' = Lv(d)
  BY <1>3, <1>4, ChainKeeps
<1>6. Live' = Live \ D
  BY <1>4 DEF Live
<1>7. Tree'
  <2>1. ASSUME NEW d \in Live, d \notin D
        PROVE  /\ parent'[d] \in Live' \cup {Nil}
               /\ level'[d] = (IF parent'[d] = Nil THEN 0 ELSE level'[parent'[d]]) + 1
    <3>1. parent'[d] = parent[d] /\ level'[d] = level[d] /\ parent[d] \notin D
      BY <1>4, <2>1 DEF Live
    <3>2. parent[d] \in Live \cup {Nil} /\ level[d] = Lv(parent[d]) + 1 /\ parent[d] \in Ctx
      BY DEF Tree, Live, TypeOK
    <3>3. Lv(parent[d]) = IF parent[d] = Nil THEN 0 ELSE level'[parent[d]]
      BY <3>1, <3>2 DEF Lv, Ctx
    <3> QED BY <1>6, <3>1, <3>2, <3>3
  <2> QED BY <1>6, <2>1 DEF Tree, Lv
<1>8. /\ \A r \in Ctx : r # current => stack'[r] = stack[r]
      /\ stack'[current] = s
  BY ChainSame
<1>9. /\ childs'[p] = list /\ childs' \in [Ctx -> Seq(Coro)]
      /\ \A q \in Ctx : q # p => childs'[q] = childs[q]
  BY <1>1 DEF TypeOK
<1>10. \A x \in Frames : x.op \in Nest /\ x.co \in Ctx \ D => Depth(x)' = Depth(x)
  BY <1>5 DEF Depth, Lv
<1>cur. current \notin D /\ Lv(current)' = Lv(current)
  BY <1>2, <1>4, <1>5 DEF Chain
<1>keep. ASSUME NEW x \in Frames, NEW r \in Ctx \ D, Fits(x, r), x.op \in Nest => x.co # c,
                x.op = "resume_childs" => x.co # p, x.kid # c
         PROVE  Fits(x, r)' /\ (x.op \in Nest => Depth(x)' = Depth(x))
  <2>1. x.op \in Nest => x.co \in Live' \cup {Nil} /\ Depth(x)' = Depth(x)
    BY <1>4, <1>6, <1>10, <1>keep DEF Frames, Fits
  <2>2. Lv(r)' = Lv(r)
    BY <1>5
  <2>3. x.op = "resume_childs" => childs'[x.co] = childs[x.co] /\ x.op \in Nest
    BY <1>9, <1>keep DEF Frames, Nest
  <2>4. x.op = "transfer" => stat'[x.co] = stat[x.co]
    <3>1. x.op = "transfer" => stat[x.co] \in {CORO_STAT_INIT, CORO_STAT_WAIT} /\ 2 * Lv(r) < 2 * Lv(x.co)
      BY <1>keep DEF Fits, Nest, Depth
    <3>2. Lv(r) \in Nat
      BY LvNat
    <3>3. x.op = "transfer" => x.co # Nil /\ x.co \in Coro
      BY <1>keep, <3>1, <3>2 DEF Lv, Frames, Ctx
    <3> QED BY <1>4, <1>keep, <3>3 DEF Nest
  <2>5. x.kid # Nil =>
          /\ x.op = "resume_childs" /\ x.kid \in Live' /\ parent'[x.kid] = x.co
          /\ x.kid \notin Elems(childs[x.co])
          /\ x.co # Nil => stat'[x.co] # CORO_STAT_DONE
    <3> SUFFICES ASSUME x.kid # Nil
                 PROVE  /\ x.op = "resume_childs" /\ x.kid \in Live' /\ parent'[x.kid] = x.co
                        /\ x.kid \notin Elems(childs[x.co])
                        /\ x.co # Nil => stat'[x.co] # CORO_STAT_DONE
      OBVIOUS
    <3>1. /\ x.op = "resume_childs" /\ x.kid \in Live /\ parent[x.kid] = x.co
          /\ x.kid \notin Elems(childs[x.co])
          /\ x.co # Nil => stat[x.co] # CORO_STAT_DONE
      BY <1>keep DEF Fits
    <3>2. x.kid \in Coro \ D /\ (x.co # Nil => x.co \in Coro \ D)
      BY <1>4, <1>keep, <3>1 DEF Live, Frames, Ctx, Nest
    <3> QED BY <1>6, <3>1, <3>2
  <2>6. x.op = "drain" => r = Nil
    BY <1>keep DEF Fits
  <2>7. x.op \in Nest => 2 * Lv(r)' < Depth(x)'
    BY <1>keep, <2>1, <2>2 DEF Fits
  <2>8. x.op = "transfer" => stat'[x.co] \in {CORO_STAT_INIT, CORO_STAT_WAIT}
    BY <1>keep, <2>4 DEF Fits
  <2>9. x.op = "resume_childs" => x.left <= Len(childs'[x.co])
    BY <1>keep, <2>3 DEF Fits
  <2>10. x.kid # Nil => x.kid \notin Elems(childs[x.co])'
    BY <2>3, <2>5 DEF Elems
  <2> QED BY <2>1, <2>5, <2>6, <2>7, <2>8, <2>9, <2>10 DEF Fits
<1>rest. ASSUME NEW r \in Ctx, NEW i \in 1..Len(stack[r]), r # current \/ i # Len(stack[r]),
                NEW x, x = stack[r][i]
         PROVE  x \in Frames /\ Fits(x, r)' /\ (x.op \in Nest => Depth(x)' = Depth(x))
  <2>1. x \in Frames /\ stack[r] # <<>>
    BY <1>rest, ElementOfSeq, EmptySeq DEF TypeOK
  <2>2. Fits(x, r) /\ r \in Ctx \ D
    BY <1>4, <1>rest, <2>1 DEF Stacks, Good
  <2>3. /\ x.op \in Nest => x.co # c
        /\ x.op = "resume_childs" => x.co # p
        /\ x.kid # c
    BY <1>1, <1>rest
  <2>4. Fits(x, r)' /\ (x.op \in Nest => Depth(x)' = Depth(x))
    BY <1>keep, <2>1, <2>2, <2>3
  <2> QED BY <2>1, <2>4
<1>11. ASSUME NEW r \in Ctx, r # current PROVE Good(stack[r], r)'
  <2>1. PICK y \in Seq(Frames) : y = stack[r]
    BY DEF TypeOK
  <2>2. Based(y) /\ Ordered(y) /\ stack'[r] = y
    BY <1>8, <1>11, <2>1 DEF Stacks, Good
  <2>3. \A i \in 1..Len(y) : Fits(y[i], r)' /\ (y[i].op \in Nest => Depth(y[i])' = Depth(y[i]))
    BY <1>11, <1>rest, <2>1
  <2> QED BY GoodNext, <2>1, <2>2, <2>3
<1>12. /\ s1 \in Seq(Frames) /\ Len(s1) = Len(under) + 1
       /\ \A i \in 1..Len(under) : s1[i] = under[i]
       /\ s1[Len(s1)] = g
  BY <1>2, AppendProperties
<1>13. Depth(g) = Depth(t) /\ Depth(g)' = Depth(g)
  <2>1. p \in Ctx \ D /\ Depth(g) = 2 * Lv(p) + 1
    BY <1>1, <1>4 DEF Depth
  <2> QED BY <1>1, <1>10, <2>1 DEF Nest
<1>14. Based(s1) /\ Ordered(s1)
  <2> QED BY <1>2, <1>13, ShapePush DEF Nest
<1>15. Fits(g, current)'
  <2>1. p \in Live' \cup {Nil} /\ Lv(current)' = Lv(current)
    BY <1>1, <1>4, <1>6, <1>cur
  <2>2. 2 * Lv(current)' < Depth(g)'
    BY <1>1, <1>13, <2>1
  <2>3. g.kid # Nil => g.kid = c /\ D = {}
    BY <1>3, <1>4, <1>1
  <2>4. g.kid # Nil => g.kid \in Live' /\ parent'[g.kid] = p /\ g.kid \notin Elems(list)
    BY <1>3, <1>6, <2>3
  <2>5. p # Nil => stat'[p] # CORO_STAT_DONE
    BY <1>1, <1>4
  <2>6. Elems(childs[p])' = Elems(list)
    BY <1>9 DEF Elems
  <2>7. g.left <= Len(childs'[p]) /\ g.op # "drain" /\ g.op # "transfer"
    BY <1>9
  <2>8. g.kid # Nil => g.kid \notin Elems(childs[g.co])'
    BY <2>4, <2>6
  <2> QED BY <2>1, <2>2, <2>4, <2>5, <2>7, <2>8 DEF Fits
<1>16. \A i \in 1..Len(s1) : Fits(s1[i], current)' /\ (s1[i].op \in Nest => Depth(s1[i])' = Depth(s1[i]))
  <2> SUFFICES ASSUME NEW i \in 1..Len(s1)
               PROVE  Fits(s1[i], current)' /\ (s1[i].op \in Nest => Depth(s1[i])' = Depth(s1[i]))
    OBVIOUS
  <2>1. CASE i = Len(s1)
    <3>1. s1[i] = g
      BY <1>12, <2>1
    <3> QED BY <1>13, <1>15, <3>1
  <2>2. CASE i \in 1..Len(under)
    <3>1. i \in 1..Len(stack[current]) /\ i # Len(stack[current]) /\ s1[i] = stack[current][i]
      BY <1>2, <1>12, <2>2
    <3>2. PICK x : x = stack[current][i]
      OBVIOUS
    <3>3. x \in Frames /\ Fits(x, current)' /\ (x.op \in Nest => Depth(x)' = Depth(x))
      BY <1>2, <1>rest, <3>1, <3>2
    <3>4. s1[i] = x
      BY <3>1, <3>2
    <3> QED BY <3>3, <3>4
  <2>3. 1..Len(s1) = (1..Len(under)) \cup {Len(s1)}
    BY <1>2, <1>12
  <2> QED BY <2>1, <2>2, <2>3
<1>17. /\ s \in Seq(Frames) /\ Good(stack[current], current)'
       /\ Hands(s) = Hands(under) \cup ({g.kid} \ {Nil})
  <2>1. Hands(s1) = Hands(under) \cup ({g.kid} \ {Nil})
    BY <1>2, HandsPush
  <2>2. CASE s = s1
    <3>1. \E y : y = s1
      OBVIOUS
    <3>2. PICK y : y = s1
      BY <3>1
    <3>3. y \in Seq(Frames) /\ Based(y) /\ Ordered(y) /\ stack'[current] = y
      BY <1>8, <1>12, <1>14, <2>2, <3>2
    <3>4. \A i \in 1..Len(y) : Fits(y[i], current)' /\ (y[i].op \in Nest => Depth(y[i])' = Depth(y[i]))
      BY <1>16, <3>2
    <3>6. PICK o : o = current
      OBVIOUS
    <3>7. Good(stack[o], o)'
      BY GoodNext, <3>3, <3>4, <3>6
    <3>5. Good(stack[current], current)'
      BY <1>2, <3>6, <3>7
    <3> QED BY <1>12, <2>1, <2>2, <3>5
  <2>3. CASE D = {} /\ s = Append(s1, f)
    <3>1. f \in Frames /\ f.op = "resume" /\ f.co = c /\ f.kid = Nil
      BY <1>3 DEF Call, Frame, Frames, Ops, Ctx
    <3>2. Depth(f) = 2 * Lv(c) /\ Depth(f)' = Depth(f)
      BY <1>3, <1>10, <2>3, <3>1 DEF Depth, Nest
    <3>3. Fits(f, current)'
      <4>1. c \in Live'
        BY <1>6, <2>3
      <4>2. 2 * Lv(current)' < Depth(f)'
        BY <1>1, <1>cur, <3>2
      <4> QED BY <3>1, <4>1, <4>2 DEF Fits
    <3>4. Shallower(s1, Depth(f))
      <4>1. \A i \in 1..Len(s1) : s1[i].op \in Nest => Depth(s1[i]) < Depth(f)
        <5> SUFFICES ASSUME NEW i \in 1..Len(s1), s1[i].op \in Nest
                     PROVE  Depth(s1[i]) < Depth(f)
          OBVIOUS
        <5>1. Depth(t) < Depth(f) /\ Depth(t) \in Nat /\ Depth(f) \in Nat
          BY <1>1, <3>2
        <5>2. CASE i = Len(s1)
          BY <1>12, <1>13, <5>1, <5>2
        <5>3. CASE i \in 1..Len(under)
          <6>1. Depth(s1[i]) < Depth(t)
            BY <1>2, <1>12, <5>3 DEF Shallower
          <6>2. s1[i] \in Frames
            BY <1>12, ElementOfSeq
          <6> QED BY <5>1, <6>1, <6>2, DepthNat
        <5>4. i = Len(s1) \/ i \in 1..Len(under)
          BY <1>2, <1>12
        <5> QED BY <5>2, <5>3, <5>4
      <4> QED BY <4>1 DEF Shallower
    <3>5. Based(s) /\ Ordered(s)
      BY <1>12, <1>14, <2>3, <3>1, <3>4, ShapePush DEF Nest
    <3>6. /\ s \in Seq(Frames) /\ Len(s) = Len(s1) + 1 /\ s[Len(s)] = f
          /\ \A i \in 1..Len(s1) : s[i] = s1[i]
      BY <1>12, <2>3, <3>1, AppendProperties
    <3>7. ASSUME NEW i \in 1..Len(s)
          PROVE  Fits(s[i], current)' /\ (s[i].op \in Nest => Depth(s[i])' = Depth(s[i]))
      <4>1. CASE i = Len(s)
        <5>1. s[i] = f
          BY <3>6, <4>1
        <5> QED BY <3>2, <3>3, <5>1
      <4>2. CASE i \in 1..Len(s1)
        <5>1. PICK x : x = s1[i]
          OBVIOUS
        <5>2. Fits(x, current)' /\ (x.op \in Nest => Depth(x)' = Depth(x))
          BY <1>16, <4>2, <5>1
        <5>3. s[i] = x
          BY <3>6, <4>2, <5>1
        <5> QED BY <5>2, <5>3
      <4>3. i = Len(s) \/ i \in 1..Len(s1)
        BY <1>12, <3>6
      <4> QED BY <4>1, <4>2, <4>3
    <3>10. PICK o : o = current
      OBVIOUS
    <3>11. Good(stack[o], o)'
      BY <1>8, GoodNext, <3>5, <3>7, <3>10
    <3>8. Good(stack[current], current)'
      BY <1>2, <3>10, <3>11
    <3>9. Hands(s) = Hands(s1) \cup ({f.kid} \ {Nil})
      BY <1>12, <2>3, <3>1, HandsPush
    <3> QED BY <2>1, <3>1, <3>6, <3>8, <3>9
  <2> QED BY <2>2, <2>3
<1>18. Stacks'
  BY <1>11, <1>17 DEF Stacks
<1>19. Lists'
  <2>1. ASSUME NEW q \in Ctx
        PROVE  NoDup(childs'[q]) /\ \A d \in Elems(childs'[q]) : d \in Live' /\ parent'[d] = q
    <3>1. CASE q = p
      <4>1. \A d \in Elems(list) : d \in Live /\ parent[d] = p /\ d \notin D
        BY <1>1 DEF Lists
      <4> QED BY <1>6, <1>9, <3>1, <4>1 DEF Live
    <3>2. CASE q # p
      <4>1. \A d \in Elems(childs[q]) : d \in Live /\ parent[d] = q /\ d \notin D
        BY <1>4, <3>2 DEF Lists
      <4> QED BY <1>6, <1>9, <3>2, <4>1 DEF Lists, Live
    <3> QED BY <3>1, <3>2
  <2>2. ASSUME NEW d \in Live, d \notin D
        PROVE  d \in Elems(childs'[parent'[d]]) \/ \E r \in Ctx : d \in Hands(stack'[r])
    <3>1. parent'[d] = parent[d] /\ d # Nil /\ d \in Coro
      BY <2>2, NilAssumption DEF Live
    <3>2. CASE parent[d] = p /\ (d \in Elems(childs[p]) \/ d = c)
      <4>1. d \in Elems(list) \/ d = g.kid
        BY <2>2, <3>2
      <4>2. d = g.kid => d \in Hands(stack'[current])
        BY <1>8, <1>17, <3>1
      <4> QED BY <1>2, <1>9, <3>1, <3>2, <4>1, <4>2
    <3>3. CASE parent[d] # p /\ d \in Elems(childs[parent[d]])
      <4>1. parent[d] \in Ctx
        BY <3>1 DEF TypeOK
      <4> QED BY <1>9, <3>1, <3>3, <4>1
    <3>4. CASE d # c /\ \E r \in Ctx : d \in Hands(stack[r])
      <4>1. PICK r \in Ctx : d \in Hands(stack[r])
        BY <3>4
      <4>2. d \in Hands(stack'[r])
        <5>1. CASE r # current
          BY <1>8, <4>1, <5>1
        <5>2. CASE r = current
          <6>1. d \in Hands(under)
            BY <1>2, <3>4, <4>1, <5>2
          <6> QED BY <1>8, <1>17, <5>2, <6>1
        <5> QED BY <5>1, <5>2
      <4> QED BY <4>2
    <3>5. d \in Elems(childs[parent[d]]) \/ \E r \in Ctx : d \in Hands(stack[r])
      BY DEF Lists
    <3> QED BY <3>2, <3>3, <3>4, <3>5
  <2>3. ASSUME NEW d \in Coro, stat'[d] = CORO_STAT_DONE PROVE childs'[d] = <<>>
    <3>1. d \notin D
      BY <2>3 DEF FREED, CORO_STAT_DONE
    <3>2. stat[d] = CORO_STAT_DONE
      BY <2>3, <3>1
    <3>3. d # p /\ d \in Ctx
      BY <1>1, <3>2, NilAssumption DEF Ctx
    <3> QED BY <1>9, <3>2, <3>3 DEF Lists
  <2>4. \A q \in Ctx : NoDup(childs[q])' /\ \A d \in Elems(childs[q])' : d \in Live' /\ parent'[d] = q
    BY <2>1 DEF NoDup, Elems
  <2>5. ASSUME NEW d \in Live'
        PROVE  d \in Elems(childs[parent[d]])' \/ \E r \in Ctx : d \in Hands(stack[r])'
    <3>1. d \in Elems(childs'[parent'[d]]) \/ \E r \in Ctx : d \in Hands(stack'[r])
      BY <1>6, <2>2
    <3>2. Elems(childs[parent[d]])' = Elems(childs'[parent'[d]])
      BY DEF Elems
    <3>3. \A r : Hands(stack[r])' = Hands(stack'[r])
      BY DEF Hands
    <3> QED BY <3>1, <3>2, <3>3
  <2> QED BY <2>3, <2>4, <2>5 DEF Lists
<1> QED BY <1>5, <1>7, <1>18, <1>19

\* What destroy_coroutine leaves of the others.
LEMMA DestroyRest ==
  ASSUME TypeOK, NEW c \in Coro, Destroy(c)
  PROVE  /\ \A d \in {c} : stat'[d] = FREED
         /\ \A d \in Coro \ {c} : /\ stat'[d] = stat[d] /\ pre'[d] = pre[d]
                                  /\ level'[d] = level[d] /\ parent'[d] = parent[d]
  BY DEF Destroy, TypeOK

LEMMA TakeChildStep == ASSUME TypeOK, SchedInv, TakeChild PROVE SchedInv'
<1>1. PICK t, p, c, list, left : /\ t = Top(stack[current]) /\ p = t.co /\ c = Head(childs[p])
                                 /\ list = Tail(childs[p]) /\ left = t.left - 1
  OBVIOUS
<1>2. /\ In("resume_childs") /\ stack[current] # <<>> /\ t.op = "resume_childs" /\ t \in Frames
      /\ UNCHANGED current /\ t.kid = Nil /\ t.left > 0 /\ childs[p] # <<>>
      /\ childs' = [childs EXCEPT ![p] = list]
  BY <1>1, NoKid DEF TakeChild
<1>3. p \in Ctx /\ childs[p] \in Seq(Coro) /\ NoDup(childs[p]) /\ Fits(t, current)
  BY <1>1, <1>2, RunningGood DEF Frames, TypeOK, Lists
<1>4. /\ c \in Elems(childs[p]) /\ list \in Seq(Coro) /\ NoDup(list)
      /\ Elems(list) = Elems(childs[p]) \ {c} /\ Len(list) = Len(childs[p]) - 1
      /\ Len(childs[p]) \in Nat
  BY <1>1, <1>2, <1>3, ElemsTail, TailLemma
<1>5. c \in Live /\ parent[c] = p /\ c \in Coro /\ c # Nil
  BY <1>3, <1>4, NilAssumption DEF Lists, Live
<1>6. left \in Nat /\ left <= Len(list)
  <2>1. t.left \in Nat /\ t.left <= Len(childs[p])
    BY <1>1, <1>2, <1>3 DEF Frames, Fits
  <2> QED BY <1>1, <1>2, <1>4, <2>1
<1>7. CASE stat[c] = CORO_STAT_DONE
  <2>1. PICK g : g = [t EXCEPT !.left = left]
    OBVIOUS
  <2>2. g \in Frames /\ g.op = "resume_childs" /\ g.co = p /\ g.kid = Nil /\ g.left = left
    BY <1>1, <1>2, <1>6, <2>1 DEF Frames
  <2>3. Destroy(c) /\ Become(Append(Under(stack[current]), g))
    BY <1>1, <1>7, <2>1 DEF TakeChild, Replace
  <2>4. g.kid \notin Elems(list)
    BY <1>4, <2>2, NilAssumption, <1>3 DEF Lists, Live
  <2>5. Elems(list) \cup ({g.kid} \ {Nil}) = (Elems(childs[p]) \cup {c}) \ {c}
    BY <1>4, <2>2
  <2>6. /\ \A d \in {c} : stat'[d] = FREED
        /\ \A d \in Coro \ {c} : /\ stat'[d] = stat[d] /\ pre'[d] = pre[d]
                                 /\ level'[d] = level[d] /\ parent'[d] = parent[d]
    BY <1>5, <2>3, DestroyRest
  <2>7. t.kid \in {Nil, c} /\ g.kid \in {Nil, c} /\ g.left <= Len(list) /\ p = Top(stack[current]).co
    BY SMTT(30), <1>1, <1>2, <1>6, <2>2
  <2>8. Turn(p, c, {c}, list, g, Append(Under(stack[current]), g))
    BY <1>1, <1>2, <1>4, <1>5, <1>7, <2>2, <2>3, <2>4, <2>5, <2>6, <2>7 DEF Turn
  <2> QED BY <2>8, LoopTurn
<1>8. CASE stat[c] # CORO_STAT_DONE
  <2>1. PICK g : g = [t EXCEPT !.kid = c, !.left = left]
    OBVIOUS
  <2>2. g \in Frames /\ g.op = "resume_childs" /\ g.co = p /\ g.kid = c /\ g.left = left
    BY <1>1, <1>2, <1>5, <1>6, <2>1 DEF Frames, Ctx
  <2>3. /\ UNCHANGED <<stat, links>>
        /\ Become(Append(Append(Under(stack[current]), g), Call("resume", c)))
    BY <1>1, <1>8, <2>1 DEF TakeChild
  <2>4. g.kid \notin Elems(list)
    BY <1>4, <2>2
  <2>5. Elems(list) \cup ({g.kid} \ {Nil}) = (Elems(childs[p]) \cup {c}) \ {}
    BY <1>4, <1>5, <2>2
  <2>6. /\ \A d \in {} : stat'[d] = FREED
        /\ \A d \in Coro \ {} : /\ stat'[d] = stat[d] /\ pre'[d] = pre[d]
                                /\ level'[d] = level[d] /\ parent'[d] = parent[d]
    BY <2>3 DEF links
  <2>7. t.kid \in {Nil, c} /\ g.kid \in {Nil, c} /\ g.left <= Len(list) /\ p = Top(stack[current]).co
    BY SMTT(30), <1>1, <1>2, <1>6, <2>2
  <2>8. Turn(p, c, {}, list, g, Append(Append(Under(stack[current]), g), Call("resume", c)))
    BY <1>1, <1>2, <1>4, <1>5, <2>2, <2>3, <2>4, <2>5, <2>6, <2>7 DEF Turn
  <2> QED BY <2>8, LoopTurn
<1> QED BY <1>7, <1>8

LEMMA PutChildBackStep == ASSUME TypeOK, SchedInv, PutChildBack PROVE SchedInv'
<1>1. PICK t, p, c : t = Top(stack[current]) /\ p = t.co /\ c = t.kid
  OBVIOUS
<1>2. /\ In("resume_childs") /\ stack[current] # <<>> /\ t.op = "resume_childs" /\ t \in Frames
      /\ UNCHANGED current /\ c # Nil
  BY <1>1, NoKid DEF PutChildBack
<1>3. p \in Ctx /\ childs[p] \in Seq(Coro) /\ NoDup(childs[p]) /\ Fits(t, current)
  BY <1>1, <1>2, RunningGood DEF Frames, TypeOK, Lists
<1>4. /\ c \in Live /\ parent[c] = p /\ c \in Coro /\ c \notin Elems(childs[p])
      /\ Len(childs[p]) \in Nat /\ t.left \in Nat /\ t.left <= Len(childs[p])
  BY <1>1, <1>2, <1>3, LenProperties DEF Fits, Live, Frames
<1>5. PICK g : g = [t EXCEPT !.kid = Nil]
  OBVIOUS
<1>6. /\ g \in Frames /\ g.op = "resume_childs" /\ g.co = p /\ g.kid = Nil /\ g.left = t.left
      /\ Become(Append(Under(stack[current]), g))
  BY <1>1, <1>2, <1>5 DEF Frames, Ctx, PutChildBack, Replace
<1>7. g.kid \in {Nil, c} /\ t.kid \in {Nil, c} /\ p = Top(stack[current]).co
  BY <1>1, <1>6
<1>8. \A q \in Ctx : Nil \notin Elems(childs[q])
  BY NilAssumption DEF Lists, Live
<1>9. CASE stat[c] = CORO_STAT_DONE
  <2>1. Destroy(c) /\ childs' = childs
    BY <1>1, <1>9 DEF PutChildBack
  <2>2. childs' = [childs EXCEPT ![p] = childs[p]]
    BY <1>3, <2>1 DEF TypeOK
  <2>3. Elems(childs[p]) \cup ({g.kid} \ {Nil}) = (Elems(childs[p]) \cup {c}) \ {c}
    BY <1>4, <1>6
  <2>4. /\ \A d \in {c} : stat'[d] = FREED
        /\ \A d \in Coro \ {c} : /\ stat'[d] = stat[d] /\ pre'[d] = pre[d]
                                 /\ level'[d] = level[d] /\ parent'[d] = parent[d]
    BY <1>4, <2>1, DestroyRest
  <2>5. g.left <= Len(childs[p]) /\ g.kid \notin Elems(childs[p])
    BY <1>3, <1>4, <1>6, <1>8
  <2>6. Turn(p, c, {c}, childs[p], g, Append(Under(stack[current]), g))
    BY <1>1, <1>2, <1>3, <1>4, <1>6, <1>7, <1>9, <2>2, <2>3, <2>4, <2>5 DEF Turn
  <2> QED BY <2>6, LoopTurn
<1>10. CASE stat[c] # CORO_STAT_DONE
  <2>1. PICK list : list = Append(childs[p], c)
    OBVIOUS
  <2>2. UNCHANGED <<stat, links>> /\ childs' = [childs EXCEPT ![p] = list]
    BY <1>1, <1>10, <2>1 DEF PutChildBack
  <2>3. /\ list \in Seq(Coro) /\ NoDup(list) /\ Elems(list) = Elems(childs[p]) \cup {c}
        /\ Len(list) = Len(childs[p]) + 1
    BY <1>3, <1>4, <2>1, ElemsAppend, AppendProperties
  <2>4. Elems(list) \cup ({g.kid} \ {Nil}) = (Elems(childs[p]) \cup {c}) \ {}
    BY <1>6, <2>3
  <2>5. /\ \A d \in {} : stat'[d] = FREED
        /\ \A d \in Coro \ {} : /\ stat'[d] = stat[d] /\ pre'[d] = pre[d]
                                /\ level'[d] = level[d] /\ parent'[d] = parent[d]
    BY <2>2 DEF links
  <2>6. g.left <= Len(list) /\ g.kid \notin Elems(list)
    BY <1>2, <1>3, <1>4, <1>6, <1>8, <2>3
  <2>7. Turn(p, c, {}, list, g, Append(Under(stack[current]), g))
    BY <1>1, <1>2, <1>4, <1>6, <1>7, <2>2, <2>3, <2>4, <2>5, <2>6 DEF Turn
  <2> QED BY <2>7, LoopTurn
<1> QED BY <1>9, <1>10

-----------------------------------------------------------------------------
(* Switches *)

\* A frame of a stack, as a value.
LEMMA FrameOf ==
  ASSUME TypeOK, SchedInv, NEW r \in Ctx, NEW i \in 1..Len(stack[r])
  PROVE  stack[r][i] \in Frames /\ Fits(stack[r][i], r) /\ stack[r] # <<>>
  BY ElementOfSeq, EmptySeq DEF TypeOK, Stacks, Good

\* Steps that leave the levels alone leave the depths alone.
LEMMA DepthSame ==
  ASSUME UNCHANGED level
  PROVE  \A x : Lv(x)' = Lv(x) /\ Depth(x)' = Depth(x)
<1>1. \A x : Lv(x)' = Lv(x)
  BY DEF Lv
<1>2. ASSUME NEW x PROVE Depth(x)' = Depth(x)
  BY DEF Depth, Lv
<1> QED BY <1>1, <1>2

\* A switch changes the stat of coroutines that no call is about to switch to.
LEMMA FitsSwitch ==
  ASSUME UNCHANGED <<level, parent, childs>>, Live' = Live, NEW x, NEW r, Fits(x, r),
         x.op = "transfer" => stat'[x.co] \in {CORO_STAT_INIT, CORO_STAT_WAIT},
         x.kid # Nil /\ x.co # Nil => stat'[x.co] # CORO_STAT_DONE
  PROVE  Fits(x, r)'
<1>1. Lv(r)' = Lv(r) /\ Depth(x)' = Depth(x)
  BY DepthSame
<1>2. Elems(childs[x.co])' = Elems(childs[x.co])
  BY DEF Elems
<1> QED BY <1>1, <1>2 DEF Fits

\* What resume() changes when it switches to c.
LEMMA TransferEffect ==
  ASSUME TypeOK, SchedInv, Transfer, NEW c, c = Top(stack[current]).co, ~Waits(c)
  PROVE  /\ c \in Live /\ c \in Coro /\ Lv(current) < Lv(c)
         /\ Depth(Top(stack[current])) = 2 * Lv(c)
         /\ Lv(current) \in Nat /\ Lv(c) \in Nat
         /\ stat[c] \in {CORO_STAT_INIT, CORO_STAT_WAIT} /\ c # current
         /\ stat' \in [Coro -> {FREED, CORO_STAT_INIT, CORO_STAT_WAIT, CORO_STAT_BUSY, CORO_STAT_DONE}]
         /\ stat'[c] = CORO_STAT_BUSY
         /\ current # Nil => stat'[current] = CORO_STAT_WAIT
         /\ \A x \in Coro : x # c /\ x # current => stat'[x] = stat[x]
         /\ current' = c /\ pre' = [pre EXCEPT ![c] = current]
         /\ c \notin Chain
         /\ \A r \in Chain : r \in Ctx /\ Lv(r) \in Nat /\ Lv(r) <= Lv(current) /\ Lv(r) < Lv(c)
<1>1. PICK t : t = Top(stack[current])
  OBVIOUS
<1>2. /\ stack[current] # <<>> /\ t.op = "transfer" /\ t \in Frames /\ c = t.co
      /\ current \in Ctx /\ Fits(t, current)
  BY <1>1, NoKid, RunningGood DEF Transfer, TypeOK
<1>3. /\ c \in Live /\ c \in Coro /\ Lv(current) < Lv(c) /\ Depth(t) = 2 * Lv(c)
      /\ Lv(current) \in Nat /\ Lv(c) \in Nat
      /\ stat[c] \in {CORO_STAT_INIT, CORO_STAT_WAIT} /\ c # current
  <2>1. c \in Live \cup {Nil} /\ 2 * Lv(current) < Depth(t) /\ Depth(t) = 2 * Lv(c)
    BY <1>2 DEF Fits, Nest, Depth
  <2>2. Lv(current) \in Nat /\ Lv(c) \in Nat
    BY <1>2, LvNat, DepthNat
  <2>3. Lv(current) < Lv(c) /\ c # Nil
    BY <2>1, <2>2 DEF Lv
  <2> QED BY <1>2, <2>1, <2>2, <2>3 DEF Fits, Live
<1>4. /\ stat' \in [Coro -> {FREED, CORO_STAT_INIT, CORO_STAT_WAIT, CORO_STAT_BUSY, CORO_STAT_DONE}]
      /\ stat'[c] = CORO_STAT_BUSY
      /\ current # Nil => stat'[current] = CORO_STAT_WAIT
      /\ \A x \in Coro : x # c /\ x # current => stat'[x] = stat[x]
  <2> DEFINE woken == [stat EXCEPT ![c] = IF @ = CORO_STAT_INIT THEN 2 * @ ELSE @]
             busy  == [woken EXCEPT ![c] = 2 * @]
  <2>1. woken[c] = CORO_STAT_WAIT
    BY <1>3 DEF TypeOK, CORO_STAT_INIT, CORO_STAT_WAIT
  <2>2. /\ busy[c] = CORO_STAT_BUSY
        /\ busy \in [Coro -> {FREED, CORO_STAT_INIT, CORO_STAT_WAIT, CORO_STAT_BUSY, CORO_STAT_DONE}]
        /\ \A x \in Coro : x # c => busy[x] = stat[x]
    BY <1>3, <2>1 DEF TypeOK, CORO_STAT_BUSY, CORO_STAT_WAIT
  <2>3. stat' = IF current = Nil THEN busy ELSE [busy EXCEPT ![current] = @ \div 2]
    BY DEF Transfer
  <2> HIDE DEF woken, busy
  <2>4. current # Nil => current \in Coro /\ busy[current] = CORO_STAT_BUSY
    BY <1>3, <2>2, CurrentLives
  <2>5. CORO_STAT_BUSY \div 2 = CORO_STAT_WAIT
    BY DEF CORO_STAT_BUSY, CORO_STAT_WAIT
  <2> QED BY <1>3, <2>2, <2>3, <2>4, <2>5
<1>5. current' = c /\ pre' = [pre EXCEPT ![c] = current]
  BY DEF Transfer
<1>6. c \notin Chain /\ \A r \in Chain : r \in Ctx /\ Lv(r) \in Nat /\ Lv(r) <= Lv(current) /\ Lv(r) < Lv(c)
  <2>1. \A r \in Chain : r \in Ctx /\ Lv(r) \in Nat /\ Lv(r) <= Lv(current)
    BY <1>2, LvNat DEF Chain, Links
  <2> QED BY <1>3, <2>1
<1> QED BY <1>1, <1>3, <1>4, <1>5, <1>6

LEMMA TransferStep == ASSUME TypeOK, SchedInv, Transfer PROVE SchedInv'
<1>1. PICK t, c, f, under : /\ t = Top(stack[current]) /\ c = t.co
                            /\ f = Call("coro_transfer", c) /\ under = Under(stack[current])
  OBVIOUS
<1>2. /\ stack[current] # <<>> /\ t.op = "transfer" /\ t \in Frames /\ t.kid = Nil
      /\ UNCHANGED <<parent, level, childs>>
  BY <1>1, NoKid DEF Transfer
<1>3. CASE Waits(c)
  <2>1. Pop /\ UNCHANGED <<current, stat, links, childs>>
    BY <1>1, <1>2, <1>3 DEF Transfer, links
  <2> QED BY <1>1, <1>2, <2>1, PopStep
<1>4. CASE ~Waits(c)
  <2>1. /\ current \in Ctx /\ Fits(t, current) /\ under \in Seq(Frames) /\ Good(under, current)
        /\ Shallower(under, Depth(t))
        /\ Hands(stack[current]) = Hands(under) \cup ({t.kid} \ {Nil})
        /\ Len(stack[current]) \in Nat \ {0} /\ Len(under) = Len(stack[current]) - 1
        /\ \A i \in 1..Len(stack[current]) - 1 : under[i] = stack[current][i]
    BY <1>1, <1>2, RunningGood, RunningLen DEF Nest, TypeOK
  <2>2. /\ c \in Live /\ c \in Coro /\ Lv(current) < Lv(c) /\ Depth(t) = 2 * Lv(c)
        /\ Lv(current) \in Nat /\ Lv(c) \in Nat
        /\ stat[c] \in {CORO_STAT_INIT, CORO_STAT_WAIT} /\ c # current
    BY <1>1, <1>4, TransferEffect
  <2>3. /\ stat' \in [Coro -> {FREED, CORO_STAT_INIT, CORO_STAT_WAIT, CORO_STAT_BUSY, CORO_STAT_DONE}]
        /\ stat'[c] = CORO_STAT_BUSY
        /\ current # Nil => stat'[current] = CORO_STAT_WAIT
        /\ \A x \in Coro : x # c /\ x # current => stat'[x] = stat[x]
    BY <1>1, <1>4, TransferEffect
  <2>4. /\ current' = c /\ pre' = [pre EXCEPT ![c] = current]
        /\ Become(Append(under, f))
    BY <1>1, <1>4 DEF Transfer, Replace
  <2>5. /\ \A r \in Ctx : r # current => stack'[r] = stack[r]
        /\ stack'[current] = Append(under, f)
    BY <2>1, <2>4 DEF Become, TypeOK
  <2>6. f \in Frames /\ f.op = "coro_transfer" /\ f.co = c /\ f.kid = Nil
    BY <1>1, <2>2 DEF Call, Frame, Frames, Ops, Ctx
  <2>7. c \notin Chain /\ \A r \in Chain : r \in Ctx /\ Lv(r) \in Nat /\ Lv(r) <= Lv(current) /\ Lv(r) < Lv(c)
    BY <1>1, <1>4, TransferEffect
  <2>8. Chain' = Chain \cup {c}
    <3>1. \A r \in Ctx : r # current => (Resumer(r)' <=> Resumer(r))
      BY <2>5 DEF Resumer, Top
    <3>3. stack'[current] # <<>> /\ Top(stack'[current]) = f
      BY <2>1, <2>5, <2>6, PushLemma
    <3>4. \A r : r = current => Resumer(r)'
      BY <2>6, <3>3 DEF Resumer, Top
    <3>5. {r \in Ctx : Resumer(r)'} = Chain
      BY <2>1, <3>1, <3>4 DEF Chain
    <3> QED BY <2>4, <3>5 DEF Chain
  <2>stat. ASSUME NEW x \in Coro
           PROVE  \/ x = c /\ stat'[x] = CORO_STAT_BUSY
                  \/ x = current /\ x # c /\ stat[x] = CORO_STAT_BUSY /\ stat'[x] = CORO_STAT_WAIT
                  \/ x # c /\ x # current /\ stat'[x] = stat[x] /\ stat[x] # CORO_STAT_BUSY
    BY <2>2, <2>3, NilAssumption DEF OneRunner
  <2>9. Live' = Live
    <3>1. ASSUME NEW x \in Coro PROVE stat'[x] # FREED <=> stat[x] # FREED
      <4>1. stat[c] # FREED
        BY <2>2 DEF Live
      <4> QED BY <4>1, <2>stat DEF FREED, CORO_STAT_BUSY, CORO_STAT_WAIT
    <3> QED BY <3>1 DEF Live
  <2>10. OneRunner'
    BY <2>2, <2>stat, <2>4 DEF OneRunner, CORO_STAT_BUSY, CORO_STAT_WAIT
  <2>11. Tree'
    BY <1>2, <2>9 DEF Tree, Lv
  <2>rest. ASSUME NEW r \in Ctx, NEW i \in 1..Len(stack[r]), r # current \/ i # Len(stack[r]),
                  NEW x, x = stack[r][i]
           PROVE  Fits(x, r)' /\ (x.op \in Nest => Depth(x)' = Depth(x))
    <3>1. x \in Frames /\ Fits(x, r)
      BY <2>rest, FrameOf
    <3>2. ASSUME x.op = "transfer" PROVE stat'[x.co] \in {CORO_STAT_INIT, CORO_STAT_WAIT}
      <4>1. Depth(x) < Depth(t)
        BY <1>1, <1>2, <2>rest, <3>2, TopDeepest DEF Nest
      <4>2. x.co # c
        BY <2>2, <3>2, <4>1 DEF Depth
      <4>3. stat[x.co] \in {CORO_STAT_INIT, CORO_STAT_WAIT} /\ 2 * Lv(r) < Depth(x)
        BY <3>1, <3>2 DEF Fits, Nest
      <4>4. x.co # Nil
        <5>1. Lv(r) \in Nat /\ Depth(x) = 2 * Lv(x.co)
          BY <3>2, LvNat DEF Depth
        <5> QED BY <4>3, <5>1 DEF Lv
      <4>5. x.co \in Coro
        BY <3>1, <4>4 DEF Frames, Ctx
      <4> QED BY <2>stat, <4>2, <4>3, <4>5 DEF CORO_STAT_INIT, CORO_STAT_WAIT, CORO_STAT_BUSY
    <3>3. ASSUME x.kid # Nil, x.co # Nil PROVE stat'[x.co] # CORO_STAT_DONE
      <4>1. x.co \in Coro /\ stat[x.co] # CORO_STAT_DONE
        BY <3>1, <3>3 DEF Frames, Ctx, Fits
      <4> QED BY <2>stat, <4>1 DEF CORO_STAT_DONE, CORO_STAT_WAIT, CORO_STAT_BUSY
    <3>4. Fits(x, r)'
      BY <1>2, <2>9, <3>1, <3>2, <3>3, FitsSwitch
    <3> QED BY <1>2, <3>4, DepthSame
  <2>12. ASSUME NEW r \in Ctx, r # current PROVE Good(stack[r], r)'
    <3>1. PICK y : y = stack[r]
      OBVIOUS
    <3>2. Based(y) /\ Ordered(y) /\ stack'[r] = y
      BY <2>5, <2>12, <3>1 DEF Stacks, Good
    <3>3. \A i \in 1..Len(y) : Fits(y[i], r)' /\ (y[i].op \in Nest => Depth(y[i])' = Depth(y[i]))
      BY <2>12, <2>rest, <3>1
    <3> QED BY <3>2, <3>3, GoodNext
  <2>14. PICK k, y : k = current /\ y = Append(under, f)
    OBVIOUS
  <2>15. Good(stack[k], k)'
    <3>1. Depth(f) = Depth(t)
      BY <2>2, <2>6 DEF Depth
    <3>2. Based(y) /\ Ordered(y)
      BY <2>1, <2>6, <2>14, <3>1, ShapePush DEF Nest, Good
    <3>3. /\ Len(y) = Len(under) + 1 /\ y[Len(y)] = f
          /\ \A i \in 1..Len(under) : y[i] = under[i]
      BY <2>1, <2>6, <2>14, AppendProperties
    <3>4. Fits(f, k)'
      <4>1. 2 * Lv(k) < Depth(f)
        BY <2>2, <2>14, <3>1
      <4>2. Fits(f, k)
        BY <2>2, <2>6, <4>1 DEF Fits
      <4> QED BY <1>2, <2>6, <2>9, <4>2, FitsSwitch
    <3>5. ASSUME NEW i \in 1..Len(y)
          PROVE  Fits(y[i], k)' /\ (y[i].op \in Nest => Depth(y[i])' = Depth(y[i]))
      <4>1. CASE i = Len(y)
        BY <1>2, <3>3, <3>4, <4>1, DepthSame
      <4>2. CASE i \in 1..Len(under)
        <5>1. k \in Ctx /\ i \in 1..Len(stack[k]) /\ i # Len(stack[k]) /\ y[i] = stack[k][i]
          BY <2>1, <2>14, <3>3, <4>2
        <5>2. k # current \/ i # Len(stack[k])
          BY <5>1
        <5> QED BY <2>rest, <5>1, <5>2
      <4>3. i = Len(y) \/ i \in 1..Len(under)
        BY <2>1, <3>3
      <4> QED BY <4>1, <4>2, <4>3
    <3>6. stack'[k] = y
      BY <2>5, <2>14
    <3> QED BY <3>2, <3>5, <3>6, GoodNext
  <2>16. Stacks'
    <3>1. \A r \in Ctx : Good(stack[r], r)'
      BY <2>12, <2>14, <2>15
    <3> QED BY <3>1 DEF Stacks
  <2>17. Lists'
    <3>1. Hands(Append(under, f)) = Hands(stack[current])
      <4>1. Hands(Append(under, f)) = Hands(under) \cup ({f.kid} \ {Nil})
        BY <2>1, <2>6, HandsPush
      <4> QED BY <1>2, <2>1, <2>6, <4>1
    <3>2. \A r \in Ctx : Hands(stack'[r]) = Hands(stack[r])
      BY <2>5, <3>1
    <3>3. \A r \in Ctx : Hands(stack[r])' = Hands(stack[r])
      BY <3>2 DEF Hands
    <3>4. \A x \in Coro : stat'[x] = CORO_STAT_DONE => stat[x] = CORO_STAT_DONE
      BY <2>stat DEF CORO_STAT_DONE, CORO_STAT_WAIT, CORO_STAT_BUSY
    <3> QED BY <1>2, <2>9, <3>3, <3>4 DEF Lists, NoDup, Elems
  <2>18. /\ pre'[c] = current /\ \A x \in Coro : x # c => pre'[x] = pre[x]
         /\ Top(stack'[current]) = f
    BY <2>1, <2>2, <2>4, <2>5, <2>6, PushLemma DEF TypeOK
  <2>19. \A x : Lv(x)' = Lv(x)
    BY <1>2, DepthSame
  <2>20. \A r, q \in Chain \cup {c} : Lv(r)' = Lv(q)' => r = q
    BY <2>2, <2>7, <2>19 DEF Links
  <2>21. ASSUME NEW r \in Chain
         PROVE  \E d \in Coro \cap (Chain \cup {c}) :
                  /\ Top(stack'[r]).co = d /\ pre'[d] = r
                  /\ \A q \in Chain \cup {c} : Lv(r)' < Lv(q)' => Lv(d)' <= Lv(q)'
    <3>1. CASE r = current
      BY <2>2, <2>6, <2>7, <2>18, <2>19, <3>1
    <3>2. CASE r # current
      <4>1. PICK d : d = Top(stack[r]).co
        OBVIOUS
      <4>2. d \in Coro \cap Chain /\ pre[d] = r /\ \A q \in Chain : Lv(r) < Lv(q) => Lv(d) <= Lv(q)
        BY <3>2, <4>1, ResumerTop DEF Links
      <4>3. Top(stack'[r]).co = d /\ pre'[d] = r /\ d # c
        BY <2>5, <2>7, <2>18, <3>2, <4>1, <4>2
      <4>4. Lv(d) <= Lv(c)
        BY <2>2, <2>7, <4>2
      <4> QED BY <2>19, <4>2, <4>3, <4>4
    <3> QED BY <3>1, <3>2
  <2>22. ASSUME NEW x \in Chain \cup {c}, x # Nil
         PROVE  pre'[x] \in Chain /\ Top(stack'[pre'[x]]).co = x
    <3>1. CASE x = c
      BY <2>6, <2>18, <3>1 DEF Chain
    <3>2. CASE x # c
      <4>1. pre'[x] = pre[x] /\ pre[x] \in Chain /\ pre[x] # current /\ Top(stack[pre[x]]).co = x
        BY <2>7, <2>18, <2>22, <3>2 DEF Links, Ctx
      <4> QED BY <2>5, <2>7, <4>1
    <3> QED BY <3>1, <3>2
  <2>23. \A r \in Chain : r # Nil => stat'[r] = CORO_STAT_WAIT
    BY <2>stat, <2>7 DEF Links, Ctx
  <2>24. Links'
    <3>1. Chain' \ {c} = Chain
      BY <2>7, <2>8
    <3>2. \A r \in Chain : /\ Top(stack[r])'.co \in Chain \cup {c}
                           /\ pre'[Top(stack[r])'.co] = r
                           /\ \A q \in Chain \cup {c} : Lv(r)' < Lv(q)' => Lv(Top(stack[r]).co)' <= Lv(q)'
      BY <2>21 DEF Top, Lv
    <3>3. \A x \in (Chain \cup {c}) \ {Nil} : pre'[x] \in Chain /\ Top(stack[pre[x]])'.co = x
      BY <2>22 DEF Top
    <3>4. \A r \in Chain \cup {c} : Lv(r)' <= Lv(c)'
      BY <2>2, <2>7, <2>19
    <3>5. Lv(current)' = Lv(c)'
      BY <2>4 DEF Lv
    <3> QED BY <2>4, <2>8, <2>20, <2>23, <3>1, <3>2, <3>3, <3>4, <3>5 DEF Links
  <2>25. Parks'
    <3>1. \A r \in Ctx \ (Chain \cup {c}) : stack'[r] = stack[r]
      BY <2>5 DEF Chain
    <3>2. \A x \in Coro : stack'[x] # <<>> => stat'[x] \in {CORO_STAT_WAIT, CORO_STAT_BUSY}
      BY <2>5, <2>stat DEF Parks, Ctx
    <3> QED BY <2>8, <3>1, <3>2 DEF Parks
  <2> QED BY <2>10, <2>11, <2>16, <2>17, <2>24, <2>25
<1> QED BY <1>3, <1>4

\* The running coroutine gives the processor back, from yield() or at the end of
\* execute(), and is parked or done.
SwitchOut(own) ==
  /\ current # Nil /\ stack[current] # <<>> /\ Pop /\ TransferPre(own)
  /\ UNCHANGED <<links, childs>>
  /\ \/ own = CORO_STAT_WAIT /\ Top(stack[current]).op = "yield"
     \/ own = CORO_STAT_DONE /\ Top(stack[current]).op = "execute" /\ childs[current] = <<>>

\* Nobody is about to switch to the context that the running one returns to, and
\* no loop is over the children of the running one.
LEMMA BackFacts ==
  ASSUME TypeOK, SchedInv, current # Nil, NEW own, SwitchOut(own)
  PROVE  /\ current \in Coro /\ stat[current] = CORO_STAT_BUSY
         /\ pre[current] \in Chain /\ pre[current] # current /\ Top(stack[pre[current]]).co = current
         /\ Len(stack[current]) = 1 \/ (/\ own = CORO_STAT_WAIT /\ Len(stack[current]) = 2
                                        /\ stack[current][1].op \in {"mget", "await"})
         /\ \A r \in Ctx : \A i \in 1..Len(stack[r]) :
              /\ stack[r][i].op = "transfer" =>
                   stack[r][i].co \in Coro /\ stack[r][i].co # current /\ stack[r][i].co # pre[current]
              /\ stack[r][i].kid # Nil => stack[r][i].co # current
<1>1. current \in Coro /\ current \in Ctx /\ stat[current] = CORO_STAT_BUSY
  BY CurrentLives
<1>2. PICK p : p = pre[current]
  OBVIOUS
<1>3. p \in Chain /\ p # current /\ Top(stack[p]).co = current /\ p \in Ctx
  BY <1>1, <1>2 DEF Links, Chain
<1>4. Len(stack[current]) = 1 \/ (/\ own = CORO_STAT_WAIT /\ Len(stack[current]) = 2
                                  /\ stack[current][1].op \in {"mget", "await"})
  <2>1. /\ stack[current] # <<>> /\ Based(stack[current])
        /\ Top(stack[current]).op \in {"yield", "execute"}
        /\ own # CORO_STAT_WAIT => Top(stack[current]).op = "execute"
    BY RunningGood DEF SwitchOut, Good
  <2>2. Len(stack[current]) \in 1..Len(stack[current]) /\ Len(stack[current]) \in Nat
    BY <2>1, RunningLen
  <2>3. Len(stack[current]) = 1 \/ (/\ Len(stack[current]) = 2 /\ stack[current][2].op = "yield"
                                    /\ stack[current][1].op \in {"mget", "await"})
    BY <2>1, <2>2 DEF Based, Top, Nest
  <2> QED BY <2>1, <2>3 DEF Top
<1>5. ASSUME NEW r \in Ctx, NEW i \in 1..Len(stack[r]), stack[r][i].op \in Nest
      PROVE  /\ r # current /\ r \in Chain /\ Depth(stack[r][i]) <= 2 * Lv(current)
  <2>1. r # current
    BY <1>5, AtBase DEF SwitchOut, Nest
  <2> QED BY <1>5, <2>1, OthersAbove
<1>6. ASSUME NEW r \in Ctx, NEW i \in 1..Len(stack[r]), stack[r][i].op = "transfer"
      PROVE  stack[r][i].co \in Coro /\ stack[r][i].co # current /\ stack[r][i].co # p
  <2>1. PICK x : x = stack[r][i]
    OBVIOUS
  <2>2. /\ r # current /\ r \in Chain /\ x \in Frames /\ stat[x.co] \in {CORO_STAT_INIT, CORO_STAT_WAIT}
        /\ 2 * Lv(r) < 2 * Lv(x.co) /\ Depth(x) = 2 * Lv(x.co)
    BY <1>5, <1>6, <2>1, FrameOf DEF Fits, Nest, Depth
  <2>3. Lv(r) \in Nat /\ Lv(x.co) \in Nat
    BY <2>2, LvNat, DepthNat
  <2>4. Lv(r) < Lv(x.co) /\ x.co \in Coro
    BY <2>2, <2>3 DEF Lv, Frames, Ctx
  <2>5. x.co # current
    BY <1>1, <2>2 DEF CORO_STAT_INIT, CORO_STAT_WAIT, CORO_STAT_BUSY
  <2>6. x.co # p
    <3>1. SUFFICES ASSUME x.co = p PROVE FALSE
      OBVIOUS
    <3>2. PICK d : d = Top(stack[r]).co
      OBVIOUS
    <3>3. /\ Top(stack[r]).op = "coro_transfer" /\ Top(stack[r]) \in Frames
          /\ Len(stack[r]) \in 1..Len(stack[r])
      BY <2>2, ResumerTop
    <3>4. Lv(d) <= Lv(p)
      BY <1>3, <2>2, <2>4, <3>1, <3>2 DEF Links
    <3>5. i # Len(stack[r]) /\ i < Len(stack[r])
      BY <1>6, <3>3 DEF Top
    <3>6. Depth(x) < Depth(Top(stack[r]))
      BY <1>6, <2>1, <3>3, <3>5 DEF Stacks, Good, Ordered, Top, Nest
    <3>7. Depth(Top(stack[r])) = 2 * Lv(d) /\ Lv(d) \in Nat
      BY <3>2, <3>3, DepthNat DEF Depth
    <3> QED BY <2>2, <2>3, <3>1, <3>4, <3>6, <3>7
  <2> QED BY <2>1, <2>4, <2>5, <2>6
<1>7. ASSUME NEW r \in Ctx, NEW i \in 1..Len(stack[r]), stack[r][i].kid # Nil
      PROVE  stack[r][i].co # current
  <2>1. stack[r][i].op = "resume_childs"
    BY <1>7, FrameOf DEF Fits
  <2>2. Depth(stack[r][i]) <= 2 * Lv(current) /\ Lv(current) \in Nat
    BY <1>1, <1>5, <2>1, LvNat DEF Nest
  <2>3. Depth(stack[r][i]) = 2 * Lv(stack[r][i].co) + 1
    BY <2>1 DEF Depth
  <2> QED BY <2>2, <2>3
<1> QED BY <1>1, <1>2, <1>3, <1>4, <1>6, <1>7

\* What it changes.
LEMMA SwitchOutEffect ==
  ASSUME TypeOK, SchedInv, NEW own, SwitchOut(own), NEW c, c = current, NEW p, p = pre[current]
  PROVE  /\ c \in Coro /\ c # Nil /\ stat[c] = CORO_STAT_BUSY /\ p \in Chain /\ p # c
         /\ current' = p /\ UNCHANGED pre /\ own \in {CORO_STAT_WAIT, CORO_STAT_DONE}
         /\ \A x \in Coro : \/ x = c /\ stat'[x] = own
                            \/ x = p /\ x # c /\ stat[x] = CORO_STAT_WAIT /\ stat'[x] = CORO_STAT_BUSY
                            \/ x # c /\ x # p /\ stat'[x] = stat[x] /\ stat[x] # CORO_STAT_BUSY
<1>1. /\ c # Nil /\ c \in Coro /\ c \in Ctx /\ stat[c] = CORO_STAT_BUSY
      /\ p \in Chain /\ p # c /\ p \in Ctx
  BY BackFacts DEF SwitchOut, Chain, Ctx
<1>2. UNCHANGED pre /\ own \in {CORO_STAT_WAIT, CORO_STAT_DONE}
  BY DEF SwitchOut, links
<1> DEFINE self == [stat EXCEPT ![c] = own]
<1>3. /\ current' = p
      /\ IF p = Nil THEN stat' = self
         ELSE self[p] = CORO_STAT_WAIT /\ stat' = [self EXCEPT ![p] = 2 * @]
  BY DEF SwitchOut, TransferPre
<1>4. /\ self[c] = own /\ \A x \in Coro : x # c => self[x] = stat[x] /\ stat[x] # CORO_STAT_BUSY
      /\ DOMAIN self = Coro
  BY <1>1 DEF TypeOK, OneRunner
<1> HIDE DEF self
<1>5. 2 * CORO_STAT_WAIT = CORO_STAT_BUSY
  BY DEF CORO_STAT_WAIT, CORO_STAT_BUSY
<1>6. CASE p = Nil
  BY <1>1, <1>2, <1>3, <1>4, <1>6, NilAssumption
<1>7. CASE p # Nil
  <2>1. self[p] = CORO_STAT_WAIT /\ stat' = [self EXCEPT ![p] = 2 * @] /\ p \in Coro
    BY <1>1, <1>3, <1>7 DEF Ctx
  <2>2. stat'[p] = CORO_STAT_BUSY /\ \A x \in Coro : x # p => stat'[x] = self[x]
    BY <1>4, <1>5, <2>1
  <2> QED BY <1>1, <1>2, <1>3, <1>4, <2>1, <2>2
<1> QED BY <1>6, <1>7

LEMMA SwitchOutStep == ASSUME TypeOK, SchedInv, NEW own, SwitchOut(own) PROVE SchedInv'
<1>1. PICK c, p, under : c = current /\ p = pre[current] /\ under = Under(stack[current])
  OBVIOUS
<1>2. /\ c # Nil /\ c \in Coro /\ c \in Ctx /\ stat[c] = CORO_STAT_BUSY
      /\ p \in Chain /\ p # c /\ p \in Ctx /\ Top(stack[p]).co = c
      /\ Len(stack[c]) = 1 \/ (own = CORO_STAT_WAIT /\ Len(stack[c]) = 2 /\ stack[c][1].op \in {"mget", "await"})
      /\ \A r \in Ctx : \A i \in 1..Len(stack[r]) :
           /\ stack[r][i].op = "transfer" =>
                stack[r][i].co \in Coro /\ stack[r][i].co # c /\ stack[r][i].co # p
           /\ stack[r][i].kid # Nil => stack[r][i].co # c
  BY <1>1, BackFacts DEF SwitchOut, Chain, Ctx
<1>3. /\ stack[c] # <<>> /\ Top(stack[c]).op \in {"yield", "execute"}
      /\ UNCHANGED <<pre, parent, level, childs>>
      /\ own \in {CORO_STAT_WAIT, CORO_STAT_DONE}
      /\ own = CORO_STAT_DONE => childs[c] = <<>>
  BY <1>1 DEF SwitchOut, links, CORO_STAT_WAIT, CORO_STAT_DONE
<1>4. /\ under \in Seq(Frames) /\ Good(under, c) /\ Hands(under) = {} /\ Hands(stack[c]) = {}
      /\ Len(under) = Len(stack[c]) - 1
      /\ \A i \in 1..Len(under) : under[i] = stack[c][i] /\ i \in 1..Len(stack[c])
  <2>1. stack[current] # <<>> /\ Top(stack[current]).op \notin Nest
    BY <1>1, <1>3 DEF Nest
  <2>2. Hands(stack[c]) = {}
    BY <1>1, <2>1, AtBase
  <2>3. under \in Seq(Frames) /\ Good(under, c) /\ Hands(stack[c]) = Hands(under) \cup ({Top(stack[c]).kid} \ {Nil})
    BY <1>1, <2>1, RunningGood
  <2>4. /\ Len(stack[c]) \in Nat \ {0} /\ Len(under) = Len(stack[c]) - 1
        /\ \A i \in 1..Len(stack[c]) - 1 : under[i] = stack[c][i]
    BY <1>1, <2>1, RunningLen
  <2> QED BY <2>2, <2>3, <2>4
<1>5. under = <<>> \/ (own = CORO_STAT_WAIT /\ Len(under) = 1 /\ under[1].op \in {"mget", "await"})
  <2>1. CASE Len(stack[c]) = 1
    BY <1>4, <2>1, EmptySeq
  <2>2. CASE Len(stack[c]) # 1
    BY <1>2, <1>4, <2>2
  <2> QED BY <2>1, <2>2
<1>6. /\ \A r \in Ctx : r # c => stack'[r] = stack[r]
      /\ stack'[c] = under
  BY <1>1, <1>2 DEF SwitchOut, Pop, Become, TypeOK
<1>7. /\ current' = p
      /\ \A x \in Coro : \/ x = c /\ stat'[x] = own
                         \/ x = p /\ x # c /\ stat[x] = CORO_STAT_WAIT /\ stat'[x] = CORO_STAT_BUSY
                         \/ x # c /\ x # p /\ stat'[x] = stat[x] /\ stat[x] # CORO_STAT_BUSY
  BY <1>1, SwitchOutEffect
<1>8. Live' = Live
  <2>1. ASSUME NEW x \in Coro PROVE stat'[x] # FREED <=> stat[x] # FREED
    BY <1>2, <1>3, <1>7 DEF FREED, CORO_STAT_BUSY, CORO_STAT_WAIT, CORO_STAT_DONE
  <2> QED BY <2>1 DEF Live
<1>9. OneRunner'
  BY <1>2, <1>3, <1>7 DEF OneRunner, CORO_STAT_BUSY, CORO_STAT_WAIT, CORO_STAT_DONE
<1>10. Tree'
  BY <1>3, <1>8 DEF Tree, Lv
<1>11. Chain' = Chain \ {c}
  <2>1. \A r \in Ctx : r # c => (Resumer(r)' <=> Resumer(r))
    BY <1>6 DEF Resumer, Top
  <2>2. \A r : r = c => ~Resumer(r)'
    BY <1>5, <1>6 DEF Resumer, Top
  <2>3. {r \in Ctx : Resumer(r)'} = Chain \ {c}
    BY <1>1, <2>1, <2>2 DEF Chain
  <2> QED BY <1>2, <1>7, <2>3 DEF Chain
<1>rest. ASSUME NEW r \in Ctx, NEW i \in 1..Len(stack[r]), NEW x, x = stack[r][i]
         PROVE  Fits(x, r)' /\ (x.op \in Nest => Depth(x)' = Depth(x))
  <2>1. x \in Frames /\ Fits(x, r)
    BY <1>rest, FrameOf
  <2>2. ASSUME x.op = "transfer" PROVE stat'[x.co] \in {CORO_STAT_INIT, CORO_STAT_WAIT}
    <3>1. x.co \in Coro /\ x.co # c /\ x.co # p
      BY <1>2, <1>rest, <2>2
    <3>2. stat[x.co] \in {CORO_STAT_INIT, CORO_STAT_WAIT}
      BY <2>1, <2>2 DEF Fits
    <3> QED BY <1>7, <3>1, <3>2
  <2>3. ASSUME x.kid # Nil, x.co # Nil PROVE stat'[x.co] # CORO_STAT_DONE
    <3>1. x.co \in Coro /\ stat[x.co] # CORO_STAT_DONE /\ x.co # c
      BY <1>2, <1>rest, <2>1, <2>3 DEF Frames, Ctx, Fits
    <3> QED BY <1>7, <3>1 DEF CORO_STAT_DONE, CORO_STAT_BUSY
  <2>4. Fits(x, r)'
    BY <1>3, <1>8, <2>1, <2>2, <2>3, FitsSwitch
  <2> QED BY <1>3, <2>4, DepthSame
<1>12. Stacks'
  <2>1. ASSUME NEW r \in Ctx PROVE Good(stack[r], r)'
    <3>1. PICK y : y = stack'[r]
      OBVIOUS
    <3>2. Based(y) /\ Ordered(y)
      BY <1>4, <1>6, <3>1 DEF Stacks, Good
    <3>3. ASSUME NEW i \in 1..Len(y)
          PROVE  Fits(y[i], r)' /\ (y[i].op \in Nest => Depth(y[i])' = Depth(y[i]))
      <4>1. i \in 1..Len(stack[r]) /\ y[i] = stack[r][i]
        BY <1>4, <1>6, <3>1
      <4> QED BY <1>rest, <4>1
    <3> QED BY <3>1, <3>2, <3>3, GoodNext
  <2> QED BY <2>1 DEF Stacks
<1>13. Lists'
  <2>1. \A r \in Ctx : Hands(stack'[r]) = Hands(stack[r])
    BY <1>4, <1>6
  <2>2. \A r \in Ctx : Hands(stack[r])' = Hands(stack[r])
    BY <2>1 DEF Hands
  <2>3. \A x \in Coro : stat'[x] = CORO_STAT_DONE => childs[x] = <<>>
    BY <1>3, <1>7 DEF Lists, CORO_STAT_DONE, CORO_STAT_BUSY
  <2> QED BY <1>3, <1>8, <2>2, <2>3 DEF Lists, NoDup, Elems
<1>14. Links'
  <2>1. \A x : Lv(x)' = Lv(x)
    BY <1>3, DepthSame
  <2>2. \A r \in Chain : r \in Ctx /\ Lv(r) \in Nat /\ Lv(r) <= Lv(c)
    BY <1>1, <1>2, LvNat DEF Links, Chain
  <2>3. ASSUME NEW r \in Chain \ {c, p}
        PROVE  \E d \in Chain \ {c} :
                 /\ Top(stack'[r]).co = d /\ pre[d] = r
                 /\ \A q \in Chain : Lv(r) < Lv(q) => Lv(d) <= Lv(q)
    <3>1. PICK d : d = Top(stack[r]).co
      OBVIOUS
    <3>2. d \in Chain /\ pre[d] = r /\ \A q \in Chain : Lv(r) < Lv(q) => Lv(d) <= Lv(q)
      BY <1>1, <3>1 DEF Links
    <3> QED BY <1>1, <1>6, <2>2, <3>1, <3>2
  <2>4. ASSUME NEW x \in Chain \ {c}, x # Nil
        PROVE  pre[x] \in Chain /\ pre[x] # c /\ pre[x] # p /\ Top(stack'[pre[x]]).co = x
    <3>1. pre[x] \in Chain /\ pre[x] # c /\ Top(stack[pre[x]]).co = x
      BY <1>1, <2>4 DEF Links
    <3> QED BY <1>2, <1>6, <2>2, <2>4, <3>1
  <2>5. ASSUME NEW r \in Chain \ {c} PROVE Lv(r) <= Lv(p)
    <3>1. SUFFICES ASSUME Lv(p) < Lv(r) PROVE FALSE
      BY <1>2, <2>2
    <3>2. Lv(c) <= Lv(r)
      BY <1>1, <1>2, <3>1 DEF Links
    <3>3. Lv(c) = Lv(r) /\ c \in Chain
      BY <1>1, <1>2, <2>2, <3>2, LvNat DEF Chain
    <3> QED BY <3>3 DEF Links
  <2>6. \A r \in Chain \ {c, p, Nil} : stat'[r] = CORO_STAT_WAIT
    BY <1>1, <1>7, <2>2 DEF Links, Ctx
  <2>7. \A r, q \in Chain \ {c} : Lv(r)' = Lv(q)' => r = q
    BY <2>1 DEF Links
  <2>8. \A r \in (Chain \ {c}) \ {p} :
          /\ Top(stack[r])'.co \in Chain \ {c}
          /\ pre'[Top(stack[r])'.co] = r
          /\ \A q \in Chain \ {c} : Lv(r)' < Lv(q)' => Lv(Top(stack[r]).co)' <= Lv(q)'
    BY <1>3, <2>3 DEF Top, Lv
  <2>9. \A x \in (Chain \ {c}) \ {Nil} : pre'[x] \in (Chain \ {c}) \ {p} /\ Top(stack[pre[x]])'.co = x
    BY <1>3, <2>4 DEF Top
  <2>10. \A r \in Chain \ {c} : Lv(r)' <= Lv(current)'
    BY <1>3, <1>7, <2>5 DEF Lv
  <2>11. \A r \in (Chain \ {c}) \ {Nil, p} : stat'[r] = CORO_STAT_WAIT
    BY <2>6
  <2> QED BY <1>7, <1>11, <2>7, <2>8, <2>9, <2>10, <2>11 DEF Links
<1>15. Parks'
  <2>1. ASSUME NEW r \in Ctx, r \notin Chain \ {c}
        PROVE  stack'[r] = <<>> \/ (Len(stack'[r]) = 1 /\ stack'[r][1].op \in {"mget", "await"})
    BY <1>5, <1>6, <2>1 DEF Parks
  <2>2. ASSUME NEW x \in Coro, stack'[x] # <<>> PROVE stat'[x] \in {CORO_STAT_WAIT, CORO_STAT_BUSY}
    <3>1. CASE x = c
      BY <1>2, <1>5, <1>6, <1>7, <2>2, <3>1
    <3>2. CASE x # c
      BY <1>6, <1>7, <2>2, <3>2 DEF Parks, Ctx
    <3> QED BY <3>1, <3>2
  <2> QED BY <1>11, <2>1, <2>2 DEF Parks
<1> QED BY <1>9, <1>10, <1>12, <1>13, <1>14, <1>15

-----------------------------------------------------------------------------
(* The invariant holds *)

LEMMA ChildStep ==
  ASSUME TypeOK, SchedInv, NEW c \in Coro, NEW raw \in RawMsg, Child(c, raw)
  PROVE  SchedInv'
<1>1. PICK o, D, s : o = current /\ D = {c} /\ s = stack[current]
  OBVIOUS
<1>2. /\ o \in Ctx /\ o \in Live \cup {Nil} /\ o # c /\ c # Nil /\ c \in Ctx
      /\ o # Nil => stat[o] = CORO_STAT_BUSY
      /\ stat[c] = FREED /\ c \notin Live
  BY <1>1, CurrentLives, NilAssumption DEF Child, Live, Ctx
<1>3. c \notin Chain /\ stack[c] = <<>>
  <2>1. c \notin Chain
    BY <1>1, <1>2 DEF Links, FREED, CORO_STAT_WAIT
  <2> QED BY <1>2, <2>1 DEF Parks, FREED, CORO_STAT_WAIT, CORO_STAT_BUSY
<1>4. /\ UNCHANGED <<current, stack>>
      /\ stat'[c] = CORO_STAT_INIT /\ parent'[c] = o /\ level'[c] = Lv(o) + 1
      /\ \A x \in Coro : x # c => /\ stat'[x] = stat[x] /\ pre'[x] = pre[x]
                                  /\ level'[x] = level[x] /\ parent'[x] = parent[x]
      /\ childs'[c] = <<>> /\ childs'[o] = Append(childs[o], c)
      /\ \A q \in Ctx : q # c /\ q # o => childs'[q] = childs[q]
  BY <1>1, <1>2 DEF Child, TypeOK, Lv
<1>5. /\ Chain' = Chain /\ OneRunner' /\ Links' /\ Parks'
      /\ \A x \in Ctx : x # c => Lv(x)' = Lv(x)
  <2>1. Become(s)
    BY <1>1, <1>4 DEF Become, TypeOK
  <2>2. \A x \in D : x \in Coro /\ x \notin Chain /\ stack[x] = <<>> /\ stat'[x] \in {FREED, CORO_STAT_INIT}
    BY <1>1, <1>3, <1>4
  <2>3. \A x \in Coro \ D : stat'[x] = stat[x] /\ pre'[x] = pre[x] /\ level'[x] = level[x]
    BY <1>1, <1>4
  <2>4. UNCHANGED current
    BY <1>4
  <2>5. /\ Chain' = Chain /\ OneRunner' /\ Links' /\ Parks'
        /\ \A x \in Ctx \ D : Lv(x)' = Lv(x)
    BY <2>1, <2>2, <2>3, <2>4, ChainKeeps
  <2> QED BY <1>1, <2>5
<1>6. Live' = Live \cup {c}
  BY <1>4 DEF Live, FREED, CORO_STAT_INIT
<1>7. Tree'
  <2>1. ASSUME NEW d \in Live \cup {c}
        PROVE  /\ parent'[d] \in Live' \cup {Nil}
               /\ level'[d] = (IF parent'[d] = Nil THEN 0 ELSE level'[parent'[d]]) + 1
    <3>1. CASE d = c
      BY <1>2, <1>4, <1>6, <3>1 DEF Lv, Ctx
    <3>2. CASE d # c
      <4>1. /\ parent'[d] = parent[d] /\ level'[d] = level[d] /\ d \in Live
            /\ parent[d] \in Live \cup {Nil} /\ parent[d] # c /\ level[d] = Lv(parent[d]) + 1
        BY <1>2, <1>4, <2>1, <3>2 DEF Tree, Live
      <4>2. parent[d] # Nil => level'[parent[d]] = level[parent[d]]
        BY <1>4, <4>1 DEF Live
      <4> QED BY <1>6, <4>1, <4>2 DEF Lv
    <3> QED BY <3>1, <3>2
  <2> QED BY <1>6, <2>1 DEF Tree, Lv
<1>8. /\ childs[o] \in Seq(Coro) /\ Elems(childs'[o]) = Elems(childs[o]) \cup {c} /\ NoDup(childs'[o])
      /\ Len(childs'[o]) = Len(childs[o]) + 1 /\ Len(childs[o]) \in Nat
      /\ Elems(childs'[c]) = {} /\ NoDup(childs'[c])
      /\ \A q \in Ctx : c \notin Elems(childs[q])
  <2>1. childs[o] \in Seq(Coro) /\ NoDup(childs[o]) /\ Len(childs[o]) \in Nat
    BY <1>2, LenProperties DEF TypeOK, Lists
  <2>2. \A q \in Ctx : c \notin Elems(childs[q])
    BY <1>2 DEF Lists
  <2>3. Elems(childs'[c]) = {} /\ NoDup(childs'[c])
    BY <1>4 DEF Elems, NoDup
  <2>4. c \notin Elems(childs[o])
    BY <1>2, <2>2
  <2>5. /\ Elems(Append(childs[o], c)) = Elems(childs[o]) \cup {c}
        /\ Len(Append(childs[o], c)) = Len(childs[o]) + 1
        /\ NoDup(Append(childs[o], c))
    BY <2>1, <2>4, ElemsAppend
  <2> QED BY <1>4, <2>1, <2>2, <2>3, <2>5
<1>9. ASSUME NEW r \in Ctx, NEW i \in 1..Len(stack[r]), NEW x, x = stack[r][i]
      PROVE  Fits(x, r)' /\ (x.op \in Nest => Depth(x)' = Depth(x))
  <2>1. x \in Frames /\ Fits(x, r) /\ r # c
    BY <1>3, <1>9, FrameOf
  <2>2. x.op \in Nest => x.co \in Live \cup {Nil} /\ x.co # c /\ x.co \in Ctx
    BY <1>2, <2>1 DEF Fits, Frames
  <2>3. x.op \in Nest => Lv(x.co)' = Lv(x.co) /\ Depth(x)' = Depth(x)
    <3>1. x.op \in Nest => Lv(x.co)' = Lv(x.co)
      BY <1>5, <2>2
    <3> QED BY <3>1 DEF Depth, Lv
  <2>4. Lv(r)' = Lv(r)
    BY <1>5, <2>1
  <2>5. x.op \in Nest => x.co \in Live' \cup {Nil} /\ 2 * Lv(r)' < Depth(x)'
    BY <1>6, <2>1, <2>2, <2>3, <2>4 DEF Fits
  <2>6. x.op = "transfer" => stat'[x.co] \in {CORO_STAT_INIT, CORO_STAT_WAIT}
    <3>1. ASSUME x.op = "transfer" PROVE stat'[x.co] \in {CORO_STAT_INIT, CORO_STAT_WAIT}
      <4>1. 2 * Lv(r) < 2 * Lv(x.co) /\ Lv(r) \in Nat /\ stat[x.co] \in {CORO_STAT_INIT, CORO_STAT_WAIT}
        BY <2>1, <3>1, LvNat DEF Fits, Nest, Depth
      <4>2. x.co \in Coro /\ x.co # c
        BY <2>2, <3>1, <4>1 DEF Lv, Nest, Ctx
      <4> QED BY <1>4, <4>1, <4>2
    <3> QED BY <3>1
  <2>7. x.op = "resume_childs" => x.left <= Len(childs'[x.co])
    <3>1. ASSUME x.op = "resume_childs" PROVE x.left <= Len(childs'[x.co])
      <4>1. x.co \in Ctx /\ x.co # c /\ x.left <= Len(childs[x.co]) /\ x.left \in Nat
        BY <2>1, <2>2, <3>1 DEF Fits, Nest, Frames
      <4>2. childs'[x.co] = childs[x.co] \/ x.co = o
        BY <1>4, <4>1
      <4> QED BY <1>8, <4>1, <4>2
    <3> QED BY <3>1
  <2>8. ASSUME x.kid # Nil
        PROVE  /\ x.op = "resume_childs"
               /\ x.kid \in Live' /\ parent'[x.kid] = x.co /\ x.kid \notin Elems(childs'[x.co])
               /\ x.co # Nil => stat'[x.co] # CORO_STAT_DONE
    <3>1. /\ x.op = "resume_childs"
          /\ x.kid \in Live /\ parent[x.kid] = x.co /\ x.kid \notin Elems(childs[x.co])
          /\ x.co # Nil => stat[x.co] # CORO_STAT_DONE
      BY <2>1, <2>8 DEF Fits
    <3>2. x.kid # c /\ x.kid \in Coro /\ x.co \in Ctx /\ x.co # c
      BY <1>2, <2>2, <3>1 DEF Live, Nest
    <3>3. x.kid \notin Elems(childs'[x.co])
      BY <1>4, <1>8, <3>1, <3>2
    <3> QED BY <1>4, <1>6, <3>1, <3>2, <3>3 DEF Ctx
  <2>9. Elems(childs[x.co])' = Elems(childs'[x.co])
    BY DEF Elems
  <2>10. x.op = "drain" => r = Nil
    BY <2>1 DEF Fits
  <2>11. Fits(x, r)'
    BY <2>5, <2>6, <2>7, <2>8, <2>9, <2>10 DEF Fits
  <2> QED BY <2>3, <2>11
<1>10. Stacks'
  <2>1. ASSUME NEW r \in Ctx PROVE Good(stack[r], r)'
    <3>1. PICK y : y = stack[r]
      OBVIOUS
    <3>2. Based(y) /\ Ordered(y) /\ stack'[r] = y
      BY <1>4, <3>1 DEF Stacks, Good
    <3>3. \A i \in 1..Len(y) : Fits(y[i], r)' /\ (y[i].op \in Nest => Depth(y[i])' = Depth(y[i]))
      BY <1>9, <3>1
    <3> QED BY <3>2, <3>3, GoodNext
  <2> QED BY <2>1 DEF Stacks
<1>11. Lists'
  <2>1. ASSUME NEW q \in Ctx
        PROVE  NoDup(childs'[q]) /\ \A d \in Elems(childs'[q]) : d \in Live' /\ parent'[d] = q
    <3>1. CASE q = c
      BY <1>8, <3>1
    <3>2. CASE q # c
      <4>1. \A d \in Elems(childs[q]) : d \in Live' /\ parent'[d] = q
        BY <1>4, <1>6, <1>8 DEF Lists, Live
      <4>2. CASE q = o
        BY <1>4, <1>6, <1>8, <4>1, <4>2
      <4>3. CASE q # o
        BY <1>4, <3>2, <4>1, <4>3 DEF Lists
      <4> QED BY <4>2, <4>3
    <3> QED BY <3>1, <3>2
  <2>2. ASSUME NEW d \in Live'
        PROVE  d \in Elems(childs'[parent'[d]]) \/ \E r \in Ctx : d \in Hands(stack[r])
    <3>1. CASE d = c
      BY <1>4, <1>8, <3>1
    <3>2. CASE d # c
      <4>1. d \in Live /\ parent'[d] = parent[d] /\ parent[d] # c /\ parent[d] \in Ctx
        BY <1>2, <1>4, <1>6, <3>2 DEF Live, Tree, TypeOK
      <4>2. d \in Elems(childs[parent[d]]) => d \in Elems(childs'[parent[d]])
        BY <1>4, <1>8, <4>1
      <4> QED BY <4>1, <4>2 DEF Lists
    <3> QED BY <3>1, <3>2
  <2>3. ASSUME NEW d \in Coro, stat'[d] = CORO_STAT_DONE PROVE childs'[d] = <<>>
    <3>1. d # c /\ stat[d] = CORO_STAT_DONE
      BY <1>4, <2>3 DEF CORO_STAT_DONE, CORO_STAT_INIT
    <3>2. d # o /\ d \in Ctx
      BY <1>2, <3>1, NilAssumption DEF CORO_STAT_DONE, CORO_STAT_BUSY, Ctx
    <3> QED BY <1>4, <3>1, <3>2 DEF Lists
  <2>4. \A q \in Ctx : NoDup(childs[q])' /\ \A d \in Elems(childs[q])' : d \in Live' /\ parent'[d] = q
    BY <2>1 DEF NoDup, Elems
  <2>5. ASSUME NEW d \in Live'
        PROVE  d \in Elems(childs[parent[d]])' \/ \E r \in Ctx : d \in Hands(stack[r])'
    <3>1. Elems(childs[parent[d]])' = Elems(childs'[parent'[d]])
      BY DEF Elems
    <3>2. \A r : Hands(stack[r])' = Hands(stack[r])
      BY <1>4 DEF Hands
    <3> QED BY <2>2, <3>1, <3>2
  <2> QED BY <2>3, <2>4, <2>5 DEF Lists
<1> QED BY <1>5, <1>7, <1>10, <1>11

LEMMA SchedInit == Init => SchedInv
<1> SUFFICES ASSUME Init PROVE SchedInv
  OBVIOUS
<1>1. /\ current = Nil /\ Live = {} /\ Nil \in Ctx /\ \A c \in Coro : c # Nil /\ c \in Ctx
      /\ \A r \in Ctx : stack[r] = <<>> /\ childs[r] = <<>> /\ Len(stack[r]) = 0
      /\ \A c \in Coro : stat[c] = FREED
  BY NilAssumption DEF Init, Live, Ctx, FREED
<1>2. Chain = {Nil}
  BY <1>1 DEF Chain, Resumer
<1>3. OneRunner
  BY <1>1 DEF OneRunner, FREED, CORO_STAT_BUSY
<1>4. Tree
  BY <1>1 DEF Tree
<1>5. Stacks
  BY <1>1, GoodBase DEF Stacks
<1>6. Lists
  BY <1>1 DEF Lists, NoDup, Elems, FREED, CORO_STAT_DONE
<1>7. Links
  <2>1. Lv(Nil) = 0
    BY DEF Lv
  <2> QED BY <1>1, <1>2, <2>1 DEF Links
<1>8. Parks
  BY <1>1 DEF Parks
<1> QED BY <1>3, <1>4, <1>5, <1>6, <1>7, <1>8

LEMMA YieldSwitches == ASSUME TypeOK, MainStack, SchedInv, YieldOut PROVE SwitchOut(CORO_STAT_WAIT)
<1>1. current # Nil
  BY MemberFunction DEF YieldOut, MainOps
<1>2. stat[current] = CORO_STAT_BUSY
  BY <1>1, CurrentLives
<1> QED BY <1>1, <1>2 DEF YieldOut, In, SwitchOut

LEMMA ExecuteSwitches ==
  ASSUME TypeOK, MainStack, SchedInv, Execute, childs[current] = <<>>
  PROVE  SwitchOut(CORO_STAT_DONE)
<1>1. current # Nil
  BY MemberFunction DEF Execute, MainOps
<1> QED BY <1>1 DEF Execute, In, SwitchOut

\* Every step keeps the invariant.
LEMMA SchedStep == TypeOK /\ MainStack /\ SchedInv /\ [Next]_vars => SchedInv'
<1> SUFFICES ASSUME TypeOK, MainStack, SchedInv, [Next]_vars PROVE SchedInv'
  OBVIOUS
<1>1. CASE YieldOut
  BY <1>1, YieldSwitches, SwitchOutStep
<1>2. CASE Execute
  <2>1. CASE childs[current] # <<>>
    BY <1>2, <2>1, ExecuteLoopStep
  <2>2. CASE childs[current] = <<>>
    BY <1>2, <2>2, ExecuteSwitches, SwitchOutStep
  <2> QED BY <2>1, <2>2
<1>3. CASE Library
  BY <1>1, <1>2, <1>3, DrainStep, TakeChildStep, PutChildBackStep, EndStep, ResumeEntryStep,
     TransferStep, MgetStep DEF Library
<1>4. CASE User
  <2>1. CASE \/ TryMget
             \/ \E c \in Coro : Fire(c) \/ EventAdd(c)
             \/ \E c \in Coro, m \in Message : Mput(c, m) \/ Mbroadcast(c, m)
    <3>1. UNCHANGED <<current, stat, links, childs, stack>>
      BY <2>1 DEF TryMget, Fire, EventAdd, Mput, Mbroadcast
    <3> QED BY <3>1, QuietStep
  <2>2. CASE \E c \in Coro, raw \in RawMsg : Child(c, raw)
    BY <2>2, ChildStep
  <2>3. CASE \/ ResumeAll \/ ResumeOwnChilds \/ Yield \/ Mget \/ Await \/ Finish
             \/ \E c \in Coro : Resume(c)
             \/ \E p \in Ctx : ResumeChilds(p)
    BY <2>3, CallStep
  <2> QED BY <1>4, <2>1, <2>2, <2>3 DEF User
<1>5. CASE UNCHANGED vars
  <2>1. UNCHANGED <<current, stat, links, childs, stack>>
    BY <1>5 DEF vars
  <2> QED BY <2>1, QuietStep
<1> QED BY <1>3, <1>4, <1>5 DEF Next

\* The calls under way, the tree, the lists and the chain of coroutines to return
\* to fit each other (SchedInv) in every reachable state.
THEOREM SchedInvariant == Spec => [](TypeOK /\ MainStack /\ SchedInv)
<1>1. Init => TypeOK /\ MainStack /\ SchedInv
  BY InitType, SchedInit
<1>2. TypeOK /\ MainStack /\ SchedInv /\ [Next]_vars => TypeOK' /\ MainStack' /\ SchedInv'
  BY TypeStep, SchedStep
<1> QED BY <1>1, <1>2, PTL DEF Spec

-----------------------------------------------------------------------------
(* What follows from the invariant *)

\* _stat says BUSY of the coroutine that runs and of no other.
THEOREM OneRuns == Spec => []OneRunner
<1>1. SchedInv => OneRunner
  OBVIOUS
<1> QED BY <1>1, SchedInvariant, PTL

LEMMA ChainHolds == ASSUME TypeOK, SchedInv PROVE ReturnChain
<1>1. ASSUME NEW c \in Coro, c = current \/ Resumer(c)
      PROVE  Resumer(pre[c]) /\ pre[c] # current /\ Top(stack[pre[c]]).co = c
  <2>1. c \in Chain \ {Nil}
    BY <1>1, NilAssumption DEF Chain, Ctx
  <2>2. pre[c] \in Chain \ {current} /\ Top(stack[pre[c]]).co = c
    BY <2>1 DEF Links
  <2> QED BY <2>2 DEF Chain
<1>2. ASSUME NEW r \in Ctx, Resumer(r), r # current
      PROVE  LET c == Top(stack[r]).co IN (c = current \/ Resumer(c)) /\ pre[c] = r
  <2>1. r \in Chain \ {current}
    BY <1>2 DEF Chain
  <2>2. Top(stack[r]).co \in Chain /\ pre[Top(stack[r]).co] = r
    BY <2>1 DEF Links
  <2> QED BY <2>2 DEF Chain
<1> QED BY <1>1, <1>2 DEF ReturnChain

\* Each coroutine that runs or has resumed another one returns to a context
\* that waits for exactly this coroutine in coro_transfer(), and each context
\* that waits so is returned to: _coro_pre is never overwritten in between.
THEOREM ChainIntact == Spec => []ReturnChain
<1>1. TypeOK /\ SchedInv => ReturnChain
  BY ChainHolds
<1> QED BY <1>1, SchedInvariant, PTL

LEMMA AssertsPass == ASSUME TypeOK, MainStack, SchedInv PROVE AssertionsHold
<1>1. ASSUME In("transfer")
      PROVE  stat[Top(stack[current]).co] \in {CORO_STAT_INIT, CORO_STAT_WAIT}
  <2>1. stack[current] # <<>> /\ Top(stack[current]).op = "transfer"
    BY <1>1 DEF In
  <2> QED BY <2>1, RunningGood DEF Fits
<1>2. ASSUME In("yield") \/ In("execute")
      PROVE  pre[current] = Nil \/ stat[pre[current]] = CORO_STAT_WAIT
  <2>1. current # Nil
    BY <1>2, MemberFunction DEF MainOps
  <2>2. current \in Chain \ {Nil}
    BY <2>1 DEF Chain
  <2>3. pre[current] \in Chain \ {current}
    BY <2>2 DEF Links
  <2> QED BY <2>3 DEF Links
<1>3. InUser /\ current # Nil => stat[current] = CORO_STAT_BUSY
  BY CurrentLives
<1> QED BY <1>1, <1>2, <1>3 DEF AssertionsHold

\* The asserts on _stat of transfer(), transfer_pre() and execute() hold
\* whenever the code comes to them.
THEOREM AssertsHold == Spec => []AssertionsHold
<1>1. TypeOK /\ MainStack /\ SchedInv => AssertionsHold
  BY AssertsPass
<1> QED BY <1>1, SchedInvariant, PTL

LEMMA CountsHold == ASSUME TypeOK, SchedInv PROVE NoNullFront
<1> SUFFICES ASSUME NEW r \in Ctx, NEW i \in DOMAIN stack[r], stack[r][i].op = "resume_childs"
             PROVE  stack[r][i].left <= Len(childs[stack[r][i].co])
  BY DEF NoNullFront
<1>1. i \in 1..Len(stack[r])
  BY LenProperties DEF TypeOK
<1> QED BY <1>1, FrameOf DEF Fits

\* A loop of resume_childs never takes a child off an empty list, whatever the
\* children it resumed did to that list.
THEOREM FrontExists == Spec => []NoNullFront
<1>1. TypeOK /\ SchedInv => NoNullFront
  BY CountsHold
<1> QED BY <1>1, SchedInvariant, PTL

-----------------------------------------------------------------------------
(* Ownership *)

\* A list without repetition is not longer than there are coroutines.
LEMMA LenBound ==
  ASSUME NEW s \in Seq(Coro), NoDup(s)
  PROVE  Len(s) <= Cardinality(Coro)
<1>1. Len(s) \in Nat /\ s \in [1..Len(s) -> Coro]
  BY LenProperties
<1>2. s \in Injection(1..Len(s), Coro)
  BY <1>1 DEF Injection, IsInjective, NoDup
<1>3. Cardinality(1..Len(s)) <= Cardinality(Coro)
  BY <1>2, CoroAssumption, FS_Injection
<1>4. Cardinality(1..Len(s)) = Len(s)
  BY <1>1, FS_Interval
<1> QED BY <1>3, <1>4

\* No two calls work at the same depth.
LEMMA DepthUnique ==
  ASSUME TypeOK, SchedInv, NEW r \in Ctx, NEW q \in Ctx,
         NEW i \in 1..Len(stack[r]), NEW j \in 1..Len(stack[q]),
         stack[r][i].op \in Nest, stack[q][j].op \in Nest,
         Depth(stack[r][i]) = Depth(stack[q][j])
  PROVE  r = q /\ i = j
<1>1. /\ stack[r][i] \in Frames /\ Fits(stack[r][i], r)
      /\ stack[q][j] \in Frames /\ Fits(stack[q][j], q)
  BY FrameOf
<1>2. /\ Depth(stack[r][i]) \in Nat /\ Lv(r) \in Nat /\ Lv(q) \in Nat
      /\ 2 * Lv(r) < Depth(stack[r][i]) /\ 2 * Lv(q) < Depth(stack[q][j])
  BY <1>1, DepthNat, LvNat DEF Fits
<1>3. r = q
  <2> SUFFICES ASSUME r # q PROVE FALSE
    OBVIOUS
  <2>1. CASE r = current
    <3>1. Depth(stack[q][j]) <= 2 * Lv(r)
      BY <2>1, OthersAbove
    <3> QED BY <1>2, <3>1
  <2>2. CASE q = current
    <3>1. Depth(stack[r][i]) <= 2 * Lv(q)
      BY <2>2, OthersAbove
    <3> QED BY <1>2, <3>1
  <2>3. CASE r # current /\ q # current
    <3>1. /\ r \in Chain /\ \A x \in Chain : Lv(r) < Lv(x) => Depth(stack[r][i]) <= 2 * Lv(x)
      BY <2>3, OthersAbove
    <3>2. /\ q \in Chain /\ \A x \in Chain : Lv(q) < Lv(x) => Depth(stack[q][j]) <= 2 * Lv(x)
      BY <2>3, OthersAbove
    <3>3. Lv(r) # Lv(q)
      BY <3>1, <3>2 DEF Links
    <3>4. CASE Lv(r) < Lv(q)
      <4>1. Depth(stack[r][i]) <= 2 * Lv(q)
        BY <3>1, <3>2, <3>4
      <4> QED BY <1>2, <4>1
    <3>5. CASE Lv(q) < Lv(r)
      <4>1. Depth(stack[q][j]) <= 2 * Lv(r)
        BY <3>1, <3>2, <3>5
      <4> QED BY <1>2, <4>1
    <3> QED BY <1>2, <3>3, <3>4, <3>5
  <2> QED BY <2>1, <2>2, <2>3
<1>4. i = j
  <2>1. Ordered(stack[r]) /\ Len(stack[r]) \in Nat
    BY LenProperties DEF Stacks, Good, TypeOK
  <2>2. ~(i < j) /\ ~(j < i)
    BY <1>2, <1>3, <2>1 DEF Ordered
  <2> QED BY <1>3, <2>1, <2>2
<1> QED BY <1>3, <1>4

\* The two kinds of places, for a coroutine that is named.
LEMMA PlacesAre ==
  ASSUME TypeOK, SchedInv, NEW c \in Coro, NEW x, x \in Places(c)
  PROVE  \/ \E k \in 1..Cardinality(Coro) :
              /\ c \in Live /\ x = <<"list", parent[c], k>> /\ c \in Elems(childs[parent[c]])
              /\ k \in 1..Len(childs[parent[c]]) /\ childs[parent[c]][k] = c
         \/ \E r \in Ctx : \E i \in 1..Len(stack[r]) :
              x = <<"kid", r, i>> /\ stack[r][i].kid = c
<1>0. \A q \in Ctx : /\ childs[q] \in Seq(Coro) /\ DOMAIN childs[q] = 1..Len(childs[q])
                     /\ stack[q] \in Seq(Frames) /\ DOMAIN stack[q] = 1..Len(stack[q])
  BY LenProperties DEF TypeOK
<1>1. CASE x \in {<<"list", p, i>> : p \in {q \in Ctx : \E j \in DOMAIN childs[q] : childs[q][j] = c},
                      i \in {j \in 1..Cardinality(Coro) :
                              \E q \in Ctx : j \in DOMAIN childs[q] /\ childs[q][j] = c}}
  <2>1. PICK p \in Ctx, i \in 1..Cardinality(Coro) :
          /\ x = <<"list", p, i>>
          /\ \E j \in DOMAIN childs[p] : childs[p][j] = c
          /\ \E q \in Ctx : i \in DOMAIN childs[q] /\ childs[q][i] = c
    BY <1>1
  <2>2. PICK q \in Ctx : i \in DOMAIN childs[q] /\ childs[q][i] = c
    BY <2>1
  <2>3. c \in Elems(childs[p]) /\ c \in Elems(childs[q])
    BY <1>0, <2>1, <2>2 DEF Elems
  <2>4. c \in Live /\ parent[c] = p /\ parent[c] = q
    BY <2>3 DEF Lists
  <2> QED BY <1>0, <2>1, <2>2, <2>3, <2>4
<1>2. CASE x \in UNION {{<<"kid", r, i>> : i \in {j \in DOMAIN stack[r] : stack[r][j].kid = c}} : r \in Ctx}
  BY <1>0, <1>2
<1> QED BY <1>1, <1>2 DEF Places

LEMMA Owned == ASSUME TypeOK, SchedInv PROVE OwnedOnce
<1> SUFFICES ASSUME NEW c \in Coro PROVE Cardinality(Places(c)) = IF c \in Live THEN 1 ELSE 0
  BY DEF OwnedOnce
<1>0. c # Nil
  BY NilAssumption
<1>1. ASSUME NEW r \in Ctx, NEW i \in 1..Len(stack[r]), stack[r][i].kid = c
      PROVE  /\ c \in Live /\ parent[c] \in Ctx /\ c \notin Elems(childs[parent[c]])
             /\ stack[r][i].op \in Nest /\ Depth(stack[r][i]) = 2 * Lv(parent[c]) + 1
  <2>1. Fits(stack[r][i], r) /\ stack[r][i] \in Frames
    BY FrameOf
  <2>2. /\ stack[r][i].op = "resume_childs" /\ c \in Live /\ parent[c] = stack[r][i].co
        /\ c \notin Elems(childs[stack[r][i].co])
    BY <1>0, <1>1, <2>1 DEF Fits
  <2> QED BY <2>1, <2>2 DEF Depth, Nest, Frames
<1>2. CASE c \notin Live
  <2>1. Places(c) = {}
    BY <1>1, <1>2, PlacesAre
  <2> QED BY <1>2, <2>1, FS_EmptySet
<1>3. CASE c \in Live /\ c \in Elems(childs[parent[c]])
  <2>1. parent[c] \in Ctx /\ childs[parent[c]] \in Seq(Coro) /\ NoDup(childs[parent[c]])
    BY DEF TypeOK, Lists
  <2>2. PICK k \in 1..Len(childs[parent[c]]) : childs[parent[c]][k] = c
    BY <1>3 DEF Elems
  <2>3. ASSUME NEW x \in Places(c) PROVE x = <<"list", parent[c], k>>
    BY <1>1, <1>3, <2>1, <2>2, <2>3, PlacesAre DEF NoDup
  <2>4. <<"list", parent[c], k>> \in Places(c)
    <3>1. Len(childs[parent[c]]) <= Cardinality(Coro) /\ Len(childs[parent[c]]) \in Nat
      BY <2>1, LenBound, LenProperties
    <3>2. k \in 1..Cardinality(Coro) /\ k \in DOMAIN childs[parent[c]]
      BY <2>1, <3>1, CoroAssumption, FS_CardinalityType, LenProperties
    <3>3. parent[c] \in {q \in Ctx : \E j \in DOMAIN childs[q] : childs[q][j] = c}
      BY <2>1, <2>2, <3>2
    <3>4. k \in {j \in 1..Cardinality(Coro) :
                   \E q \in Ctx : j \in DOMAIN childs[q] /\ childs[q][j] = c}
      BY <2>1, <2>2, <3>2
    <3> QED BY <3>3, <3>4 DEF Places
  <2>5. Places(c) = {<<"list", parent[c], k>>}
    BY <2>3, <2>4
  <2> QED BY <1>3, <2>5, FS_Singleton
<1>4. CASE c \in Live /\ c \notin Elems(childs[parent[c]])
  <2>1. PICK r \in Ctx : \E i \in 1..Len(stack[r]) : stack[r][i].kid = c
    BY <1>4 DEF Lists, Hands
  <2>5. PICK i \in 1..Len(stack[r]) : stack[r][i].kid = c
    BY <2>1
  <2>2. ASSUME NEW x \in Places(c) PROVE x = <<"kid", r, i>>
    <3>1. PICK q \in Ctx : \E j \in 1..Len(stack[q]) : x = <<"kid", q, j>> /\ stack[q][j].kid = c
      BY <1>4, <2>2, PlacesAre
    <3>4. PICK j \in 1..Len(stack[q]) : x = <<"kid", q, j>> /\ stack[q][j].kid = c
      BY <3>1
    <3>2. /\ stack[r][i].op \in Nest /\ stack[q][j].op \in Nest
          /\ Depth(stack[r][i]) = Depth(stack[q][j])
      BY <1>1, <2>5, <3>4
    <3>3. r = q /\ i = j
      BY <3>2, DepthUnique
    <3> QED BY <3>4, <3>3
  <2>3. <<"kid", r, i>> \in Places(c)
    <3>1. i \in {j \in DOMAIN stack[r] : stack[r][j].kid = c}
      BY <2>5, LenProperties DEF TypeOK
    <3>2. <<"kid", r, i>> \in {<<"kid", r, j>> : j \in {j \in DOMAIN stack[r] : stack[r][j].kid = c}}
      BY <3>1
    <3> QED BY <3>2 DEF Places
  <2>4. Places(c) = {<<"kid", r, i>>}
    BY <2>2, <2>3
  <2> QED BY <1>4, <2>4, FS_Singleton
<1> QED BY <1>2, <1>3, <1>4

\* A coroutine that exists is on its parent's list or in the hands of one loop
\* of resume_childs, in one place only; a freed address is in none.
THEOREM Ownership == Spec => []OwnedOnce
<1>1. TypeOK /\ SchedInv => OwnedOnce
  BY Owned
<1> QED BY <1>1, SchedInvariant, PTL

\* A switch frees nobody.
LEMMA SwitchKeeps ==
  ASSUME TypeOK, MainStack, SchedInv, Transfer \/ YieldOut \/ Execute, NEW c \in Live
  PROVE  stat'[c] # FREED
<1>0. c \in Coro /\ stat[c] # FREED
  BY DEF Live
<1>1. ASSUME NEW own, SwitchOut(own) PROVE stat'[c] # FREED
  <2>1. PICK o, p : o = current /\ p = pre[current]
    OBVIOUS
  <2> QED BY <1>0, <1>1, <2>1, SwitchOutEffect DEF FREED, CORO_STAT_WAIT, CORO_STAT_BUSY, CORO_STAT_DONE
<1>2. CASE Transfer
  <2>1. PICK d : d = Top(stack[current]).co
    OBVIOUS
  <2>2. CASE Waits(d)
    BY <1>0, <1>2, <2>1, <2>2 DEF Transfer
  <2>3. CASE ~Waits(d)
    <3>1. /\ stat'[d] = CORO_STAT_BUSY /\ (current # Nil => stat'[current] = CORO_STAT_WAIT)
          /\ \A x \in Coro : x # d /\ x # current => stat'[x] = stat[x]
      BY <1>2, <2>1, <2>3, TransferEffect
    <3>2. c # Nil
      BY <1>0, NilAssumption
    <3> QED BY <1>0, <3>1, <3>2 DEF FREED, CORO_STAT_WAIT, CORO_STAT_BUSY
  <2> QED BY <2>2, <2>3
<1>3. CASE YieldOut
  BY <1>1, <1>3, YieldSwitches
<1>4. CASE Execute
  <2>1. CASE childs[current] # <<>>
    BY <1>0, <1>4, <2>1 DEF Execute
  <2>2. CASE childs[current] = <<>>
    BY <1>1, <1>4, <2>2, ExecuteSwitches
  <2> QED BY <2>1, <2>2
<1> QED BY <1>2, <1>3, <1>4

\* Only the loop of resume_childs frees a coroutine, and only a finished one.
LEMMA OnlyDoneFreed ==
  ASSUME TypeOK, MainStack, SchedInv, Next, NEW c \in Live, stat'[c] = FREED
  PROVE  stat[c] = CORO_STAT_DONE
<1>0. c \in Coro /\ stat[c] # FREED
  BY DEF Live
<1>1. ASSUME NEW d \in Coro, Destroy(d) PROVE c = d
  BY <1>0, <1>1 DEF Destroy, TypeOK
<1>2. CASE TakeChild
  <2>1. PICK f, d : f = Top(stack[current]) /\ d = Head(childs[f.co])
    OBVIOUS
  <2>2. childs[f.co] # <<>> /\ f \in Frames
    BY <1>2, <2>1, NoKid DEF TakeChild
  <2>3. d \in Coro
    BY <2>1, <2>2, TailLemma DEF Frames, TypeOK
  <2> QED BY <1>0, <1>1, <1>2, <2>1, <2>3 DEF TakeChild
<1>3. CASE PutChildBack
  <2>1. PICK f, d : f = Top(stack[current]) /\ d = f.kid
    OBVIOUS
  <2>2. d # Nil /\ f \in Frames
    BY <1>3, <2>1, NoKid DEF PutChildBack
  <2>3. d \in Coro
    BY <2>1, <2>2 DEF Frames, Ctx
  <2> QED BY <1>0, <1>1, <1>3, <2>1, <2>3 DEF PutChildBack
<1>4. CASE Transfer \/ YieldOut \/ Execute
  BY <1>4, SwitchKeeps
<1>5. CASE Drain \/ EndSweep \/ ResumeEntry \/ Return \/ MgetLoop \/ AwaitReturn
  BY <1>0, <1>5 DEF Drain, EndSweep, ResumeEntry, Return, MgetLoop, AwaitReturn
<1>6. CASE User
  <2>1. CASE \E d \in Coro, raw \in RawMsg : Child(d, raw)
    BY <1>0, <2>1 DEF Child, TypeOK, CORO_STAT_INIT, FREED
  <2>2. CASE ~\E d \in Coro, raw \in RawMsg : Child(d, raw)
    <3>1. stat' = stat
      BY <1>6, <2>2 DEF User, ResumeAll, Resume, ResumeChilds, ResumeOwnChilds, Yield, Mput, Mbroadcast,
         Mget, TryMget, Await, Fire, EventAdd, Finish
    <3> QED BY <1>0, <3>1
  <2> QED BY <2>1, <2>2
<1> QED BY <1>2, <1>3, <1>4, <1>5, <1>6 DEF Next, Library

\* A coroutine is destroyed only when it is done, has no child left, has no
\* call on its stack, so that nobody is to return to it, and no coroutine that
\* exists names it as its parent.
THEOREM FreedClean == Spec => DestroyedClean
<1> DEFINE Clean ==
      \A c \in Coro :
       stat[c] # FREED /\ stat'[c] = FREED =>
         /\ stat[c] = CORO_STAT_DONE
         /\ childs[c] = <<>>
         /\ stack[c] = <<>>
         /\ \A d \in Live \ {c} : parent[d] # c
<1>1. TypeOK /\ MainStack /\ SchedInv /\ [Next]_vars => [Clean]_vars
  <2> SUFFICES ASSUME TypeOK, MainStack, SchedInv, Next, NEW c \in Coro, stat[c] # FREED, stat'[c] = FREED
               PROVE  /\ stat[c] = CORO_STAT_DONE /\ childs[c] = <<>> /\ stack[c] = <<>>
                      /\ \A d \in Live \ {c} : parent[d] # c
    OBVIOUS
  <2>1. c \in Live
    BY DEF Live
  <2>2. stat[c] = CORO_STAT_DONE
    BY <2>1, OnlyDoneFreed
  <2> QED BY <2>2, DoneIsAlone
<1> QED BY <1>1, SchedInvariant, PTL DEF Spec, DestroyedClean

-----------------------------------------------------------------------------
(* The chain that _coro_pre spells *)

\* s leads from the main context to cur, each element being where the pointers
\* up of the next one lead.
Spells(s, cur, up) ==
  /\ s \in Seq(Ctx) /\ Len(s) \in Nat \ {0} /\ NoDup(s)
  /\ s[1] = Nil /\ s[Len(s)] = cur
  /\ \A i \in 2..Len(s) : s[i] \in Coro /\ up[s[i]] = s[i-1]

Above(a, cur, up) ==
  a = [n \in 0..Cardinality(Coro) |->
         IF n = 0 THEN cur ELSE IF a[n-1] = Nil THEN Nil ELSE up[a[n-1]]]

\* What is above cur, read from the chain.
LEMMA AboveSpelled ==
  ASSUME NEW s, NEW cur, NEW up, Spells(s, cur, up)
  PROVE  /\ Len(s) - 1 <= Cardinality(Coro) /\ Cardinality(Coro) \in Nat
         /\ Above([n \in 0..Cardinality(Coro) |-> IF n < Len(s) THEN s[Len(s)-n] ELSE Nil], cur, up)
         /\ \A a : Above(a, cur, up) =>
              a = [n \in 0..Cardinality(Coro) |-> IF n < Len(s) THEN s[Len(s)-n] ELSE Nil]
<1>1. PICK N : N = Cardinality(Coro)
  OBVIOUS
<1>2. N \in Nat
  BY <1>1, CoroAssumption, FS_CardinalityType
<1>3. Len(s) - 1 <= N
  <2> DEFINE f == [i \in 1..Len(s) - 1 |-> s[i+1]]
  <2>1. /\ Len(s) - 1 \in Nat
        /\ \A i \in 1..Len(s) - 1 : i + 1 \in 2..Len(s) /\ i + 1 \in 1..Len(s) /\ f[i] \in Coro
    BY DEF Spells
  <2>2. \A i, j \in 1..Len(s) - 1 : f[i] = f[j] => i = j
    <3> SUFFICES ASSUME NEW i \in 1..Len(s) - 1, NEW j \in 1..Len(s) - 1, s[i+1] = s[j+1]
                 PROVE  i = j
      OBVIOUS
    <3>1. i + 1 = j + 1
      BY <2>1 DEF Spells, NoDup
    <3> QED BY <2>1, <3>1
  <2>3. f \in Injection(1..Len(s) - 1, Coro)
    BY <2>1, <2>2 DEF Injection, IsInjective
  <2>4. Cardinality(1..Len(s) - 1) <= Cardinality(Coro)
    <3> HIDE DEF f
    <3> QED BY <2>3, CoroAssumption, FS_Injection
  <2>5. Cardinality(1..Len(s) - 1) = Len(s) - 1
    BY <2>1, FS_Interval
  <2> QED BY <1>1, <2>4, <2>5
<1>4. PICK g : g = [n \in 0..N |-> IF n < Len(s) THEN s[Len(s)-n] ELSE Nil]
  OBVIOUS
<1>5. /\ Len(s) \in Nat \ {0} /\ s[1] = Nil /\ s[Len(s)] = cur
      /\ \A i \in 2..Len(s) : s[i] # Nil /\ up[s[i]] = s[i-1]
  BY NilAssumption DEF Spells
<1>6. ASSUME NEW n \in 0..N
      PROVE  g[n] = IF n = 0 THEN cur ELSE IF g[n-1] = Nil THEN Nil ELSE up[g[n-1]]
  <2>1. CASE n = 0
    BY <1>2, <1>4, <1>5, <2>1
  <2>2. CASE n \in 1..Len(s) - 1
    <3>1. n - 1 \in 0..N /\ n - 1 < Len(s) /\ n < Len(s) /\ n # 0
      BY <1>2, <1>5, <2>2
    <3>2. g[n] = s[Len(s)-n] /\ g[n-1] = s[Len(s)-(n-1)]
      BY <1>4, <3>1
    <3>3. Len(s) - (n - 1) \in 2..Len(s) /\ Len(s) - (n - 1) - 1 = Len(s) - n
      BY <1>5, <2>2
    <3> QED BY <1>5, <3>1, <3>2, <3>3
  <2>3. CASE n >= Len(s)
    <3>1. n - 1 \in 0..N /\ n # 0 /\ ~(n < Len(s))
      BY <1>2, <1>5, <2>3
    <3>2. g[n] = Nil
      BY <1>4, <3>1
    <3>3. g[n-1] = Nil
      <4>1. CASE n = Len(s)
        <5>1. n - 1 < Len(s) /\ Len(s) - (n - 1) = 1
          BY <1>5, <4>1
        <5> QED BY <1>4, <1>5, <3>1, <5>1
      <4>2. CASE n # Len(s)
        <5>1. ~(n - 1 < Len(s))
          BY <1>5, <2>3, <4>2
        <5> QED BY <1>4, <3>1, <5>1
      <4> QED BY <4>1, <4>2
    <3> QED BY <3>1, <3>2, <3>3
  <2> QED BY <1>2, <1>5, <2>1, <2>2, <2>3
<1>7. Above(g, cur, up)
  <2>1. g = [n \in 0..N |-> g[n]]
    BY <1>4
  <2> QED BY <1>1, <1>6, <2>1 DEF Above
<1>8. ASSUME NEW a, Above(a, cur, up) PROVE a = g
  <2>1. \A n \in 0..N : a[n] = IF n = 0 THEN cur ELSE IF a[n-1] = Nil THEN Nil ELSE up[a[n-1]]
    BY <1>1, <1>8 DEF Above
  <2> DEFINE Same(n) == n \in 0..N => a[n] = g[n]
             S == {n \in Nat : Same(n)}
  <2>2. 0 \in S
    BY <1>2, <1>6, <2>1
  <2>3. ASSUME NEW n \in Nat, Same(n) PROVE Same(n + 1)
    <3> SUFFICES ASSUME n + 1 \in 0..N PROVE a[n+1] = g[n+1]
      OBVIOUS
    <3>1. n \in 0..N /\ n + 1 # 0 /\ n + 1 - 1 = n
      BY <1>2
    <3>2. a[n] = g[n]
      BY <2>3, <3>1
    <3>3. a[n+1] = IF a[n] = Nil THEN Nil ELSE up[a[n]]
      BY <2>1, <3>1
    <3>4. g[n+1] = IF g[n] = Nil THEN Nil ELSE up[g[n]]
      BY <1>6, <3>1
    <3> QED BY <3>2, <3>3, <3>4
  <2>4. Nat \subseteq S
    <3> HIDE DEF Same
    <3>1. \A n \in Nat : n \in S => n + 1 \in S
      BY <2>3
    <3> HIDE DEF S
    <3> QED BY <2>2, <3>1, NumberInduction
  <2>5. \A n \in 0..N : a[n] = g[n]
    BY <1>2, <2>4
  <2>6. a = [n \in 0..N |-> a[n]] /\ g = [n \in 0..N |-> g[n]]
    BY <1>1, <1>4, <1>8 DEF Above
  <2> QED BY <2>5, <2>6
<1> QED BY <1>1, <1>2, <1>3, <1>4, <1>7, <1>8

\* There is one way to spell the chain.
LEMMA ChainSpelled ==
  ASSUME NEW s, NEW cur, NEW up, Spells(s, cur, up)
  PROVE  ChainFrom(cur, up) = s
<1>1. PICK N : N = Cardinality(Coro)
  OBVIOUS
<1> DEFINE above == CHOOSE a : a = [n \in 0..Cardinality(Coro) |->
                      IF n = 0 THEN cur ELSE IF a[n-1] = Nil THEN Nil ELSE up[a[n-1]]]
           length == Cardinality({n \in 0..Cardinality(Coro) : above[n] # Nil}) + 1
<1>2. ChainFrom(cur, up) = [i \in 1..length |-> above[length - i]]
  BY SMTT(30) DEF ChainFrom
<1>3. Above(above, cur, up)
  <2>1. \E a : Above(a, cur, up)
    BY AboveSpelled
  <2> QED BY <2>1 DEF Above
<1>4. above = [n \in 0..N |-> IF n < Len(s) THEN s[Len(s)-n] ELSE Nil]
  <2> HIDE DEF above
  <2> QED BY <1>1, <1>3, AboveSpelled
<1>5. /\ Len(s) - 1 <= N /\ N \in Nat /\ Len(s) \in Nat \ {0} /\ s[1] = Nil
      /\ \A i \in 2..Len(s) : s[i] # Nil
      /\ s = [i \in 1..Len(s) |-> s[i]]
  <2>1. Len(s) - 1 <= N /\ N \in Nat
    BY <1>1, AboveSpelled
  <2>2. /\ Len(s) \in Nat \ {0} /\ s[1] = Nil /\ s \in Seq(Ctx)
        /\ \A i \in 2..Len(s) : s[i] # Nil
    BY NilAssumption DEF Spells
  <2>3. s = [i \in 1..Len(s) |-> s[i]]
    BY <2>2, LenProperties
  <2> QED BY <2>1, <2>2, <2>3
<1> HIDE DEF above
<1>6. {n \in 0..N : above[n] # Nil} = 0..Len(s) - 2
  <2>1. ASSUME NEW n \in 0..N, above[n] # Nil PROVE n \in 0..Len(s) - 2
    <3>1. n < Len(s) /\ s[Len(s)-n] # Nil
      BY <1>4, <2>1
    <3>2. n # Len(s) - 1
      BY <1>5, <3>1
    <3> QED BY <1>5, <3>1, <3>2
  <2>2. ASSUME NEW n \in 0..Len(s) - 2 PROVE n \in 0..N /\ above[n] # Nil
    <3>1. n \in 0..N /\ n < Len(s) /\ Len(s) - n \in 2..Len(s)
      BY <1>5
    <3> QED BY <1>4, <1>5, <3>1
  <2>3. \A n \in 0..Len(s) - 2 : n \in {k \in 0..N : above[k] # Nil}
    BY <2>2
  <2>4. \A n \in {k \in 0..N : above[k] # Nil} : n \in 0..Len(s) - 2
    BY <2>1
  <2> QED BY <2>3, <2>4
<1>7. length = Len(s)
  <2>1. Cardinality(0..Len(s) - 2) = IF 0 > Len(s) - 2 THEN 0 ELSE Len(s) - 2 - 0 + 1
    <3>1. 0 \in Int /\ Len(s) - 2 \in Int
      BY <1>5
    <3> QED BY <3>1, FS_Interval
  <2>2. Cardinality(0..Len(s) - 2) = Len(s) - 1
    BY <1>5, <2>1
  <2>3. Cardinality({n \in 0..Cardinality(Coro) : above[n] # Nil}) = Len(s) - 1
    BY <1>1, <1>6, <2>2
  <2> QED BY <1>5, <2>3
<1> HIDE DEF length
<1>8. ASSUME NEW i \in 1..Len(s) PROVE above[Len(s) - i] = s[i]
  <2>1. Len(s) - i \in 0..N /\ Len(s) - i < Len(s) /\ Len(s) - (Len(s) - i) = i
    BY <1>5
  <2> QED BY <1>4, <2>1
<1>9. ChainFrom(cur, up) = [i \in 1..Len(s) |-> above[Len(s) - i]]
  BY <1>2, <1>7
<1> QED BY <1>5, <1>8, <1>9

\* The chain as far as c, for the coroutines of it down to a level.
LEMMA ChainExists ==
  ASSUME TypeOK, SchedInv
  PROVE  \E s : Spells(s, current, pre) /\ Elems(s) = Chain
<1>1. \A r \in Chain : r \in Ctx /\ Lv(r) \in Nat /\ Lv(r) <= Lv(current)
  BY LvNat DEF Chain, TypeOK, Links
<1>2. ASSUME NEW c \in Chain, c # Nil
      PROVE  /\ pre[c] \in Chain /\ Lv(pre[c]) < Lv(c) /\ c \in Coro
             /\ \A r \in Chain : Lv(r) <= Lv(pre[c]) \/ Lv(c) <= Lv(r)
  <2>1. pre[c] \in Chain \ {current} /\ Top(stack[pre[c]]).co = c
    BY <1>2 DEF Links
  <2>2. \A r \in Chain : Lv(pre[c]) < Lv(r) => Lv(c) <= Lv(r)
    BY <2>1 DEF Links
  <2>3. Lv(pre[c]) < Lv(c)
    BY <2>1, ResumerTop
  <2> QED BY <1>1, <1>2, <2>1, <2>2, <2>3 DEF Ctx
<1> DEFINE Down(c) == {r \in Chain : Lv(r) <= Lv(c)}
           Spelled(n) == \A c \in Chain : Lv(c) <= n => \E s : Spells(s, c, pre) /\ Elems(s) = Down(c)
           S == {n \in Nat : Spelled(n)}
<1>3. ASSUME Nil \in Chain PROVE \E s : Spells(s, Nil, pre) /\ Elems(s) = Down(Nil)
  <2>1. Down(Nil) = {Nil}
    <3>1. Lv(Nil) = 0
      BY DEF Lv
    <3>2. \A r \in Chain : Lv(r) <= 0 => r = Nil
      BY <1>1, <1>3, <3>1 DEF Links
    <3> QED BY <1>3, <3>1, <3>2
  <2>2. PICK s : s = <<Nil>>
    OBVIOUS
  <2>3. s \in Seq(Ctx) /\ Len(s) = 1 /\ s[1] = Nil
    BY <2>2 DEF Ctx
  <2>4. Elems(s) = {Nil} /\ NoDup(s)
    BY <2>3 DEF Elems, NoDup
  <2>5. Spells(s, Nil, pre)
    BY <2>3, <2>4 DEF Spells
  <2> QED BY <2>1, <2>4, <2>5
<1>4. ASSUME NEW c \in Chain, c # Nil, \E s : Spells(s, pre[c], pre) /\ Elems(s) = Down(pre[c])
      PROVE  \E s : Spells(s, c, pre) /\ Elems(s) = Down(c)
  <2>1. PICK s : Spells(s, pre[c], pre) /\ Elems(s) = Down(pre[c])
    BY <1>4
  <2>2. PICK t : t = Append(s, c)
    OBVIOUS
  <2>3. c \in Ctx /\ c \in Coro /\ s \in Seq(Ctx) /\ Len(s) \in Nat \ {0} /\ c \notin Elems(s)
    BY <1>1, <1>2, <1>4, <2>1 DEF Spells
  <2>4. Elems(t) = Elems(s) \cup {c} /\ Len(t) = Len(s) + 1 /\ NoDup(t)
    BY <2>1, <2>2, <2>3, ElemsAppend DEF Spells
  <2>5. t \in Seq(Ctx) /\ t[Len(t)] = c /\ \A i \in 1..Len(s) : t[i] = s[i]
    BY <2>2, <2>3, AppendProperties
  <2>6. \A i \in 2..Len(t) : t[i] \in Coro /\ pre[t[i]] = t[i-1]
    <3> SUFFICES ASSUME NEW i \in 2..Len(t) PROVE t[i] \in Coro /\ pre[t[i]] = t[i-1]
      OBVIOUS
    <3>1. CASE i = Len(t)
      <4>1. t[i-1] = s[Len(s)]
        BY <2>3, <2>4, <2>5, <3>1
      <4> QED BY <2>1, <2>3, <2>5, <3>1, <4>1 DEF Spells
    <3>2. CASE i # Len(t)
      <4>1. i \in 2..Len(s) /\ i \in 1..Len(s) /\ i - 1 \in 1..Len(s)
        BY <2>3, <2>4, <3>2
      <4> QED BY <2>1, <2>5, <4>1 DEF Spells
    <3> QED BY <3>1, <3>2
  <2>7. t[1] = Nil
    BY <2>1, <2>3, <2>5 DEF Spells
  <2>8. Spells(t, c, pre)
    BY <2>3, <2>4, <2>5, <2>6, <2>7 DEF Spells
  <2>9. Elems(t) = Down(c)
    <3>1. ASSUME NEW r \in Chain, Lv(r) <= Lv(c) PROVE Lv(r) <= Lv(pre[c]) \/ r = c
      <4>1. Lv(r) <= Lv(pre[c]) \/ Lv(r) = Lv(c)
        BY <1>1, <1>2, <1>4, <3>1
      <4> QED BY <1>4, <4>1 DEF Links
    <3>2. ASSUME NEW r \in Chain, Lv(r) <= Lv(pre[c]) PROVE Lv(r) <= Lv(c)
      BY <1>1, <1>2, <1>4, <3>2
    <3>3. Lv(c) <= Lv(c)
      BY <1>1, <1>4
    <3>4. Down(c) = Down(pre[c]) \cup {c}
      BY <1>4, <3>1, <3>2, <3>3
    <3> HIDE DEF Down
    <3> QED BY <2>1, <2>4, <3>4
  <2> QED BY <2>8, <2>9
<1> HIDE DEF Down
<1>5. Spelled(0)
  <2> SUFFICES ASSUME NEW c \in Chain, Lv(c) <= 0 PROVE \E s : Spells(s, c, pre) /\ Elems(s) = Down(c)
    OBVIOUS
  <2>1. c = Nil
    BY <1>1, <1>2
  <2> QED BY <1>3, <2>1
<1>6. ASSUME NEW n \in Nat, Spelled(n) PROVE Spelled(n + 1)
  <2> SUFFICES ASSUME NEW c \in Chain, Lv(c) <= n + 1 PROVE \E s : Spells(s, c, pre) /\ Elems(s) = Down(c)
    OBVIOUS
  <2>1. CASE c = Nil
    BY <1>3, <2>1
  <2>2. CASE c # Nil
    <3>1. pre[c] \in Chain /\ Lv(pre[c]) <= n
      BY <1>1, <1>2, <2>2
    <3> QED BY <1>4, <1>6, <2>2, <3>1
  <2> QED BY <2>1, <2>2
<1>7. Nat \subseteq S
  <2> HIDE DEF Spelled
  <2>1. 0 \in S /\ \A n \in Nat : n \in S => n + 1 \in S
    BY <1>5, <1>6
  <2> HIDE DEF S
  <2> QED BY <2>1, NumberInduction
<1>8. current \in Chain
  BY DEF Chain
<1>9. Spelled(Lv(current))
  <2> HIDE DEF Spelled
  <2> QED BY <1>1, <1>7, <1>8
<1>10. Down(current) = Chain
  BY <1>1 DEF Down
<1> QED BY <1>1, <1>8, <1>9, <1>10

\* PreChain is the chain of the invariant, in order.
LEMMA PreChainIs ==
  ASSUME TypeOK, SchedInv
  PROVE  /\ Spells(PreChain, current, pre) /\ Elems(PreChain) = Chain
         /\ \A c \in Coro : PhaseOf(c) = IF stat[c] = FREED THEN "none"
                                         ELSE IF stat[c] = CORO_STAT_DONE THEN "done"
                                         ELSE IF c \in Chain THEN "active" ELSE "suspended"
<1>1. PICK s : Spells(s, current, pre) /\ Elems(s) = Chain
  BY ChainExists
<1>2. PreChain = s
  BY <1>1, ChainSpelled DEF PreChain
<1>3. DOMAIN s = 1..Len(s)
  BY <1>1, LenProperties DEF Spells
<1>4. \A c : (\E i \in DOMAIN PreChain : PreChain[i] = c) <=> c \in Chain
  BY <1>1, <1>2, <1>3 DEF Elems
<1> QED BY <1>1, <1>2, <1>4 DEF PhaseOf

-----------------------------------------------------------------------------
(* The scheduler implements Nesting *)

\* The mapping after a step, once its chain is known.
LEMMA PreChainNext ==
  ASSUME NEW s, Spells(s, current', pre')
  PROVE  /\ PreChain' = s
         /\ \A c \in Coro : Phase'[c] = IF stat'[c] = FREED THEN "none"
                                        ELSE IF stat'[c] = CORO_STAT_DONE THEN "done"
                                        ELSE IF c \in Elems(s) THEN "active" ELSE "suspended"
<1>1. ChainFrom(current', pre') = s
  BY ChainSpelled
<1>2. PreChain' = ChainFrom(current', pre')
  BY DEF PreChain, ChainFrom
<1>3. DOMAIN s = 1..Len(s)
  BY LenProperties DEF Spells
<1>4. \A c : (\E i \in DOMAIN s : s[i] = c) <=> c \in Elems(s)
  BY <1>3 DEF Elems
<1>5. \A c \in Coro : Phase'[c] = IF stat'[c] = FREED THEN "none"
                                  ELSE IF stat'[c] = CORO_STAT_DONE THEN "done"
                                  ELSE IF \E i \in DOMAIN s : s[i] = c THEN "active" ELSE "suspended"
  BY <1>1, <1>2 DEF Phase, PhaseOf
<1> QED BY <1>1, <1>2, <1>4, <1>5

\* ... and before it.
LEMMA PhaseIs ==
  ASSUME TypeOK, SchedInv
  PROVE  \A c \in Coro : Phase[c] = IF stat[c] = FREED THEN "none"
                                    ELSE IF stat[c] = CORO_STAT_DONE THEN "done"
                                    ELSE IF c \in Chain THEN "active" ELSE "suspended"
  BY PreChainIs DEF Phase

\* A chain is spelled by the pointers of its own coroutines only.
LEMMA SpelledSame ==
  ASSUME NEW s, NEW cur, NEW up, NEW to, Spells(s, cur, up),
         \A c \in Elems(s) \ {Nil} : to[c] = up[c]
  PROVE  Spells(s, cur, to)
<1>1. \A i \in 2..Len(s) : s[i] \in Elems(s) \ {Nil}
  BY NilAssumption DEF Spells, Elems
<1> QED BY <1>1 DEF Spells

\* A step that leaves the chain alone, and one phase changes at most.
LEMMA ChainStays ==
  ASSUME TypeOK, SchedInv, UNCHANGED current,
         \A c \in Chain \ {Nil} : pre'[c] = pre[c]
  PROVE  /\ PreChain' = PreChain
         /\ \A c \in Coro : Phase'[c] = IF stat'[c] = FREED THEN "none"
                                        ELSE IF stat'[c] = CORO_STAT_DONE THEN "done"
                                        ELSE IF c \in Chain THEN "active" ELSE "suspended"
<1>1. PICK s : s = PreChain
  OBVIOUS
<1>2. Spells(s, current, pre) /\ Elems(s) = Chain
  BY <1>1, PreChainIs
<1>3. Spells(s, current', pre')
  BY <1>2, SpelledSame
<1>4. PreChain' = s
  BY <1>3, PreChainNext
<1> QED BY <1>1, <1>2, <1>3, <1>4, PreChainNext

\* The phases as a function.
LEMMA PhaseFunction ==
  /\ DOMAIN Phase = Coro /\ DOMAIN Phase' = Coro
  /\ Phase = [c \in Coro |-> Phase[c]] /\ Phase' = [c \in Coro |-> Phase'[c]]
  BY DEF Phase

\* One phase changes.
LEMMA PhaseExcept ==
  ASSUME NEW c \in Coro, NEW v, Phase'[c] = v,
         \A x \in Coro : x # c => Phase'[x] = Phase[x]
  PROVE  Phase' = [Phase EXCEPT ![c] = v]
<1>1. PICK f, g : f = Phase /\ g = Phase'
  OBVIOUS
<1>2. DOMAIN f = Coro /\ g = [x \in Coro |-> g[x]]
  BY <1>1, PhaseFunction
<1> QED BY <1>1, <1>2

LEMMA StutterMapped ==
  ASSUME TypeOK, SchedInv, UNCHANGED <<current, pre, stat>>
  PROVE  UNCHANGED <<PreChain, Phase>>
<1>1. PreChain' = PreChain /\ \A c \in Coro : Phase'[c] = Phase[c]
  BY ChainStays, PhaseIs
<1>2. PICK f, g : f = Phase /\ g = Phase'
  OBVIOUS
<1>3. f = [x \in Coro |-> f[x]] /\ g = [x \in Coro |-> g[x]]
  BY <1>2, PhaseFunction
<1>4. f = g
  BY <1>1, <1>2, <1>3
<1> QED BY <1>1, <1>2, <1>4

\* A coroutine is made, or destroyed: c, which is not on the chain.
LEMMA CreateMapped ==
  ASSUME TypeOK, SchedInv, NEW c \in Coro, NEW raw \in RawMsg, Child(c, raw)
  PROVE  Asymmetric!Create(c)
<1>1. /\ UNCHANGED current /\ stat[c] = FREED /\ stat'[c] = CORO_STAT_INIT
      /\ \A x \in Coro : x # c => stat'[x] = stat[x] /\ pre'[x] = pre[x]
  BY DEF Child, TypeOK
<1>2. c \notin Chain
  BY <1>1, CurrentLives, NilAssumption DEF Links, Live, FREED, CORO_STAT_WAIT
<1>3. PreChain' = PreChain
  BY <1>1, <1>2, ChainStays DEF Chain, TypeOK, Ctx
<1>4. Phase[c] = "none" /\ Phase'[c] = "suspended" /\ \A x \in Coro : x # c => Phase'[x] = Phase[x]
  <2>1. \A x \in Chain \ {Nil} : pre'[x] = pre[x]
    BY <1>1, <1>2 DEF Chain, TypeOK, Ctx
  <2> QED BY <1>1, <1>2, <2>1, ChainStays, PhaseIs DEF FREED, CORO_STAT_INIT, CORO_STAT_DONE
<1> QED BY <1>3, <1>4, PhaseExcept DEF Asymmetric!Create

LEMMA FreeMapped ==
  ASSUME TypeOK, SchedInv, NEW c \in Coro, stat[c] = CORO_STAT_DONE, Destroy(c), UNCHANGED current
  PROVE  Asymmetric!Free(c)
<1>1. /\ stat'[c] = FREED
      /\ \A x \in Coro : x # c => stat'[x] = stat[x] /\ pre'[x] = pre[x]
  BY DestroyRest
<1>2. c \notin Chain
  BY DoneIsAlone
<1>3. \A x \in Chain \ {Nil} : pre'[x] = pre[x]
  BY <1>1, <1>2 DEF Chain, TypeOK, Ctx
<1>4. PreChain' = PreChain
  BY <1>3, ChainStays
<1>5. Phase[c] = "done" /\ Phase'[c] = "none" /\ \A x \in Coro : x # c => Phase'[x] = Phase[x]
  BY <1>1, <1>3, ChainStays, PhaseIs DEF FREED, CORO_STAT_DONE
<1> QED BY <1>4, <1>5, PhaseExcept DEF Asymmetric!Free

\* resume() puts c at the end of the chain ...
LEMMA ResumeMapped ==
  ASSUME TypeOK, SchedInv, Transfer, NEW c, c = Top(stack[current]).co, ~Waits(c)
  PROVE  c \in Coro /\ Asymmetric!Resume(c)
<1>1. PICK s, t, o : s = PreChain /\ t = Append(s, c) /\ o = current
  OBVIOUS
<1>2. Spells(s, o, pre) /\ Elems(s) = Chain
  BY <1>1, PreChainIs
<1>3. /\ c \in Coro /\ c \notin Chain /\ o \in Ctx
      /\ stat[c] \in {CORO_STAT_INIT, CORO_STAT_WAIT} /\ stat'[c] = CORO_STAT_BUSY
      /\ o # Nil => stat'[o] = CORO_STAT_WAIT
      /\ \A x \in Coro : x # c /\ x # o => stat'[x] = stat[x]
      /\ current' = c /\ pre' = [pre EXCEPT ![c] = o]
  BY <1>1, TransferEffect DEF TypeOK
<1>4. s \in Seq(Ctx) /\ Len(s) \in Nat \ {0} /\ NoDup(s) /\ s[1] = Nil /\ s[Len(s)] = o
  BY <1>2 DEF Spells
<1>5. /\ t \in Seq(Ctx) /\ Len(t) = Len(s) + 1 /\ t[Len(t)] = c
      /\ \A i \in 1..Len(s) : t[i] = s[i]
      /\ Elems(t) = Chain \cup {c} /\ NoDup(t)
  BY <1>1, <1>2, <1>3, <1>4, ElemsAppend, AppendProperties DEF Ctx
<1>6. pre'[c] = o /\ \A x \in Coro : x # c => pre'[x] = pre[x]
  BY <1>3 DEF TypeOK
<1>7. \A i \in 2..Len(t) : t[i] \in Coro /\ pre'[t[i]] = t[i-1]
  <2> SUFFICES ASSUME NEW i \in 2..Len(t) PROVE t[i] \in Coro /\ pre'[t[i]] = t[i-1]
    OBVIOUS
  <2>1. CASE i = Len(t)
    <3>1. t[i] = c /\ t[i-1] = s[Len(s)]
      BY <1>4, <1>5, <2>1
    <3> QED BY <1>3, <1>4, <1>6, <3>1
  <2>2. CASE i # Len(t)
    <3>1. i \in 2..Len(s) /\ i \in 1..Len(s) /\ i - 1 \in 1..Len(s)
      BY <1>4, <1>5, <2>2
    <3>2. s[i] \in Coro /\ pre[s[i]] = s[i-1] /\ s[i] \in Chain
      BY <1>2, <3>1 DEF Spells, Elems
    <3>3. t[i] = s[i] /\ t[i-1] = s[i-1]
      BY <1>5, <3>1
    <3> QED BY <1>3, <1>6, <3>2, <3>3
  <2> QED BY <2>1, <2>2
<1>8. t[1] = Nil
  BY <1>4, <1>5
<1>9. Spells(t, current', pre')
  BY <1>3, <1>4, <1>5, <1>7, <1>8 DEF Spells
<1>10. PreChain' = Append(PreChain, c)
  BY <1>1, <1>9, PreChainNext
<1>11. Phase[c] = "suspended" /\ Phase'[c] = "active" /\ \A x \in Coro : x # c => Phase'[x] = Phase[x]
  <2>1. o \in Chain /\ (o # Nil => stat[o] = CORO_STAT_BUSY)
    BY <1>1, CurrentLives DEF Chain
  <2>2. \A x \in Coro : Phase'[x] = IF stat'[x] = FREED THEN "none"
                                    ELSE IF stat'[x] = CORO_STAT_DONE THEN "done"
                                    ELSE IF x \in Chain \cup {c} THEN "active" ELSE "suspended"
    BY <1>5, <1>9, PreChainNext
  <2>3. \A x \in Coro : x # Nil
    BY NilAssumption
  <2>4. Phase[c] = "suspended" /\ Phase'[c] = "active"
    BY <1>3, <2>2, PhaseIs
       DEF FREED, CORO_STAT_INIT, CORO_STAT_WAIT, CORO_STAT_BUSY, CORO_STAT_DONE
  <2>5. ASSUME NEW x \in Coro, x # c PROVE Phase'[x] = Phase[x]
    <3>1. CASE x = o
      BY <1>3, <2>1, <2>2, <2>3, <2>5, <3>1, PhaseIs
         DEF FREED, CORO_STAT_WAIT, CORO_STAT_BUSY, CORO_STAT_DONE
    <3>2. CASE x # o
      BY <1>3, <2>2, <2>5, <3>2, PhaseIs
    <3> QED BY <3>1, <3>2
  <2> QED BY <2>4, <2>5
<1> QED BY <1>3, <1>10, <1>11, PhaseExcept DEF Asymmetric!Resume

\* ... and yield() or the end of execute() takes the last one off.
LEMMA LeaveMapped ==
  ASSUME TypeOK, SchedInv, NEW own, SwitchOut(own)
  PROVE  \E as \in {"suspended", "done"} : Asymmetric!Leave(as)
<1>1. PICK s, t, c, p : s = PreChain /\ t = SubSeq(s, 1, Len(s) - 1) /\ c = current /\ p = pre[current]
  OBVIOUS
<1>2. Spells(s, c, pre) /\ Elems(s) = Chain
  BY <1>1, PreChainIs
<1>3. /\ c \in Coro /\ c # Nil /\ stat[c] = CORO_STAT_BUSY /\ p \in Chain /\ p # c
      /\ current' = p /\ pre' = pre /\ own \in {CORO_STAT_WAIT, CORO_STAT_DONE}
      /\ \A x \in Coro : \/ x = c /\ stat'[x] = own
                         \/ x = p /\ x # c /\ stat[x] = CORO_STAT_WAIT /\ stat'[x] = CORO_STAT_BUSY
                         \/ x # c /\ x # p /\ stat'[x] = stat[x] /\ stat[x] # CORO_STAT_BUSY
  BY <1>1, SwitchOutEffect
<1>4. s \in Seq(Ctx) /\ Len(s) \in Nat \ {0} /\ NoDup(s) /\ s[1] = Nil /\ s[Len(s)] = c /\ s # <<>>
  BY <1>2 DEF Spells
<1>5. Len(s) > 1
  BY <1>3, <1>4
<1>6. /\ t \in Seq(Ctx) /\ Len(t) = Len(s) - 1 /\ Len(t) \in Nat \ {0}
      /\ \A i \in 1..Len(t) : t[i] = s[i] /\ i \in 1..Len(s)
  <2>1. Len(s) - 1 \in 1..Len(s) /\ 1 \in 1..Len(s)
    BY <1>4, <1>5
  <2>2. t \in Seq(Ctx) /\ Len(t) = Len(s) - 1 /\ \A i \in 1..Len(s) - 1 : t[i] = s[i]
    BY <1>1, <1>4, <1>5, <2>1, PopLemma
  <2> QED BY <1>4, <1>5, <2>2
<1>7. Elems(t) = Chain \ {c}
  <2>1. \A i \in 1..Len(t) : t[i] \in Chain /\ t[i] # c
    <3> SUFFICES ASSUME NEW i \in 1..Len(t) PROVE t[i] \in Chain /\ t[i] # c
      OBVIOUS
    <3>1. i \in 1..Len(s) /\ Len(s) \in 1..Len(s) /\ i # Len(s) /\ t[i] = s[i]
      BY <1>4, <1>6
    <3>2. s[i] # s[Len(s)]
      BY <1>4, <3>1 DEF NoDup
    <3> QED BY <1>2, <1>4, <3>1, <3>2 DEF Elems
  <2>2. ASSUME NEW x \in Chain, x # c PROVE \E i \in 1..Len(t) : t[i] = x
    <3>1. PICK i \in 1..Len(s) : s[i] = x
      BY <1>2 DEF Elems
    <3>2. i # Len(s)
      BY <1>4, <2>2, <3>1
    <3>3. i \in 1..Len(t)
      BY <1>4, <1>6, <3>2
    <3> QED BY <1>6, <3>1, <3>3
  <2> QED BY <2>1, <2>2 DEF Elems
<1>8. t[Len(t)] = p
  <2>1. Len(s) \in 2..Len(s) /\ Len(t) \in 1..Len(t) /\ Len(t) = Len(s) - 1
    BY <1>4, <1>5, <1>6
  <2>2. pre[s[Len(s)]] = s[Len(s)-1]
    BY <1>2, <2>1 DEF Spells
  <2> QED BY <1>1, <1>4, <1>6, <2>1, <2>2
<1>9. NoDup(t) /\ t[1] = Nil
  <2>1. 1 \in 1..Len(t)
    BY <1>6
  <2> QED BY <1>4, <1>6, <2>1 DEF NoDup
<1>10. \A i \in 2..Len(t) : t[i] \in Coro /\ pre[t[i]] = t[i-1]
  <2> SUFFICES ASSUME NEW i \in 2..Len(t) PROVE t[i] \in Coro /\ pre[t[i]] = t[i-1]
    OBVIOUS
  <2>1. i \in 2..Len(s) /\ i \in 1..Len(t) /\ i - 1 \in 1..Len(t)
    BY <1>4, <1>6
  <2>2. s[i] \in Coro /\ pre[s[i]] = s[i-1]
    BY <1>2, <2>1 DEF Spells
  <2> QED BY <1>6, <2>1, <2>2
<1>11. Spells(t, current', pre')
  BY <1>3, <1>6, <1>8, <1>9, <1>10 DEF Spells
<1>12. PreChain' = SubSeq(PreChain, 1, Len(PreChain) - 1) /\ Len(PreChain) > 1 /\ PreChain[Len(PreChain)] = c
  BY <1>1, <1>4, <1>5, <1>11, PreChainNext
<1>13. PICK as : as = IF own = CORO_STAT_DONE THEN "done" ELSE "suspended"
  OBVIOUS
<1>14. Phase'[c] = as /\ \A x \in Coro : x # c => Phase'[x] = Phase[x]
  <2>1. \A x \in Coro : Phase'[x] = IF stat'[x] = FREED THEN "none"
                                    ELSE IF stat'[x] = CORO_STAT_DONE THEN "done"
                                    ELSE IF x \in Chain \ {c} THEN "active" ELSE "suspended"
    BY <1>7, <1>11, PreChainNext
  <2>2. Phase'[c] = as
    BY <1>3, <1>13, <2>1 DEF FREED, CORO_STAT_WAIT, CORO_STAT_DONE
  <2>3. ASSUME NEW x \in Coro, x # c PROVE Phase'[x] = Phase[x]
    <3>1. CASE x = p
      BY <1>3, <2>1, <2>3, <3>1, PhaseIs
         DEF FREED, CORO_STAT_WAIT, CORO_STAT_BUSY, CORO_STAT_DONE
    <3>2. CASE x # p
      BY <1>3, <2>1, <2>3, <3>2, PhaseIs
    <3> QED BY <3>1, <3>2
  <2> QED BY <2>2, <2>3
<1>15. Phase' = [Phase EXCEPT ![c] = as]
  BY <1>3, <1>14, PhaseExcept
<1>16. Asymmetric!Leave(as)
  BY <1>12, <1>15 DEF Asymmetric!Leave, Asymmetric!Running, Asymmetric!Shortened
<1> QED BY <1>13, <1>16

LEMMA InitMapped == Init => Asymmetric!Init
<1> SUFFICES ASSUME Init PROVE Asymmetric!Init
  OBVIOUS
<1>1. PICK s : s = <<Nil>>
  OBVIOUS
<1>2. s \in Seq(Ctx) /\ Len(s) = 1 /\ s[1] = Nil
  BY <1>1 DEF Ctx
<1>3. Spells(s, Nil, pre)
  BY <1>2 DEF Spells, NoDup
<1>4. PreChain = s
  BY <1>3, ChainSpelled DEF PreChain, Init
<1>5. \A c \in Coro : PhaseOf(c) = "none"
  BY DEF PhaseOf, Init
<1> QED BY <1>1, <1>4, <1>5 DEF Asymmetric!Init, Phase

\* Every step maps to a step of Nesting or to none.
LEMMA StepMapped ==
  TypeOK /\ MainStack /\ SchedInv /\ [Next]_vars => [Asymmetric!Next]_<<PreChain, Phase>>
<1> SUFFICES ASSUME TypeOK, MainStack, SchedInv, [Next]_vars
             PROVE  Asymmetric!Next \/ UNCHANGED <<PreChain, Phase>>
  OBVIOUS
<1>1. CASE UNCHANGED <<current, pre, stat>>
  BY <1>1, StutterMapped
<1>2. ASSUME NEW own, SwitchOut(own) PROVE Asymmetric!Next
  BY <1>2, LeaveMapped DEF Asymmetric!Next
<1>3. CASE Transfer
  <2>1. PICK c : c = Top(stack[current]).co
    OBVIOUS
  <2>2. CASE Waits(c)
    BY <1>1, <1>3, <2>1, <2>2 DEF Transfer
  <2>3. CASE ~Waits(c)
    BY <1>3, <2>1, <2>3, ResumeMapped DEF Asymmetric!Next
  <2> QED BY <2>2, <2>3
<1>4. CASE YieldOut
  BY <1>2, <1>4, YieldSwitches
<1>5. CASE Execute
  <2>1. CASE childs[current] # <<>>
    BY <1>1, <1>5, <2>1 DEF Execute, links
  <2>2. CASE childs[current] = <<>>
    BY <1>2, <1>5, <2>2, ExecuteSwitches
  <2> QED BY <2>1, <2>2
<1>6. ASSUME NEW d \in Coro, stat[d] = CORO_STAT_DONE, Destroy(d), UNCHANGED current
      PROVE  Asymmetric!Next
  BY <1>6, FreeMapped DEF Asymmetric!Next
<1>7. CASE TakeChild
  <2>1. PICK f, d : f = Top(stack[current]) /\ d = Head(childs[f.co])
    OBVIOUS
  <2>2. childs[f.co] # <<>> /\ f \in Frames
    BY <1>7, <2>1, NoKid DEF TakeChild
  <2>3. d \in Coro
    BY <2>1, <2>2, TailLemma DEF Frames, TypeOK
  <2>4. CASE stat[d] = CORO_STAT_DONE
    BY <1>6, <1>7, <2>1, <2>3, <2>4 DEF TakeChild
  <2>5. CASE stat[d] # CORO_STAT_DONE
    BY <1>1, <1>7, <2>1, <2>5 DEF TakeChild, links
  <2> QED BY <2>4, <2>5
<1>8. CASE PutChildBack
  <2>1. PICK f, d : f = Top(stack[current]) /\ d = f.kid
    OBVIOUS
  <2>2. d # Nil /\ f \in Frames
    BY <1>8, <2>1, NoKid DEF PutChildBack
  <2>3. d \in Coro
    BY <2>1, <2>2 DEF Frames, Ctx
  <2>4. CASE stat[d] = CORO_STAT_DONE
    BY <1>6, <1>8, <2>1, <2>3, <2>4 DEF PutChildBack
  <2>5. CASE stat[d] # CORO_STAT_DONE
    BY <1>1, <1>8, <2>1, <2>5 DEF PutChildBack, links
  <2> QED BY <2>4, <2>5
<1>9. CASE Drain \/ EndSweep \/ ResumeEntry \/ Return \/ MgetLoop \/ AwaitReturn
  BY <1>1, <1>9 DEF Drain, EndSweep, ResumeEntry, Return, MgetLoop, AwaitReturn, links
<1>10. CASE User
  <2>1. CASE \E d \in Coro, raw \in RawMsg : Child(d, raw)
    BY <2>1, CreateMapped DEF Asymmetric!Next
  <2>2. CASE ~\E d \in Coro, raw \in RawMsg : Child(d, raw)
    <3>1. UNCHANGED <<current, pre, stat>>
      BY <1>10, <2>2 DEF User, ResumeAll, Resume, ResumeChilds, ResumeOwnChilds, Yield, Mput, Mbroadcast,
         Mget, TryMget, Await, Fire, EventAdd, Finish, links
    <3> QED BY <1>1, <3>1
  <2> QED BY <2>1, <2>2
<1>11. CASE UNCHANGED vars
  BY <1>1, <1>11 DEF vars, links
<1> QED BY <1>3, <1>4, <1>5, <1>7, <1>8, <1>9, <1>10, <1>11 DEF Next, Library

\* The scheduler implements Nesting: however resumes, parkings, sweeps and ends
\* interleave, _coro_pre always leads from the coroutine that runs to the main
\* context, a coroutine is resumed only while it is suspended, and gives control
\* back to its resumer.
THEOREM ImplementsNesting == Spec => NestingSpec
<1>1. Init => Asymmetric!Init
  BY InitMapped
<1>2. TypeOK /\ MainStack /\ SchedInv /\ [Next]_vars => [Asymmetric!Next]_<<PreChain, Phase>>
  BY StepMapped
<1> QED BY <1>1, <1>2, SchedInvariant, PTL DEF Spec, NestingSpec, Asymmetric!Spec

HIDE DEF SchedInv

-----------------------------------------------------------------------------
(* Above c *)

\* On the way up from c the levels fall one by one, down to the main context.
LEMMA ClimbLevels ==
  ASSUME TypeOK, Tree, NEW c \in Live, NEW N \in Nat, NEW up, Climbs(up, c, N)
  PROVE  /\ level[c] \in Nat \ {0}
         /\ \A n \in 0..N : IF n < level[c] THEN up[n] \in Live /\ level[up[n]] = level[c] - n
                                            ELSE up[n] = Nil
<1> DEFINE Fine(n) == n \in 0..N => IF n < level[c] THEN up[n] \in Live /\ level[up[n]] = level[c] - n
                                                    ELSE up[n] = Nil
           S == {n \in Nat : Fine(n)}
<1>1. \A q \in Live : /\ level[q] \in Nat \ {0} /\ q # Nil
                      /\ \/ parent[q] = Nil /\ level[q] = 1
                         \/ parent[q] \in Live /\ level[parent[q]] = level[q] - 1 /\ level[q] > 1
  <2> SUFFICES ASSUME NEW q \in Live
               PROVE  /\ level[q] \in Nat \ {0} /\ q # Nil
                      /\ \/ parent[q] = Nil /\ level[q] = 1
                         \/ parent[q] \in Live /\ level[parent[q]] = level[q] - 1 /\ level[q] > 1
    OBVIOUS
  <2>1. /\ q \in Coro /\ q # Nil /\ level[q] \in Nat
        /\ parent[q] \in Live \cup {Nil} /\ level[q] = Lv(parent[q]) + 1
    BY NilAssumption DEF Tree, TypeOK, Live
  <2>2. CASE parent[q] = Nil
    BY <2>1, <2>2 DEF Lv
  <2>3. CASE parent[q] # Nil
    <3>1. parent[q] \in Live /\ parent[q] \in Coro /\ Lv(parent[q]) = level[parent[q]]
      BY <2>1, <2>3 DEF Lv, Live
    <3>2. level[parent[q]] \in Nat
      BY <3>1 DEF TypeOK
    <3>3. Lv(parent[parent[q]]) \in Nat /\ level[parent[q]] = Lv(parent[parent[q]]) + 1
      <4>1. parent[parent[q]] \in Ctx
        BY <3>1 DEF TypeOK
      <4> QED BY <3>1, <4>1, LvNat DEF Tree
    <3> QED BY <2>1, <3>1, <3>2, <3>3
  <2> QED BY <2>2, <2>3
<1>2. level[c] \in Nat \ {0}
  BY <1>1
<1>3. Fine(0)
  BY <1>2 DEF Climbs
<1>4. ASSUME NEW n \in Nat, Fine(n) PROVE Fine(n + 1)
  <2> SUFFICES ASSUME n + 1 \in 0..N
               PROVE  IF n + 1 < level[c] THEN up[n+1] \in Live /\ level[up[n+1]] = level[c] - (n + 1)
                                          ELSE up[n+1] = Nil
    OBVIOUS
  <2>1. n \in 0..N /\ n + 1 # 0 /\ n + 1 - 1 = n
    OBVIOUS
  <2>2. up[n+1] = IF up[n] = Nil THEN Nil ELSE parent[up[n]]
    BY <2>1 DEF Climbs
  <2>3. CASE n < level[c]
    <3>1. up[n] \in Live /\ level[up[n]] = level[c] - n
      BY <1>4, <2>1, <2>3
    <3> QED BY <1>1, <1>2, <2>2, <2>3, <3>1
  <2>4. CASE ~(n < level[c])
    BY <1>2, <1>4, <2>1, <2>2, <2>4
  <2> QED BY <2>3, <2>4
<1>5. Nat \subseteq S
  <2>1. 0 \in S
    BY <1>3
  <2> HIDE DEF Fine
  <2>2. \A n \in Nat : n \in S => n + 1 \in S
    BY <1>4
  <2> HIDE DEF S
  <2> QED BY <2>1, <2>2, NumberInduction
<1> QED BY <1>2, <1>5

\* No coroutine is nested deeper than there are coroutines.
LEMMA LevelBound ==
  ASSUME TypeOK, Tree, NEW c \in Live
  PROVE  level[c] \in Nat \ {0} /\ level[c] <= Cardinality(Coro)
<1>1. level[c] \in Nat
  BY DEF TypeOK, Live
<1>2. PICK up : Climbs(up, c, level[c])
  BY <1>1, ClimbExists
<1>3. /\ level[c] \in Nat \ {0}
      /\ \A n \in 0..level[c] : n < level[c] => up[n] \in Live /\ level[up[n]] = level[c] - n
  BY <1>1, <1>2, ClimbLevels
<1> DEFINE f == [i \in 1..level[c] |-> up[i-1]]
<1>4. \A i \in 1..level[c] : f[i] \in Coro /\ level[f[i]] = level[c] - (i - 1)
  <2> SUFFICES ASSUME NEW i \in 1..level[c]
               PROVE  f[i] \in Coro /\ level[f[i]] = level[c] - (i - 1)
    OBVIOUS
  <2>1. i - 1 \in 0..level[c] /\ i - 1 < level[c] /\ f[i] = up[i-1]
    BY <1>3
  <2> HIDE DEF f
  <2> QED BY <1>3, <2>1 DEF Live
<1>5. \A i, j \in 1..level[c] : f[i] = f[j] => i = j
  <2> HIDE DEF f
  <2> QED BY <1>3, <1>4
<1>6. f \in Injection(1..level[c], Coro)
  BY <1>4, <1>5 DEF Injection, IsInjective
<1>7. Cardinality(1..level[c]) <= Cardinality(Coro)
  <2> HIDE DEF f
  <2> QED BY <1>6, CoroAssumption, FS_Injection
<1>8. Cardinality(1..level[c]) = level[c]
  BY <1>1, FS_Interval
<1> QED BY <1>3, <1>7, <1>8

\* The parent of whoever is on the line is on it, and whoever is on it above c
\* is there as the parent of another.
LEMMA LineUp ==
  ASSUME TypeOK, Tree, NEW c \in Live
  PROVE  /\ Line(c) \subseteq Live
         /\ \A q \in Line(c) : parent[q] \in Coro => parent[q] \in Ancestors(c)
         /\ \A a \in Ancestors(c) : \E d \in Line(c) : parent[d] = a
<1>0. PICK N : N = Cardinality(Coro)
  OBVIOUS
<1>1. N \in Nat /\ level[c] \in Nat \ {0} /\ level[c] <= N
  BY <1>0, LevelBound, CoroAssumption, FS_CardinalityType
<1>2. PICK up : Climbs(up, c, N) /\ Ancestors(c) = {p \in Coro : \E n \in 1..N : up[n] = p}
  BY <1>0, AncestorsClimbed
<1>3. \A n \in 0..N : IF n < level[c] THEN up[n] \in Live /\ level[up[n]] = level[c] - n
                                      ELSE up[n] = Nil
  BY <1>1, <1>2, ClimbLevels
<1>4. up[0] = c /\ \A n \in 1..N : n - 1 \in 0..N /\ up[n] = IF up[n-1] = Nil THEN Nil ELSE parent[up[n-1]]
  BY <1>1, <1>2 DEF Climbs
<1>5. Line(c) \subseteq Live
  BY AncestorsAbove DEF Line
<1>6. ASSUME NEW q \in Line(c), parent[q] \in Coro PROVE parent[q] \in Ancestors(c)
  <2>1. PICK n \in 0..N : up[n] = q
    BY <1>1, <1>2, <1>4 DEF Line
  <2>2. q # Nil /\ n < level[c]
    BY <1>3, <1>5, <1>6, <2>1, NilAssumption DEF Live
  <2>3. CASE n + 1 <= N
    <3>1. n + 1 \in 1..N /\ n + 1 - 1 = n
      BY <1>1, <2>3
    <3>2. up[n+1] = parent[q]
      BY <1>4, <2>1, <2>2, <3>1
    <3> QED BY <1>2, <1>6, <3>1, <3>2
  <2>4. CASE ~(n + 1 <= N)
    <3>1. n = N
      BY <1>1, <2>4
    <3> QED BY <1>1, <2>2, <3>1
  <2> QED BY <2>3, <2>4
<1>7. ASSUME NEW a \in Ancestors(c) PROVE \E d \in Line(c) : parent[d] = a
  <2>1. PICK n \in 1..N : up[n] = a
    BY <1>2
  <2>2. a # Nil
    BY <1>2, NilAssumption
  <2>3. n - 1 \in 0..N /\ up[n-1] # Nil /\ parent[up[n-1]] = a
    BY <1>4, <2>1, <2>2
  <2>4. CASE n = 1
    BY <1>1, <1>4, <2>3, <2>4 DEF Line
  <2>5. CASE n # 1
    <3>1. n - 1 \in 1..N /\ up[n-1] \in Coro
      BY <1>1, <1>3, <2>3, <2>5 DEF Live
    <3> QED BY <1>2, <2>3, <3>1 DEF Line
  <2> QED BY <2>4, <2>5
<1> QED BY <1>5, <1>6, <1>7

\* Who is above somebody on the line is on it.
LEMMA LineClosed ==
  ASSUME TypeOK, Tree, NEW c \in Live, NEW q \in Line(c)
  PROVE  Ancestors(q) \subseteq Ancestors(c)
<1>0. PICK N : N = Cardinality(Coro)
  OBVIOUS
<1>1. N \in Nat
  BY <1>0, CoroAssumption, FS_CardinalityType
<1>2. PICK up : Climbs(up, q, N) /\ Ancestors(q) = {p \in Coro : \E n \in 1..N : up[n] = p}
  BY <1>0, AncestorsClimbed
<1>3. up[0] = q /\ \A n \in 1..N : n - 1 \in 0..N /\ up[n] = IF up[n-1] = Nil THEN Nil ELSE parent[up[n-1]]
  BY <1>1, <1>2 DEF Climbs
<1>4. /\ \A x \in Line(c) : x \in Coro /\ parent[x] \in Coro \cup {Nil}
      /\ \A x \in Line(c) : parent[x] \in Coro => parent[x] \in Ancestors(c)
  BY LineUp DEF TypeOK, Live, Ctx
<1> DEFINE P(n) == n \in 1..N => up[n] = Nil \/ up[n] \in Ancestors(c)
           S == {n \in Nat : P(n)}
<1>5. ASSUME NEW n \in Nat, P(n) PROVE P(n + 1)
  <2> SUFFICES ASSUME n + 1 \in 1..N PROVE up[n+1] = Nil \/ up[n+1] \in Ancestors(c)
    OBVIOUS
  <2>1. n + 1 - 1 = n
    OBVIOUS
  <2>2. up[n] = Nil \/ up[n] \in Line(c)
    <3>1. CASE n = 0
      BY <1>3, <3>1
    <3>2. CASE n # 0
      BY <1>1, <1>5, <3>2 DEF Line
    <3> QED BY <3>1, <3>2
  <2>3. up[n+1] = IF up[n] = Nil THEN Nil ELSE parent[up[n]]
    BY <1>3, <2>1
  <2> QED BY <1>4, <2>2, <2>3
<1>6. Nat \subseteq S
  <2>1. 0 \in S
    OBVIOUS
  <2> HIDE DEF P
  <2>2. \A n \in Nat : n \in S => n + 1 \in S
    BY <1>5
  <2> HIDE DEF S
  <2> QED BY <2>1, <2>2, NumberInduction
<1>7. ASSUME NEW a \in Ancestors(q) PROVE a \in Ancestors(c)
  <2>1. PICK n \in 1..N : up[n] = a
    BY <1>2
  <2>2. a # Nil /\ n \in Nat
    BY <1>2, NilAssumption
  <2> QED BY <1>6, <2>1, <2>2
<1> QED BY <1>7

Climbed ==
  \A c \in Coro : \E up : /\ Climbs(up, c, Cardinality(Coro))
                          /\ Ancestors(c) = {p \in Coro : \E n \in 1..Cardinality(Coro) : up[n] = p}

\* It is so in every state.
LEMMA AllClimbed == Climbed
  BY AncestorsClimbed DEF Climbed

\* What is above c only changes if a parent on its line does.
LEMMA AncestorsStay ==
  ASSUME TypeOK, Tree, NEW c \in Live, \A d \in Line(c) : parent'[d] = parent[d]
  PROVE  Ancestors(c)' = Ancestors(c)
<1>0. PICK N : N = Cardinality(Coro)
  OBVIOUS
<1>1. N \in Nat /\ c \in Coro
  BY <1>0, CoroAssumption, FS_CardinalityType DEF Live
<1>2. PICK up : Climbs(up, c, N) /\ Ancestors(c) = {p \in Coro : \E n \in 1..N : up[n] = p}
  BY <1>0, AncestorsClimbed
<1>3. Climbed'
  BY AllClimbed, PTL
<1>4. PICK vp : /\ Climbs(vp, c, N)'
                /\ Ancestors(c)' = {p \in Coro : \E n \in 1..N : vp[n] = p}
  BY <1>0, <1>1, <1>3 DEF Climbed
<1>5. /\ up[0] = c /\ vp[0] = c
      /\ \A n \in 1..N : /\ n - 1 \in 0..N
                         /\ up[n] = IF up[n-1] = Nil THEN Nil ELSE parent[up[n-1]]
                         /\ vp[n] = IF vp[n-1] = Nil THEN Nil ELSE parent'[vp[n-1]]
  <2>1. up[0] = c /\ \A n \in 1..N : n - 1 \in 0..N /\ up[n] = IF up[n-1] = Nil THEN Nil ELSE parent[up[n-1]]
    BY <1>1, <1>2 DEF Climbs
  <2>2. vp[0] = c /\ \A n \in 1..N : vp[n] = IF vp[n-1] = Nil THEN Nil ELSE parent'[vp[n-1]]
    BY <1>1, <1>4 DEF Climbs
  <2> QED BY <2>1, <2>2
<1>6. \A n \in 0..N : up[n] = Nil \/ up[n] \in Line(c)
  <2> SUFFICES ASSUME NEW n \in 0..N, up[n] # Nil PROVE up[n] \in Line(c)
    OBVIOUS
  <2>1. up[n] \in Coro
    <3>1. \A m \in 0..N : IF m < level[c] THEN up[m] \in Live /\ level[up[m]] = level[c] - m ELSE up[m] = Nil
      BY <1>1, <1>2, ClimbLevels
    <3> QED BY <3>1 DEF Live
  <2> QED BY <1>1, <1>2, <1>5, <2>1 DEF Line
<1> DEFINE P(n) == n \in 0..N => vp[n] = up[n]
           S == {n \in Nat : P(n)}
<1>7. ASSUME NEW n \in Nat, P(n) PROVE P(n + 1)
  <2> SUFFICES ASSUME n + 1 \in 0..N PROVE vp[n+1] = up[n+1]
    OBVIOUS
  <2>1. n + 1 \in 1..N /\ n + 1 - 1 = n /\ n \in 0..N
    BY <1>1
  <2>2. vp[n] = up[n]
    BY <1>7, <2>1
  <2>3. /\ up[n+1] = IF up[n] = Nil THEN Nil ELSE parent[up[n]]
        /\ vp[n+1] = IF vp[n] = Nil THEN Nil ELSE parent'[vp[n]]
    BY <1>5, <2>1
  <2> QED BY <1>6, <2>1, <2>2, <2>3
<1>8. Nat \subseteq S
  <2>1. 0 \in S
    BY <1>5
  <2> HIDE DEF P
  <2>2. \A n \in Nat : n \in S => n + 1 \in S
    BY <1>7
  <2> HIDE DEF S
  <2> QED BY <2>1, <2>2, NumberInduction
<1>9. \A n \in 1..N : n \in 0..N /\ n \in Nat /\ vp[n] = up[n]
  BY <1>1, <1>8
<1> QED BY <1>2, <1>4, <1>9

\* The same for everybody on the line.
LEMMA LineStays ==
  ASSUME TypeOK, Tree, NEW c \in Live, \A d \in Line(c) : parent'[d] = parent[d]
  PROVE  /\ Line(c)' = Line(c)
         /\ \A q \in Line(c) : Ancestors(q)' = Ancestors(q) /\ Line(q)' = Line(q)
<1>1. ASSUME NEW q \in Line(c) PROVE Ancestors(q)' = Ancestors(q)
  <2>1. q \in Live /\ Line(q) \subseteq Line(c)
    BY LineUp, LineClosed DEF Line
  <2> QED BY <2>1, AncestorsStay
<1>2. c \in Line(c)
  BY DEF Line
<1> QED BY <1>1, <1>2 DEF Line

Words == \A c \in Coro : Word(c)

Base == TypeOK /\ MainStack /\ SchedInv /\ NoParkedMail

\* Whoever is due exists and has no WAIT bit.
LEMMA DueFacts ==
  ASSUME Base, Words, NEW c \in Coro, Due(c)
  PROVE  c \in Live /\ stack[c] # <<>> /\ ~Waits(c)
<1>1. stack[c] # <<>>
  BY DEF Due, Blocked
<1>2. c \in Live
  BY <1>1 DEF Base, SchedInv, Parks, Live, FREED, CORO_STAT_WAIT, CORO_STAT_BUSY
<1>3. CASE Blocked(c, "mget") /\ messages[c] # <<>>
  BY <1>1, <1>2, <1>3 DEF Base, NoParkedMail, Words, Word, Waits
<1>4. CASE Blocked(c, "await") /\ "WAIT" \notin evet[c]
  BY <1>1, <1>2, <1>4 DEF Words, Word, Waits
<1> QED BY <1>1, <1>2, <1>3, <1>4 DEF Due

\* A step that leaves intact what has been told, except at a, whose children are
\* all going to be reached.
Kept(c, a) ==
  /\ Due(c)
  /\ \A d \in Line(c) :
       /\ parent'[d] = parent[d]
       /\ d # a => /\ ChildUp(d) => ChildUp(d)'
                   /\ Waits(d)' => Waits(d)
                   /\ Yields(d)' => Yields(d)
  /\ \A q \in Line(c) : \A p \in Coro :
       p = parent[q] =>
         /\ p = a => SweepReaches(p, q)'
         /\ SweepReaches(p, q) => SweepReaches(p, q)' \/ (a = Nil /\ Told(q))

Calm(a) ==
  /\ \A c \in Coro : Due(c)' => (c \in Live /\ parent' = parent /\ Told(c)') \/ Kept(c, a)
  /\ \A r \in Ctx : \A i \in 1..Len(stack[r]) :
       stack[r][i].kid # Nil => a \notin Ancestors(stack[r][i].kid)

\* What Kept means along the line.
LEMMA KeptLine ==
  ASSUME Base, Words, NEW a, NEW c \in Coro, Kept(c, a)
  PROVE  /\ c \in Live /\ Line(c) \subseteq Live /\ Line(c)' = Line(c)
         /\ \A q \in Line(c) :
              /\ Ancestors(q) \subseteq Line(c) /\ Ancestors(q)' = Ancestors(q)
              /\ a \notin Ancestors(q) /\ Told(q) => Told(q)'
              /\ q \in Ancestors(c) => \E d \in Line(c) : parent[d] = q
              /\ parent[q] \in Coro => parent[q] \in Ancestors(q)
<1>1. c \in Live /\ TypeOK /\ Tree
  BY DueFacts DEF Kept, Base, SchedInv
<1>2. /\ Line(c) \subseteq Live
      /\ \A x \in Ancestors(c) : \E d \in Line(c) : parent[d] = x
  BY <1>1, LineUp
<1>3. Line(c)' = Line(c) /\ \A q \in Line(c) : Ancestors(q)' = Ancestors(q)
  BY <1>1, LineStays DEF Kept
<1>4. ASSUME NEW q \in Line(c) PROVE Ancestors(q) \subseteq Line(c) /\ (parent[q] \in Coro => parent[q] \in Ancestors(q))
  BY <1>1, <1>2, LineClosed, LineUp DEF Line
<1>5. ASSUME NEW q \in Line(c), a \notin Ancestors(q), Told(q) PROVE Told(q)'
  <2>1. \A x \in Ancestors(q) : x \in Line(c) /\ x # a /\ ChildUp(x)
    BY <1>4, <1>5 DEF Told
  <2>2. \A x \in Ancestors(q) : ChildUp(x)'
    BY <2>1 DEF Kept
  <2> QED BY <1>3, <2>2 DEF Told
<1> QED BY <1>1, <1>2, <1>3, <1>4, <1>5

\* A branch that a loop was heading for is still ahead of it, or has been told.
LEMMA KeptHeads ==
  ASSUME Base, Words, NEW a, NEW c \in Coro, Kept(c, a), NEW q \in Line(c)
  PROVE  /\ Heads(q, c) => Heads(q, c)' \/ Told(q)'
         /\ q = a /\ q # c => Heads(q, c)'
<1>1. /\ Line(c)' = Line(c) /\ q \in Live /\ q \in Coro /\ Line(c) \subseteq Live
      /\ \A d \in Line(c) : parent'[d] = parent[d]
  BY KeptLine DEF Kept, Live
<1>2. ASSUME Heads(q, c), ~Heads(q, c)' PROVE Told(q)'
  <2>1. PICK d \in Line(c) : parent[d] = q /\ SweepReaches(q, d)
    BY <1>2 DEF Heads
  <2>2. parent'[d] = q
    BY <1>1, <2>1
  <2>3. ~SweepReaches(q, d)'
    BY <1>1, <1>2, <2>2 DEF Heads
  <2>4. a = Nil /\ Told(d)
    BY <1>1, <2>1, <2>3 DEF Kept
  <2>5. Ancestors(q) \subseteq Ancestors(d)
    <3>1. d \in Live /\ q \in Line(d)
      BY <1>1, <2>1, KeptLine DEF Line
    <3> QED BY <3>1, LineClosed DEF Base, SchedInv
  <2>6. Told(q)
    BY <2>4, <2>5 DEF Told
  <2>7. a \notin Ancestors(q)
    BY <1>1, <2>4, KeptLine, NilAssumption DEF Live
  <2> QED BY <2>6, <2>7, KeptLine
<1>3. ASSUME q = a, q # c PROVE Heads(q, c)'
  <2>1. PICK d \in Line(c) : parent[d] = q
    BY <1>3, KeptLine DEF Line
  <2>2. SweepReaches(q, d)' /\ parent'[d] = q
    BY <1>1, <1>3, <2>1 DEF Kept
  <2> QED BY <1>1, <2>2 DEF Heads
<1> QED BY <1>2, <1>3

\* After a calm step whoever waits above c has been told or is reached.
LEMMA CalmReached ==
  ASSUME Base, WakeInv, NEW a, Calm(a), NEW c \in Coro, Due(c)'
  PROVE  Reached(c)'
<1>1. SUFFICES ASSUME NEW q \in Line(c)', NEW p \in Coro, p = parent'[q], Waits(p)'
               PROVE  ChildUp(p)' \/ SweepReaches(p, q)'
  BY DEF Reached
<1>2. CASE c \in Live /\ parent' = parent /\ Told(c)'
  <2>1. Line(c)' = Line(c) /\ Ancestors(c)' = Ancestors(c)
    BY <1>2 DEF Line, Ancestors
  <2>2. p \in Ancestors(c)'
    BY <1>1, <1>2, <2>1, LineUp DEF Base, SchedInv
  <2> QED BY <1>2, <2>2 DEF Told
<1>3. CASE Kept(c, a)
  <2>1. q \in Line(c) /\ p = parent[q] /\ p \in Ancestors(q) /\ p \in Line(c)
    <3>1. q \in Line(c)
      BY <1>1, <1>3, KeptLine DEF WakeInv, Words
    <3>2. p = parent[q]
      BY <1>1, <1>3, <3>1 DEF Kept
    <3>3. p \in Ancestors(q) /\ Ancestors(q) \subseteq Line(c)
      BY <1>1, <1>3, <3>1, <3>2, KeptLine DEF WakeInv, Words
    <3> QED BY <3>1, <3>2, <3>3
  <2>2. CASE p = a
    BY <1>3, <2>1, <2>2 DEF Kept
  <2>3. CASE p # a
    <3>1. Waits(p) /\ (ChildUp(p) => ChildUp(p)')
      BY <1>1, <1>3, <2>1, <2>3 DEF Kept
    <3>2. ChildUp(p) \/ SweepReaches(p, q)
      BY <1>3, <2>1, <3>1 DEF WakeInv, Reached, Kept
    <3>3. SweepReaches(p, q) => SweepReaches(p, q)' \/ Told(q)
      BY <1>3, <2>1 DEF Kept
    <3>4. Told(q) => ChildUp(p)
      BY <2>1 DEF Told
    <3> QED BY <3>1, <3>2, <3>3, <3>4
  <2> QED BY <2>2, <2>3
<1> QED BY <1>2, <1>3 DEF Calm

\* A child that is still in the same hands, with the same call above it.
SameAt(r, i) ==
  /\ i \in 1..Len(stack[r]) /\ stack'[r][i].kid = stack[r][i].kid
  /\ i < Len(stack[r]) =>
       /\ i < Len(stack'[r]) /\ stack'[r][i+1] = stack[r][i+1]
       /\ stack[r][i+1].op = "coro_transfer" /\ r # current => r # current'

\* And so has everybody above a child in somebody's hands.
LEMMA CalmHeld ==
  ASSUME Base, WakeInv, NEW a, Calm(a), NEW r \in Ctx, NEW i, SameAt(r, i), NEW c \in Coro
  PROVE  HandTold(r, i, c)'
<1>0. PICK q : q = stack'[r][i].kid
  OBVIOUS
<1> SUFFICES ASSUME q # Nil, Due(c)', q \in Line(c)'
             PROVE  Told(q)' \/ (i < Len(stack'[r]) /\ Looks(stack[r][i+1], r, q, c)')
  BY <1>0 DEF HandTold
<1>1. i \in 1..Len(stack[r]) /\ stack[r][i].kid = q /\ Words
  BY <1>0 DEF SameAt, WakeInv, Words
<1>2. CASE c \in Live /\ parent' = parent /\ Told(c)'
  <2>1. Line(c)' = Line(c) /\ Ancestors(c)' = Ancestors(c) /\ Ancestors(q)' = Ancestors(q)
    BY <1>2 DEF Line, Ancestors
  <2>2. Ancestors(q) \subseteq Ancestors(c)
    BY <1>2, <2>1, LineClosed DEF Base, SchedInv
  <2> QED BY <1>2, <2>1, <2>2 DEF Told
<1>3. CASE Kept(c, a)
  <2>1. q \in Line(c) /\ Due(c) /\ a \notin Ancestors(q)
    BY <1>1, <1>3, KeptLine DEF Kept, Calm
  <2>2. Told(q) => Told(q)'
    BY <1>1, <1>3, <2>1, KeptLine
  <2>3. Heads(q, c) => Heads(q, c)' \/ Told(q)'
    BY <1>1, <1>3, <2>1, KeptHeads
  <2>4. q = a /\ q # c => Heads(q, c)'
    BY <1>1, <1>3, <2>1, KeptHeads
  <2>5. q # a => (Waits(q)' => Waits(q)) /\ (Yields(q)' => Yields(q))
    BY <1>3, <2>1 DEF Kept
  <2>6. Told(q) \/ (i < Len(stack[r]) /\ Looks(stack[r][i+1], r, q, c))
    BY <1>1, <2>1 DEF WakeInv, Held, HandTold
  <2>7. ASSUME i < Len(stack[r]), Looks(stack[r][i+1], r, q, c), ~Told(q)'
        PROVE  Looks(stack[r][i+1], r, q, c)'
    <3>1. PICK h : h = stack[r][i+1]
      OBVIOUS
    <3>2. stack'[r][i+1] = h /\ (h.op = "coro_transfer" /\ r # current => r # current')
      BY <2>7, <3>1 DEF SameAt
    <3>3. Looks(h, r, q, c)
      BY <2>7, <3>1
    <3>4. Looks(h, r, q, c)'
      BY <2>3, <2>4, <2>5, <2>7, <3>2, <3>3 DEF Looks
    <3> QED BY <3>1, <3>2, <3>4
  <2> QED BY <2>2, <2>6, <2>7 DEF SameAt
<1> QED BY <1>2, <1>3 DEF Calm

-----------------------------------------------------------------------------
(* Stacks that serve *)

\* A call that returns leaves a stack that serves.
LEMMA ServesPop ==
  ASSUME NEW s \in Seq(Frames), s # <<>>, Serves(s)
  PROVE  Serves(Under(s))
<1>1. /\ Len(s) \in Nat \ {0} /\ Len(Under(s)) = Len(s) - 1
      /\ \A i \in 1..Len(s) - 1 : Under(s)[i] = s[i]
  BY PopLemma
<1>2. ASSUME NEW i \in 1..Len(Under(s))
      PROVE  /\ s[i].op = "resume_childs" =>
                  IF s[i].kid = Nil THEN i = Len(Under(s))
                  ELSE i < Len(Under(s)) => Under(s)[i+1].op \in Serve /\ Under(s)[i+1].co = s[i].kid
             /\ s[i].op \in {"resume", "coro_transfer"} => i = Len(Under(s))
             /\ i = 1 /\ s[i].op \in {"mget", "await"} /\ Len(Under(s)) > 1 => Under(s)[2].op = "yield"
  <2>1. i \in 1..Len(s) /\ i # Len(s) /\ (i < Len(Under(s)) => Under(s)[i+1] = s[i+1] /\ i < Len(s))
    BY <1>1
  <2>2. /\ s[i].op \notin {"resume", "coro_transfer"}
        /\ s[i].op = "resume_childs" => s[i].kid # Nil /\ (i < Len(s) => s[i+1].op \in Serve /\ s[i+1].co = s[i].kid)
    BY <2>1 DEF Serves
  <2>3. i = 1 /\ s[i].op \in {"mget", "await"} /\ Len(Under(s)) > 1 => Under(s)[2].op = "yield"
    BY <1>1, <2>1 DEF Serves
  <2> QED BY <2>1, <2>2, <2>3
<1> QED BY <1>1, <1>2 DEF Serves

\* f may be pushed on s.
MayPush(s, f) ==
  \/ s = <<>>
  \/ /\ Top(s).op \notin {"resume", "coro_transfer"}
     /\ Top(s).op = "resume_childs" => Top(s).kid # Nil /\ f.op \in Serve /\ f.co = Top(s).kid
     /\ Top(s).op \in {"mget", "await"} => f.op = "yield"

\* So does one that is made.
LEMMA ServesPush ==
  ASSUME NEW s \in Seq(Frames), NEW f \in Frames, Serves(s), MayPush(s, f)
  PROVE  Serves(Append(s, f))
<1> DEFINE t == Append(s, f)
<1>1. /\ Len(s) \in Nat /\ Len(t) = Len(s) + 1 /\ t[Len(t)] = f
      /\ \A i \in 1..Len(s) : t[i] = s[i]
  OBVIOUS
<1> HIDE DEF t
<1>2. ASSUME NEW i \in 1..Len(t)
      PROVE  /\ t[i].op = "resume_childs" =>
                  IF t[i].kid = Nil THEN i = Len(t)
                  ELSE i < Len(t) => t[i+1].op \in Serve /\ t[i+1].co = t[i].kid
             /\ t[i].op \in {"resume", "coro_transfer"} => i = Len(t)
             /\ i = 1 /\ t[i].op \in {"mget", "await"} /\ Len(t) > 1 => t[2].op = "yield"
  <2>1. CASE i = Len(t)
    BY <1>1, <2>1
  <2>2. CASE i = Len(s)
    <3>1. i \in 1..Len(s) /\ t[i] = Top(s) /\ t[i+1] = f /\ i + 1 = Len(t) /\ s # <<>>
      BY <1>1, <1>2, <2>2 DEF Top
    <3>2. /\ Top(s).op \notin {"resume", "coro_transfer"}
          /\ Top(s).op = "resume_childs" => Top(s).kid # Nil /\ f.op \in Serve /\ f.co = Top(s).kid
          /\ Top(s).op \in {"mget", "await"} => f.op = "yield"
      BY <3>1 DEF MayPush
    <3> QED BY <3>1, <3>2
  <2>3. CASE i < Len(s)
    <3>1. i \in 1..Len(s) /\ i + 1 \in 1..Len(s) /\ t[i] = s[i] /\ t[i+1] = s[i+1] /\ i < Len(t)
      BY <1>1, <1>2, <2>3
    <3>2. i = 1 => t[2] = s[2] /\ Len(s) > 1
      BY <3>1
    <3> QED BY <2>3, <3>1, <3>2 DEF Serves
  <2> QED BY <1>1, <1>2, <2>1, <2>2, <2>3
<1>3. Serves(t)
  BY <1>2 DEF Serves
<1> QED BY <1>3 DEF t

\* Below a frame that is not a bottom one there is a loop that it serves, or a
\* frame that minds nothing.
LEMMA ServesUnder ==
  ASSUME NEW s \in Seq(Frames), s # <<>>, Serves(s), Based(s), Top(s).op # "yield"
  PROVE  /\ Under(s) \in Seq(Frames) /\ Serves(Under(s))
         /\ Under(s) = <<>> \/ /\ Top(Under(s)).op \notin {"resume", "coro_transfer", "mget", "await"}
                               /\ Top(Under(s)).op = "resume_childs" =>
                                    /\ Top(Under(s)).kid # Nil
                                    /\ Top(s).op \in Serve /\ Top(s).co = Top(Under(s)).kid
<1>1. /\ Len(s) \in Nat \ {0} /\ Len(Under(s)) = Len(s) - 1 /\ Under(s) \in Seq(Frames)
      /\ \A i \in 1..Len(s) - 1 : Under(s)[i] = s[i]
  BY PopLemma
<1>2. ASSUME Under(s) # <<>>
      PROVE  /\ Top(Under(s)).op \notin {"resume", "coro_transfer", "mget", "await"}
             /\ Top(Under(s)).op = "resume_childs" =>
                  /\ Top(Under(s)).kid # Nil
                  /\ Top(s).op \in Serve /\ Top(s).co = Top(Under(s)).kid
  <2>1. PICK n : n = Len(s) - 1
    OBVIOUS
  <2>2. n \in 1..Len(s) /\ n < Len(s) /\ n + 1 = Len(s) /\ n \in 1..Len(s) - 1
    BY <1>1, <1>2, <2>1
  <2>3. Top(Under(s)) = s[n] /\ Top(s) = s[n+1]
    BY <1>1, <2>1, <2>2 DEF Top
  <2>4. /\ s[n].op \notin {"resume", "coro_transfer"}
        /\ s[n].op = "resume_childs" => s[n].kid # Nil /\ s[n+1].op \in Serve /\ s[n+1].co = s[n].kid
    BY <2>2 DEF Serves
  <2>5. s[n].op \notin {"mget", "await"}
    <3>1. n = 1 => s[n].op \notin {"mget", "await"}
      BY <2>2, <2>3 DEF Serves
    <3>2. s[n].op \in {"mget", "await"} => n = 1
      BY <2>2 DEF Based, Nest
    <3> QED BY <3>1, <3>2
  <2> QED BY <2>3, <2>4, <2>5
<1> QED BY <1>1, <1>2, ServesPop

-----------------------------------------------------------------------------
(* Loops that reach *)

FullLoop(r, a) ==
  stack[r] # <<>> /\ Top(stack[r]) = Frame("resume_childs", a, Nil, Len(childs[a]))

\* A loop that begins reaches all children there are.
LEMMA LoopReaches ==
  ASSUME TypeOK, SchedInv, NEW r \in Ctx, NEW a \in Ctx, FullLoop(r, a),
         NEW q \in Live, parent[q] = a
  PROVE  SweepReaches(a, q)
<1>1. q \in Elems(childs[a]) \/ \E o \in Ctx : q \in Hands(stack[o])
  BY DEF SchedInv, Lists
<1>2. CASE q \in Elems(childs[a])
  <2>1. childs[a] \in Seq(Coro) /\ stack[r] \in Seq(Frames)
    BY DEF TypeOK
  <2>2. PICK j \in 1..Len(childs[a]) : childs[a][j] = q
    BY <1>2 DEF Elems
  <2>3. PICK n : n = Len(stack[r])
    OBVIOUS
  <2>4. /\ n \in 1..Len(stack[r]) /\ DOMAIN stack[r] = 1..Len(stack[r])
        /\ stack[r][n] = Frame("resume_childs", a, Nil, Len(childs[a]))
    BY <2>1, <2>3, PopLemma DEF FullLoop, Top
  <2>5. j \in 1..stack[r][n].left /\ j \in DOMAIN childs[a]
    BY <2>1, <2>2, <2>4 DEF Frame
  <2>6. stack[r][n].op = "resume_childs" /\ stack[r][n].co = a
    BY <2>4 DEF Frame
  <2> QED BY <2>2, <2>4, <2>5, <2>6 DEF SweepReaches
<1>3. CASE \E o \in Ctx : q \in Hands(stack[o])
  <2>1. PICK o \in Ctx : \E i \in 1..Len(stack[o]) : stack[o][i].kid = q /\ q # Nil
    BY <1>3 DEF Hands
  <2>2. PICK i \in 1..Len(stack[o]) : stack[o][i].kid = q /\ q # Nil
    BY <2>1
  <2>3. stack[o][i].op = "resume_childs" /\ stack[o][i].co = a
    BY <2>2, FrameOf DEF Fits
  <2>4. i \in DOMAIN stack[o]
    BY DEF TypeOK
  <2> QED BY <2>2, <2>3, <2>4 DEF SweepReaches
<1> QED BY <1>1, <1>2, <1>3

LoopsReach ==
  \A r, a \in Ctx : FullLoop(r, a) => \A q \in Live : parent[q] = a => SweepReaches(a, q)

\* In every state that the invariant admits.
LEMMA AllLoopsReach == TypeOK /\ SchedInv => LoopsReach
  BY LoopReaches DEF LoopsReach

\* No loop is over the children of q while a call that is not as deep is at work.
LEMMA NoLoop ==
  ASSUME TypeOK, SchedInv, NEW q \in Ctx,
         IF stack[current] # <<>> /\ Top(stack[current]).op \in Nest
           THEN Depth(Top(stack[current])) <= 2 * Lv(q)
           ELSE q = current
  PROVE  \A r \in Ctx : \A i \in 1..Len(stack[r]) :
           stack[r][i].op = "resume_childs" => stack[r][i].co # q
<1> SUFFICES ASSUME NEW r \in Ctx, NEW i \in 1..Len(stack[r]),
                    stack[r][i].op = "resume_childs", stack[r][i].co = q
             PROVE  FALSE
  OBVIOUS
<1>1. Lv(q) \in Nat /\ Depth(stack[r][i]) = 2 * Lv(q) + 1 /\ stack[r][i].op \in Nest
  BY LvNat DEF Depth, Nest
<1>2. CASE stack[current] # <<>> /\ Top(stack[current]).op \in Nest
  <2>1. Depth(Top(stack[current])) \in Nat /\ Depth(Top(stack[current])) <= 2 * Lv(q)
    BY <1>2, RunningGood, DepthNat
  <2>2. r = current /\ i = Len(stack[current])
    <3> SUFFICES ASSUME r # current \/ i # Len(stack[r]) PROVE FALSE
      OBVIOUS
    <3>1. Depth(stack[r][i]) < Depth(Top(stack[current]))
      BY <1>1, <1>2, TopDeepest
    <3> QED BY <1>1, <2>1, <3>1
  <2>3. stack[r][i] = Top(stack[current])
    BY <2>2 DEF Top
  <2> QED BY <1>1, <2>1, <2>3
<1>3. CASE ~(stack[current] # <<>> /\ Top(stack[current]).op \in Nest)
  <2>1. q = current /\ r # current
    BY <1>1, <1>3, AtBase
  <2>2. Depth(stack[r][i]) <= 2 * Lv(current)
    BY <1>1, <2>1, OthersAbove
  <2> QED BY <1>1, <2>1, <2>2
<1> QED BY <1>2, <1>3

\* So nothing is reached below q.
LEMMA NotReached ==
  ASSUME TypeOK, SchedInv, NEW q \in Ctx,
         IF stack[current] # <<>> /\ Top(stack[current]).op \in Nest
           THEN Depth(Top(stack[current])) <= 2 * Lv(q)
           ELSE q = current
  PROVE  /\ \A d : ~SweepReaches(q, d)
         /\ \A c : ~Heads(q, c)
<1>1. \A r \in Ctx : DOMAIN stack[r] = 1..Len(stack[r])
  BY DEF TypeOK
<1> QED BY <1>1, NoLoop DEF SweepReaches, Heads

-----------------------------------------------------------------------------
(* What a change of the running stack leaves alone *)

\* The running context's stack becomes s; below the old top nothing changes.
Grows(s) ==
  /\ Become(s) /\ s \in Seq(Frames)
  /\ \A i \in 1..Len(stack[current]) - 1 : i \in 1..Len(s) /\ s[i] = stack[current][i]

\* Which stacks such a step changes.
LEMMA GrowsStacks ==
  ASSUME TypeOK, NEW s, Grows(s)
  PROVE  /\ stack'[current] = s /\ current \in Ctx
         /\ \A r \in Ctx : r # current => stack'[r] = stack[r]
         /\ \A r \in Ctx : Len(stack[r]) \in Nat /\ DOMAIN stack[r] = 1..Len(stack[r])
         /\ Len(s) \in Nat /\ DOMAIN s = 1..Len(s) /\ DOMAIN stack'[current] = 1..Len(s)
BY DEF TypeOK, Grows, Become

\* A loop reaches what it reached, unless it is at work itself.
LEMMA GrowsReaches ==
  ASSUME TypeOK, NEW s, Grows(s), UNCHANGED childs,
         stack[current] = <<>> \/ Top(stack[current]).op # "resume_childs"
  PROVE  \A p, q : SweepReaches(p, q) => SweepReaches(p, q)'
<1> SUFFICES ASSUME NEW p, NEW q, SweepReaches(p, q) PROVE SweepReaches(p, q)'
  OBVIOUS
<1>1. PICK r \in Ctx : \E i \in DOMAIN stack[r] :
        /\ stack[r][i].op = "resume_childs" /\ stack[r][i].co = p
        /\ stack[r][i].kid = q \/ \E j \in 1..stack[r][i].left : j \in DOMAIN childs[p] /\ childs[p][j] = q
  BY DEF SweepReaches
<1>2. PICK i \in 1..Len(stack[r]) :
        /\ stack[r][i].op = "resume_childs" /\ stack[r][i].co = p
        /\ stack[r][i].kid = q \/ \E j \in 1..stack[r][i].left : j \in DOMAIN childs[p] /\ childs[p][j] = q
  BY <1>1, GrowsStacks
<1>3. i \in DOMAIN stack'[r] /\ stack'[r][i] = stack[r][i]
  <2>1. CASE r # current
    BY <1>2, <2>1, GrowsStacks
  <2>2. CASE r = current
    <3>1. i # Len(stack[current])
      <4> SUFFICES ASSUME i = Len(stack[current]) PROVE FALSE
        OBVIOUS
      <4>1. stack[r][i] = Top(stack[current]) /\ stack[current] # <<>>
        BY <1>2, <2>2, GrowsStacks DEF Top
      <4> QED BY <1>2, <4>1
    <3>2. i \in 1..Len(stack[current]) - 1
      BY <2>2, <3>1, GrowsStacks
    <3> QED BY <2>2, <3>2, GrowsStacks DEF Grows
  <2> QED BY <2>1, <2>2
<1> QED BY <1>2, <1>3 DEF SweepReaches

\* A child below the top stays in the same hands.
LEMMA GrowsSame ==
  ASSUME TypeOK, NEW s, Grows(s), NEW r \in Ctx, NEW i \in 1..Len(stack'[r]),
         r # current \/ i < Len(stack[current]) - 1,
         r # current => current' = current \/ r # current'
  PROVE  SameAt(r, i)
<1>1. CASE r # current
  BY <1>1, GrowsStacks DEF SameAt
<1>2. CASE r = current
  <2>1. i \in 1..Len(stack[current]) - 1 /\ i + 1 \in 1..Len(stack[current]) - 1
    BY <1>2, GrowsStacks
  <2>2. i + 1 \in 1..Len(s) /\ s[i] = stack[current][i] /\ s[i+1] = stack[current][i+1]
    BY <2>1 DEF Grows
  <2> QED BY <1>2, <2>1, <2>2, GrowsStacks DEF SameAt
<1> QED BY <1>1, <1>2

\* Nobody comes to be in yield().
LEMMA GrowsYields ==
  ASSUME TypeOK, NEW s, Grows(s), NEW d \in Ctx, Yields(d)',
         d = current => \A i \in 1..Len(s) : i >= Len(stack[current]) => s[i].op # "yield"
  PROVE  Yields(d)
<1>1. CASE d # current
  BY <1>1, GrowsStacks DEF Yields
<1>2. CASE d = current
  <2>1. PICK j \in 1..Len(s) : s[j].op = "yield"
    BY <1>2, GrowsStacks DEF Yields
  <2>2. j \in 1..Len(stack[current]) - 1
    BY <1>2, <2>1, GrowsStacks
  <2>3. j \in 1..Len(stack[current]) /\ s[j] = stack[current][j]
    BY <2>2, GrowsStacks DEF Grows
  <2> QED BY <1>2, <2>1, <2>3 DEF Yields
<1> QED BY <1>1, <1>2

\* A call that goes down does not change what its stack waits in.
LEMMA GrowsBlocked ==
  ASSUME TypeOK, NEW s, Grows(s), UNCHANGED current, Serves(stack[current]),
         stack[current] # <<>>, Top(stack[current]).op \in Nest,
         \A i \in 1..Len(s) : i >= Len(stack[current]) => s[i].op \in Nest,
         NEW c \in Coro, NEW op \in {"mget", "await"}
  PROVE  Blocked(c, op)' <=> Blocked(c, op)
<1>1. CASE c # current
  BY <1>1, GrowsStacks DEF Blocked, Ctx
<1>2. CASE c = current
  <2>1. Len(stack[current]) \in Nat \ {0} /\ Top(stack[current]) = stack[current][Len(stack[current])]
    BY PopLemma DEF TypeOK, Top
  <2>2. (s # <<>> <=> Len(s) > 0) /\ Len(s) \in Nat
    BY GrowsStacks DEF Grows
  <2>3. CASE Len(stack[current]) = 1
    <3>1. ~Blocked(c, op)
      BY <1>2, <2>3 DEF Blocked
    <3>2. s # <<>> => s[1].op \in Nest
      BY <2>2, <2>3
    <3> QED BY <1>2, <3>1, <3>2, GrowsStacks DEF Blocked, Nest
  <2>4. CASE Len(stack[current]) = 2
    <3>1. 1 \in 1..Len(s) /\ s[1] = stack[current][1]
      BY <2>4 DEF Grows
    <3>2. stack[current][1].op # op
      BY <2>1, <2>4 DEF Serves, Nest
    <3> QED BY <1>2, <3>1, <3>2, GrowsStacks DEF Blocked
  <2>5. CASE Len(stack[current]) > 2
    <3>1. /\ 1 \in 1..Len(stack[current]) - 1 /\ 2 \in 1..Len(stack[current]) - 1
      BY <2>1, <2>5
    <3>2. 1 \in 1..Len(s) /\ 2 \in 1..Len(s) /\ s[1] = stack[current][1]
      BY <3>1 DEF Grows
    <3> QED BY <1>2, <2>2, <2>5, <3>2, GrowsStacks DEF Blocked
  <2>6. Len(stack[current]) = 1 \/ Len(stack[current]) = 2 \/ Len(stack[current]) > 2
    <3>1. \A n \in Nat \ {0} : n = 1 \/ n = 2 \/ n > 2
      OBVIOUS
    <3> QED BY <2>1, <3>1, Zenon
  <2> QED BY <2>3, <2>4, <2>5, <2>6
<1> QED BY <1>1, <1>2

-----------------------------------------------------------------------------
(* Steps *)

\* A step that leaves c as it was, as far as its WAIT bit goes.
WordKept(c) ==
  /\ \A op \in {"mget", "await"} : Blocked(c, op)' => Blocked(c, op)
  /\ "WAIT" \in evet'[c] => "WAIT" \in evet[c]
  /\ "WAIT" \in msg'[c] => "WAIT" \in msg[c]
  /\ Blocked(c, "mget")' /\ messages'[c] = <<>> =>
       messages[c] = <<>> /\ ("WAIT" \in msg[c] => "WAIT" \in msg'[c])
  /\ \/ c \notin Chain' \/ ~Waits(c)
     \/ c \in Chain /\ \A op \in {"mget", "await"} : Blocked(c, op) => Blocked(c, op)'

\* Then its bits are still right.
LEMMA WordStays ==
  ASSUME NEW c \in Coro, Word(c), WordKept(c)
  PROVE  Word(c)'
<1>1. /\ Blocked(c, "mget")' => Blocked(c, "mget")
      /\ Blocked(c, "await")' => Blocked(c, "await")
      /\ Waits(c)' => Waits(c)
  BY DEF WordKept, Waits
<1>2. Blocked(c, "mget")' => "WAIT" \notin evet'[c] /\ (messages'[c] = <<>> => "WAIT" \in msg'[c])
  BY <1>1 DEF Word, WordKept
<1>3. Blocked(c, "await")' => "WAIT" \notin msg'[c]
  BY <1>1 DEF Word, WordKept
<1>4. (c \in Chain)' /\ ~Blocked(c, "mget")' /\ ~Blocked(c, "await")' => ~Waits(c)'
  BY <1>1 DEF Word, WordKept
<1> QED BY <1>2, <1>3, <1>4 DEF Word

\* A calm step keeps the invariant.
LEMMA CalmStep ==
  ASSUME Base, WakeInv, NEW a, Calm(a),
         \A c \in Coro : Word(c)' \/ WordKept(c),
         \A r \in Ctx : Serves(stack'[r]),
         \A r \in Ctx : \A i \in 1..Len(stack'[r]) :
           stack'[r][i].kid # Nil => SameAt(r, i) \/ \A c \in Coro : HandTold(r, i, c)'
  PROVE  WakeInv'
<1>1. \A c \in Coro : Word(c)'
  BY WordStays DEF WakeInv
<1>2. Held'
  <2>1. ASSUME NEW r \in Ctx, NEW i \in 1..Len(stack'[r]), NEW c \in Coro PROVE HandTold(r, i, c)'
    <3>1. CASE stack'[r][i].kid = Nil
      BY <3>1 DEF HandTold
    <3>2. CASE stack'[r][i].kid # Nil
      BY <3>2, CalmHeld
    <3> QED BY <3>1, <3>2
  <2> QED BY <2>1 DEF Held
<1>3. \A c \in Coro : Due(c)' => Reached(c)'
  BY CalmReached
<1> QED BY <1>1, <1>2, <1>3 DEF WakeInv

\* A step that some call makes at the bottom of its stack: it pushes calls
\* without a child in their hands, and may clear the bits of a, over whose
\* children it begins to loop.
LEMMA BaseStep ==
  ASSUME Base, (TypeOK /\ SchedInv)', WakeInv, UNCHANGED <<current, links, childs, stat>>,
         Len(stack[current]) <= 1,
         stack[current] = <<>> \/ Top(stack[current]).op \notin Nest \cup {"yield"},
         NEW s \in Seq(Frames), Become(s), Serves(s), \A i \in 1..Len(s) : s[i].kid = Nil,
         NEW a \in Ctx,
         a # Nil => /\ s # <<>> /\ Top(s) = Frame("resume_childs", a, Nil, Len(childs[a]))
                    /\ Lv(current) <= Lv(a) /\ a \in Live,
         \A i \in 1..Len(s) : s[i].op = "yield" => a = current,
         \A d \in Coro : d # a => evet'[d] = evet[d] /\ msg'[d] = msg[d],
         \A d \in Coro : d # current =>
           /\ messages'[d] = messages[d]
           /\ "WAIT" \in evet'[d] <=> "WAIT" \in evet[d]
           /\ "WAIT" \in msg'[d] <=> "WAIT" \in msg[d],
         current # Nil => Word(current)' /\ ~Due(current)'
  PROVE  WakeInv'
<1>1. Grows(s)
  BY GrowsStacks DEF Grows, Base, TypeOK
<1>2. /\ stack'[current] = s /\ current \in Ctx /\ TypeOK /\ SchedInv
      /\ \A r \in Ctx : r # current => stack'[r] = stack[r]
  BY <1>1, GrowsStacks DEF Base
<1>3. stack[current] = <<>> \/ Top(stack[current]).op \notin Nest
  OBVIOUS
<1>4. \A i \in 1..Len(stack[current]) : stack[current][i].op \notin Nest /\ stack[current][i].kid = Nil
  <2>1. \A i \in 1..Len(stack[current]) : stack[current][i].op \notin Nest
    BY <1>2, <1>3, AtBase
  <2> QED BY <1>2, <2>1, FrameOf DEF Fits, Nest
<1>5. \A p, q : SweepReaches(p, q) => SweepReaches(p, q)'
  <2>1. stack[current] = <<>> \/ Top(stack[current]).op # "resume_childs"
    BY DEF Nest
  <2> QED BY <1>1, <1>2, <2>1, GrowsReaches
<1>6. ASSUME NEW c \in Coro, Due(c)' PROVE c # current /\ Due(c) /\ c \in Live
  <2>1. c # current
    BY <1>6, NilAssumption
  <2>2. c # current' /\ stack'[c] = stack[c] /\ messages'[c] = messages[c]
    BY <1>2, <2>1 DEF Ctx
  <2>3. Due(c)
    BY <1>6, <2>1, <2>2 DEF Due, Blocked
  <2> QED BY <2>1, <2>3, DueFacts DEF WakeInv, Words
<1>7. ASSUME NEW c \in Coro, Due(c)' PROVE Kept(c, a)
  <2>1. Due(c) /\ c \in Live /\ parent' = parent /\ Line(c) \subseteq Live
    BY <1>2, <1>6, <1>7, LineUp DEF links, SchedInv
  <2>2. ASSUME NEW d \in Line(c), d # a
        PROVE  (ChildUp(d) => ChildUp(d)') /\ (Waits(d)' => Waits(d)) /\ (Yields(d)' => Yields(d))
    <3>1. d \in Coro /\ d \in Ctx
      BY <2>1 DEF Live, Ctx
    <3>2. evet'[d] = evet[d] /\ msg'[d] = msg[d]
      BY <2>2, <3>1
    <3>3. Yields(d)' => Yields(d)
      <4>1. d = current => \A i \in 1..Len(s) : i >= Len(stack[current]) => s[i].op # "yield"
        BY <2>2
      <4> QED BY <1>1, <1>2, <3>1, <4>1, GrowsYields
    <3> QED BY <3>2, <3>3 DEF ChildUp, Waits
  <2>3. ASSUME NEW q \in Line(c), parent[q] = a, a \in Coro PROVE SweepReaches(a, q)'
    <3>1. FullLoop(current, a)'
      <4>1. s # <<>> /\ Top(s) = Frame("resume_childs", a, Nil, Len(childs[a]))
        BY <2>3, NilAssumption
      <4> QED BY <1>2, <4>1 DEF FullLoop
    <3>2. LoopsReach'
      <4>1. TypeOK /\ SchedInv => LoopsReach
        BY AllLoopsReach
      <4> QED BY AllLoopsReach, PTL
    <3>3. (q \in Live)' /\ parent'[q] = a
      BY <2>1, <2>3 DEF Live
    <3>4. current' = current /\ current \in Ctx /\ a \in Ctx
      BY <1>2
    <3>5. PICK o : o = current
      OBVIOUS
    <3>6. o \in Ctx /\ FullLoop(o, a)'
      BY <3>1, <3>4, <3>5 DEF FullLoop
    <3> QED BY <3>2, <3>3, <3>6 DEF LoopsReach
  <2> QED BY <1>5, <2>1, <2>2, <2>3 DEF Kept
<1>8. ASSUME NEW r \in Ctx, NEW i \in 1..Len(stack[r]), stack[r][i].kid # Nil
      PROVE  a \notin Ancestors(stack[r][i].kid)
  <2> SUFFICES ASSUME a \in Ancestors(stack[r][i].kid) PROVE FALSE
    OBVIOUS
  <2>1. a \in Coro /\ a # Nil /\ Lv(current) <= Lv(a)
    BY NilAssumption DEF Ancestors
  <2>2. r # current
    BY <1>4, <1>8
  <2>3. PICK f : f = stack[r][i]
    OBVIOUS
  <2>4. /\ f \in Frames /\ f.op = "resume_childs" /\ f.kid \in Live /\ parent[f.kid] = f.co
        /\ f.op \in Nest
    BY <1>2, <1>8, <2>3, FrameOf DEF Fits, Nest
  <2>5. Depth(f) <= 2 * Lv(current)
    BY <1>2, <2>2, <2>3, <2>4, OthersAbove
  <2>6. Depth(f) = 2 * Lv(f.co) + 1 /\ Lv(f.co) \in Nat /\ Lv(current) \in Nat /\ Lv(a) \in Nat
    BY <1>2, <2>4, DepthNat, LvNat DEF Depth
  <2>7. level[f.kid] = Lv(f.co) + 1
    BY <1>2, <2>4 DEF SchedInv, Tree
  <2>8. level[a] < level[f.kid] /\ level[a] = Lv(a)
    BY <1>2, <2>1, <2>3, <2>4, AncestorsAbove DEF SchedInv, Lv
  <2> QED BY <2>1, <2>5, <2>6, <2>7, <2>8
<1>9. Calm(a)
  BY <1>7, <1>8 DEF Calm
<1>10. ASSUME NEW c \in Coro PROVE Word(c)' \/ WordKept(c)
  <2>1. CASE c = current
    BY <2>1, NilAssumption
  <2>2. CASE c # current
    <3>1. /\ stack'[c] = stack[c] /\ messages'[c] = messages[c] /\ current' = current
          /\ "WAIT" \in evet'[c] <=> "WAIT" \in evet[c]
          /\ "WAIT" \in msg'[c] <=> "WAIT" \in msg[c]
      BY <1>2, <2>2 DEF Ctx
    <3>2. \A op \in {"mget", "await"} : Blocked(c, op)' <=> Blocked(c, op)
      BY <3>1 DEF Blocked
    <3>3. Chain' = Chain
      BY <1>2, ChainSame
    <3>4. (c \notin Chain \/ c \in Chain)
      OBVIOUS
    <3> QED BY <3>1, <3>2, <3>3 DEF WordKept
  <2> QED BY <2>1, <2>2
<1>11. ASSUME NEW r \in Ctx PROVE Serves(stack'[r])
  BY <1>2 DEF WakeInv
<1>12. ASSUME NEW r \in Ctx, NEW i \in 1..Len(stack'[r]), stack'[r][i].kid # Nil
       PROVE  SameAt(r, i)
  <2>1. r # current
    BY <1>2, <1>12
  <2> QED BY <1>1, <1>2, <2>1, GrowsSame
<1> QED BY <1>9, <1>10, <1>11, <1>12, CalmStep

\* The smallest stacks.
LEMMA SmallStacks ==
  /\ <<>> \in Seq(Frames) /\ Serves(<<>>) /\ Len(<<>>) = 0
  /\ \A f \in Frames : f.kid = Nil =>
       /\ <<f>> \in Seq(Frames) /\ Serves(<<f>>) /\ Len(<<f>>) = 1 /\ <<f>>[1] = f
       /\ Top(<<f>>) = f /\ <<f>> # <<>>
BY DEF Serves, Top

\* s is the small stack t with a loop on top.
Tops(s, t, a) ==
  /\ s \in Seq(Frames) /\ s # <<>> /\ Serves(s) /\ \A i \in 1..Len(s) : s[i].kid = Nil
  /\ Top(s) = Frame("resume_childs", a, Nil, Len(childs[a]))
  /\ Len(s) = Len(t) + 1 /\ \A i \in 1..Len(t) : s[i] = t[i]
  /\ s[Len(t)+1].op = "resume_childs"

\* The loop on top of a small stack.
LEMMA SmallLoop ==
  ASSUME TypeOK, NEW t \in Seq(Frames), Serves(t), Len(t) <= 2, \A i \in 1..Len(t) : t[i].kid = Nil,
         t = <<>> \/ Top(t).op \in {"drain", "execute", "yield"},
         NEW a \in Ctx, NEW s, s = Append(t, Frame("resume_childs", a, Nil, Len(childs[a])))
  PROVE  Tops(s, t, a)
<1> DEFINE f == Frame("resume_childs", a, Nil, Len(childs[a]))
<1>1. f \in Frames /\ f.op = "resume_childs" /\ f.kid = Nil
  BY FrameType, LenProperties DEF Frame, TypeOK, Ops, Ctx
<1>2. MayPush(t, f)
  BY DEF MayPush
<1> HIDE DEF f
<1>3. /\ Append(t, f) \in Seq(Frames) /\ Append(t, f) # <<>> /\ Top(Append(t, f)) = f
      /\ Len(Append(t, f)) = Len(t) + 1 /\ \A i \in 1..Len(t) : Append(t, f)[i] = t[i]
  BY <1>1, PushLemma
<1>4. Append(t, f)[Len(t)+1] = f
  BY <1>3 DEF Top
<1>5. Serves(Append(t, f))
  BY <1>1, <1>2, ServesPush
<1>6. s = Append(t, f)
  BY DEF f
<1>7. \A i \in 1..Len(s) : i = Len(t) + 1 \/ i \in 1..Len(t)
  BY <1>3, <1>6
<1>8. f = Frame("resume_childs", a, Nil, Len(childs[a]))
  BY DEF f
<1> QED BY <1>1, <1>3, <1>4, <1>5, <1>6, <1>7, <1>8 DEF Tops

\* A step at the bottom of a stack that does not wait.
LEMMA BaseCall ==
  ASSUME Base, (TypeOK /\ SchedInv)', WakeInv, UNCHANGED <<current, links, childs, stat>>,
         Len(stack[current]) <= 1,
         stack[current] = <<>> \/ Top(stack[current]).op \notin Nest \cup {"yield"},
         NEW s \in Seq(Frames), Become(s), Serves(s), \A i \in 1..Len(s) : s[i].kid = Nil,
         s = <<>> \/ Len(s) = 1 \/ s[1].op \notin {"mget", "await"},
         NEW a \in Ctx,
         a # Nil => /\ s # <<>> /\ Top(s) = Frame("resume_childs", a, Nil, Len(childs[a]))
                    /\ Lv(current) <= Lv(a) /\ a \in Live,
         \A i \in 1..Len(s) : s[i].op = "yield" => a = current,
         \/ UNCHANGED flags
         \/ /\ evet' = [evet EXCEPT ![a] = @ \ {"CHLD"}] /\ msg' = [msg EXCEPT ![a] = @ \ {"CHLD"}],
         \A d \in Coro : d # current => messages'[d] = messages[d]
  PROVE  WakeInv'
<1>1. evet \in [Coro -> SUBSET {"WAIT", "CHLD"}] /\ msg \in [Coro -> SUBSET {"WAIT", "CHLD"}]
  BY DEF Base, TypeOK
<1>2. \A d \in Coro : /\ d # a => evet'[d] = evet[d] /\ msg'[d] = msg[d]
                      /\ "WAIT" \in evet'[d] <=> "WAIT" \in evet[d]
                      /\ "WAIT" \in msg'[d] <=> "WAIT" \in msg[d]
  BY <1>1 DEF flags
<1>3. stack'[current] = s /\ current \in Ctx
  BY DEF Base, TypeOK, Become
<1>4. ASSUME current # Nil PROVE Word(current)' /\ ~Due(current)'
  <2>1. PICK o \in Coro : o = current
    BY <1>3, <1>4 DEF Ctx
  <2>2. \A op \in {"mget", "await"} : ~Blocked(o, op) /\ ~Blocked(o, op)'
    BY <1>3, <2>1 DEF Blocked
  <2>3. ~Waits(o)
    <3>1. o \in Chain /\ Word(o)
      BY <2>1 DEF Chain, WakeInv
    <3> QED BY <2>2, <3>1 DEF Word
  <2>4. ~Waits(o)'
    BY <1>2, <2>3 DEF Waits
  <2>5. Word(o)' /\ ~Due(o)'
    BY <2>2, <2>4 DEF Word, Due
  <2> QED BY <2>1, <2>5
<1> QED BY <1>2, <1>4, BaseStep

\* A stack of at most one call.
LEMMA SmallLen ==
  ASSUME NEW t \in Seq(Frames), Len(t) <= 1
  PROVE  /\ Len(t) <= 2 /\ (t # <<>> => Len(t) = 1)
         /\ \A i \in 1..Len(t) : i = 1
<1>1. Len(t) \in Nat
  BY LenProperties
<1>2. t # <<>> => Len(t) \in Nat \ {0}
  BY PopLemma
<1>3. \A n \in Nat : n <= 1 => n <= 2 /\ (n # 0 => n = 1) /\ \A i \in 1..n : i = 1
  OBVIOUS
<1> QED BY <1>1, <1>2, <1>3

\* A sweep from the bottom of a stack.
LEMMA BaseSweep ==
  ASSUME Base, (TypeOK /\ SchedInv)', WakeInv, UNCHANGED <<current, links, childs, stat, messages>>,
         Len(stack[current]) <= 1,
         stack[current] = <<>> \/ Top(stack[current]).op \notin Nest \cup {"yield"},
         NEW t \in Seq(Frames), Serves(t), Len(t) <= 1, \A i \in 1..Len(t) : t[i].kid = Nil,
         NEW p \in Live \cup {Nil}, Lv(current) <= Lv(p),
         t = <<>> \/ t[1].op \in {"drain", "execute"} \/ (t[1].op = "yield" /\ p = current),
         Sweep(p, t)
  PROVE  WakeInv'
<1>1. TypeOK /\ p \in Ctx /\ Len(t) \in Nat
  BY LenProperties DEF Base, Live, Ctx
<1>2. t = <<>> \/ Top(t).op \in {"drain", "execute", "yield"}
  <2>1. t # <<>> => Len(t) = 1
    BY SmallLen
  <2> QED BY <2>1 DEF Top
<1>3. PICK s : s = Append(t, Frame("resume_childs", p, Nil, Len(childs[p])))
  OBVIOUS
<1>0. Len(t) <= 2 /\ Serves(t) /\ \A i \in 1..Len(t) : t[i].kid = Nil
  BY SmallLen
<1>4. /\ s \in Seq(Frames) /\ s # <<>> /\ Serves(s) /\ \A i \in 1..Len(s) : s[i].kid = Nil
      /\ Top(s) = Frame("resume_childs", p, Nil, Len(childs[p]))
      /\ Len(s) = Len(t) + 1 /\ \A i \in 1..Len(t) : s[i] = t[i]
      /\ s[Len(t)+1].op = "resume_childs"
  <2>1. TypeOK /\ p \in Ctx /\ Len(t) <= 2 /\ Serves(t)
    BY <1>0, <1>1
  <2>2. \A i \in 1..Len(t) : t[i].kid = Nil
    BY <1>0
  <2>3. t = <<>> \/ Top(t).op \in {"drain", "execute", "yield"}
    BY <1>2
  <2>4. Tops(s, t, p)
    BY <2>1, <2>2, <2>3, <1>3, SmallLoop
  <2> QED BY <2>4 DEF Tops
<1>5. Become(s)
  BY <1>3 DEF Sweep, LoopOver
<1>6. /\ s[1].op \notin {"mget", "await"}
      /\ \A i \in 1..Len(s) : s[i].op = "yield" => p = current
  <2>1. CASE t = <<>>
    <3>1. Len(t) = 0
      BY <2>1
    <3>2. Len(s) = 1 /\ s[1].op = "resume_childs"
      BY <1>4, <3>1
    <3> QED BY <3>2
  <2>2. CASE t # <<>>
    <3>1. Len(t) = 1
      BY <2>2, SmallLen
    <3> QED BY <1>4, <2>2, <3>1
  <2> QED BY <2>1, <2>2
<1>7. UNCHANGED flags \/ (/\ evet' = [evet EXCEPT ![p] = @ \ {"CHLD"}]
                          /\ msg' = [msg EXCEPT ![p] = @ \ {"CHLD"}])
  BY DEF Sweep
<1>8. p # Nil => p \in Live
  OBVIOUS
<1> QED BY <1>1, <1>4, <1>5, <1>6, <1>7, <1>8, BaseCall

\* A call that leaves at most one frame.
LEMMA BaseMark ==
  ASSUME Base, (TypeOK /\ SchedInv)', WakeInv, UNCHANGED <<current, links, childs, stat, flags>>,
         Len(stack[current]) <= 1,
         stack[current] = <<>> \/ Top(stack[current]).op \notin Nest \cup {"yield"},
         NEW s, Become(s), s = <<>> \/ \E f \in Frames : s = <<f>> /\ f.kid = Nil /\ f.op # "yield",
         \A d \in Coro : d # current => messages'[d] = messages[d]
  PROVE  WakeInv'
<1>1. /\ s \in Seq(Frames) /\ Serves(s) /\ \A i \in 1..Len(s) : s[i].kid = Nil /\ s[i].op # "yield"
      /\ s = <<>> \/ Len(s) = 1
  <2>1. CASE s = <<>>
    BY <2>1, SmallStacks
  <2>2. CASE s # <<>>
    <3>1. PICK f \in Frames : s = <<f>> /\ f.kid = Nil /\ f.op # "yield"
      BY <2>2
    <3>2. s \in Seq(Frames) /\ Serves(s) /\ Len(s) = 1 /\ s[1] = f
      BY <3>1, SmallStacks
    <3>3. \A i \in 1..Len(s) : i = 1
      BY <3>2
    <3> QED BY <3>1, <3>2, <3>3
  <2> QED BY <2>1, <2>2
<1>2. Nil \in Ctx
  BY DEF Ctx
<1> QED BY <1>1, <1>2, BaseCall

\* The bottom of a stack.
LEMMA AtBottom ==
  ASSUME Base, WakeInv, NEW op \in {"drain", "execute", "mget", "await"}, In(op)
  PROVE  /\ stack[current] \in Seq(Frames) /\ Len(stack[current]) = 1 /\ stack[current] # <<>>
         /\ stack[current][1].op = op /\ stack[current][1].kid = Nil
         /\ stack[current][1] \in Frames /\ Top(stack[current]) = stack[current][1]
         /\ Under(stack[current]) = <<>> /\ Serves(stack[current])
         /\ stack[current] = <<Top(stack[current])>>
         /\ op = "drain" <=> current = Nil
<1>1. /\ stack[current] # <<>> /\ Top(stack[current]).op = op /\ Top(stack[current]) \in Frames
      /\ Top(stack[current]).kid = Nil /\ stack[current] \in Seq(Frames)
      /\ Good(stack[current], current) /\ Fits(Top(stack[current]), current) /\ current \in Ctx
  BY NoKid, RunningGood DEF Base, TypeOK
<1>2. /\ Len(stack[current]) \in Nat \ {0} /\ Under(stack[current]) \in Seq(Frames)
      /\ Len(Under(stack[current])) = Len(stack[current]) - 1
  BY <1>1, PopLemma
<1>3. Len(stack[current]) = 1
  <2>1. Len(stack[current]) \in 1..Len(stack[current]) /\ stack[current][Len(stack[current])].op = op
    BY <1>1, <1>2 DEF Top
  <2>2. PICK n : n = Len(stack[current])
    OBVIOUS
  <2>3. n \in 1..Len(stack[current]) /\ stack[current][n].op = op /\ op \notin Nest /\ op # "yield"
    BY <2>1, <2>2 DEF Nest
  <2>4. Based(stack[current])
    BY <1>1 DEF Good
  <2>5. n = 1 \/ (n = 2 /\ stack[current][2].op = "yield")
    BY <2>3, <2>4 DEF Based
  <2> QED BY <2>2, <2>3, <2>5
<1>4. Top(stack[current]) = stack[current][1] /\ Under(stack[current]) = <<>>
  BY <1>2, <1>3 DEF Top
<1>5. op = "drain" <=> current = Nil
  <2>1. op # "drain" => current # Nil
    BY MemberFunction DEF MainOps, Base
  <2>2. op = "drain" => current = Nil
    BY <1>1 DEF Fits
  <2> QED BY <2>1, <2>2
<1>6. Serves(stack[current])
  BY <1>1 DEF WakeInv
<1>7. stack[current] = <<Top(stack[current])>>
  BY <1>1, <1>3, <1>4
<1> QED BY <1>1, <1>3, <1>4, <1>5, <1>6, <1>7

\* resume() of the main context.
LEMMA DrainWakes ==
  ASSUME Base, (TypeOK /\ SchedInv)', WakeInv, Drain
  PROVE  WakeInv'
<1>1. /\ stack[current] \in Seq(Frames) /\ Len(stack[current]) = 1 /\ stack[current] # <<>>
      /\ stack[current][1].op = "drain" /\ stack[current][1].kid = Nil
      /\ Top(stack[current]) = stack[current][1]
      /\ Under(stack[current]) = <<>> /\ Serves(stack[current]) /\ current = Nil
  BY AtBottom DEF Drain
<1>2. CASE Pop
  <2>1. UNCHANGED <<current, links, childs, stat, flags>> /\ UNCHANGED messages
    BY <1>1, <1>2, NilAssumption DEF Drain, Sweep, flags
  <2>2. Become(<<>>)
    BY <1>1, <1>2 DEF Pop
  <2> QED BY <1>1, <2>1, <2>2, BaseMark DEF Nest
<1>3. CASE Sweep(Nil, stack[Nil])
  <2>1. UNCHANGED <<current, links, childs, stat, messages>>
    BY DEF Drain
  <2>2. Lv(current) <= Lv(Nil)
    BY <1>1, LvNat DEF Base, Ctx
  <2>3. PICK t : t = stack[current]
    OBVIOUS
  <2>4. /\ t \in Seq(Frames) /\ Serves(t) /\ Len(t) <= 1 /\ \A i \in 1..Len(t) : t[i].kid = Nil
        /\ t[1].op = "drain" /\ Sweep(Nil, t)
    <3>a. stack[current] \in Seq(Frames) /\ Len(stack[current]) = 1
      BY <1>1
    <3>b. t \in Seq(Frames) /\ Len(t) = 1
      BY <3>a, <2>3, Zenon
    <3>0. t \in Seq(Frames) /\ Len(t) <= 1
      BY <3>b
    <3>1. \A i \in 1..Len(t) : i = 1
      BY <3>0, SmallLen
    <3>2. Serves(t) /\ t[1].op = "drain" /\ t[1].kid = Nil
      BY <1>1, <2>3
    <3>3. Sweep(Nil, t)
      BY <1>1, <1>3, <2>3
    <3>4. \A i \in 1..Len(t) : t[i].kid = Nil
      BY <3>1, <3>2
    <3> QED BY <3>0, <3>2, <3>3, <3>4
  <2>5. Top(stack[current]).op \notin Nest \cup {"yield"}
    BY <1>1 DEF Nest
  <2> QED BY <1>1, <2>1, <2>2, <2>4, <2>5, BaseSweep
<1> QED BY <1>2, <1>3 DEF Drain

\* execute(), while there are children.
LEMMA ExecuteWakes ==
  ASSUME Base, (TypeOK /\ SchedInv)', WakeInv, Execute, childs[current] # <<>>
  PROVE  WakeInv'
<1>1. /\ stack[current] \in Seq(Frames) /\ Len(stack[current]) = 1 /\ stack[current] # <<>>
      /\ stack[current][1].op = "execute" /\ stack[current][1].kid = Nil
      /\ Top(stack[current]) = stack[current][1] /\ Serves(stack[current])
  BY AtBottom DEF Execute
<1>2. Sweep(current, stack[current]) /\ UNCHANGED <<current, links, childs, stat, messages>>
  BY DEF Execute
<1>3. current \in Live \cup {Nil} /\ Lv(current) <= Lv(current)
  BY CurrentLives, LvNat DEF Base
<1>4. PICK t : t = stack[current]
  OBVIOUS
<1>5. /\ t \in Seq(Frames) /\ Serves(t) /\ Len(t) <= 1 /\ \A i \in 1..Len(t) : t[i].kid = Nil
      /\ t[1].op = "execute" /\ Sweep(current, t)
  <2>a. stack[current] \in Seq(Frames) /\ Len(stack[current]) = 1
    BY <1>1
  <2>b. t \in Seq(Frames) /\ Len(t) = 1
    BY <2>a, <1>4, Zenon
  <2>0. t \in Seq(Frames) /\ Len(t) <= 1
    BY <2>b
  <2>1. \A i \in 1..Len(t) : i = 1
    BY <2>0, SmallLen
  <2>2. Serves(t) /\ t[1].op = "execute" /\ t[1].kid = Nil
    BY <1>1, <1>4
  <2>3. Sweep(current, t)
    BY <1>2, <1>4
  <2>4. \A i \in 1..Len(t) : t[i].kid = Nil
    BY <2>1, <2>2
  <2> QED BY <2>0, <2>2, <2>3, <2>4
<1>6. Top(stack[current]).op \notin Nest \cup {"yield"} /\ Len(stack[current]) <= 1
  BY <1>1 DEF Nest
<1>7. PICK o : o = current
  OBVIOUS
<1>8. o \in Live \cup {Nil} /\ Lv(current) <= Lv(o) /\ Sweep(o, t)
  BY <1>3, <1>5, <1>7
<1> QED BY <1>2, <1>5, <1>6, <1>7, <1>8, BaseSweep

\* A reactor call returns.
LEMMA AwaitReturnWakes ==
  ASSUME Base, (TypeOK /\ SchedInv)', WakeInv, AwaitReturn
  PROVE  WakeInv'
<1>1. Len(stack[current]) = 1 /\ Top(stack[current]).op = "await" /\ Under(stack[current]) = <<>>
  BY AtBottom DEF AwaitReturn
<1>2. Become(<<>>) /\ UNCHANGED <<current, links, childs, stat, flags>> /\ UNCHANGED messages
  BY <1>1 DEF AwaitReturn, Pop
<1> QED BY <1>1, <1>2, BaseMark DEF Nest

\* The stack of a call that parks.
Parking(s, f, a) == Tops(s, <<f, Mark("yield")>>, a) /\ Len(s) = 3 /\ s[1] = f

\* It serves, and holds no child.
LEMMA ParkStack ==
  ASSUME TypeOK, NEW f \in Frames, f.op \in {"mget", "await"}, f.kid = Nil, NEW a \in Ctx,
         NEW s, s = Append(<<f, Mark("yield")>>, Frame("resume_childs", a, Nil, Len(childs[a])))
  PROVE  Parking(s, f, a)
<1>1. PICK t : t = <<f, Mark("yield")>>
  OBVIOUS
<1>2. Mark("yield") \in Frames /\ Mark("yield").op = "yield" /\ Mark("yield").kid = Nil
  BY MarkType DEF Ops, Mark, Frame
<1>3. /\ t \in Seq(Frames) /\ Len(t) = 2 /\ t[1] = f /\ t[2].op = "yield" /\ t[2].kid = Nil
      /\ Top(t).op = "yield"
  BY <1>1, <1>2 DEF Top
<1>4. \A i \in 1..Len(t) : i = 1 \/ i = 2
  BY <1>3
<1>5. Serves(t)
  BY <1>3, <1>4 DEF Serves
<1>6. \A i \in 1..Len(t) : t[i].kid = Nil
  BY <1>3, <1>4
<1>7. Len(t) <= 2 /\ Top(t).op \in {"drain", "execute", "yield"}
  BY <1>3
<1>8. s = Append(t, Frame("resume_childs", a, Nil, Len(childs[a])))
  BY <1>1
<1>9. Tops(s, t, a)
  BY <1>3, <1>5, <1>6, <1>7, <1>8, SmallLoop
<1>10. Len(s) = 3 /\ s[1] = f
  BY <1>3, <1>9 DEF Tops
<1> QED BY <1>1, <1>9, <1>10 DEF Parking

\* The running coroutine parks.
LEMMA ParkStep ==
  ASSUME Base, (TypeOK /\ SchedInv)', WakeInv, UNCHANGED <<current, links, childs, stat, messages>>,
         Len(stack[current]) <= 1, current # Nil,
         stack[current] = <<>> \/ Top(stack[current]).op \notin Nest \cup {"yield"},
         NEW f \in Frames, f.op \in {"mget", "await"}, f.kid = Nil,
         LoopOver(current, <<f, Mark("yield")>>),
         IF f.op = "mget"
           THEN /\ messages[current] = <<>>
                /\ msg' = [msg EXCEPT ![current] = {"WAIT"}]
                /\ evet' = [evet EXCEPT ![current] = @ \ {"CHLD"}]
           ELSE /\ evet' = [evet EXCEPT ![current] = {"WAIT"}]
                /\ msg' = [msg EXCEPT ![current] = @ \ {"CHLD"}]
  PROVE  WakeInv'
<1>1. /\ TypeOK /\ SchedInv /\ current \in Coro /\ current \in Ctx /\ current \in Live
      /\ evet \in [Coro -> SUBSET {"WAIT", "CHLD"}] /\ msg \in [Coro -> SUBSET {"WAIT", "CHLD"}]
  BY CurrentLives DEF Base, TypeOK
<1>2. PICK o : o = current
  OBVIOUS
<1>3. PICK s : s = Append(<<f, Mark("yield")>>, Frame("resume_childs", o, Nil, Len(childs[o])))
  OBVIOUS
<1>4. Tops(s, <<f, Mark("yield")>>, o) /\ Len(s) = 3 /\ s[1] = f
  <2>1. Parking(s, f, o)
    BY <1>1, <1>2, <1>3, ParkStack
  <2> QED BY <2>1 DEF Parking
<1>5. /\ s \in Seq(Frames) /\ s # <<>> /\ Serves(s) /\ \A i \in 1..Len(s) : s[i].kid = Nil
      /\ Top(s) = Frame("resume_childs", o, Nil, Len(childs[o]))
  BY <1>4 DEF Tops
<1>6. Become(s) /\ stack'[o] = s
  <2>1. Become(s)
    <3>1. stack' = [stack EXCEPT ![current] =
             Append(<<f, Mark("yield")>>, Frame("resume_childs", current, Nil, Len(childs[current])))]
      BY DEF LoopOver, Become
    <3>2. s = Append(<<f, Mark("yield")>>, Frame("resume_childs", current, Nil, Len(childs[current])))
      BY <1>2, <1>3
    <3> QED BY <3>1, <3>2 DEF Become
  <2> QED BY <1>1, <1>2, <2>1 DEF Become, TypeOK
<1>7. ~Waits(o)
  <2>1. \A op \in {"mget", "await"} : ~Blocked(o, op)
    BY <1>1, <1>2 DEF Blocked
  <2>2. o \in Chain /\ Word(o)
    BY <1>1, <1>2 DEF Chain, WakeInv
  <2> QED BY <2>1, <2>2 DEF Word
<1>8. /\ Blocked(o, f.op)' /\ \A op \in {"mget", "await"} : op # f.op => ~Blocked(o, op)'
  <2>1. stack'[o] # <<>> /\ stack'[o][1].op = f.op /\ Len(stack'[o]) > 1
    BY <1>4, <1>5, <1>6
  <2> QED BY <2>1 DEF Blocked
<1>9. Word(o)' /\ ~Due(o)'
  <2>1. CASE f.op = "mget"
    <3>1. msg'[o] = {"WAIT"} /\ evet'[o] = evet[o] \ {"CHLD"} /\ messages'[o] = <<>>
      BY <1>1, <1>2, <2>1
    <3> QED BY <1>7, <1>8, <2>1, <3>1 DEF Word, Due, Waits
  <2>2. CASE f.op = "await"
    <3>1. evet'[o] = {"WAIT"} /\ msg'[o] = msg[o] \ {"CHLD"}
      BY <1>1, <1>2, <2>2
    <3> QED BY <1>7, <1>8, <2>2, <3>1 DEF Word, Due, Waits
  <2> QED BY <2>1, <2>2
<1>10. \A d \in Coro : d # o => evet'[d] = evet[d] /\ msg'[d] = msg[d]
  BY <1>1, <1>2
<1>11. o # Nil => /\ s # <<>> /\ Top(s) = Frame("resume_childs", o, Nil, Len(childs[o]))
                  /\ Lv(current) <= Lv(o) /\ o \in Live
  BY <1>1, <1>2, <1>5, LvNat
<1>12. /\ \A i \in 1..Len(s) : s[i].op = "yield" => o = current
       /\ \A d \in Coro : d # current =>
           /\ messages'[d] = messages[d]
           /\ "WAIT" \in evet'[d] <=> "WAIT" \in evet[d]
           /\ "WAIT" \in msg'[d] <=> "WAIT" \in msg[d]
       /\ current # Nil => Word(current)' /\ ~Due(current)'
  <2>1. Word(current)' /\ ~Due(current)'
    BY <1>2, <1>9
  <2> QED BY <1>2, <1>10, <2>1
<1>13. o \in Ctx
  BY <1>1, <1>2
<1> QED BY <1>2, <1>5, <1>6, <1>10, <1>11, <1>12, <1>13, BaseStep

\* The waiting loop of mget().
LEMMA MgetWakes ==
  ASSUME Base, (TypeOK /\ SchedInv)', WakeInv, MgetLoop
  PROVE  WakeInv'
<1>1. /\ Len(stack[current]) = 1 /\ Top(stack[current]).op = "mget" /\ Under(stack[current]) = <<>>
      /\ Top(stack[current]) \in Frames /\ Top(stack[current]).kid = Nil
      /\ stack[current] = <<Top(stack[current])>>
  BY AtBottom DEF MgetLoop
<1>2. current # Nil
  BY MemberFunction DEF MgetLoop, MainOps, Base
<1>3. CASE messages[current] = <<>>
  <2>1. PICK f : f = Top(stack[current])
    OBVIOUS
  <2>2. f \in Frames /\ f.op = "mget" /\ f.kid = Nil /\ stack[current] = <<f>>
    BY <1>1, <2>1
  <2>3. Append(stack[current], Mark("yield")) = <<f, Mark("yield")>>
    BY <2>2, AppendPair
  <2>4. LoopOver(current, <<f, Mark("yield")>>)
    BY <1>3, <2>3 DEF MgetLoop
  <2>5. /\ msg' = [msg EXCEPT ![current] = {"WAIT"}]
        /\ evet' = [evet EXCEPT ![current] = @ \ {"CHLD"}]
        /\ UNCHANGED <<current, links, childs, stat, messages>>
    BY <1>3 DEF MgetLoop
  <2>6. Top(stack[current]).op \notin Nest \cup {"yield"} /\ Len(stack[current]) <= 1
    BY <1>1 DEF Nest
  <2> QED BY <1>2, <1>3, <2>2, <2>4, <2>5, <2>6, ParkStep
<1>4. CASE messages[current] # <<>>
  <2>1. /\ Become(<<>>) /\ UNCHANGED <<current, links, childs, stat, flags>>
        /\ messages' = [messages EXCEPT ![current] = Tail(@)]
    BY <1>1, <1>4 DEF MgetLoop, Pop
  <2>2. \A d \in Coro : d # current => messages'[d] = messages[d]
    BY <2>1 DEF Base, TypeOK
  <2> QED BY <1>1, <2>1, <2>2, BaseMark DEF Nest
<1> QED BY <1>3, <1>4

\* The calls of user code that sweep nothing.
LEMMA CallWakes ==
  ASSUME Base, (TypeOK /\ SchedInv)', WakeInv,
         \/ ResumeAll \/ Mget \/ Finish
         \/ \E c \in Coro : Resume(c)
  PROVE  WakeInv'
<1>1. PICK f : /\ Push(f) /\ f \in Frames /\ f.kid = Nil /\ f.op # "yield" /\ stack[current] = <<>>
               /\ UNCHANGED <<current, links, childs, stat, flags>> /\ UNCHANGED messages
  <2>1. Mark("drain") \in Frames /\ Mark("mget") \in Frames /\ Mark("execute") \in Frames
    BY MarkType DEF Ops
  <2>2. /\ Mark("drain").kid = Nil /\ Mark("mget").kid = Nil /\ Mark("execute").kid = Nil
        /\ Mark("drain").op = "drain" /\ Mark("mget").op = "mget" /\ Mark("execute").op = "execute"
    BY DEF Mark, Frame
  <2>3. CASE ResumeAll
    BY <2>1, <2>2, <2>3 DEF ResumeAll, Calls, InUser
  <2>4. CASE Mget
    BY <2>1, <2>2, <2>4 DEF Mget, Calls, InUser
  <2>5. CASE Finish
    BY <2>1, <2>2, <2>5 DEF Finish, Calls, InUser
  <2>6. CASE \E c \in Coro : Resume(c)
    <3>1. PICK c \in Coro : Resume(c)
      BY <2>6
    <3>2. Call("resume", c) \in Frames /\ Call("resume", c).kid = Nil /\ Call("resume", c).op = "resume"
      BY DEF Frames, Call, Frame, Ops, Ctx
    <3> QED BY <3>1, <3>2 DEF Resume, Calls, InUser
  <2> QED BY <2>3, <2>4, <2>5, <2>6
<1>2. PICK s : s = <<f>>
  OBVIOUS
<1>3. Become(s)
  <2>1. Append(stack[current], f) = s
    BY <1>1, <1>2
  <2> QED BY <1>1, <2>1 DEF Push
<1>4. Len(stack[current]) <= 1
  BY <1>1
<1> QED BY <1>1, <1>2, <1>3, <1>4, BaseMark

\* The calls of user code that sweep.
LEMMA SweepWakes ==
  ASSUME Base, (TypeOK /\ SchedInv)', WakeInv,
         \/ ResumeOwnChilds \/ Yield
         \/ \E p \in Ctx : ResumeChilds(p)
  PROVE  WakeInv'
<1>1. TypeOK /\ SchedInv /\ current \in Live \cup {Nil} /\ current \in Ctx /\ Lv(current) \in Nat
  BY CurrentLives, LvNat DEF Base
<1>2. /\ <<>> \in Seq(Frames) /\ Serves(<<>>) /\ Len(<<>>) <= 1
      /\ \A i \in 1..Len(<<>>) : <<>>[i].kid = Nil
  BY SmallStacks
<1>3. PICK o \in Live \cup {Nil} : o = current
  BY <1>1
<1>4. ASSUME NEW p \in Live \cup {Nil}, Lv(current) <= Lv(p), stack[current] = <<>>, Sweep(p, <<>>),
             UNCHANGED <<current, links, childs, stat, messages>>
      PROVE  WakeInv'
  <2>1. Len(stack[current]) <= 1
    BY <1>4
  <2> QED BY <1>2, <1>4, <2>1, BaseSweep
<1>5. CASE ResumeOwnChilds
  <2>1. Sweep(current, <<>>) /\ stack[current] = <<>> /\ UNCHANGED <<current, links, childs, stat, messages>>
    BY <1>5 DEF ResumeOwnChilds, Calls, InUser
  <2>2. Sweep(o, <<>>) /\ Lv(current) <= Lv(o)
    BY <1>1, <1>3, <2>1
  <2> QED BY <1>4, <2>1, <2>2
<1>6. CASE Yield
  <2>1. Mark("yield") \in Frames /\ Mark("yield").kid = Nil /\ Mark("yield").op = "yield"
    BY MarkType DEF Ops, Mark, Frame
  <2>2. PICK t : t = <<Mark("yield")>>
    OBVIOUS
  <2>3. t \in Seq(Frames) /\ Serves(t) /\ Len(t) = 1 /\ t[1] = Mark("yield")
    BY <2>1, <2>2, SmallStacks
  <2>4. Len(t) <= 1 /\ \A i \in 1..Len(t) : t[i].kid = Nil
    <3>1. \A i \in 1..Len(t) : i = 1
      BY <2>3
    <3> QED BY <2>1, <2>3, <3>1
  <2>5. Sweep(current, t) /\ stack[current] = <<>> /\ UNCHANGED <<current, links, childs, stat, messages>>
    BY <1>6, <2>2 DEF Yield, Calls, InUser
  <2>6. Sweep(o, t) /\ Lv(current) <= Lv(o) /\ t[1].op = "yield" /\ Len(stack[current]) <= 1
    BY <1>1, <1>3, <2>1, <2>3, <2>5
  <2> QED BY <1>3, <2>3, <2>4, <2>5, <2>6, BaseSweep
<1>7. CASE \E p \in Ctx : ResumeChilds(p)
  <2>1. PICK p \in Ctx : ResumeChilds(p)
    BY <1>7
  <2>2. p \in Live \cup {Nil} /\ Lv(current) <= Lv(p)
    <3>1. CASE p = current
      BY <1>1, <3>1
    <3>2. CASE p \in Nested
      <4>1. p \in Live /\ Lv(current) < Lv(p) /\ Lv(p) \in Nat
        BY <1>1, <2>1, <3>2, NestedBelow, LvNat
      <4> QED BY <1>1, <4>1
    <3> QED BY <2>1, <3>1, <3>2 DEF ResumeChilds
  <2>3. Sweep(p, <<>>) /\ stack[current] = <<>> /\ UNCHANGED <<current, links, childs, stat, messages>>
    BY <2>1 DEF ResumeChilds, Calls, InUser
  <2> QED BY <1>4, <2>2, <2>3
<1> QED BY <1>5, <1>6, <1>7

\* A reactor call that waits.
LEMMA AwaitWakes ==
  ASSUME Base, (TypeOK /\ SchedInv)', WakeInv, Await
  PROVE  WakeInv'
<1>1. PICK f : f = Mark("await")
  OBVIOUS
<1>2. f \in Frames /\ f.op = "await" /\ f.kid = Nil
  BY <1>1, MarkType DEF Ops, Mark, Frame
<1>3. /\ current # Nil /\ stack[current] = <<>> /\ Len(stack[current]) <= 1
      /\ LoopOver(current, <<f, Mark("yield")>>)
      /\ evet' = [evet EXCEPT ![current] = {"WAIT"}]
      /\ msg' = [msg EXCEPT ![current] = @ \ {"CHLD"}]
      /\ UNCHANGED <<current, links, childs, stat, messages>>
  BY <1>1 DEF Await, Calls, InUser
<1> QED BY <1>2, <1>3, ParkStep

\* A step of a call that the loop below serves: its stack becomes s, and the
\* child bit of a may go, over whose children the call begins to loop.
Nests(s, a) ==
  /\ UNCHANGED <<current, links, childs, stat, messages>>
  /\ stack[current] # <<>> /\ Top(stack[current]).op \in Serve
  /\ Grows(s) /\ Serves(s)
  /\ \A i \in 1..Len(s) : i >= Len(stack[current]) => s[i].op \in Nest /\ s[i].kid = Nil
  /\ a \in Ctx
  /\ a # Nil => /\ a = Top(stack[current]).co /\ a \in Live
                /\ s # <<>> /\ Top(s) = Frame("resume_childs", a, Nil, Len(childs[a]))
  /\ \/ UNCHANGED flags
     \/ evet' = [evet EXCEPT ![a] = @ \ {"CHLD"}] /\ msg' = [msg EXCEPT ![a] = @ \ {"CHLD"}]

\* It wakes nobody and reaches what it reached.
LEMMA NestSame ==
  ASSUME Base, WakeInv, NEW s, NEW a, Nests(s, a)
  PROVE  /\ \A c \in Coro : /\ \A op \in {"mget", "await"} : Blocked(c, op)' <=> Blocked(c, op)
                            /\ c # a => evet'[c] = evet[c] /\ msg'[c] = msg[c]
                            /\ "WAIT" \in evet'[c] <=> "WAIT" \in evet[c]
                            /\ "WAIT" \in msg'[c] <=> "WAIT" \in msg[c]
                            /\ Waits(c)' <=> Waits(c)
                            /\ Due(c)' <=> Due(c)
         /\ \A c : Line(c)' = Line(c) /\ Ancestors(c)' = Ancestors(c)
         /\ \A p, q : SweepReaches(p, q) => SweepReaches(p, q)'
         /\ Chain' = Chain /\ parent' = parent /\ Live' = Live
<1>1. /\ TypeOK /\ Grows(s) /\ UNCHANGED current /\ UNCHANGED childs /\ Serves(stack[current])
      /\ stack[current] # <<>> /\ Top(stack[current]).op \in Nest
      /\ Top(stack[current]).op # "resume_childs"
      /\ \A i \in 1..Len(s) : i >= Len(stack[current]) => s[i].op \in Nest
      /\ messages' = messages /\ parent' = parent /\ stat' = stat
  BY DEF Base, Nests, WakeInv, TypeOK, Serve, Nest, links
<1>2. evet \in [Coro -> SUBSET {"WAIT", "CHLD"}] /\ msg \in [Coro -> SUBSET {"WAIT", "CHLD"}]
  BY DEF Base, TypeOK
<1>3. \A c \in Coro : \A op \in {"mget", "await"} : Blocked(c, op)' <=> Blocked(c, op)
  BY <1>1, GrowsBlocked
<1>4. ASSUME NEW c \in Coro
      PROVE  /\ c # a => evet'[c] = evet[c] /\ msg'[c] = msg[c]
             /\ "WAIT" \in evet'[c] <=> "WAIT" \in evet[c]
             /\ "WAIT" \in msg'[c] <=> "WAIT" \in msg[c]
  BY <1>2 DEF Nests, flags
<1>5. ASSUME NEW c \in Coro
      PROVE  /\ Waits(c)' <=> Waits(c)
             /\ Due(c)' <=> Due(c)
  BY <1>1, <1>3, <1>4 DEF Waits, Due
<1>6. \A c : Line(c)' = Line(c) /\ Ancestors(c)' = Ancestors(c)
  BY <1>1 DEF Line, Ancestors
<1>7. \A p, q : SweepReaches(p, q) => SweepReaches(p, q)'
  BY <1>1, GrowsReaches
<1>8. Chain' = Chain
  BY <1>1, ChainSame DEF Grows
<1> QED BY <1>1, <1>3, <1>4, <1>5, <1>6, <1>7, <1>8 DEF Live

\* A loop that has just begun reaches everybody.
LEMMA NestReaches ==
  ASSUME Base, (TypeOK /\ SchedInv)', WakeInv, NEW s, NEW a \in Coro, Nests(s, a),
         NEW q \in Live, parent[q] = a
  PROVE  SweepReaches(a, q)'
<1>1. PICK o : o = current
  OBVIOUS
<1>2. /\ a # Nil /\ s # <<>> /\ Top(s) = Frame("resume_childs", a, Nil, Len(childs[a]))
      /\ childs' = childs /\ stack'[o] = s /\ o \in Ctx /\ a \in Ctx
  BY <1>1, NilAssumption, GrowsStacks DEF Nests, Base
<1>3. FullLoop(o, a)'
  BY <1>2 DEF FullLoop
<1>4. LoopsReach'
  <2>1. TypeOK /\ SchedInv => LoopsReach
    BY AllLoopsReach
  <2> QED BY AllLoopsReach, PTL
<1>5. (q \in Live)' /\ parent'[q] = a
  BY NestSame
<1> QED BY <1>2, <1>3, <1>4, <1>5 DEF LoopsReach

\* Nobody above a child in somebody's hands is as deep as the call at work.
LEMMA NestAbove ==
  ASSUME Base, WakeInv, NEW a, a = Nil \/ (a = Top(stack[current]).co /\ a \in Live),
         stack[current] # <<>>, Top(stack[current]).op \in Serve,
         NEW r \in Ctx, NEW i \in 1..Len(stack[r]), stack[r][i].kid # Nil
  PROVE  a \notin Ancestors(stack[r][i].kid)
<1> SUFFICES ASSUME a \in Ancestors(stack[r][i].kid) PROVE FALSE
  OBVIOUS
<1>1. TypeOK /\ SchedInv
  BY DEF Base
<1>2. a \in Coro /\ a # Nil /\ a = Top(stack[current]).co /\ a \in Ctx
  BY NilAssumption DEF Ancestors, Ctx
<1>3. PICK f : f = stack[r][i]
  OBVIOUS
<1>4. f \in Frames /\ f.op = "resume_childs" /\ f.kid \in Live /\ parent[f.kid] = f.co /\ f.op \in Nest
  BY <1>1, <1>3, FrameOf DEF Fits, Nest
<1>5. r # current \/ i # Len(stack[r])
  BY <1>3, <1>4 DEF Top, Serve
<1>6. Top(stack[current]).op \in Nest /\ Depth(Top(stack[current])) = 2 * Lv(a)
  BY <1>2 DEF Serve, Nest, Depth
<1>7. Depth(f) < 2 * Lv(a)
  BY <1>1, <1>3, <1>4, <1>5, <1>6, TopDeepest
<1>8. Depth(f) = 2 * Lv(f.co) + 1 /\ Lv(f.co) \in Nat /\ Lv(a) \in Nat
  BY <1>1, <1>2, <1>4, DepthNat, LvNat DEF Depth
<1>9. level[f.kid] = Lv(f.co) + 1
  BY <1>1, <1>4 DEF SchedInv, Tree
<1>10. level[a] < level[f.kid] /\ level[a] = Lv(a)
  BY <1>1, <1>2, <1>3, <1>4, AncestorsAbove DEF SchedInv, Lv
<1> QED BY <1>7, <1>8, <1>9, <1>10

\* A loop waits for the call at work.
Served ==
  /\ Len(stack[current]) > 1
  /\ stack[current][Len(stack[current]) - 1].kid # Nil

\* It keeps the invariant if the loop that waits for it can count on it.
LEMMA NestStep ==
  ASSUME Base, (TypeOK /\ SchedInv)', WakeInv, NEW s, NEW a, Nests(s, a),
         NEW o, o = current, NEW n, n = Len(stack[current]), NEW q, q = Top(stack[current]).co,
         \A c \in Coro : Served /\ Due(c) /\ q \in Line(c) =>
           Told(q)' \/ (n <= Len(s) /\ Looks(s[n], o, q, c)')
  PROVE  WakeInv'
<1>1. /\ TypeOK /\ SchedInv /\ Grows(s) /\ UNCHANGED current /\ UNCHANGED childs
      /\ stack[current] # <<>> /\ Top(stack[current]).op \in Serve /\ Serves(stack[current])
      /\ messages' = messages /\ parent' = parent /\ Top(stack[current]).op # "resume_childs"
      /\ stack[current] \in Seq(Frames) /\ o \in Ctx
  BY DEF Base, Nests, WakeInv, TypeOK, links, Serve
<1>2. /\ stack'[o] = s /\ \A r \in Ctx : r # o => stack'[r] = stack[r]
      /\ n \in Nat \ {0}
  BY <1>1, GrowsStacks, PopLemma
<1>3. ASSUME NEW c \in Coro, Due(c)' PROVE Kept(c, a)
  <2>1. Due(c) /\ c \in Live /\ Line(c) \subseteq Live
    <3>1. Due(c)
      BY <1>3, NestSame
    <3>2. c \in Live
      BY <3>1, DueFacts DEF WakeInv, Words
    <3> QED BY <1>1, <3>1, <3>2, LineUp DEF SchedInv
  <2>2. ASSUME NEW d \in Line(c), d # a
        PROVE  (ChildUp(d) => ChildUp(d)') /\ (Waits(d)' => Waits(d)) /\ (Yields(d)' => Yields(d))
    <3>1. d \in Coro /\ d \in Ctx
      BY <2>1 DEF Live, Ctx
    <3>2. evet'[d] = evet[d] /\ msg'[d] = msg[d]
      BY <2>2, <3>1, NestSame
    <3>3. Yields(d)' => Yields(d)
      <4>1. \A i \in 1..Len(s) : i >= Len(stack[current]) => s[i].op # "yield"
        BY DEF Nests, Nest
      <4> QED BY <1>1, <3>1, <4>1, GrowsYields
    <3> QED BY <3>2, <3>3 DEF ChildUp, Waits
  <2>3. ASSUME NEW x \in Line(c), parent[x] = a, a \in Coro PROVE SweepReaches(a, x)'
    BY <2>1, <2>3, NestReaches
  <2>4. \A p, x : SweepReaches(p, x) => SweepReaches(p, x)'
    BY NestSame
  <2> QED BY <1>1, <2>1, <2>2, <2>3, <2>4 DEF Kept
<1>4. Calm(a)
  <2>1. a = Nil \/ (a = Top(stack[current]).co /\ a \in Live)
    BY DEF Nests
  <2> QED BY <1>1, <1>3, <2>1, NestAbove DEF Calm
<1>5. ASSUME NEW c \in Coro PROVE WordKept(c)
  <2>1. messages'[c] = messages[c]
    BY <1>1
  <2> QED BY <2>1, NestSame DEF WordKept
<1>6. ASSUME NEW r \in Ctx PROVE Serves(stack'[r])
  <2>1. CASE r = o
    BY <1>2, <2>1 DEF Nests
  <2>2. CASE r # o
    BY <1>2, <2>2 DEF WakeInv
  <2> QED BY <2>1, <2>2
<1>7. ASSUME NEW r \in Ctx, NEW i \in 1..Len(stack'[r]), stack'[r][i].kid # Nil
      PROVE  SameAt(r, i) \/ \A c \in Coro : HandTold(r, i, c)'
  <2>1. CASE r # current \/ i < Len(stack[current]) - 1
    BY <1>1, <2>1, GrowsSame
  <2>2. CASE r = current /\ ~(i < Len(stack[current]) - 1)
    <3>1. r = o /\ i \in 1..Len(s) /\ ~(i < n - 1) /\ i \in Nat /\ s[i].kid # Nil
      BY <1>2, <1>7, <2>2
    <3>2. ~(i >= n)
      BY <3>1 DEF Nests
    <3>3. i = n - 1 /\ i \in 1..n - 1 /\ i + 1 = n /\ i < n
      BY <1>2, <3>1, <3>2
    <3>4. s[i] = stack[o][i]
      BY <3>3 DEF Grows, Nests
    <3>5. s[i].kid = q
      <4>1. stack[o][i].kid # Nil /\ i \in 1..Len(stack[o]) /\ stack[o] # <<>> /\ n = Len(stack[o])
        BY <1>1, <3>1, <3>3, <3>4
      <4>2. stack[o][i].op = "resume_childs"
        BY <1>1, <4>1, FrameOf DEF Fits
      <4>3. stack[o][i+1].co = stack[o][i].kid
        BY <1>1, <3>3, <4>1, <4>2 DEF Serves
      <4> QED BY <3>3, <3>4, <4>3 DEF Top
    <3>6. ASSUME NEW c \in Coro PROVE HandTold(r, i, c)'
      <4> SUFFICES ASSUME Due(c)', q \in Line(c)'
                   PROVE  Told(q)' \/ (i < Len(s) /\ Looks(s[i+1], o, q, c)')
        BY <1>2, <3>1, <3>5 DEF HandTold
      <4>1. Due(c) /\ q \in Line(c)
        BY NestSame
      <4>0. Served
        BY <1>1, <1>2, <3>1, <3>3, <3>4 DEF Served
      <4>2. Told(q)' \/ (n <= Len(s) /\ Looks(s[n], o, q, c)')
        BY <4>0, <4>1
      <4>3. n <= Len(s) => i < Len(s)
        BY <1>1, <1>2, <3>3, GrowsStacks
      <4> QED BY <3>3, <4>2, <4>3
    <3> QED BY <3>6
  <2> QED BY <2>1, <2>2
<1> QED BY <1>4, <1>5, <1>6, <1>7, CalmStep

\* s agrees with the running stack below its top, and has no child in the hands
\* of what is new.
Deepens(s, n) ==
  /\ s \in Seq(Frames) /\ Serves(s)
  /\ \A i \in 1..n - 1 : i \in 1..Len(s) /\ s[i] = stack[current][i]
  /\ \A i \in 1..Len(s) : i >= n => s[i].op \in Nest /\ s[i].kid = Nil

\* The call on top returns.
LEMMA NestPop ==
  ASSUME Base, WakeInv, stack[current] # <<>>, Top(stack[current]).op \in Serve,
         NEW n, n = Len(stack[current]), NEW u, u = Under(stack[current])
  PROVE  Deepens(u, n) /\ Len(u) = n - 1 /\ n \in Nat \ {0}
<1>1. /\ stack[current] \in Seq(Frames) /\ Serves(stack[current]) /\ Based(stack[current])
      /\ Top(stack[current]).op # "yield"
  BY RunningGood DEF Base, WakeInv, TypeOK, Good, Serve
<1>2. /\ n \in Nat \ {0} /\ Len(u) = n - 1 /\ u \in Seq(Frames)
      /\ \A i \in 1..n - 1 : u[i] = stack[current][i]
  BY <1>1, PopLemma
<1>3. Serves(u)
  BY <1>1, ServesUnder
<1>4. /\ \A i \in 1..n - 1 : i \in 1..Len(u)
      /\ \A i \in 1..Len(u) : ~(i >= n)
  BY <1>2
<1> QED BY <1>2, <1>3, <1>4 DEF Deepens

\* b ends in the call of op that serves q.
Serving(b, n, op, q) == Deepens(b, n) /\ Len(b) = n /\ b[n] = Call(op, q) /\ n \in Nat \ {0}

\* The call on top makes way for another one that serves the same child.
LEMMA NestCall ==
  ASSUME Base, WakeInv, stack[current] # <<>>, Top(stack[current]).op \in Serve,
         NEW n, n = Len(stack[current]), NEW q \in Ctx, q = Top(stack[current]).co,
         NEW op \in Serve,
         NEW b, b = Append(Under(stack[current]), Call(op, q))
  PROVE  Serving(b, n, op, q)
<1>1. PICK u : u = Under(stack[current])
  OBVIOUS
<1>2. PICK f : f = Call(op, q)
  OBVIOUS
<1>3. Deepens(u, n) /\ Len(u) = n - 1 /\ n \in Nat \ {0} /\ u \in Seq(Frames) /\ Serves(u)
  <2>1. Deepens(u, n) /\ Len(u) = n - 1 /\ n \in Nat \ {0}
    BY <1>1, NestPop
  <2> QED BY <2>1 DEF Deepens
<1>4. f \in Frames /\ f.op = op /\ f.kid = Nil /\ f.co = q
  BY <1>2 DEF Frames, Call, Frame, Ops, Ctx, Serve
<1>5. MayPush(u, f)
  <2>1. /\ stack[current] \in Seq(Frames) /\ Serves(stack[current]) /\ Based(stack[current])
        /\ Top(stack[current]).op # "yield"
    BY RunningGood DEF Base, WakeInv, TypeOK, Good, Serve
  <2>2. u = <<>> \/ /\ Top(u).op \notin {"resume", "coro_transfer", "mget", "await"}
                    /\ Top(u).op = "resume_childs" => Top(u).kid # Nil /\ q = Top(u).kid
    BY <1>1, <2>1, ServesUnder
  <2>3. f.op \in Serve
    BY <1>4
  <2>4. CASE u = <<>>
    BY <2>4 DEF MayPush
  <2>5. CASE u # <<>>
    <3>1. /\ Top(u).op \notin {"resume", "coro_transfer"} /\ Top(u).op \notin {"mget", "await"}
          /\ Top(u).op = "resume_childs" => Top(u).kid # Nil /\ f.co = Top(u).kid
      BY <1>4, <2>2, <2>5
    <3> QED BY <2>3, <3>1 DEF MayPush
  <2> QED BY <2>4, <2>5
<1>6. /\ b = Append(u, f) /\ b \in Seq(Frames) /\ Serves(b) /\ Len(b) = n /\ b[n] = f
      /\ \A i \in 1..n - 1 : b[i] = u[i]
  <2>1. b = Append(u, f)
    BY <1>1, <1>2
  <2>2. /\ Append(u, f) \in Seq(Frames) /\ Len(Append(u, f)) = Len(u) + 1
        /\ \A i \in 1..Len(u) : Append(u, f)[i] = u[i]
        /\ Top(Append(u, f)) = f
    BY <1>3, <1>4, PushLemma
  <2>3. Serves(Append(u, f))
    BY <1>3, <1>4, <1>5, ServesPush
  <2>4. Len(b) = n /\ Len(u) = n - 1 /\ b[n] = f
    <3>1. Len(b) = n /\ Len(u) = n - 1
      BY <1>3, <2>1, <2>2
    <3> QED BY <2>1, <2>2, <3>1 DEF Top
  <2> QED BY <1>3, <2>1, <2>2, <2>3, <2>4
<1>7. \A i \in 1..n - 1 : i \in 1..Len(b) /\ b[i] = stack[current][i]
  BY <1>3, <1>6 DEF Deepens
<1>8. \A i \in 1..Len(b) : i >= n => b[i].op \in Nest /\ b[i].kid = Nil
  <2>1. \A i \in 1..Len(b) : i >= n => i = n
    BY <1>3, <1>6
  <2> QED BY <1>4, <1>6, <2>1 DEF Nest, Serve
<1> QED BY <1>2, <1>3, <1>6, <1>7, <1>8 DEF Deepens, Serving

\* It comes to its transfer.
LEMMA NestTransfer ==
  ASSUME Base, WakeInv, stack[current] # <<>>, Top(stack[current]).op \in Serve,
         NEW n, n = Len(stack[current]), NEW q \in Ctx, q = Top(stack[current]).co,
         NEW b, b = Append(Under(stack[current]), Call("transfer", q))
  PROVE  Deepens(b, n) /\ Len(b) = n /\ b[n] = Call("transfer", q) /\ n \in Nat \ {0}
<1>1. PICK op \in Serve : op = "transfer"
  BY DEF Serve
<1>2. b = Append(Under(stack[current]), Call(op, q))
  BY <1>1
<1>3. Serving(b, n, op, q)
  BY <1>2, NestCall
<1> QED BY <1>1, <1>3 DEF Serving

\* l ends in a transfer to q and, on top of it, a loop over the children of q.
Sweeping(l, n, q) ==
  /\ Deepens(l, n) /\ l # <<>> /\ Top(l) = Frame("resume_childs", q, Nil, Len(childs[q]))
  /\ n <= Len(l) /\ l[n] = Call("transfer", q) /\ n \in Nat \ {0}

\* It sweeps first.
LEMMA NestSweep ==
  ASSUME Base, WakeInv, stack[current] # <<>>, Top(stack[current]).op \in Serve,
         NEW n, n = Len(stack[current]), NEW q \in Ctx, q = Top(stack[current]).co,
         NEW b, b = Append(Under(stack[current]), Call("transfer", q)),
         NEW l, l = Append(b, Frame("resume_childs", q, Nil, Len(childs[q])))
  PROVE  Sweeping(l, n, q)
<1>1. /\ Deepens(b, n) /\ Len(b) = n /\ b[n] = Call("transfer", q) /\ n \in Nat \ {0}
      /\ b \in Seq(Frames) /\ Serves(b)
  <2>1. Deepens(b, n) /\ Len(b) = n /\ b[n] = Call("transfer", q) /\ n \in Nat \ {0}
    BY NestTransfer
  <2> QED BY <2>1 DEF Deepens
<1>2. PICK f : f = Frame("resume_childs", q, Nil, Len(childs[q]))
  OBVIOUS
<1>3. f \in Frames /\ f.op = "resume_childs" /\ f.kid = Nil
  <2>1. Len(childs[q]) \in Nat
    BY LenProperties DEF Base, TypeOK
  <2>2. Frame("resume_childs", q, Nil, Len(childs[q])) \in Frames
    BY <2>1, FrameType DEF Ops, Ctx
  <2> QED BY <1>2, <2>2 DEF Frame
<1>4. MayPush(b, f)
  <2>1. Top(b).op = "transfer"
    BY <1>1 DEF Top, Call, Frame
  <2> QED BY <2>1 DEF MayPush
<1>5. /\ l = Append(b, f) /\ l \in Seq(Frames) /\ Serves(l) /\ Len(l) = n + 1 /\ l[n+1] = f
      /\ (\A i \in 1..n : l[i] = b[i]) /\ l # <<>> /\ Top(l) = f
  <2>1. l = Append(b, f)
    BY <1>2
  <2>0. b \in Seq(Frames) /\ f \in Frames
    BY <1>1, <1>3
  <2>2. /\ Append(b, f) \in Seq(Frames) /\ Append(b, f) # <<>> /\ Len(Append(b, f)) = Len(b) + 1
        /\ \A i \in 1..Len(b) : Append(b, f)[i] = b[i]
        /\ Top(Append(b, f)) = f
    BY ONLY <2>0, PushLemma
  <2>3. Serves(Append(b, f))
    BY <1>1, <1>3, <1>4, ServesPush
  <2> QED BY <1>1, <2>1, <2>2, <2>3 DEF Top
<1>6. \A i \in 1..n - 1 : i \in 1..Len(l) /\ l[i] = stack[current][i]
  <2>1. \A i \in 1..n - 1 : i \in 1..n /\ i \in 1..Len(l)
    BY <1>1, <1>5
  <2> QED BY <1>1, <1>5, <2>1 DEF Deepens
<1>7. \A i \in 1..Len(l) : i >= n => l[i].op \in Nest /\ l[i].kid = Nil
  <2>1. \A i \in 1..Len(l) : i >= n => i = n \/ i = n + 1
    BY <1>1, <1>5
  <2>2. n \in 1..n /\ l[n] = Call("transfer", q)
    BY <1>1, <1>5
  <2>3. l[n].op = "transfer" /\ l[n].kid = Nil
    <3>1. Call("transfer", q).op = "transfer" /\ Call("transfer", q).kid = Nil
      BY DEF Call, Frame
    <3> QED BY <2>2, <3>1
  <2> QED BY <1>3, <1>5, <2>1, <2>3 DEF Nest
<1>8. n <= Len(l) /\ l[n] = Call("transfer", q)
  BY <1>1, <1>5
<1> QED BY <1>1, <1>2, <1>5, <1>6, <1>7, <1>8 DEF Deepens, Sweeping

\* How a step of a serving call is one that NestStep is about.
LEMMA NestIs ==
  ASSUME Base, WakeInv, stack[current] # <<>>, Top(stack[current]).op \in Serve,
         NEW n, n = Len(stack[current]), NEW s, Deepens(s, n), Become(s),
         UNCHANGED <<current, links, childs, stat, messages>>, NEW a \in Ctx,
         a # Nil => /\ a = Top(stack[current]).co /\ a \in Live
                    /\ s # <<>> /\ Top(s) = Frame("resume_childs", a, Nil, Len(childs[a])),
         \/ UNCHANGED flags
         \/ evet' = [evet EXCEPT ![a] = @ \ {"CHLD"}] /\ msg' = [msg EXCEPT ![a] = @ \ {"CHLD"}]
  PROVE  Nests(s, a)
<1>1. Grows(s)
  BY DEF Deepens, Grows
<1> QED BY <1>1 DEF Nests, Deepens

\* A call that returns although something has come for a coroutine of the
\* child's branch: everybody has been told.
LEMMA NestReturns ==
  ASSUME Base, (TypeOK /\ SchedInv)', WakeInv, stack[current] # <<>>,
         Top(stack[current]).op \in Serve, Pop,
         UNCHANGED <<current, links, childs, stat, messages, flags>>,
         NEW q, q = Top(stack[current]).co,
         \A c \in Coro : Served /\ Due(c) /\ q \in Line(c) => Told(q)
  PROVE  WakeInv'
<1>1. PICK n : n = Len(stack[current])
  OBVIOUS
<1>2. PICK u : u = Under(stack[current])
  OBVIOUS
<1>3. PICK o : o = current
  OBVIOUS
<1>4. Deepens(u, n)
  BY <1>1, <1>2, NestPop
<1>5. Become(u) /\ Nil \in Ctx /\ UNCHANGED flags
  BY <1>2 DEF Pop, Ctx
<1>6. Nests(u, Nil)
  BY <1>1, <1>4, <1>5, NestIs
<1>7. Told(q) => Told(q)'
  <2>1. \A x : Ancestors(x)' = Ancestors(x)
    BY <1>6, NestSame
  <2> QED BY <2>1 DEF Told, ChildUp, flags
<1> QED BY <1>1, <1>3, <1>6, <1>7, NestStep

\* What the loop below the call at work has to count on.
LEMMA ServedHeld ==
  ASSUME Base, WakeInv, stack[current] # <<>>, Top(stack[current]).op \in Serve,
         NEW q, q = Top(stack[current]).co, Served, NEW c \in Coro, Due(c), q \in Line(c)
  PROVE  /\ q \in Live /\ c \in Live /\ q # current
         /\ Told(q) \/ Looks(Top(stack[current]), current, q, c)
         /\ q # c => \E d \in Line(c) : d \in Live /\ parent[d] = q
<1>1. /\ TypeOK /\ SchedInv /\ stack[current] \in Seq(Frames) /\ current \in Ctx
      /\ Serves(stack[current]) /\ Fits(Top(stack[current]), current)
  BY RunningGood DEF Base, WakeInv, TypeOK
<1>2. PICK n : n = Len(stack[current])
  OBVIOUS
<1>3. n \in Nat /\ n > 1 /\ n - 1 \in 1..n /\ n - 1 < n /\ n - 1 + 1 = n /\ stack[current][n-1].kid # Nil
  BY <1>1, <1>2, LenProperties DEF Served
<1>4. stack[current][n-1].kid = q
  <2>1. stack[current][n-1].op = "resume_childs"
    BY <1>1, <1>2, <1>3, FrameOf DEF Fits
  <2>2. stack[current][n-1+1].co = stack[current][n-1].kid
    BY <1>1, <1>2, <1>3, <2>1 DEF Serves
  <2> QED BY <1>2, <1>3, <2>2 DEF Top
<1>5. q \in Live
  BY <1>1, <1>2, <1>3, <1>4, FrameOf DEF Fits
<1>6. q # current
  <2>1. Depth(Top(stack[current])) = 2 * Lv(q) /\ Lv(q) \in Nat /\ Lv(current) \in Nat
    BY <1>1, <1>5, LvNat DEF Depth, Serve, Live, Ctx
  <2>2. 2 * Lv(current) < Depth(Top(stack[current]))
    BY <1>1 DEF Fits, Serve, Nest
  <2> QED BY <2>1, <2>2
<1>7. Told(q) \/ Looks(Top(stack[current]), current, q, c)
  <2>1. HandTold(current, n-1, c)
    BY <1>1, <1>2, <1>3 DEF WakeInv, Held
  <2>2. Told(q) \/ Looks(stack[current][n-1+1], current, q, c)
    BY <1>3, <1>4, <2>1 DEF HandTold
  <2> QED BY <1>2, <1>3, <2>2 DEF Top
<1>8. c \in Live
  BY DueFacts DEF WakeInv, Words
<1>9. ASSUME q # c PROVE \E d \in Line(c) : d \in Live /\ parent[d] = q
  <2>1. q \in Ancestors(c)
    BY <1>9 DEF Line
  <2> QED BY <1>1, <1>8, <2>1, LineUp DEF SchedInv
<1> QED BY <1>5, <1>6, <1>7, <1>8, <1>9

\* The call that switched returns to its loop.
LEMMA ReturnWakes ==
  ASSUME Base, (TypeOK /\ SchedInv)', WakeInv, Return
  PROVE  WakeInv'
<1>1. /\ stack[current] # <<>> /\ Top(stack[current]).op = "coro_transfer" /\ Pop
      /\ UNCHANGED <<current, links, childs, stat, messages, flags>>
      /\ Top(stack[current]).op \in Serve
  BY DEF Return, In, Serve
<1>2. PICK q : q = Top(stack[current]).co
  OBVIOUS
<1>3. ASSUME NEW c \in Coro, Served, Due(c), q \in Line(c) PROVE Told(q)
  <2>1. Told(q) \/ Looks(Top(stack[current]), current, q, c)
    BY <1>1, <1>2, <1>3, ServedHeld
  <2> QED BY <1>1, <2>1 DEF Looks
<1> QED BY <1>1, <1>2, <1>3, NestReturns

\* resume() leaves a waiting coroutine alone.
LEMMA TransferBackWakes ==
  ASSUME Base, (TypeOK /\ SchedInv)', WakeInv, Transfer, Waits(Top(stack[current]).co)
  PROVE  WakeInv'
<1>1. /\ stack[current] # <<>> /\ Top(stack[current]).op = "transfer" /\ Pop
      /\ UNCHANGED <<current, links, childs, stat, messages, flags>>
      /\ Top(stack[current]).op \in Serve
  BY DEF Transfer, In, Serve, links
<1>2. PICK q : q = Top(stack[current]).co
  OBVIOUS
<1>3. ASSUME NEW c \in Coro, Served, Due(c), q \in Line(c) PROVE Told(q)
  <2>1. q \in Live /\ (Told(q) \/ Looks(Top(stack[current]), current, q, c))
    BY <1>1, <1>2, <1>3, ServedHeld
  <2>2. c # q
    BY <1>2, <1>3, DueFacts DEF WakeInv, Words
  <2>3. ~Heads(q, c)
    <3>1. Top(stack[current]).op \in Nest /\ Depth(Top(stack[current])) = 2 * Lv(q)
      BY <1>1, <1>2 DEF Nest, Depth
    <3>2. q \in Ctx /\ Lv(q) \in Nat
      BY <2>1, LvNat DEF Live, Ctx, Base
    <3> QED BY <1>1, <3>1, <3>2, NotReached DEF Base
  <2> QED BY <1>1, <1>2, <2>1, <2>2, <2>3 DEF Looks
<1> QED BY <1>1, <1>2, <1>3, NestReturns

\* resume() looks at the bits of the coroutine, which sends it down.
LEMMA ResumeEntryWakes ==
  ASSUME Base, (TypeOK /\ SchedInv)', WakeInv, ResumeEntry
  PROVE  WakeInv'
<1>1. /\ stack[current] # <<>> /\ Top(stack[current]).op = "resume"
      /\ UNCHANGED <<current, links, childs, stat, messages>>
      /\ Top(stack[current]).op \in Serve
  BY DEF ResumeEntry, In, Serve
<1>2. PICK q : q = Top(stack[current]).co
  OBVIOUS
<1>3. TypeOK /\ SchedInv /\ q \in Live \cup {Nil} /\ q \in Ctx
  BY <1>1, <1>2, RunningGood DEF Base, Fits, Nest, Live, Ctx
<1>4. PICK n, o : n = Len(stack[current]) /\ o = current
  OBVIOUS
<1>5. PICK b : b = Append(Under(stack[current]), Call("transfer", q))
  OBVIOUS
<1>6. CASE stat[q] \notin {CORO_STAT_INIT, CORO_STAT_WAIT}
  <2>1. Pop /\ UNCHANGED flags
    BY <1>2, <1>6 DEF ResumeEntry
  <2>2. ASSUME NEW c \in Coro, Served, Due(c), q \in Line(c) PROVE Told(q)
    <3>1. q \in Live /\ q # current /\ c \in Live /\ (q # c => \E d \in Line(c) : d \in Live /\ parent[d] = q)
      BY <1>1, <1>2, <2>2, ServedHeld
    <3>2. stat[q] # CORO_STAT_BUSY
      BY <1>3, <3>1 DEF SchedInv, OneRunner, Live
    <3>3. stat[q] = CORO_STAT_DONE
      BY <1>3, <1>6, <3>1, <3>2 DEF TypeOK, Live
    <3>4. stack[q] = <<>> /\ \A d \in Live : parent[d] # q
      BY <1>3, <3>1, <3>3, DoneIsAlone DEF Live
    <3>5. stack[c] # <<>>
      BY <2>2, DueFacts DEF WakeInv, Words
    <3> QED BY <3>1, <3>4, <3>5
  <2> QED BY <1>1, <1>2, <2>1, <2>2, NestReturns
<1>7. CASE stat[q] \in {CORO_STAT_INIT, CORO_STAT_WAIT} /\ ~ChildUp(q)
  <2>1. Become(b) /\ UNCHANGED flags
    BY <1>2, <1>5, <1>7 DEF ResumeEntry
  <2>2. Deepens(b, n) /\ Len(b) = n /\ b[n] = Call("transfer", q) /\ n \in Nat \ {0}
    BY <1>1, <1>2, <1>3, <1>4, <1>5, NestTransfer
  <2>3. Nests(b, Nil)
    <3>1. Nil \in Ctx
      BY DEF Ctx
    <3> QED BY <1>1, <1>4, <2>1, <2>2, <3>1, NestIs
  <2>4. ASSUME NEW c \in Coro, Served, Due(c), q \in Line(c)
        PROVE  n <= Len(b) /\ Looks(b[n], o, q, c)'
    <3>1. n <= Len(b) /\ b[n].op = "transfer"
      BY <2>2 DEF Call, Frame
    <3>2. q \in Live /\ (q # c => \E d \in Line(c) : d \in Live /\ parent[d] = q)
      BY <1>1, <1>2, <2>4, ServedHeld
    <3>3. ASSUME q # c, Waits(q)' PROVE Heads(q, c)'
      <4>1. PICK d \in Line(c) : d \in Live /\ parent[d] = q
        BY <3>2, <3>3
      <4>2. q \in Coro /\ Waits(q)
        <5>1. q \in Coro
          BY <3>2 DEF Live
        <5> QED BY <2>3, <3>3, <5>1, NestSame
      <4>3. SweepReaches(q, d)
        <5>1. Reached(c)
          BY <2>4 DEF WakeInv
        <5> QED BY <1>7, <4>1, <4>2, <5>1 DEF Reached
      <4>4. SweepReaches(q, d)' /\ parent'[d] = q /\ d \in Line(c)'
        BY <2>3, <4>1, <4>3, NestSame
      <4> QED BY <4>4 DEF Heads
    <3> QED BY <3>1, <3>3 DEF Looks
  <2> QED BY <1>2, <1>4, <2>3, <2>4, NestStep
<1>8. CASE stat[q] \in {CORO_STAT_INIT, CORO_STAT_WAIT} /\ ChildUp(q)
  <2>1. Sweep(q, b)
    BY <1>2, <1>5, <1>8 DEF ResumeEntry
  <2>2. PICK l : l = Append(b, Frame("resume_childs", q, Nil, Len(childs[q])))
    OBVIOUS
  <2>3. /\ Become(l)
        /\ \/ UNCHANGED flags
           \/ evet' = [evet EXCEPT ![q] = @ \ {"CHLD"}] /\ msg' = [msg EXCEPT ![q] = @ \ {"CHLD"}]
    BY <2>1, <2>2 DEF Sweep, LoopOver
  <2>4. /\ Deepens(l, n) /\ l # <<>> /\ Top(l) = Frame("resume_childs", q, Nil, Len(childs[q]))
        /\ n <= Len(l) /\ l[n] = Call("transfer", q) /\ n \in Nat \ {0}
    <3>1. Sweeping(l, n, q)
      BY <1>1, <1>2, <1>3, <1>4, <1>5, <2>2, NestSweep
    <3> QED BY <3>1 DEF Sweeping
  <2>5. Nests(l, q)
    BY <1>1, <1>2, <1>3, <1>4, <2>3, <2>4, NestIs
  <2>6. ASSUME NEW c \in Coro, Served, Due(c), q \in Line(c)
        PROVE  n <= Len(l) /\ Looks(l[n], o, q, c)'
    <3>0. Call("transfer", q).op = "transfer"
      BY DEF Call, Frame
    <3>1. n <= Len(l) /\ l[n].op = "transfer"
      BY <2>4, <3>0
    <3>2. q \in Live /\ (q # c => \E d \in Line(c) : d \in Live /\ parent[d] = q)
      BY <1>1, <1>2, <2>6, ServedHeld
    <3>3. ASSUME q # c PROVE Heads(q, c)'
      <4>1. PICK d \in Line(c) : d \in Live /\ parent[d] = q
        BY <3>2, <3>3
      <4>2. q \in Coro
        BY <3>2 DEF Live
      <4>3. SweepReaches(q, d)'
        BY <2>5, <4>1, <4>2, NestReaches
      <4>4. parent'[d] = q /\ d \in Line(c)'
        BY <2>5, <4>1, NestSame
      <4> QED BY <4>3, <4>4 DEF Heads
    <3> QED BY <3>1, <3>3 DEF Looks
  <2> QED BY <1>2, <1>4, <2>5, <2>6, NestStep
<1> QED BY <1>6, <1>7, <1>8

-----------------------------------------------------------------------------
(* Steps that change no stack *)

\* A step that changes no stack.
LEMMA SameStacks ==
  ASSUME TypeOK, UNCHANGED <<current, stack>>
  PROVE  /\ Chain' = Chain
         /\ \A c, op : Blocked(c, op)' <=> Blocked(c, op)
         /\ \A d : Yields(d)' <=> Yields(d)
         /\ \A r \in Ctx : \A i \in 1..Len(stack'[r]) : SameAt(r, i)
<1>1. Chain' = Chain /\ \A c, op : Blocked(c, op)' <=> Blocked(c, op)
  BY DEF Chain, Blocked, Resumer
<1>2. \A d : Yields(d)' <=> Yields(d)
  BY DEF Yields
<1>3. \A r \in Ctx : \A i \in 1..Len(stack'[r]) : SameAt(r, i)
  <2>1. \A r \in Ctx : Len(stack[r]) \in Nat
    BY DEF TypeOK
  <2> QED BY <2>1 DEF SameAt
<1> QED BY <1>1, <1>2, <1>3

\* It keeps the invariant if it takes no bit away but WAIT.
LEMMA QuietWakes ==
  ASSUME Base, WakeInv, UNCHANGED <<current, stack, links, childs>>,
         \A d \in Coro : /\ ChildUp(d) => ChildUp(d)'
                         /\ "WAIT" \in evet'[d] => "WAIT" \in evet[d]
                         /\ "WAIT" \in msg'[d] => "WAIT" \in msg[d]
                         /\ Blocked(d, "mget") /\ messages'[d] = <<>> =>
                              messages[d] = <<>> /\ ("WAIT" \in msg[d] => "WAIT" \in msg'[d])
                         /\ Due(d)' => Due(d) \/ Told(d)'
  PROVE  WakeInv'
<1>1. /\ TypeOK /\ SchedInv /\ parent' = parent /\ Chain' = Chain
      /\ \A c, op : Blocked(c, op)' <=> Blocked(c, op)
      /\ \A d : Yields(d)' <=> Yields(d)
      /\ \A r \in Ctx : \A i \in 1..Len(stack'[r]) : SameAt(r, i)
  BY SameStacks DEF Base, links
<1>2. \A p, q : SweepReaches(p, q) => SweepReaches(p, q)'
  BY DEF SweepReaches
<1>3. ASSUME NEW c \in Coro, Due(c)', ~(c \in Live /\ parent' = parent /\ Told(c)') PROVE Kept(c, Nil)
  <2>1. c \in Live
    <3>1. stack[c] # <<>>
      BY <1>1, <1>3 DEF Due, Blocked
    <3> QED BY <1>1, <3>1 DEF SchedInv, Parks, Live, FREED, CORO_STAT_WAIT, CORO_STAT_BUSY
  <2>2. Due(c)
    BY <1>1, <1>3, <2>1
  <2>3. Line(c) \subseteq Live
    BY <1>1, <2>1, LineUp DEF SchedInv
  <2>4. \A d \in Line(c) : (ChildUp(d) => ChildUp(d)') /\ (Waits(d)' => Waits(d))
    BY <2>3 DEF Live, Waits
  <2> QED BY <1>1, <1>2, <2>2, <2>4, NilAssumption DEF Kept
<1>4. Calm(Nil)
  BY <1>3, NilAssumption DEF Calm, Ancestors
<1>5. \A c \in Coro : WordKept(c)
  BY <1>1 DEF WordKept
<1>6. \A r \in Ctx : Serves(stack'[r])
  BY DEF WakeInv
<1> QED BY <1>1, <1>4, <1>5, <1>6, CalmStep

\* The mget() that does not wait.
LEMMA TryMgetWakes ==
  ASSUME Base, WakeInv, TryMget
  PROVE  WakeInv'
<1>1. /\ UNCHANGED <<current, stack, links, childs, flags>> /\ stack[current] = <<>>
      /\ \A d \in Coro : d # current => messages'[d] = messages[d]
      /\ \A op : ~Blocked(current, op)
  BY DEF TryMget, Calls, InUser, Blocked, Base, TypeOK
<1>2. \A d \in Coro : Due(d)' => Due(d)
  <2>1. \A c, op : Blocked(c, op)' <=> Blocked(c, op)
    BY <1>1, SameStacks DEF Base
  <2> QED BY <1>1, <2>1 DEF Due, flags
<1> QED BY <1>1, <1>2, QuietWakes DEF flags, ChildUp

\* event_add(CHLD).
LEMMA EventAddWakes ==
  ASSUME Base, WakeInv, NEW c \in Coro, EventAdd(c)
  PROVE  WakeInv'
<1>1. UNCHANGED <<current, stack, links, childs, messages, msg>> /\ evet' = RaiseChld(evet, c)
  BY DEF EventAdd
<1>2. \A d \in Coro : /\ "WAIT" \in evet'[d] <=> "WAIT" \in evet[d]
                      /\ "CHLD" \in evet[d] => "CHLD" \in evet'[d]
  BY <1>1 DEF RaiseChld
<1>3. \A d \in Coro : Due(d)' => Due(d)
  <2>1. \A x, op : Blocked(x, op)' <=> Blocked(x, op)
    BY <1>1, SameStacks DEF Base
  <2> QED BY <1>1, <1>2, <2>1 DEF Due
<1>4. \A d \in Coro : ChildUp(d) => ChildUp(d)'
  BY <1>1, <1>2 DEF ChildUp
<1> QED BY <1>1, <1>2, <1>3, <1>4, QuietWakes

\* What deleting WAIT from a word does.
LEMMA DelWaitIs ==
  ASSUME NEW word \in [Coro -> SUBSET {"WAIT", "CHLD"}], NEW c \in Coro, NEW d \in Coro
  PROVE  /\ "WAIT" \in DelWait(word, c)[d] <=> "WAIT" \in word[d] /\ d # c
         /\ "CHLD" \in DelWait(word, c)[d] <=>
              "CHLD" \in word[d] \/ ("WAIT" \in word[c] /\ d \in Ancestors(c))
BY DEF DelWait, RaiseChld

\* An event comes.
LEMMA FireWakes ==
  ASSUME Base, WakeInv, NEW c \in Coro, Fire(c)
  PROVE  WakeInv'
<1>1. /\ UNCHANGED <<current, stack, links, childs, messages, msg>> /\ evet' = DelWait(evet, c)
      /\ "WAIT" \in evet[c] /\ evet \in [Coro -> SUBSET {"WAIT", "CHLD"}]
  BY DEF Fire, Base, TypeOK
<1>2. \A d \in Coro : /\ "WAIT" \in evet'[d] <=> "WAIT" \in evet[d] /\ d # c
                      /\ "CHLD" \in evet'[d] <=> "CHLD" \in evet[d] \/ d \in Ancestors(c)
  BY <1>1, DelWaitIs
<1>3. Told(c)'
  <2>1. Ancestors(c)' = Ancestors(c) /\ \A a \in Ancestors(c) : a \in Coro
    BY <1>1 DEF Ancestors, links
  <2>2. \A a \in Ancestors(c) : "CHLD" \in evet'[a]
    BY <1>2, <2>1
  <2> QED BY <2>1, <2>2 DEF Told, ChildUp
<1>4. \A d \in Coro : d # c => (Due(d)' => Due(d))
  <2>1. \A x, op : Blocked(x, op)' <=> Blocked(x, op)
    BY <1>1, SameStacks DEF Base
  <2> QED BY <1>1, <1>2, <2>1 DEF Due
<1>5. \A d \in Coro : ChildUp(d) => ChildUp(d)'
  BY <1>1, <1>2 DEF ChildUp
<1> QED BY <1>1, <1>2, <1>3, <1>4, <1>5, QuietWakes

\* A message comes.
LEMMA MputWakes ==
  ASSUME Base, WakeInv, NEW c \in Coro, NEW m \in Message, Mput(c, m)
  PROVE  WakeInv'
<1>1. /\ UNCHANGED <<current, stack, links, childs, evet>> /\ msg' = DelWait(msg, c)
      /\ msg \in [Coro -> SUBSET {"WAIT", "CHLD"}]
      /\ messages' = [messages EXCEPT ![c] = Append(@, m)]
      /\ \A d \in Coro : d # c => messages'[d] = messages[d]
      /\ \A x, op : Blocked(x, op)' <=> Blocked(x, op)
  BY SameStacks DEF Mput, Base, TypeOK
<1>2. \A d \in Coro : /\ "WAIT" \in msg'[d] <=> "WAIT" \in msg[d] /\ d # c
                      /\ "CHLD" \in msg'[d] <=> "CHLD" \in msg[d] \/ ("WAIT" \in msg[c] /\ d \in Ancestors(c))
  BY <1>1, DelWaitIs
<1>3. messages'[c] # <<>>
  <2>1. messages \in [Coro -> Seq(Message)]
    BY DEF Base, TypeOK
  <2>2. messages'[c] = Append(messages[c], m)
    BY <1>1, <2>1
  <2> QED BY <2>1, <2>2
<1>4. Due(c)' => Due(c) \/ Told(c)'
  <2>1. SUFFICES ASSUME Due(c)', ~Due(c) PROVE Told(c)'
    OBVIOUS
  <2>2. Blocked(c, "mget") /\ messages[c] = <<>>
    BY <1>1, <2>1 DEF Due
  <2>3. "WAIT" \in msg[c]
    BY <2>2 DEF WakeInv, Word
  <2>4. Ancestors(c)' = Ancestors(c) /\ \A a \in Ancestors(c) : a \in Coro
    BY <1>1 DEF Ancestors, links
  <2> QED BY <1>2, <2>3, <2>4 DEF Told, ChildUp
<1>5. \A d \in Coro : d # c => (Due(d)' => Due(d))
  BY <1>1 DEF Due
<1>6. \A d \in Coro : ChildUp(d) => ChildUp(d)'
  BY <1>1, <1>2 DEF ChildUp
<1>7. \A d \in Coro : /\ "WAIT" \in msg'[d] => "WAIT" \in msg[d]
                      /\ messages'[d] = <<>> => messages[d] = <<>> /\ ("WAIT" \in msg[d] => "WAIT" \in msg'[d])
  BY <1>1, <1>2, <1>3
<1> QED BY <1>1, <1>4, <1>5, <1>6, <1>7, QuietWakes

\* A message comes to all children.
LEMMA MbroadcastWakes ==
  ASSUME Base, WakeInv, NEW p \in Coro, NEW m \in Message, Mbroadcast(p, m)
  PROVE  WakeInv'
<1> DEFINE receivers == {childs[p][i] : i \in DOMAIN childs[p]}
           woken == {c \in receivers : "WAIT" \in msg[c]}
           told == UNION {Ancestors(c) : c \in woken}
<1>1. /\ UNCHANGED <<current, stack, links, childs, evet>>
      /\ msg \in [Coro -> SUBSET {"WAIT", "CHLD"}] /\ messages \in [Coro -> Seq(Message)]
      /\ msg' = [c \in Coro |-> (msg[c] \cup (IF c \in told THEN {"CHLD"} ELSE {}))
                                   \ (IF c \in receivers THEN {"WAIT"} ELSE {})]
      /\ messages' = [c \in Coro |-> IF c \in receivers THEN Append(messages[c], m) ELSE messages[c]]
      /\ \A x, op : Blocked(x, op)' <=> Blocked(x, op)
  BY SameStacks DEF Mbroadcast, Base, TypeOK
<1> HIDE DEF told, receivers
<1>2. \A d \in Coro : /\ "WAIT" \in msg'[d] <=> "WAIT" \in msg[d] /\ d \notin receivers
                      /\ "CHLD" \in msg'[d] <=> "CHLD" \in msg[d] \/ d \in told
                      /\ messages'[d] = IF d \in receivers THEN Append(messages[d], m) ELSE messages[d]
  BY <1>1
<1>3. \A d \in Coro : d \in receivers => messages'[d] # <<>>
  <2>1. \A d \in Coro : messages[d] \in Seq(Message) /\ Append(messages[d], m) # <<>>
    BY <1>1, PushLemma
  <2> QED BY <1>2, <2>1
<1>4. ASSUME NEW d \in Coro PROVE Due(d)' => Due(d) \/ Told(d)'
  <2>1. SUFFICES ASSUME Due(d)', ~Due(d) PROVE Told(d)'
    OBVIOUS
  <2>2. Blocked(d, "mget") /\ messages[d] = <<>> /\ messages'[d] # <<>> /\ d \in receivers
    BY <1>1, <1>2, <2>1 DEF Due
  <2>3. "WAIT" \in msg[d]
    BY <2>2 DEF WakeInv, Word
  <2>4. Ancestors(d)' = Ancestors(d) /\ \A a \in Ancestors(d) : a \in Coro
    BY <1>1 DEF Ancestors, links
  <2>5. \A a \in Ancestors(d) : a \in told
    BY <2>2, <2>3 DEF told
  <2>6. \A a \in Ancestors(d) : "CHLD" \in msg'[a]
    BY <1>2, <2>4, <2>5
  <2> QED BY <2>4, <2>6 DEF Told, ChildUp
<1>5. \A d \in Coro : ChildUp(d) => ChildUp(d)'
  BY <1>1, <1>2 DEF ChildUp
<1>6. \A d \in Coro : /\ "WAIT" \in msg'[d] => "WAIT" \in msg[d]
                      /\ messages'[d] = <<>> => messages[d] = <<>> /\ ("WAIT" \in msg[d] => "WAIT" \in msg'[d])
  BY <1>2, <1>3
<1> QED BY <1>1, <1>4, <1>5, <1>6, QuietWakes

\* A coroutine is created.
LEMMA ChildWakes ==
  ASSUME Base, WakeInv, NEW c \in Coro, NEW raw, Child(c, raw)
  PROVE  WakeInv'
<1>1. /\ TypeOK /\ SchedInv /\ UNCHANGED <<current, stack>> /\ Chain' = Chain
      /\ \A x, op : Blocked(x, op)' <=> Blocked(x, op)
      /\ \A d : Yields(d)' <=> Yields(d)
      /\ \A r \in Ctx : \A i \in 1..Len(stack'[r]) : SameAt(r, i)
  BY SameStacks DEF Base, Child
<1>2. c \notin Live /\ stack[c] = <<>> /\ c # current /\ current \in Live \cup {Nil} /\ current \in Ctx
  BY <1>1, CurrentLives, NilAssumption DEF Child, SchedInv, Parks, Live, FREED, CORO_STAT_WAIT, CORO_STAT_BUSY
<1>3. \A d \in Coro : d # c => /\ evet'[d] = evet[d] /\ msg'[d] = msg[d]
                               /\ parent'[d] = parent[d] /\ messages'[d] = messages[d]
  BY <1>1 DEF Child, TypeOK
<1>4. ASSUME NEW p \in Live, NEW q, SweepReaches(p, q) PROVE SweepReaches(p, q)'
  <2>1. p # c /\ p \in Ctx /\ childs \in [Ctx -> Seq(Coro)]
    BY <1>1, <1>2 DEF Live, Ctx, TypeOK
  <2>2. \A j \in DOMAIN childs[p] : j \in DOMAIN childs'[p] /\ childs'[p][j] = childs[p][j]
    <3>1. CASE p # current
      BY <2>1, <3>1 DEF Child
    <3>2. CASE p = current
      <4>1. childs'[p] = Append(childs[p], c)
        BY <1>2, <2>1, <3>2 DEF Child
      <4> QED BY <2>1, <4>1
    <3> QED BY <3>1, <3>2
  <2> QED BY <1>1, <1>4, <2>2 DEF SweepReaches
<1>5. ASSUME NEW d \in Coro, Due(d)' PROVE Kept(d, Nil)
  <2>1. d # c
    BY <1>1, <1>2, <1>5 DEF Due, Blocked
  <2>2. Due(d)
    BY <1>1, <1>3, <1>5, <2>1 DEF Due
  <2>3. d \in Live /\ Line(d) \subseteq Live
    BY <1>1, <2>2, DueFacts, LineUp DEF WakeInv, Words, SchedInv
  <2>4. \A x \in Line(d) : /\ parent'[x] = parent[x]
                           /\ ChildUp(x) => ChildUp(x)'
                           /\ Waits(x)' => Waits(x)
                           /\ Yields(x)' => Yields(x)
    BY <1>1, <1>2, <1>3, <2>3 DEF Live, ChildUp, Waits
  <2>5. \A q \in Line(d) : \A p \in Coro : p = parent[q] /\ SweepReaches(p, q) => SweepReaches(p, q)'
    <3>1. \A q \in Line(d) : \A p \in Coro : p = parent[q] => p \in Live
      BY <1>1, <2>3, NilAssumption DEF SchedInv, Tree
    <3> QED BY <1>4, <3>1
  <2> QED BY <2>2, <2>4, <2>5, NilAssumption DEF Kept
<1>6. Calm(Nil)
  BY <1>5, NilAssumption DEF Calm, Ancestors
<1>7. ASSUME NEW d \in Coro PROVE Word(d)' \/ WordKept(d)
  <2>1. CASE d = c
    <3>1. \A op : ~Blocked(d, op)'
      BY <1>1, <1>2, <2>1 DEF Blocked
    <3>2. d \notin Chain
      BY <1>2, <2>1 DEF Chain, Resumer
    <3>3. d \notin Chain'
      BY <1>1, <3>2
    <3> QED BY <3>1, <3>3 DEF Word
  <2>2. CASE d # c
    BY <1>1, <1>3, <2>2 DEF WordKept
  <2> QED BY <2>1, <2>2
<1>8. \A r \in Ctx : Serves(stack'[r])
  BY <1>1 DEF WakeInv
<1> QED BY <1>1, <1>6, <1>7, <1>8, CalmStep

-----------------------------------------------------------------------------
(* The turns of a loop *)

\* The loop at work, f, is at the top, n, of its stack, above a call that holds
\* no child and whose stack is u.
Below(f, n, u) ==
  /\ n \in Nat \ {0} /\ stack[current] \in Seq(Frames) /\ f = stack[current][n]
  /\ f \in Frames /\ f.op = "resume_childs" /\ Fits(f, current)
  /\ u \in Seq(Frames) /\ Len(u) = n - 1 /\ \A i \in 1..n - 1 : u[i] = stack[current][i]
  /\ Serves(u) /\ \A g \in Frames : g.op = "resume_childs" => MayPush(u, g)
  /\ \A i \in 1..n - 1 : i = n - 1 => stack[current][i].kid = Nil

\* The loop of resume_childs is at work.
LEMMA LoopBelow ==
  ASSUME Base, WakeInv, In("resume_childs"), NEW f, f = Top(stack[current]),
         NEW n, n = Len(stack[current]), NEW u, u = Under(stack[current])
  PROVE  Below(f, n, u)
<1>1. /\ TypeOK /\ SchedInv /\ stack[current] # <<>> /\ stack[current] \in Seq(Frames)
      /\ Serves(stack[current]) /\ Based(stack[current]) /\ Fits(f, current) /\ f.op = "resume_childs"
      /\ Top(stack[current]).op # "yield" /\ current \in Ctx /\ f \in Frames
  BY RunningGood DEF Base, WakeInv, TypeOK, Good, In
<1>2. /\ n \in Nat \ {0} /\ Len(u) = n - 1 /\ u \in Seq(Frames)
      /\ \A i \in 1..n - 1 : u[i] = stack[current][i]
  BY <1>1, PopLemma
<1>3. f = stack[current][n]
  BY DEF Top
<1>4. /\ Serves(u)
      /\ u = <<>> \/ /\ Top(u).op \notin {"resume", "coro_transfer", "mget", "await"}
                     /\ Top(u).op # "resume_childs"
  BY <1>1, ServesUnder DEF Serve
<1>5. \A g \in Frames : g.op = "resume_childs" => MayPush(u, g)
  BY <1>4 DEF MayPush
<1>6. ASSUME NEW i \in 1..n - 1, i = n - 1 PROVE stack[current][i].kid = Nil
  <2>1. i \in 1..Len(stack[current]) /\ i < Len(stack[current]) /\ i + 1 = n
    BY <1>2, <1>6
  <2>2. stack[current][i].kid # Nil => stack[current][i].op = "resume_childs"
    BY <1>1, <2>1, FrameOf DEF Fits
  <2>3. stack[current][i].op = "resume_childs" /\ stack[current][i].kid # Nil =>
          stack[current][i+1].op \in Serve
    BY <1>1, <2>1 DEF Serves
  <2> QED BY <1>1, <1>3, <2>1, <2>2, <2>3 DEF Serve
<1> QED BY <1>1, <1>2, <1>3, <1>4, <1>5, <1>6 DEF Below

\* It is the only loop over these children.
LEMMA TopReaches ==
  ASSUME Base, WakeInv, In("resume_childs"), NEW f, f = Top(stack[current]),
         NEW q, SweepReaches(f.co, q)
  PROVE  f.kid = q \/ \E j \in 1..f.left : j \in DOMAIN childs[f.co] /\ childs[f.co][j] = q
<1>1. PICK r \in Ctx : \E i \in DOMAIN stack[r] :
        /\ stack[r][i].op = "resume_childs" /\ stack[r][i].co = f.co
        /\ stack[r][i].kid = q \/ \E j \in 1..stack[r][i].left : j \in DOMAIN childs[f.co] /\ childs[f.co][j] = q
  BY DEF SweepReaches
<1>2. TypeOK /\ SchedInv /\ current \in Ctx /\ DOMAIN stack[r] = 1..Len(stack[r])
  BY DEF Base, TypeOK
<1>3. PICK i \in 1..Len(stack[r]) :
        /\ stack[r][i].op = "resume_childs" /\ stack[r][i].co = f.co
        /\ stack[r][i].kid = q \/ \E j \in 1..stack[r][i].left : j \in DOMAIN childs[f.co] /\ childs[f.co][j] = q
  BY <1>1, <1>2
<1>4. PICK n : n = Len(stack[current])
  OBVIOUS
<1>5. n \in 1..Len(stack[current]) /\ stack[current][n] = f /\ f.op = "resume_childs"
  <2>1. PICK u : u = Under(stack[current])
    OBVIOUS
  <2>2. Below(f, n, u)
    BY <1>4, <2>1, LoopBelow
  <2> QED BY <1>4, <2>2 DEF Below
<1>6. r = current /\ i = n
  <2>1. Depth(stack[r][i]) = Depth(stack[current][n]) /\ stack[r][i].op \in Nest /\ stack[current][n].op \in Nest
    BY <1>3, <1>5 DEF Depth, Nest
  <2> QED BY <1>2, <1>4, <1>5, <2>1, DepthUnique
<1> QED BY <1>3, <1>5, <1>6

\* The loops over other children stay as they are.
LEMMA OtherReaches ==
  ASSUME TypeOK, In("resume_childs"), NEW s, Grows(s), NEW p, p # Top(stack[current]).co,
         childs'[p] = childs[p], NEW q, SweepReaches(p, q)
  PROVE  SweepReaches(p, q)'
<1>1. PICK r \in Ctx : \E i \in DOMAIN stack[r] :
        /\ stack[r][i].op = "resume_childs" /\ stack[r][i].co = p
        /\ stack[r][i].kid = q \/ \E j \in 1..stack[r][i].left : j \in DOMAIN childs[p] /\ childs[p][j] = q
  BY DEF SweepReaches
<1>2. PICK i \in 1..Len(stack[r]) :
        /\ stack[r][i].op = "resume_childs" /\ stack[r][i].co = p
        /\ stack[r][i].kid = q \/ \E j \in 1..stack[r][i].left : j \in DOMAIN childs[p] /\ childs[p][j] = q
  BY <1>1, GrowsStacks
<1>3. i \in DOMAIN stack'[r] /\ stack'[r][i] = stack[r][i]
  <2>1. CASE r # current
    BY <1>2, <2>1, GrowsStacks
  <2>2. CASE r = current
    <3>1. i # Len(stack[current])
      BY <1>2, <2>2 DEF Top
    <3>2. i \in 1..Len(stack[current]) - 1
      BY <2>2, <3>1, GrowsStacks
    <3> QED BY <2>2, <3>2, GrowsStacks DEF Grows
  <2> QED BY <2>1, <2>2
<1> QED BY <1>2, <1>3 DEF SweepReaches

\* A turn of the loop at work: its stack becomes s, and those of D are destroyed.
Turns(s, D) ==
  /\ In("resume_childs") /\ UNCHANGED current
  /\ Grows(s) /\ Serves(s)
  /\ \A i \in 1..Len(s) : i >= Len(stack[current]) => s[i].op \in Nest
  /\ \A i \in 1..Len(s) : i >= Len(stack[current]) /\ s[i].kid # Nil => i < Len(s) /\ s[i+1].op = "resume"
  /\ \A c \in D : c \in Coro /\ stat[c] = CORO_STAT_DONE
  /\ \A d \in Coro \ D : /\ evet'[d] = evet[d] /\ msg'[d] = msg[d]
                         /\ parent'[d] = parent[d] /\ messages'[d] = messages[d]
  /\ \A c \in Coro : Due(c) =>
       \A q \in Line(c) \ D : \A p \in Coro :
         p = parent[q] /\ SweepReaches(p, q) => SweepReaches(p, q)' \/ Told(q)

\* A turn keeps the invariant.
LEMMA TurnWakes ==
  ASSUME Base, WakeInv, NEW s, NEW D, Turns(s, D)
  PROVE  WakeInv'
<1>1. /\ TypeOK /\ SchedInv /\ Grows(s) /\ UNCHANGED current /\ Serves(stack[current])
      /\ stack[current] # <<>> /\ Top(stack[current]).op \in Nest
      /\ \A i \in 1..Len(s) : i >= Len(stack[current]) => s[i].op \in Nest
      /\ current \in Ctx
  BY DEF Base, Turns, WakeInv, TypeOK, Nest, In
<1>2. PICK o, n : o = current /\ n = Len(stack[current])
  OBVIOUS
<1>3. /\ stack'[o] = s /\ \A r \in Ctx : r # o => stack'[r] = stack[r]
      /\ o \in Ctx
  BY <1>1, <1>2, GrowsStacks
<1>4. Chain' = Chain /\ \A c \in Coro : \A op \in {"mget", "await"} : Blocked(c, op)' <=> Blocked(c, op)
  <2>1. Chain' = Chain
    BY <1>1, ChainSame DEF Grows
  <2> QED BY <1>1, <2>1, GrowsBlocked
<1>5. \A c \in D : c \in Coro /\ c \notin Chain /\ stack[c] = <<>> /\ \A d \in Live : parent[d] # c
  BY <1>1, DoneIsAlone DEF Turns
<1>6. ASSUME NEW c \in Coro, Due(c)' PROVE Kept(c, Nil)
  <2>1. c \notin D
    <3>1. Blocked(c, "mget") \/ Blocked(c, "await")
      BY <1>4, <1>6 DEF Due
    <3> QED BY <1>5, <3>1 DEF Blocked
  <2>2. Due(c) /\ c \in Live /\ Line(c) \subseteq Live /\ Line(c) \cap D = {}
    <3>1. Due(c)
      BY <1>4, <1>6, <2>1 DEF Due, Turns
    <3>2. c \in Live
      BY <3>1, DueFacts DEF WakeInv, Words
    <3>3. /\ Line(c) \subseteq Live
          /\ \A a \in Ancestors(c) : \E d \in Line(c) : parent[d] = a
      BY <1>1, <3>2, LineUp DEF SchedInv
    <3>4. \A a \in Ancestors(c) : a \notin D
      BY <1>5, <3>3
    <3> QED BY <2>1, <3>1, <3>2, <3>3, <3>4 DEF Line
  <2>3. ASSUME NEW d \in Line(c)
        PROVE  /\ parent'[d] = parent[d]
               /\ (ChildUp(d) => ChildUp(d)') /\ (Waits(d)' => Waits(d)) /\ (Yields(d)' => Yields(d))
    <3>1. d \in Coro /\ d \in Ctx /\ d \notin D
      BY <2>2 DEF Live, Ctx
    <3>2. evet'[d] = evet[d] /\ msg'[d] = msg[d] /\ parent'[d] = parent[d]
      BY <3>1 DEF Turns
    <3>3. Yields(d)' => Yields(d)
      <4>1. \A i \in 1..Len(s) : i >= Len(stack[current]) => s[i].op # "yield"
        BY <1>1 DEF Nest
      <4> QED BY <1>1, <3>1, <4>1, GrowsYields
    <3> QED BY <3>2, <3>3 DEF ChildUp, Waits
  <2>4. \A q \in Line(c) : \A p \in Coro :
          p = parent[q] /\ SweepReaches(p, q) => SweepReaches(p, q)' \/ Told(q)
    BY <2>2 DEF Turns
  <2> QED BY <2>2, <2>3, <2>4, NilAssumption DEF Kept
<1>7. Calm(Nil)
  BY <1>6, NilAssumption DEF Calm, Ancestors
<1>8. ASSUME NEW c \in Coro PROVE Word(c)' \/ WordKept(c)
  <2>1. CASE c \in D
    <3>1. c \notin Chain' /\ \A op \in {"mget", "await"} : ~Blocked(c, op)'
      BY <1>4, <1>5, <2>1 DEF Blocked
    <3> QED BY <3>1 DEF Word
  <2>2. CASE c \notin D
    <3>1. evet'[c] = evet[c] /\ msg'[c] = msg[c] /\ messages'[c] = messages[c]
      BY <2>2 DEF Turns
    <3> QED BY <1>4, <3>1 DEF WordKept
  <2> QED BY <2>1, <2>2
<1>9. ASSUME NEW r \in Ctx PROVE Serves(stack'[r])
  <2>1. CASE r = o
    BY <1>3, <2>1 DEF Turns
  <2>2. CASE r # o
    BY <1>3, <2>2 DEF WakeInv
  <2> QED BY <2>1, <2>2
<1>10. ASSUME NEW r \in Ctx, NEW i \in 1..Len(stack'[r]), stack'[r][i].kid # Nil
       PROVE  SameAt(r, i) \/ \A c \in Coro : HandTold(r, i, c)'
  <2>1. CASE r # current \/ i < Len(stack[current]) - 1
    BY <1>1, <2>1, GrowsSame
  <2>2. CASE r = current /\ ~(i < Len(stack[current]) - 1)
    <3>0. PICK f, u : f = Top(stack[current]) /\ u = Under(stack[current])
      OBVIOUS
    <3>1. r = o /\ i \in 1..Len(s) /\ ~(i < n - 1) /\ i \in Nat /\ s[i].kid # Nil
      BY <1>2, <1>3, <1>10, <2>2
    <3>2. n \in Nat \ {0} /\ \A k \in 1..n - 1 : k = n - 1 => stack[current][k].kid = Nil
      <4>1. Below(f, n, u)
        BY <1>2, <3>0, LoopBelow DEF Turns
      <4> QED BY <4>1 DEF Below
    <3>3. i >= n
      <4> SUFFICES ASSUME ~(i >= n) PROVE FALSE
        OBVIOUS
      <4>1. i \in 1..n - 1 /\ i = n - 1
        BY <3>1, <3>2
      <4>2. s[i] = stack[current][i]
        BY <1>2, <4>1 DEF Grows, Turns
      <4> QED BY <3>1, <3>2, <4>1, <4>2
    <3>4. i < Len(s) /\ s[i+1].op = "resume"
      BY <1>2, <3>1, <3>3 DEF Turns
    <3>5. i < Len(stack'[r]) /\ stack'[r][i+1].op = "resume"
      BY <1>3, <3>1, <3>4
    <3>6. ASSUME NEW c \in Coro PROVE HandTold(r, i, c)'
      BY <3>5 DEF HandTold, Looks
    <3> QED BY <3>6
  <2> QED BY <2>1, <2>2
<1> QED BY <1>7, <1>8, <1>9, <1>10, CalmStep

\* The loop ends.
LEMMA EndSweepWakes ==
  ASSUME Base, WakeInv, EndSweep
  PROVE  WakeInv'
<1>1. PICK f, n, u : f = Top(stack[current]) /\ n = Len(stack[current]) /\ u = Under(stack[current])
  OBVIOUS
<1>2. /\ In("resume_childs") /\ f.kid = Nil /\ f.left = 0 /\ Become(u)
      /\ UNCHANGED <<current, stat, flags, links, childs, messages>>
  BY <1>1 DEF EndSweep, Pop
<1>3. /\ n \in Nat \ {0} /\ u \in Seq(Frames) /\ Len(u) = n - 1 /\ Serves(u)
      /\ \A i \in 1..n - 1 : u[i] = stack[current][i]
  <2>1. Below(f, n, u)
    BY <1>1, <1>2, LoopBelow
  <2> QED BY <2>1 DEF Below
<1>4. /\ Grows(u)
      /\ \A i \in 1..Len(u) : ~(i >= Len(stack[current]))
  <2>1. \A i \in 1..Len(stack[current]) - 1 : i \in 1..Len(u) /\ u[i] = stack[current][i]
    BY <1>1, <1>3
  <2>2. \A i \in 1..Len(u) : ~(i >= Len(stack[current]))
    BY <1>1, <1>3
  <2> QED BY <1>2, <1>3, <2>1, <2>2 DEF Grows
<1>5. ASSUME NEW c \in Coro, Due(c), NEW q \in Line(c), NEW p \in Coro, p = parent[q], SweepReaches(p, q)
      PROVE  SweepReaches(p, q)'
  <2>1. q \in Coro
    BY <1>5 DEF Line, Ancestors
  <2>2. p # f.co
    <3> SUFFICES ASSUME p = f.co PROVE FALSE
      OBVIOUS
    <3>1. f.kid = q \/ \E j \in 1..f.left : j \in DOMAIN childs[f.co] /\ childs[f.co][j] = q
      BY <1>1, <1>2, <1>5, TopReaches
    <3> QED BY <1>2, <2>1, <3>1, NilAssumption
  <2> QED BY <1>1, <1>2, <1>4, <1>5, <2>2, OtherReaches DEF Base
<1>6. Turns(u, {})
  BY <1>2, <1>3, <1>4, <1>5 DEF Turns, flags, links
<1> QED BY <1>6, TurnWakes

\* The loop takes the first child off the list, which moves the others up.
LEMMA TakenReaches ==
  ASSUME Base, WakeInv, In("resume_childs"), NEW f, f = Top(stack[current]), f.left > 0,
         childs[f.co] # <<>>, childs' = [childs EXCEPT ![f.co] = Tail(@)],
         NEW s, Grows(s), NEW n, n = Len(stack[current]), n <= Len(s),
         s[n].op = "resume_childs", s[n].co = f.co, s[n].left = f.left - 1, f.kid = Nil,
         NEW p, NEW q \in Coro, q # Head(childs[f.co]) \/ s[n].kid = q, SweepReaches(p, q), p \in Ctx
  PROVE  SweepReaches(p, q)'
<1>1. CASE p # f.co
  <2>1. childs'[p] = childs[p]
    BY <1>1 DEF Base, TypeOK
  <2> QED BY <1>1, <2>1, OtherReaches DEF Base
<1>2. CASE p = f.co
  <2>1. PICK j \in 1..f.left : j \in DOMAIN childs[p] /\ childs[p][j] = q
    BY <1>2, NilAssumption, TopReaches
  <2>2. childs[p] \in Seq(Coro) /\ childs'[p] = Tail(childs[p]) /\ f \in Frames /\ n \in Nat \ {0}
    <3>1. PICK u : u = Under(stack[current])
      OBVIOUS
    <3>2. f \in Frames /\ n \in Nat \ {0}
      <4>1. Below(f, n, u)
        BY <3>1, LoopBelow
      <4> QED BY <4>1 DEF Below
    <3> QED BY <1>2, <3>2 DEF Base, TypeOK
  <2>3. stack'[current] = s /\ current \in Ctx /\ n \in DOMAIN stack'[current]
    BY <2>2, GrowsStacks DEF Base
  <2>4. CASE j = 1
    <3>1. s[n].kid = q
      BY <1>2, <2>1, <2>2, <2>4
    <3> QED BY <1>2, <2>3, <3>1 DEF SweepReaches
  <2>5. CASE j # 1
    <3>1. f.left \in Nat
      BY <2>2 DEF Frames
    <3>2. j - 1 \in 1..f.left - 1
      BY <2>1, <2>5, <3>1
    <3>3. j - 1 \in DOMAIN Tail(childs[p]) /\ Tail(childs[p])[j-1] = q
      <4>1. childs[p] # <<>> /\ DOMAIN childs[p] = 1..Len(childs[p]) /\ Len(childs[p]) \in Nat
        BY <1>2, <2>2
      <4>2. j \in 2..Len(childs[p])
        BY <2>1, <2>5, <4>1
      <4> QED BY <2>1, <2>2, <4>1, <4>2
    <3> QED BY <1>2, <2>2, <2>3, <3>2, <3>3 DEF SweepReaches
  <2> QED BY <2>4, <2>5
<1> QED BY <1>1, <1>2

\* The loop takes a child, to resume or to destroy it.
LEMMA TakeChildWakes ==
  ASSUME Base, WakeInv, TakeChild
  PROVE  WakeInv'
<1>1. PICK f, n, u : f = Top(stack[current]) /\ n = Len(stack[current]) /\ u = Under(stack[current])
  OBVIOUS
<1>2. PICK c : c = Head(childs[f.co])
  OBVIOUS
<1>3. /\ In("resume_childs") /\ f.kid = Nil /\ f.left > 0 /\ childs[f.co] # <<>>
      /\ childs' = [childs EXCEPT ![f.co] = Tail(@)] /\ UNCHANGED current
  BY <1>1 DEF TakeChild
<1>4. /\ n \in Nat \ {0} /\ u \in Seq(Frames) /\ Len(u) = n - 1 /\ Serves(u) /\ f \in Frames
      /\ f.op = "resume_childs"
      /\ \A i \in 1..n - 1 : u[i] = stack[current][i]
      /\ \A g \in Frames : g.op = "resume_childs" => MayPush(u, g)
  <2>1. Below(f, n, u)
    BY <1>1, <1>3, LoopBelow
  <2> QED BY <2>1 DEF Below
<1>5. c \in Coro
  <2>1. f.co \in Ctx
    BY <1>4 DEF Frames
  <2>2. childs[f.co] \in Seq(Coro) /\ childs[f.co] # <<>>
    BY <1>3, <2>1 DEF Base, TypeOK
  <2> QED BY <1>2, <2>2
<1>6. f.left \in Nat /\ f.left - 1 \in Nat
  BY <1>3, <1>4 DEF Frames
<1>7. ASSUME NEW g \in Frames, g.op = "resume_childs"
      PROVE  /\ Append(u, g) \in Seq(Frames) /\ Serves(Append(u, g)) /\ Len(Append(u, g)) = n
             /\ Append(u, g)[n] = g /\ Top(Append(u, g)) = g
             /\ \A i \in 1..n - 1 : Append(u, g)[i] = stack[current][i]
  <2>1. /\ Append(u, g) \in Seq(Frames) /\ Append(u, g) # <<>> /\ Len(Append(u, g)) = Len(u) + 1
        /\ \A i \in 1..Len(u) : Append(u, g)[i] = u[i]
        /\ Top(Append(u, g)) = g
    BY <1>4, PushLemma
  <2>2. Serves(Append(u, g))
    BY <1>4, <1>7, ServesPush
  <2>3. Len(Append(u, g)) = n
    BY <1>4, <2>1
  <2> QED BY <1>4, <2>1, <2>2, <2>3 DEF Top
<1>8. CASE stat[c] = CORO_STAT_DONE
  <2>1. PICK g : g = [f EXCEPT !.left = @ - 1]
    OBVIOUS
  <2>2. /\ g \in Frames /\ g.op = "resume_childs" /\ g.co = f.co /\ g.kid = Nil /\ g.left = f.left - 1
    BY <1>3, <1>4, <1>6, <2>1 DEF Frames
  <2>3. PICK s : s = Append(u, g)
    OBVIOUS
  <2>4. /\ s \in Seq(Frames) /\ Serves(s) /\ Len(s) = n /\ s[n] = g
        /\ \A i \in 1..n - 1 : s[i] = stack[current][i]
    BY <1>7, <2>2, <2>3
  <2>5. Become(s) /\ Destroy(c)
    BY <1>1, <1>2, <1>8, <2>1, <2>3 DEF TakeChild, Replace
  <2>6. Grows(s) /\ \A i \in 1..Len(s) : i >= n => i = n
    BY <1>1, <1>4, <2>4, <2>5 DEF Grows
  <2>7. \A d \in Coro \ {c} : /\ evet'[d] = evet[d] /\ msg'[d] = msg[d]
                              /\ parent'[d] = parent[d] /\ messages'[d] = messages[d]
    BY <2>5 DEF Destroy, Base, TypeOK
  <2>8. ASSUME NEW x \in Coro, Due(x), NEW q \in Line(x) \ {c}, NEW p \in Coro, p = parent[q], SweepReaches(p, q)
        PROVE  SweepReaches(p, q)'
    <3>1. q \in Coro /\ q # c /\ p \in Ctx
      BY <2>8 DEF Line, Ancestors, Ctx
    <3>2. n <= Len(s) /\ s[n].op = "resume_childs" /\ s[n].co = f.co /\ s[n].left = f.left - 1
      BY <1>4, <2>2, <2>4
    <3> QED BY <1>1, <1>2, <1>3, <2>6, <2>8, <3>1, <3>2, TakenReaches
  <2>9. Turns(s, {c})
    BY <1>1, <1>3, <1>5, <1>8, <2>2, <2>4, <2>6, <2>7, <2>8 DEF Turns, Nest
  <2> QED BY <2>9, TurnWakes
<1>9. CASE stat[c] # CORO_STAT_DONE
  <2>1. PICK g, h : g = [f EXCEPT !.kid = c, !.left = @ - 1] /\ h = Call("resume", c)
    OBVIOUS
  <2>2. /\ g \in Frames /\ g.op = "resume_childs" /\ g.co = f.co /\ g.kid = c /\ g.left = f.left - 1
    BY <1>4, <1>5, <1>6, <2>1 DEF Frames, Ctx
  <2>3. h \in Frames /\ h.op = "resume" /\ h.co = c /\ h.kid = Nil
    BY <1>5, <2>1 DEF Frames, Call, Frame, Ops, Ctx
  <2>4. PICK t : t = Append(u, g)
    OBVIOUS
  <2>5. /\ t \in Seq(Frames) /\ Serves(t) /\ Len(t) = n /\ t[n] = g /\ Top(t) = g
        /\ \A i \in 1..n - 1 : t[i] = stack[current][i]
    BY <1>7, <2>2, <2>4
  <2>6. MayPush(t, h)
    BY <1>5, <2>2, <2>3, <2>5, NilAssumption DEF MayPush, Serve
  <2>7. PICK s : s = Append(t, h)
    OBVIOUS
  <2>8. /\ s \in Seq(Frames) /\ Serves(s) /\ Len(s) = n + 1 /\ s[n] = g /\ s[n+1] = h
        /\ \A i \in 1..n - 1 : s[i] = stack[current][i]
    <3>1. /\ s \in Seq(Frames) /\ Len(s) = n + 1 /\ \A i \in 1..n : s[i] = t[i]
      BY <2>3, <2>5, <2>7, PushLemma
    <3>2. Serves(s)
      BY <2>3, <2>5, <2>6, <2>7, ServesPush
    <3>3. s[n+1] = h
      BY <2>3, <2>5, <2>7
    <3>4. n \in 1..n /\ \A i \in 1..n - 1 : i \in 1..n
      BY <1>4
    <3> QED BY <2>5, <3>1, <3>2, <3>3, <3>4
  <2>9. Become(s) /\ UNCHANGED <<stat, flags, links, messages>>
    BY <1>1, <1>2, <1>9, <2>1, <2>4, <2>7 DEF TakeChild
  <2>10. Grows(s) /\ \A i \in 1..Len(s) : i >= n => i = n \/ i = n + 1
    BY <1>1, <1>4, <2>8, <2>9 DEF Grows
  <2>11. ASSUME NEW x \in Coro, Due(x), NEW q \in Line(x), NEW p \in Coro, p = parent[q], SweepReaches(p, q)
         PROVE  SweepReaches(p, q)'
    <3>1. q \in Coro /\ p \in Ctx
      BY <2>11 DEF Line, Ancestors, Ctx
    <3>2. n <= Len(s) /\ s[n].op = "resume_childs" /\ s[n].co = f.co /\ s[n].left = f.left - 1
      BY <1>4, <2>2, <2>8
    <3>3. q # Head(childs[f.co]) \/ s[n].kid = q
      BY <1>2, <2>2, <2>8
    <3>4. /\ In("resume_childs") /\ f = Top(stack[current]) /\ f.left > 0 /\ f.kid = Nil
          /\ childs[f.co] # <<>> /\ childs' = [childs EXCEPT ![f.co] = Tail(@)]
          /\ Grows(s) /\ n = Len(stack[current]) /\ SweepReaches(p, q)
      BY <1>1, <1>3, <2>10, <2>11
    <3> QED BY ONLY Base, WakeInv, <3>1, <3>2, <3>3, <3>4, TakenReaches
  <2>12. /\ \A i \in 1..Len(s) : i >= n => s[i].op \in Nest
         /\ \A i \in 1..Len(s) : i >= n /\ s[i].kid # Nil => i < Len(s) /\ s[i+1].op = "resume"
    <3>1. s[n].op \in Nest /\ s[n+1].op \in Nest /\ s[n+1].kid = Nil /\ n < Len(s) /\ s[n+1].op = "resume"
      BY <1>4, <2>2, <2>3, <2>8 DEF Nest
    <3> QED BY <2>10, <3>1
  <2>13. Turns(s, {})
    <3>1. UNCHANGED <<evet, msg, parent, messages>>
      BY <2>9 DEF flags, links
    <3> QED BY <1>1, <1>3, <2>8, <2>10, <2>11, <2>12, <3>1 DEF Turns
  <2> QED BY <2>13, TurnWakes
<1> QED BY <1>8, <1>9

\* The loop puts the child in its hands at the end of the list.
LEMMA PutReaches ==
  ASSUME Base, WakeInv, In("resume_childs"), NEW f, f = Top(stack[current]),
         childs' = childs \/ childs' = [childs EXCEPT ![f.co] = Append(@, f.kid)],
         f.kid \in Coro,
         NEW s, Grows(s), NEW n, n = Len(stack[current]), n <= Len(s),
         s[n].op = "resume_childs", s[n].co = f.co, s[n].left = f.left,
         NEW p \in Ctx, NEW q, q # f.kid, SweepReaches(p, q)
  PROVE  SweepReaches(p, q)'
<1>1. CASE p # f.co
  <2>1. childs'[p] = childs[p]
    BY <1>1 DEF Base, TypeOK
  <2> QED BY <1>1, <2>1, OtherReaches DEF Base
<1>2. CASE p = f.co
  <2>1. PICK j \in 1..f.left : j \in DOMAIN childs[p] /\ childs[p][j] = q
    BY <1>2, TopReaches
  <2>2. childs[p] \in Seq(Coro) /\ f \in Frames /\ n \in Nat \ {0}
    <3>1. PICK u : u = Under(stack[current])
      OBVIOUS
    <3>2. f \in Frames /\ n \in Nat \ {0}
      <4>1. Below(f, n, u)
        BY <3>1, LoopBelow
      <4> QED BY <4>1 DEF Below
    <3> QED BY <1>2, <3>2 DEF Base, TypeOK
  <2>3. stack'[current] = s /\ current \in Ctx /\ n \in DOMAIN stack'[current]
    BY <2>2, GrowsStacks DEF Base
  <2>4. childs'[p] = childs[p] \/ childs'[p] = Append(childs[p], f.kid)
    BY <1>2 DEF Base, TypeOK
  <2>5. j \in DOMAIN childs'[p] /\ childs'[p][j] = q
    BY <2>1, <2>2, <2>4
  <2> QED BY <1>2, <2>1, <2>3, <2>5 DEF SweepReaches
<1> QED BY <1>1, <1>2

\* The loop is done with a child.
LEMMA PutChildBackWakes ==
  ASSUME Base, WakeInv, PutChildBack
  PROVE  WakeInv'
<1>1. PICK f, n, u : f = Top(stack[current]) /\ n = Len(stack[current]) /\ u = Under(stack[current])
  OBVIOUS
<1>2. PICK k : k = f.kid
  OBVIOUS
<1>3. /\ In("resume_childs") /\ k # Nil /\ UNCHANGED current
      /\ Become(Append(u, [f EXCEPT !.kid = Nil]))
      /\ IF stat[k] = CORO_STAT_DONE
           THEN Destroy(k) /\ UNCHANGED childs
           ELSE /\ childs' = [childs EXCEPT ![f.co] = Append(@, k)]
                /\ UNCHANGED <<stat, flags, links, messages>>
  BY <1>1, <1>2 DEF PutChildBack, Replace
<1>4. /\ n \in Nat \ {0} /\ u \in Seq(Frames) /\ Len(u) = n - 1 /\ Serves(u) /\ f \in Frames
      /\ f.op = "resume_childs" /\ f = stack[current][n]
      /\ \A i \in 1..n - 1 : u[i] = stack[current][i]
      /\ \A g \in Frames : g.op = "resume_childs" => MayPush(u, g)
  <2>1. Below(f, n, u)
    BY <1>1, <1>3, LoopBelow
  <2> QED BY <2>1 DEF Below
<1>5. k \in Coro
  BY <1>2, <1>3, <1>4 DEF Frames, Ctx
<1>6. PICK g : g = [f EXCEPT !.kid = Nil]
  OBVIOUS
<1>7. /\ g \in Frames /\ g.op = "resume_childs" /\ g.co = f.co /\ g.kid = Nil /\ g.left = f.left
  BY <1>4, <1>6 DEF Frames, Ctx
<1>8. PICK s : s = Append(u, g)
  OBVIOUS
<1>9. /\ s \in Seq(Frames) /\ Serves(s) /\ Len(s) = n /\ s[n] = g
      /\ \A i \in 1..n - 1 : s[i] = stack[current][i]
  <2>1. /\ Append(u, g) \in Seq(Frames) /\ Append(u, g) # <<>> /\ Len(Append(u, g)) = Len(u) + 1
        /\ \A i \in 1..Len(u) : Append(u, g)[i] = u[i]
        /\ Top(Append(u, g)) = g
    BY <1>4, <1>7, PushLemma
  <2>2. Serves(Append(u, g))
    BY <1>4, <1>7, ServesPush
  <2> QED BY <1>4, <1>8, <2>1, <2>2 DEF Top
<1>10. Grows(s) /\ \A i \in 1..Len(s) : i >= n => i = n
  <2>1. Become(s)
    BY <1>3, <1>6, <1>8
  <2> QED BY <1>1, <1>4, <1>9, <2>1 DEF Grows
<1>11. ASSUME NEW x \in Coro, Due(x), NEW q \in Line(x), NEW p \in Coro, p = parent[q], SweepReaches(p, q)
       PROVE  SweepReaches(p, q)' \/ Told(q)
  <2>1. CASE q = k
    <3>1. PICK r \in Ctx : r = current
      BY DEF Base, TypeOK
    <3>2. n \in 1..Len(stack[r]) /\ stack[r][n].kid = q /\ ~(n < Len(stack[r]))
      <4>1. n = Len(stack[r]) /\ stack[r][n] = f
        BY <1>1, <1>4, <3>1
      <4> QED BY <1>2, <1>4, <2>1, <4>1
    <3>3. HandTold(r, n, x)
      BY <3>2 DEF WakeInv, Held
    <3> QED BY <1>3, <1>11, <2>1, <3>2, <3>3 DEF HandTold
  <2>2. CASE q # k
    <3>1. p \in Ctx
      BY DEF Ctx
    <3>2. /\ In("resume_childs") /\ f = Top(stack[current]) /\ f.kid \in Coro /\ q # f.kid
          /\ childs' = childs \/ childs' = [childs EXCEPT ![f.co] = Append(@, f.kid)]
      BY <1>1, <1>2, <1>3, <1>5, <2>2
    <3>3. /\ Grows(s) /\ n = Len(stack[current]) /\ n <= Len(s)
          /\ s[n].op = "resume_childs" /\ s[n].co = f.co /\ s[n].left = f.left
          /\ SweepReaches(p, q)
      BY <1>1, <1>4, <1>7, <1>9, <1>10, <1>11
    <3> QED BY ONLY Base, WakeInv, <3>1, <3>2, <3>3, PutReaches
  <2> QED BY <2>1, <2>2
<1>12. /\ \A i \in 1..Len(s) : i >= n => s[i].op \in Nest
       /\ \A i \in 1..Len(s) : i >= n /\ s[i].kid # Nil => i < Len(s) /\ s[i+1].op = "resume"
  <2>1. s[n].op \in Nest /\ s[n].kid = Nil
    BY <1>7, <1>9 DEF Nest
  <2> QED BY <1>10, <2>1
<1>13. CASE stat[k] = CORO_STAT_DONE
  <2>1. \A d \in Coro \ {k} : /\ evet'[d] = evet[d] /\ msg'[d] = msg[d]
                              /\ parent'[d] = parent[d] /\ messages'[d] = messages[d]
    BY <1>3, <1>13 DEF Destroy, Base, TypeOK
  <2>2. Turns(s, {k})
    BY <1>1, <1>3, <1>5, <1>9, <1>10, <1>11, <1>12, <1>13, <2>1 DEF Turns
  <2> QED BY <2>2, TurnWakes
<1>14. CASE stat[k] # CORO_STAT_DONE
  <2>1. UNCHANGED <<evet, msg, parent, messages>>
    BY <1>3, <1>14 DEF flags, links
  <2>2. Turns(s, {})
    BY <1>1, <1>3, <1>9, <1>10, <1>11, <1>12, <2>1 DEF Turns
  <2> QED BY <2>2, TurnWakes
<1> QED BY <1>13, <1>14

-----------------------------------------------------------------------------
(* Switches *)

\* resume() switches to q.
LEMMA TransferGoWakes ==
  ASSUME Base, WakeInv, Transfer, ~Waits(Top(stack[current]).co)
  PROVE  WakeInv'
<1>1. PICK o, n, q : o = current /\ n = Len(stack[current]) /\ q = Top(stack[current]).co
  OBVIOUS
<1>2. PICK s : s = Append(Under(stack[current]), Call("coro_transfer", q))
  OBVIOUS
<1>3. /\ stack[current] # <<>> /\ Top(stack[current]).op = "transfer" /\ Become(s)
      /\ UNCHANGED <<flags, parent, level, childs, messages>>
      /\ Top(stack[current]).op \in Serve
  BY <1>1, <1>2 DEF Transfer, Replace, In, Serve
<1>4. /\ q \in Live /\ q \in Coro /\ q # o /\ current' = q /\ q \notin Chain /\ q \in Ctx
      /\ o \in Ctx /\ TypeOK /\ SchedInv /\ ~Waits(q)
  <2>1. TypeOK /\ SchedInv /\ o \in Ctx
    BY <1>1 DEF Base, TypeOK
  <2> QED BY <1>1, <2>1, TransferEffect DEF Ctx
<1>5. /\ Deepens(s, n) /\ Len(s) = n /\ s[n] = Call("coro_transfer", q) /\ n \in Nat \ {0}
  <2>1. PICK op \in Serve : op = "coro_transfer"
    BY DEF Serve
  <2>2. s = Append(Under(stack[current]), Call(op, q))
    BY <1>2, <2>1
  <2>3. /\ stack[current] # <<>> /\ Top(stack[current]).op \in Serve
        /\ n = Len(stack[current]) /\ q \in Ctx /\ q = Top(stack[current]).co
    BY <1>1, <1>3, <1>4
  <2>4. Serving(s, n, op, q)
    BY ONLY Base, WakeInv, <2>1, <2>2, <2>3, NestCall
  <2> QED BY <2>1, <2>4 DEF Serving
<1>6. /\ Grows(s) /\ Serves(s) /\ s \in Seq(Frames)
      /\ \A i \in 1..n - 1 : s[i] = stack[o][i]
      /\ s[n].op = "coro_transfer" /\ s[n].kid = Nil /\ s[n].co = q
      /\ \A i \in 1..Len(s) : i >= n => i = n
  <2>1. s[n].op = "coro_transfer" /\ s[n].kid = Nil /\ s[n].co = q
    BY <1>5 DEF Call, Frame
  <2>2. \A i \in 1..Len(s) : i >= n => i = n
    BY <1>5
  <2> QED BY <1>1, <1>3, <1>5, <2>1, <2>2 DEF Deepens, Grows
<1>7. stack'[o] = s /\ \A r \in Ctx : r # o => stack'[r] = stack[r]
  BY <1>1, <1>4, <1>6, GrowsStacks
<1>8. stack[q] = <<>> \/ (Len(stack[q]) = 1 /\ stack[q][1].op \in {"mget", "await"})
  BY <1>4 DEF SchedInv, Parks
<1>9. /\ \A op \in {"mget", "await"} : ~Blocked(q, op)'
      /\ ~Due(q)'
  <2>1. \A op \in {"mget", "await"} : ~Blocked(q, op)'
    <3>1. stack'[q] = stack[q] /\ current' = q /\ (stack[q] = <<>> \/ Len(stack[q]) = 1)
      BY <1>4, <1>7, <1>8
    <3>2. ASSUME NEW op, Blocked(q, op)' PROVE FALSE
      <4>1. stack'[q] # <<>> /\ (q # current' \/ Len(stack'[q]) > 1)
        BY <3>2 DEF Blocked
      <4>2. Len(stack[q]) = 1 /\ Len(stack[q]) > 1
        BY ONLY <3>1, <4>1
      <4> QED BY ONLY <4>2
    <3> QED BY <3>2
  <2> QED BY <2>1 DEF Due
<1>10. ASSUME NEW c \in Coro, c # q, NEW op \in {"mget", "await"} PROVE Blocked(c, op)' <=> Blocked(c, op)
  <2>1. c \in Ctx /\ c # current'
    BY <1>4, <1>10 DEF Ctx
  <2>2. CASE c # o
    BY <1>1, <1>7, <2>1, <2>2 DEF Blocked
  <2>3. CASE c = o
    <3>1. s # <<>> /\ stack[o] # <<>> /\ n = Len(stack[o]) /\ stack'[c] = s /\ c # current'
      BY <1>1, <1>3, <1>5, <1>7, <2>1, <2>3
    <3>2. CASE n = 1
      <4>1. s[1].op # op /\ ~(Len(stack[o]) > 1)
        BY <1>6, <3>1, <3>2
      <4> QED BY <1>1, <2>3, <3>1, <4>1 DEF Blocked
    <3>3. CASE n # 1
      <4>1. n > 1 /\ 1 \in 1..n - 1
        BY <1>5, <3>3
      <4>2. s[1] = stack[o][1]
        BY <1>6, <4>1
      <4> QED BY <1>1, <2>3, <3>1, <4>1, <4>2 DEF Blocked
    <3> QED BY <3>2, <3>3
  <2> QED BY <2>2, <2>3
<1>11. ASSUME NEW c \in Ctx, c \in Chain' PROVE c \in Chain \/ c = q
  <2>1. c = q \/ Resumer(c)'
    BY <1>4, <1>11 DEF Chain
  <2>2. CASE c = o
    BY <1>1, <2>2 DEF Chain
  <2>3. CASE c # o
    <3>1. Resumer(c)' => Resumer(c)
      BY <1>7, <2>3 DEF Resumer, Top
    <3> QED BY <2>1, <3>1 DEF Chain
  <2> QED BY <2>2, <2>3
<1>12. \A x, y : SweepReaches(x, y) => SweepReaches(x, y)'
  BY <1>3, <1>4, <1>6, GrowsReaches
<1>13. ASSUME NEW c \in Coro, Due(c)' PROVE Kept(c, Nil)
  <2>1. c # q /\ Due(c) /\ c \in Live
    <3>1. c # q
      BY <1>9, <1>13
    <3>2. messages'[c] = messages[c] /\ evet'[c] = evet[c]
      BY <1>3 DEF flags
    <3>3. Due(c)
      BY <1>10, <1>13, <3>1, <3>2 DEF Due
    <3> QED BY <3>1, <3>3, DueFacts DEF WakeInv, Words
  <2>2. Line(c) \subseteq Live
    BY <1>4, <2>1, LineUp DEF SchedInv
  <2>3. ASSUME NEW d \in Line(c)
        PROVE  /\ parent'[d] = parent[d]
               /\ (ChildUp(d) => ChildUp(d)') /\ (Waits(d)' => Waits(d)) /\ (Yields(d)' => Yields(d))
    <3>1. d \in Ctx
      BY <2>2 DEF Live, Ctx
    <3>2. Yields(d)' => Yields(d)
      <4>1. \A i \in 1..Len(s) : i >= Len(stack[current]) => s[i].op # "yield"
        BY <1>1, <1>6
      <4> QED BY <1>4, <1>6, <3>1, <4>1, GrowsYields
    <3>3. UNCHANGED <<evet, msg, parent>>
      BY <1>3 DEF flags
    <3> QED BY <3>2, <3>3 DEF ChildUp, Waits
  <2> QED BY <1>12, <2>1, <2>3, NilAssumption DEF Kept
<1>14. Calm(Nil)
  BY <1>13, NilAssumption DEF Calm, Ancestors
<1>15. ASSUME NEW c \in Coro PROVE WordKept(c)
  <2>1. evet'[c] = evet[c] /\ msg'[c] = msg[c] /\ messages'[c] = messages[c]
    BY <1>3 DEF flags
  <2>2. \A op \in {"mget", "await"} : Blocked(c, op)' => Blocked(c, op)
    BY <1>9, <1>10
  <2>3. \/ c \notin Chain' \/ ~Waits(c)
        \/ c \in Chain /\ \A op \in {"mget", "await"} : Blocked(c, op) => Blocked(c, op)'
    <3>1. CASE c = q
      BY <1>4, <3>1
    <3>2. CASE c # q
      BY <1>10, <1>11, <3>2 DEF Ctx
    <3> QED BY <3>1, <3>2
  <2> QED BY <2>1, <2>2, <2>3 DEF WordKept
<1>16. ASSUME NEW r \in Ctx PROVE Serves(stack'[r])
  <2>1. CASE r = o
    BY <1>6, <1>7, <2>1
  <2>2. CASE r # o
    BY <1>7, <2>2 DEF WakeInv
  <2> QED BY <2>1, <2>2
<1>17. ASSUME NEW r \in Ctx, NEW i \in 1..Len(stack'[r]), stack'[r][i].kid # Nil
       PROVE  SameAt(r, i) \/ \A c \in Coro : HandTold(r, i, c)'
  <2>1. CASE r # o
    <3>1. r # q
      <4> SUFFICES ASSUME r = q PROVE FALSE
        OBVIOUS
      <4>1. i \in 1..Len(stack[q]) /\ stack[q][i].kid # Nil
        BY <1>7, <1>17, <2>1
      <4>2. stack[q][i].op = "resume_childs"
        BY <1>4, <4>1, FrameOf DEF Fits
      <4>3. Len(stack[q]) = 1 /\ i = 1
        <5>1. stack[q] # <<>>
          BY <1>4, <4>1, FrameOf
        <5> QED BY <1>8, <4>1, <5>1
      <4> QED BY <1>8, <4>1, <4>2, <4>3
    <3>2. r # current /\ r # current'
      BY <1>1, <1>4, <2>1, <3>1
    <3> QED BY <1>4, <1>6, <1>17, <3>2, GrowsSame
  <2>2. CASE r = o
    <3>1. i \in 1..n /\ s[i].kid # Nil /\ stack'[r] = s
      BY <1>5, <1>7, <1>17, <2>2
    <3>2. i # n
      BY <1>6, <3>1
    <3>3. CASE i < n - 1
      BY <1>1, <1>4, <1>6, <1>17, <2>2, <3>3, GrowsSame
    <3>4. CASE ~(i < n - 1)
      <4>1. i = n - 1 /\ i + 1 = n /\ i < n /\ i \in 1..n - 1
        BY <1>5, <3>1, <3>2, <3>4
      <4>2. i < Len(stack'[r]) /\ stack'[r][i+1].op = "coro_transfer"
        BY <1>5, <1>6, <3>1, <4>1
      <4>3. r # current'
        BY <1>4, <2>2
      <4>4. stack'[r][i].kid = q
        <5>1. i \in 1..Len(s) /\ i < Len(s)
          BY <1>5, <4>1
        <5>2. i \in 1..Len(stack[o]) /\ s[i] = stack[o][i]
          BY <1>1, <1>5, <1>6, <4>1
        <5>3. s[i].op = "resume_childs"
          <6>1. stack[o][i].op = "resume_childs" \/ stack[o][i].kid = Nil
            BY <1>4, <5>2, FrameOf DEF Fits
          <6> QED BY <3>1, <5>2, <6>1
        <5>4. s[i+1].co = s[i].kid
          BY <1>6, <3>1, <5>1, <5>3 DEF Serves
        <5> QED BY <1>6, <3>1, <4>1, <5>4
      <4>5. ~Yields(q)'
        <5>1. stack'[q] = stack[q]
          BY <1>4, <1>7
        <5>2. \A j \in 1..Len(stack[q]) : stack[q][j].op # "yield"
          BY <1>8
        <5> QED BY <5>1, <5>2 DEF Yields
      <4>6. ASSUME NEW c \in Coro PROVE HandTold(r, i, c)'
        <5>1. CASE c = q
          BY <1>9, <5>1 DEF HandTold
        <5>2. CASE c # q
          BY <4>2, <4>3, <4>4, <4>5, <5>2 DEF HandTold, Looks
        <5> QED BY <5>1, <5>2
      <4> QED BY <4>6
    <3> QED BY <3>3, <3>4
  <2> QED BY <2>1, <2>2
<1> QED BY <1>14, <1>15, <1>16, <1>17, CalmStep

\* yield() and the end of execute() switch back to the context that resumed the
\* running one.
LEMMA SwitchOutWakes ==
  ASSUME Base, WakeInv, NEW own, SwitchOut(own), UNCHANGED <<flags, messages>>
  PROVE  WakeInv'
<1>1. PICK o, n, p, u : o = current /\ n = Len(stack[current]) /\ p = pre[current] /\ u = Under(stack[current])
  OBVIOUS
<1>2. /\ TypeOK /\ SchedInv /\ current # Nil /\ o # Nil /\ stack[current] # <<>> /\ Become(u)
      /\ UNCHANGED <<flags, parent, level, childs, messages>>
      /\ \/ own = CORO_STAT_WAIT /\ Top(stack[current]).op = "yield"
         \/ own = CORO_STAT_DONE /\ Top(stack[current]).op = "execute" /\ childs[o] = <<>>
      /\ stack[current] \in Seq(Frames)
  BY <1>1 DEF SwitchOut, Base, Pop, links, TypeOK
<1>3. /\ o \in Coro /\ o \in Ctx /\ p \in Chain /\ p # o /\ p \in Ctx /\ Top(stack[p]).co = o
      /\ Len(stack[o]) = 1 \/ (Len(stack[o]) = 2 /\ stack[o][1].op \in {"mget", "await"})
      /\ \A r \in Ctx : \A i \in 1..Len(stack[r]) : stack[r][i].kid # Nil => stack[r][i].co # o
  BY <1>1, <1>2, BackFacts DEF Chain, Ctx
<1>4. current' = p
  BY <1>1, <1>2, SwitchOutEffect
<1>5. /\ n \in Nat \ {0} /\ Len(u) = n - 1 /\ u \in Seq(Frames)
      /\ \A i \in 1..n - 1 : u[i] = stack[current][i]
  BY <1>1, <1>2, PopLemma
<1>6. Grows(u) /\ Serves(u)
  <2>1. Serves(u)
    BY <1>1, <1>2, <1>3, ServesPop DEF WakeInv
  <2>2. \A i \in 1..Len(stack[current]) - 1 : i \in 1..Len(u) /\ u[i] = stack[current][i]
    BY <1>1, <1>5
  <2> QED BY <1>2, <1>5, <2>1, <2>2 DEF Grows
<1>7. stack'[o] = u /\ \A r \in Ctx : r # o => stack'[r] = stack[r]
  BY <1>1, <1>2, <1>6, GrowsStacks
<1>8. u = <<>> \/ (Len(u) = 1 /\ Len(stack[o]) > 1 /\ u[1].op \in {"mget", "await"} /\ u[1] = stack[o][1])
  <2>1. CASE n = 1
    BY <1>5, <2>1
  <2>2. CASE n # 1
    <3>1. n = 2 /\ Len(stack[o]) = 2 /\ stack[o][1].op \in {"mget", "await"}
      BY <1>1, <1>3, <2>2
    <3>2. Len(u) = 1 /\ 1 \in 1..n - 1 /\ Len(stack[o]) > 1
      BY <1>5, <3>1
    <3> QED BY <1>1, <1>5, <3>1, <3>2
  <2> QED BY <2>1, <2>2
<1>9. /\ p # current /\ Resumer(p) /\ stack[p] # <<>> /\ Top(stack[p]).op = "coro_transfer"
      /\ stack[p] \in Seq(Frames)
  BY <1>1, <1>2, <1>3 DEF Chain, Resumer, TypeOK
<1>10. ~Resumer(o)'
  <2>1. ASSUME Resumer(o)' PROVE FALSE
    <3>1. u # <<>> /\ u[Len(u)].op = "coro_transfer"
      BY <1>7, <2>1 DEF Resumer, Top
    <3> QED BY <1>8, <3>1
  <2> QED BY <2>1
<1>11. ASSUME NEW c \in Ctx, c \in Chain' PROVE c \in Chain /\ c # o
  <2>1. c = p \/ Resumer(c)'
    BY <1>4, <1>11 DEF Chain
  <2>2. CASE c = p
    BY <1>3, <2>2
  <2>3. CASE Resumer(c)'
    <3>1. c # o
      BY <1>10, <2>3
    <3>2. Resumer(c)
      BY <1>7, <2>3, <3>1 DEF Resumer, Top
    <3> QED BY <3>1, <3>2 DEF Chain
  <2> QED BY <2>1, <2>2, <2>3
<1>12. ASSUME NEW c \in Coro, NEW op \in {"mget", "await"}
       PROVE  /\ Blocked(c, op)' => Blocked(c, op)
              /\ c # o /\ Blocked(c, op) => Blocked(c, op)'
  <2>0. c \in Ctx
    BY DEF Ctx
  <2>1. CASE c = o
    <3>1. ASSUME Blocked(c, op)' PROVE Blocked(c, op)
      <4>1. u # <<>> /\ u[1].op = op
        BY <1>7, <2>1, <3>1 DEF Blocked
      <4> QED BY <1>1, <1>2, <1>8, <2>1, <4>1 DEF Blocked
    <3> QED BY <2>1, <3>1
  <2>2. CASE c # o
    <3>1. stack'[c] = stack[c] /\ c # current
      BY <1>1, <1>7, <2>0, <2>2
    <3>2. ASSUME Blocked(c, op) PROVE Blocked(c, op)'
      <4>1. stack[c] # <<>> /\ stack[c][1].op = op
        BY <3>2 DEF Blocked
      <4>2. c = p => Len(stack[c]) > 1
        <5>1. SUFFICES ASSUME c = p PROVE Len(stack[c]) > 1
          OBVIOUS
        <5>2. Len(stack[p]) \in Nat \ {0} /\ stack[p][Len(stack[p])].op = "coro_transfer"
          BY <1>9, PopLemma DEF Top
        <5>3. Len(stack[p]) # 1
          BY <4>1, <5>1, <5>2
        <5>4. \A k \in Nat \ {0} : k # 1 => k > 1
          OBVIOUS
        <5>5. Len(stack[p]) > 1
          BY ONLY <5>2, <5>3, <5>4
        <5> QED BY <5>1, <5>5
      <4> QED BY <1>4, <3>1, <4>1, <4>2 DEF Blocked
    <3>3. Blocked(c, op)' => Blocked(c, op)
      BY <3>1 DEF Blocked
    <3> QED BY <3>2, <3>3
  <2> QED BY <2>1, <2>2
<1>13. \A x, y : SweepReaches(x, y) => SweepReaches(x, y)'
  <2>1. Top(stack[current]).op # "resume_childs"
    BY <1>2
  <2> QED BY <1>2, <1>6, <2>1, GrowsReaches
<1>14. ASSUME NEW c \in Coro, Due(c)' PROVE Kept(c, Nil)
  <2>1. Due(c) /\ c \in Live
    <3>1. messages'[c] = messages[c] /\ evet'[c] = evet[c]
      BY <1>2 DEF flags
    <3>2. Due(c)
      BY <1>12, <1>14, <3>1 DEF Due
    <3> QED BY <3>2, DueFacts DEF WakeInv, Words
  <2>2. Line(c) \subseteq Live
    BY <1>2, <2>1, LineUp DEF SchedInv
  <2>3. ASSUME NEW d \in Line(c)
        PROVE  /\ parent'[d] = parent[d]
               /\ (ChildUp(d) => ChildUp(d)') /\ (Waits(d)' => Waits(d)) /\ (Yields(d)' => Yields(d))
    <3>1. d \in Ctx
      BY <2>2 DEF Live, Ctx
    <3>2. Yields(d)' => Yields(d)
      <4>1. \A i \in 1..Len(u) : i >= Len(stack[current]) => u[i].op # "yield"
        BY <1>1, <1>5
      <4> QED BY <1>2, <1>6, <3>1, <4>1, GrowsYields
    <3>3. UNCHANGED <<evet, msg, parent>>
      BY <1>2 DEF flags
    <3> QED BY <3>2, <3>3 DEF ChildUp, Waits
  <2> QED BY <1>13, <2>1, <2>3, NilAssumption DEF Kept
<1>15. Calm(Nil)
  BY <1>14, NilAssumption DEF Calm, Ancestors
<1>16. ASSUME NEW c \in Coro PROVE WordKept(c)
  <2>1. evet'[c] = evet[c] /\ msg'[c] = msg[c] /\ messages'[c] = messages[c]
    BY <1>2 DEF flags
  <2>2. \A op \in {"mget", "await"} : Blocked(c, op)' => Blocked(c, op)
    BY <1>12
  <2>3. \/ c \notin Chain' \/ ~Waits(c)
        \/ c \in Chain /\ \A op \in {"mget", "await"} : Blocked(c, op) => Blocked(c, op)'
    <3>1. c \in Ctx
      BY DEF Ctx
    <3> QED BY <1>11, <1>12, <3>1
  <2> QED BY <2>1, <2>2, <2>3 DEF WordKept
<1>17. ASSUME NEW r \in Ctx PROVE Serves(stack'[r])
  <2>1. CASE r = o
    BY <1>6, <1>7, <2>1
  <2>2. CASE r # o
    BY <1>7, <2>2 DEF WakeInv
  <2> QED BY <2>1, <2>2
<1>18. \A d \in Live : parent[d] # o \/ Top(stack[current]).op = "yield"
  <2> SUFFICES ASSUME NEW d \in Live, parent[d] = o, childs[o] = <<>> PROVE FALSE
    BY <1>2
  <2>1. d \notin Elems(childs[o])
    BY DEF Elems
  <2>2. PICK r \in Ctx : d \in Hands(stack[r])
    BY <1>2, <2>1 DEF SchedInv, Lists
  <2>3. PICK i \in 1..Len(stack[r]) : stack[r][i].kid = d /\ d # Nil
    BY <2>2 DEF Hands
  <2>4. parent[d] = stack[r][i].co
    BY <1>2, <2>3, FrameOf DEF Fits
  <2> QED BY <1>3, <2>3, <2>4
\* What has come below the coroutine that is switched out has been told.
<1>19. ASSUME NEW i \in 1..Len(stack[p]), i < Len(stack[p]), stack[p][i].kid = o,
              stack[p][i+1].op = "coro_transfer", NEW c \in Coro, Due(c)', o \in Line(c)'
       PROVE  Told(o)'
  <2>1. Line(c)' = Line(c) /\ Due(c) /\ c \in Live
    <3>1. Due(c)
      BY <1>14, <1>19 DEF Kept
    <3> QED BY <1>2, <3>1, DueFacts DEF WakeInv, Words, Line, Ancestors
  <2>2. Told(o) \/ Looks(stack[p][i+1], p, o, c)
    <3>1. HandTold(p, i, c)
      BY <1>3, <1>19 DEF WakeInv, Held
    <3> QED BY <1>2, <1>19, <2>1, <3>1 DEF HandTold
  <2>3. Told(o)
    <3> SUFFICES ASSUME ~Told(o) PROVE FALSE
      OBVIOUS
    <3>1. c # o /\ (~Yields(o) \/ Heads(o, c))
      BY <1>19, <2>2 DEF Looks
    <3>2. ~Heads(o, c)
      <4>1. Top(stack[current]).op \notin Nest
        BY <1>2 DEF Nest
      <4> QED BY <1>1, <1>2, <1>3, <4>1, NotReached
    <3>3. Top(stack[current]).op # "yield"
      <4>1. ~Yields(o) /\ n \in 1..Len(stack[o])
        BY <1>1, <1>5, <3>1, <3>2
      <4> QED BY <1>1, <4>1 DEF Yields, Top
    <3>4. o \in Ancestors(c)
      BY <2>1, <3>1, <1>19 DEF Line
    <3>5. \E d \in Line(c) : parent[d] = o /\ d \in Live
      BY <1>2, <2>1, <3>4, LineUp DEF SchedInv
    <3> QED BY <1>18, <3>3, <3>5
  <2>4. Ancestors(o)' = Ancestors(o) /\ UNCHANGED <<evet, msg>>
    BY <1>2 DEF Ancestors, flags
  <2> QED BY <2>3, <2>4 DEF Told, ChildUp
<1>20. ASSUME NEW r \in Ctx, NEW i \in 1..Len(stack'[r]), stack'[r][i].kid # Nil
       PROVE  SameAt(r, i) \/ \A c \in Coro : HandTold(r, i, c)'
  <2>1. CASE r # o /\ r # p
    BY <1>1, <1>2, <1>4, <1>6, <1>20, <2>1, GrowsSame
  <2>2. CASE r = o
    <3>1. i \in 1..Len(u) /\ u[i].kid # Nil
      BY <1>7, <1>20, <2>2
    <3>2. i \in 1..Len(stack[o]) /\ stack[o][i].kid # Nil
      BY <1>1, <1>5, <3>1
    <3>3. Top(stack[current]).op \notin Nest
      BY <1>2 DEF Nest
    <3>4. Hands(stack[o]) = {}
      BY <1>1, <1>2, <3>3, AtBase
    <3> QED BY <3>2, <3>4 DEF Hands
  <2>3. CASE r = p
    <3>1. i \in 1..Len(stack[p]) /\ stack[p][i].kid # Nil /\ stack'[p] = stack[p]
      BY <1>3, <1>7, <1>20, <2>3
    <3>2. CASE i < Len(stack[p]) /\ stack[p][i+1].op = "coro_transfer"
      <4>1. i + 1 \in 1..Len(stack[p]) /\ Serves(stack[p])
        BY <1>3, <1>9, <3>1, <3>2, LenProperties DEF WakeInv
      <4>2. i + 1 = Len(stack[p])
        BY <3>2, <4>1 DEF Serves
      <4>3. stack[p][i].kid = o
        <5>1. stack[p][i].op = "resume_childs"
          BY <1>2, <1>3, <3>1, FrameOf DEF Fits
        <5>2. stack[p][i+1].co = stack[p][i].kid
          BY <3>1, <3>2, <4>1, <5>1 DEF Serves
        <5> QED BY <1>3, <4>2, <5>2 DEF Top
      <4>4. ASSUME NEW c \in Coro PROVE HandTold(p, i, c)'
        <5> SUFFICES ASSUME Due(c)', o \in Line(c)' PROVE Told(o)'
          BY <3>1, <4>3 DEF HandTold
        <5> QED BY <1>19, <3>1, <3>2, <4>3
      <4> QED BY <2>3, <4>4
    <3>3. CASE ~(i < Len(stack[p]) /\ stack[p][i+1].op = "coro_transfer")
      BY <2>3, <3>1, <3>3 DEF SameAt
    <3> QED BY <3>2, <3>3
  <2> QED BY <2>1, <2>2, <2>3
<1> QED BY <1>15, <1>16, <1>17, <1>20, CalmStep

-----------------------------------------------------------------------------
(* The wake-up of the tree *)

\* Nobody waits in the initial state.
LEMMA WakeInit == Init => WakeInv
<1> SUFFICES ASSUME Init PROVE WakeInv
  OBVIOUS
<1>1. (\A r \in Ctx : stack[r] = <<>>) /\ \A c \in Coro : c \in Ctx /\ stack[c] = <<>> /\ ~Waits(c)
  BY DEF Init, Ctx, Waits
<1>2. \A c \in Coro : \A op : ~Blocked(c, op)
  BY <1>1 DEF Blocked
<1>3. (\A c \in Coro : Word(c)) /\ \A c \in Coro : ~Due(c)
  BY <1>1, <1>2 DEF Word, Due
<1>4. (\A r \in Ctx : Serves(stack[r])) /\ Held
  BY <1>1 DEF Serves, Held
<1> QED BY <1>3, <1>4 DEF WakeInv

\* Every step keeps it.
LEMMA WakeStep == Base /\ WakeInv /\ (TypeOK /\ SchedInv)' /\ [Next]_vars => WakeInv'
<1> SUFFICES ASSUME Base, WakeInv, (TypeOK /\ SchedInv)', [Next]_vars PROVE WakeInv'
  OBVIOUS
<1>1. CASE Transfer
  <2>1. CASE Waits(Top(stack[current]).co)
    BY <1>1, <2>1, TransferBackWakes
  <2>2. CASE ~Waits(Top(stack[current]).co)
    BY <1>1, <2>2, TransferGoWakes
  <2> QED BY <2>1, <2>2
<1>2. CASE YieldOut
  <2>1. SwitchOut(CORO_STAT_WAIT) /\ UNCHANGED <<flags, messages>>
    BY <1>2, YieldSwitches DEF Base, YieldOut
  <2> QED BY <2>1, SwitchOutWakes
<1>3. CASE Execute
  <2>1. CASE childs[current] # <<>>
    BY <1>3, <2>1, ExecuteWakes
  <2>2. CASE childs[current] = <<>>
    <3>1. SwitchOut(CORO_STAT_DONE)
      BY <1>3, <2>2, ExecuteSwitches DEF Base
    <3>2. UNCHANGED <<flags, messages>>
      BY <1>3, <2>2 DEF Execute
    <3> QED BY <3>1, <3>2, SwitchOutWakes
  <2> QED BY <2>1, <2>2
<1>4. CASE Library
  <2>1. CASE Drain \/ AwaitReturn \/ MgetLoop
    BY <2>1, DrainWakes, AwaitReturnWakes, MgetWakes
  <2>2. CASE TakeChild \/ PutChildBack \/ EndSweep
    BY <2>2, TakeChildWakes, PutChildBackWakes, EndSweepWakes
  <2>3. CASE ResumeEntry \/ Return
    BY <2>3, ResumeEntryWakes, ReturnWakes
  <2> QED BY <1>1, <1>2, <1>3, <1>4, <2>1, <2>2, <2>3 DEF Library
<1>5. CASE User
  <2>1. CASE \E c \in Coro, raw \in RawMsg : Child(c, raw)
    BY <2>1, ChildWakes
  <2>2. CASE \/ ResumeAll \/ Mget \/ Finish
             \/ \E c \in Coro : Resume(c)
    BY <2>2, CallWakes
  <2>3. CASE \/ ResumeOwnChilds \/ Yield
             \/ \E p \in Ctx : ResumeChilds(p)
    BY <2>3, SweepWakes
  <2>4. CASE \/ \E c \in Coro, m \in Message : Mput(c, m)
             \/ \E p \in Coro, m \in Message : Mbroadcast(p, m)
    BY <2>4, MputWakes, MbroadcastWakes
  <2>5. CASE \E c \in Coro : Fire(c) \/ EventAdd(c)
    BY <2>5, FireWakes, EventAddWakes
  <2>6. CASE TryMget \/ Await
    BY <2>6, TryMgetWakes, AwaitWakes
  <2> QED BY <1>5, <2>1, <2>2, <2>3, <2>4, <2>5, <2>6 DEF User
<1>6. CASE UNCHANGED vars
  <2>1. UNCHANGED <<current, stack, links, childs, flags, messages, evet, msg>>
    BY <1>6 DEF vars, flags
  <2>2. \A d \in Coro : (ChildUp(d) => ChildUp(d)') /\ (Due(d)' => Due(d))
    BY <2>1 DEF ChildUp, Due, Blocked
  <2> QED BY <2>1, <2>2, QuietWakes
<1> QED BY <1>4, <1>5, <1>6 DEF Next

\* What the property is about is among what the invariant is about.
LEMMA WakesHold == Base /\ WakeInv => WakeReaches
<1> SUFFICES ASSUME Base, WakeInv, NEW c \in Live, Woken(c),
                    NEW q \in {c} \cup Ancestors(c), NEW p \in Coro, p = parent[q], Parked(p)
             PROVE  ChildUp(p) \/ SweepReaches(p, q)
  BY DEF WakeReaches
<1>1. c \in Coro /\ c \in Ctx /\ TypeOK /\ SchedInv
  BY DEF Live, Ctx, Base
<1>2. PICK n : n = Len(stack[c])
  OBVIOUS
<1>3. n \in 1..Len(stack[c]) /\ Top(stack[c]) = stack[c][n] /\ stack[c] # <<>>
  <2>1. stack[c] # <<>> /\ stack[c] \in Seq(Frames)
    BY <1>1 DEF Woken, TypeOK
  <2>2. Len(stack[c]) \in Nat \ {0}
    BY <2>1, PopLemma
  <2> QED BY <1>2, <2>1, <2>2 DEF Top
<1>4. stack[c][n].op \in {"mget", "await"} => n = 1
  <2>1. Based(stack[c])
    BY <1>1 DEF SchedInv, Stacks, Good
  <2>2. stack[c][n].op \notin Nest => n = 1 \/ (n = 2 /\ stack[c][2].op = "yield")
    BY <1>3, <2>1 DEF Based
  <2> QED BY <2>2 DEF Nest
<1>5. Due(c)
  BY <1>3, <1>4 DEF Woken, Due, Blocked
<1>6. Reached(c)
  BY <1>1, <1>5 DEF WakeInv
<1> QED BY <1>6 DEF Reached, Line, Parked

\* The lost wake-up of the tree cannot happen: above a coroutine whose event or
\* message has come, every parked coroutine has its CHLD bit, or a loop of
\* resume_childs is going to come to the branch.
THEOREM WakesReach == Spec => []WakeReaches
<1>1. Init => WakeInv
  BY WakeInit
<1>2. Base /\ WakeInv /\ (TypeOK /\ SchedInv)' /\ [Next]_vars => WakeInv'
  BY WakeStep
<1>3. Base /\ WakeInv => WakeReaches
  BY WakesHold
<1>4. Base <=> (TypeOK /\ MainStack /\ SchedInv) /\ NoParkedMail
  BY DEF Base
<1> QED BY <1>1, <1>2, <1>3, <1>4, SchedInvariant, MailNeverParked, PTL DEF Spec

=============================================================================
