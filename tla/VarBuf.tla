-------------------------------- MODULE VarBuf --------------------------------
(***************************************************************************)
(* util/var_buf.h: a byte buffer that grows by pages of a fixed size.  The *)
(* bytes between the read and the write position are its content; the      *)
(* pages behind the write position are room, the pages before the read     *)
(* position are given back by the next shrink().                           *)
(*                                                                         *)
(* The list of pages is a sequence and a pointer to a page its position,   *)
(* or 0 for the null pointer.  What is in a page behind offset_wr is not   *)
(* kept: offset_wr is the length of data.                                  *)
(*                                                                         *)
(* rd_position() and wr_position() leave the page they end in, even if it  *)
(* is not used up or the last one; they are modelled for the programs that *)
(* end them where a page is used up and another one follows.  rd_size() of *)
(* the buffer is left out: nobody calls it.  Lines hold no zero byte,      *)
(* where strnstr would stop.                                               *)
(***************************************************************************)
EXTENDS Integers, Sequences, SequencesExt, Loops

CONSTANTS
  Byte,       \* the bytes
  Delim,      \* the byte that ends a line
  page_size,
  MaxCall,    \* the longest write, read or reserve that is considered
  MaxPages    \* bound: a call that would make the list longer is not made

ASSUME SizeAssumption == page_size \in Nat \ {0} /\ MaxCall \in Nat /\ MaxPages \in Nat

VARIABLES
  _page_list,
  _page_rd,
  _page_wr,
  last         \* history: the last call, as in ByteQueue

vars == <<_page_list, _page_rd, _page_wr, last>>

Fresh      == [offset_rd |-> 0, data |-> <<>>]
rd_size(p) == Len(p.data) - p.offset_rd
wr_size(p) == page_size - Len(p.data)
Unread(p)  == SubSeq(p.data, p.offset_rd + 1, Len(p.data))
Bytes      == BoundedSeq(Byte, MaxCall)
Least(m, n) == IF m < n THEN m ELSE n

Called(op, n, bytes) == [op |-> op, result |-> n, bytes |-> bytes]

\* The whole state, for the functions that call each other.
State(pages, rd, wr) == [pages |-> pages, rd |-> rd, wr |-> wr]
Now == State(_page_list, _page_rd, _page_wr)

Become(s) ==
  /\ Len(s.pages) <= MaxPages
  /\ _page_list' = s.pages /\ _page_rd' = s.rd /\ _page_wr' = s.wr

Next_(pages, p) == IF p = Len(pages) THEN 0 ELSE p + 1

\* to_string() and rd_iovec(): from the read to the write position.
Content(s) ==
  IF s.rd = 0 THEN <<>>
  ELSE FlattenSeq([i \in 1..s.wr - s.rd + 1 |-> Unread(s.pages[s.rd + i - 1])])

\* wr_size() of the buffer
Room(s) ==
  IF s.wr = 0 THEN 0
  ELSE (Len(s.pages) - s.wr) * page_size + wr_size(s.pages[s.wr])

-----------------------------------------------------------------------------
\* The loop ends at the write position.
Shrunk_ToWrite(s) ==
  IF s.rd = 0 THEN [s EXCEPT !.pages = <<>>]
  ELSE State(SubSeq(s.pages, s.wr, Len(s.pages)), 1, 1)

\* shrink(): the pages before the read position are given back; all of them
\* if it is null.
Shrunk(s) ==
  IF s.rd = 0 THEN [s EXCEPT !.pages = <<>>]
  ELSE State(SubSeq(s.pages, s.rd, Len(s.pages)), 1, s.wr - s.rd + 1)

\* reserve(): shrink, then pages at the end until n bytes fit.
Reserved(s, n) ==
  LET shrunk == Shrunk(s)
      first  == IF shrunk.wr = 0 \/ (shrunk.rd = 0 /\ shrunk.pages = <<>>)
                  THEN State(<<Fresh>>, 1, 1) ELSE shrunk
      short  == n - Room(first)
      more   == IF short <= 0 THEN 0 ELSE (short + page_size - 1) \div page_size
  IN  State(first.pages \o [i \in 1..more |-> Fresh], first.rd, first.wr)

\* reset(): every page is empty, and both positions are at the first.
Emptied(s) ==
  LET head == IF s.pages = <<>> THEN 0 ELSE 1
  IN  State([i \in DOMAIN s.pages |-> Fresh], head, head)

\* The loops work on the buffer and the bytes to come.  Every round goes on to
\* the next page or is the last one, so there are no more rounds than pages.
Page    == [offset_rd : Nat, data : Seq(Byte)]
States  == [pages : Seq(Page), rd : Nat, wr : Nat]
ToWrite == [s : States, bytes : Seq(Byte)]
ToRead  == [s : States, n : Nat]

\* What a round puts into the page at the write position, and what it leaves.
Fitting(job) == Least(Len(job.bytes), wr_size(job.s.pages[job.s.wr]))
Filled(job)  == [job.s.pages EXCEPT ![job.s.wr].data = @ \o SubSeq(job.bytes, 1, Fitting(job))]
Left(job)    == SubSeq(job.bytes, Fitting(job) + 1, Len(job.bytes))

FillRound(job, next) ==
  IF job.bytes = <<>> \/ job.s.wr = 0 THEN job
  ELSE [s |-> State(Filled(job), job.s.rd, next), bytes |-> Left(job)]

\* Mutant: a round of write() leaves a page as soon as it is full.
Written_Eager(s, bytes) ==
  LET Eager == [job \in ToWrite |->
        FillRound(job, IF wr_size(Filled(job)[job.s.wr]) = 0
                         THEN Next_(job.s.pages, job.s.wr) ELSE job.s.wr)]
  IN  After(Eager, [s |-> s, bytes |-> bytes], Len(s.pages)).s

\* A round of write(): fill the page, and go to the next if bytes are left.
WriteRound ==
  [job \in ToWrite |->
     FillRound(job, IF Left(job) = <<>> THEN job.s.wr ELSE Next_(job.s.pages, job.s.wr))]

Written(s, bytes) == After(WriteRound, [s |-> s, bytes |-> bytes], Len(s.pages)).s

\* A round of wr_position(), when bytes are behind the write position already.
PositionRound ==
  [job \in ToWrite |-> FillRound(job, Next_(job.s.pages, job.s.wr))]

Positioned(s, bytes) == After(PositionRound, [s |-> s, bytes |-> bytes], Len(s.pages)).s

\* write()
Stored(s, bytes) ==
  Written(IF Len(bytes) > Room(s) THEN Reserved(s, Len(bytes)) ELSE s, bytes)

\* What a round takes from the page at the read position.
Taking(job) == Least(job.n, rd_size(job.s.pages[job.s.rd]))

TakeRound(job, next) ==
  [s |-> State([job.s.pages EXCEPT ![job.s.rd].offset_rd = @ + Taking(job)], next, job.s.wr),
   n |-> job.n - Taking(job)]

\* A round of read(), which has n bytes to come.
ReadRound ==
  [job \in ToRead |->
     IF job.n = 0 THEN job
     ELSE TakeRound(job, IF job.n = Taking(job) THEN job.s.rd
                         ELSE Next_(job.s.pages, job.s.rd))]

ReadEnd(s, n)  == After(ReadRound, [s |-> s, n |-> n], Len(s.pages))
Consumed(s, n) == ReadEnd(s, n).s

\* A round of rd_position().
SkipRound ==
  [job \in ToRead |->
     IF job.n = 0 \/ job.s.rd = 0 THEN job
     ELSE TakeRound(job, Next_(job.s.pages, job.s.rd))]

Skipped(s, n) == After(SkipRound, [s |-> s, n |-> n], Len(s.pages)).s

-----------------------------------------------------------------------------
Write(bytes) ==
  /\ Become(Stored(Now, bytes))
  /\ last' = Called("write", Len(bytes), bytes)

Assign(bytes) ==
  /\ Become(Stored(Emptied(Now), bytes))
  /\ last' = Called("assign", Len(bytes), bytes)

\* read(): what was copied is in the pages it went over.  It returns len less
\* want_read, which the loop has counted down: n, even if fewer bytes came.
Read(n) ==
  LET count == Least(Len(Content(Now)), n)
  IN  /\ Become(Consumed(Now, count))
      /\ last' = Called("read", n - ReadEnd(Now, count).n, SubSeq(Content(Now), 1, count))

\* read_by_line(): find() looks at each page from the read position to the end
\* of the list.
ReadLine ==
  LET at(p) == SelectInSeq(Unread(p), LAMBDA b : b = Delim)
      hits  == {i \in 1..Len(_page_list) : i >= _page_rd /\ at(_page_list[i]) # 0}
      page  == CHOOSE i \in hits : \A j \in hits : i <= j
      end   == at(_page_list[page])
      line  == Content(State(_page_list, _page_rd, page - 1))
                 \o SubSeq(Unread(_page_list[page]), 1, end - 1)
  IN  IF _page_rd = 0 \/ hits = {}
        THEN /\ last' = Called("read_by_line", 0, <<>>)
             /\ UNCHANGED <<_page_list, _page_rd, _page_wr>>
        ELSE /\ last' = Called("read_by_line", Len(line), line)
             /\ _page_list' = [_page_list EXCEPT ![page].offset_rd = @ + end]
             /\ _page_rd' = page
             /\ UNCHANGED _page_wr

\* readed(): everything is taken as read.  On a null pointer it crashes.
Readed ==
  /\ _page_wr # 0
  /\ _page_rd' = _page_wr
  /\ _page_list' = [_page_list EXCEPT ![_page_wr].offset_rd = Len(_page_list[_page_wr].data)]
  /\ UNCHANGED _page_wr
  /\ last' = Called("readed", 0, <<>>)

\* recv_vbuf() of cosocket.h: reserve n bytes, let readv fill what wr_iovec()
\* lists, and move the write position behind the bytes that came.
RecvVbuf(n, bytes) ==
  LET room  == Reserved(Now, n)
      after == Positioned(room, bytes)
  IN  /\ bytes # <<>> /\ Len(bytes) <= Room(room)
      /\ after.wr # 0 /\ wr_size(after.pages[after.wr - 1]) = 0
      /\ Become(after)
      /\ last' = Called("write", Len(bytes), bytes)

RdPosition(n) ==
  LET after == Skipped(Now, n)
  IN  /\ n > 0 /\ after.rd \in 2..after.wr /\ rd_size(after.pages[after.rd - 1]) = 0
      /\ Become(after)
      /\ last' = Called("read", n, SubSeq(Content(Now), 1, n))

Reserve(n) == Become(Reserved(Now, n)) /\ last' = Called("reserve", 0, <<>>)

Shrink == Become(Shrunk(Now)) /\ last' = Called("shrink", 0, <<>>)

Reset == Become(Emptied(Now)) /\ last' = Called("reset", 0, <<>>)

Clear == Become(State(<<>>, 0, 0)) /\ last' = Called("clear", 0, <<>>)

Init ==
  /\ _page_list = <<>> /\ _page_rd = 0 /\ _page_wr = 0
  /\ last = Called("clear", 0, <<>>)

Next ==
  \/ \E bytes \in Bytes : Write(bytes) \/ Assign(bytes)
  \/ \E n \in 0..MaxCall : Read(n) \/ Reserve(n) \/ RdPosition(n)
  \/ \E n \in 0..MaxCall, bytes \in Bytes : RecvVbuf(n, bytes)
  \/ ReadLine \/ Readed \/ Shrink \/ Reset \/ Clear

Spec == Init /\ [][Next]_vars

-----------------------------------------------------------------------------
\* The positions stay in order and on pages (the asserts on _page_wr and
\* _page_rd in the loops hold), a page is left only when it is used up, and the
\* room behind the write position is empty: length(), which adds up pages from
\* one position to the other, counts every byte, and write() loses none.
Positions ==
  /\ (_page_list = <<>>) = (_page_rd = 0) /\ (_page_list = <<>>) = (_page_wr = 0)
  /\ _page_rd <= _page_wr
  /\ \A i \in DOMAIN _page_list :
       LET p == _page_list[i]
       IN  /\ p.offset_rd <= Len(p.data)
           /\ i < _page_wr => wr_size(p) = 0
           /\ i > _page_wr => p = Fresh

\* The buffer is a queue of bytes, whatever pages are full, empty, left over or
\* given back when a call comes.
Q == INSTANCE ByteQueue WITH queue <- Content(Now)
QueueSpec == Q!Spec

=============================================================================
