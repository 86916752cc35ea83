------------------------------- MODULE ByteQueue -------------------------------
(***************************************************************************)
(* What a buffer promises: bytes come out in the order they went in, and   *)
(* each call says how many.  Of a read for more bytes than there are it     *)
(* promises the bytes, but no number.                                      *)
(***************************************************************************)
EXTENDS Integers, Sequences, SequencesExt

CONSTANTS
  Byte,     \* the bytes
  Delim,    \* the byte that ends a line
  MaxCall   \* the longest write or read that is considered

VARIABLES
  queue,  \* what was written and not read
  last    \* the last call: its name, what it returned, the bytes it took or gave

Bytes    == BoundedSeq(Byte, MaxCall)
Take(n)  == SubSeq(queue, 1, n)
Drop(n)  == SubSeq(queue, n + 1, Len(queue))
Called(op, n, bytes) == [op |-> op, result |-> n, bytes |-> bytes]

Write(s) == last' = Called("write", Len(s), s) /\ queue' = queue \o s

Assign(s) == last' = Called("assign", Len(s), s) /\ queue' = s

Read(n) ==
  LET count == IF n < Len(queue) THEN n ELSE Len(queue)
  IN  /\ \E result \in 0..MaxCall :
           /\ n <= Len(queue) => result = n
           /\ last' = Called("read", result, Take(count))
      /\ queue' = Drop(count)

\* Nothing is taken unless there is a whole line; its end is taken, not given.
ReadLine ==
  LET end == SelectInSeq(queue, LAMBDA b : b = Delim)
  IN  IF end = 0
        THEN UNCHANGED queue /\ last' = Called("read_by_line", 0, <<>>)
        ELSE queue' = Drop(end) /\ last' = Called("read_by_line", end - 1, Take(end - 1))

Clear(op) == last' = Called(op, 0, <<>>) /\ queue' = <<>>

\* Room may be made or given back, which changes nothing.
Room(op) == last' = Called(op, 0, <<>>) /\ UNCHANGED queue

Init == queue = <<>> /\ last = Called("clear", 0, <<>>)

Next ==
  \/ \E s \in Bytes : Write(s) \/ Assign(s)
  \/ \E n \in 0..MaxCall : Read(n)
  \/ ReadLine
  \/ \E op \in {"clear", "reset", "readed"} : Clear(op)
  \/ \E op \in {"reserve", "shrink"} : Room(op)

Spec == Init /\ [][Next]_<<queue, last>>

=============================================================================
