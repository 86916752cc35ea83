--------------------------- MODULE LinkedAllocator ---------------------------
(***************************************************************************)
(* util/linked_allocator.h: fixed-size blocks for coroutine stacks, events *)
(* and buffer pages.  Freed blocks are kept on a list that is threaded     *)
(* through the blocks themselves, so that a user who holds a block writes  *)
(* where the link was.  The number of cached blocks is kept in a counter   *)
(* beside the list.                                                        *)
(*                                                                         *)
(* A mutex member, or the use by one thread only, makes each function one  *)
(* step.                                                                   *)
(***************************************************************************)
EXTENDS Integers, Sequences, FiniteSets

CONSTANTS
  Block,        \* the addresses ::malloc can return
  NULL,         \* the null pointer
  ChunkSize     \* chunk_size, which initialises _expand_blocks

ASSUME NullAssumption  == NULL \notin Block
ASSUME ChunkAssumption == ChunkSize \in Nat

VARIABLES
  _free_list,    \* the head of the list
  _free_blocks,  \* the counter
  link,          \* the first word of each block, as a pointer
  system,        \* the blocks that ::malloc has not handed out
  held,          \* the blocks that users have
  alive,         \* FALSE while the destructor runs, until the next constructor
  cached         \* history: the blocks on the list, in its order

allocVars == <<_free_list, _free_blocks, link, system, held, alive, cached>>

Pointer == Block \cup {NULL}

\* Distinct blocks from ::malloc, in the order of the calls.
Chunks(n) == {s \in [1..n -> system] : \A i, j \in 1..n : s[i] = s[j] => i = j}

\* expand_free_list: the blocks of s become a list, closed by a null link.
Threaded(s) ==
  [b \in Block |-> IF \E i \in 1..Len(s) : s[i] = b
                     THEN LET i == CHOOSE i \in 1..Len(s) : s[i] = b
                          IN  IF i = Len(s) THEN NULL ELSE s[i + 1]
                     ELSE link[b]]

\* The head that is left on the list is returned.
MallocExpand_ReturnsNext(s) ==
  /\ alive /\ _free_list = NULL
  /\ link' = Threaded(s)
  /\ system' = system \ {s[i] : i \in 1..Len(s)}
  /\ _free_list' = link'[s[1]]
  /\ _free_blocks' = _free_blocks + Len(s) - 1
  /\ held' = held \cup {_free_list'}
  /\ cached' = Tail(s)
  /\ UNCHANGED alive

\* malloc() on an empty list.  expand_free_list asserts the first of its
\* 1 + _expand_blocks calls of ::malloc; each of the others may fail, and then
\* the next one fills its place in the list.
MallocExpand(s) ==
  /\ alive /\ _free_list = NULL
  /\ link' = Threaded(s)
  /\ system' = system \ {s[i] : i \in 1..Len(s)}
  /\ _free_list' = link'[s[1]]
  /\ _free_blocks' = _free_blocks + Len(s) - 1
  /\ held' = held \cup {s[1]}
  /\ cached' = Tail(s)
  /\ UNCHANGED alive

\* malloc() of a cached block.
MallocCached ==
  /\ alive /\ _free_list # NULL
  /\ _free_list' = link[_free_list]
  /\ _free_blocks' = _free_blocks - 1
  /\ held' = held \cup {_free_list}
  /\ cached' = Tail(cached)
  /\ UNCHANGED <<link, system, alive>>

\* The link is set after the head was moved.
Free_Swapped(b) ==
  /\ alive /\ b \in held
  /\ held' = held \ {b}
  /\ UNCHANGED alive
  /\ IF _free_blocks >= ChunkSize * 2
       THEN /\ system' = system \cup {b}
            /\ UNCHANGED <<_free_list, _free_blocks, link, cached>>
       ELSE /\ _free_list' = b
            /\ link' = [link EXCEPT ![b] = _free_list']
            /\ _free_blocks' = _free_blocks + 1
            /\ cached' = <<b>> \o cached
            /\ UNCHANGED system

\* The else is missing: a block that went back to the system is cached, too.
Free_BothWays(b) ==
  /\ alive /\ b \in held
  /\ held' = held \ {b}
  /\ system' = IF _free_blocks >= ChunkSize * 2 THEN system \cup {b} ELSE system
  /\ link' = [link EXCEPT ![b] = _free_list]
  /\ _free_list' = b
  /\ _free_blocks' = _free_blocks + 1
  /\ cached' = <<b>> \o cached
  /\ UNCHANGED alive

\* free(): back to the system if enough blocks are cached, else in front of
\* the list.  A null pointer is ignored.
Free(b) ==
  /\ alive /\ b \in held
  /\ held' = held \ {b}
  /\ UNCHANGED alive
  /\ IF _free_blocks >= ChunkSize * 2
       THEN /\ system' = system \cup {b}
            /\ UNCHANGED <<_free_list, _free_blocks, link, cached>>
       ELSE /\ link' = [link EXCEPT ![b] = _free_list]
            /\ _free_list' = b
            /\ _free_blocks' = _free_blocks + 1
            /\ cached' = <<b>> \o cached
            /\ UNCHANGED system

\* Whoever holds a block, or the system, overwrites its first word.
Overwrite(b, p) ==
  /\ b \in held \cup system
  /\ link' = [link EXCEPT ![b] = p]
  /\ UNCHANGED <<_free_list, _free_blocks, system, held, alive, cached>>

\* The destructor is entered; by now the users have given their blocks back.
Destroy ==
  /\ alive /\ held = {}
  /\ alive' = FALSE
  /\ UNCHANGED <<_free_list, _free_blocks, link, system, held, cached>>

\* One round of its loop, which goes down the list with a local head.
DestroyLoop ==
  /\ ~alive /\ _free_list # NULL
  /\ _free_list' = link[_free_list]
  /\ system' = system \cup {_free_list}
  /\ cached' = Tail(cached)
  /\ UNCHANGED <<_free_blocks, link, held, alive>>

\* The loop ended.  A new allocator starts.
Construct ==
  /\ ~alive /\ _free_list = NULL
  /\ alive' = TRUE
  /\ _free_blocks' = 0
  /\ UNCHANGED <<_free_list, link, system, held, cached>>

AllocInit ==
  /\ _free_list = NULL
  /\ _free_blocks = 0
  /\ link \in [Block -> Pointer]
  /\ system = Block
  /\ held = {}
  /\ alive = TRUE
  /\ cached = <<>>

AllocNext ==
  \/ \E n \in 1..ChunkSize + 1 : \E s \in Chunks(n) : MallocExpand(s)
  \/ MallocCached
  \/ \E b \in Block : Free(b)
  \/ \E b \in Block, p \in Pointer : Overwrite(b, p)
  \/ Destroy \/ DestroyLoop \/ Construct

AllocSpec == AllocInit /\ [][AllocNext]_allocVars

-----------------------------------------------------------------------------
TypeOK ==
  /\ _free_list \in Pointer
  /\ _free_blocks \in Nat
  /\ link \in [Block -> Pointer]
  /\ system \subseteq Block
  /\ held \subseteq Block
  /\ alive \in BOOLEAN
  /\ cached \in Seq(Block)

\* Following the links from _free_list meets the cached blocks, each once,
\* and ends at null after as many blocks as _free_blocks says.
ListIntact ==
  /\ alive => _free_blocks = Len(cached)
  /\ _free_list = IF cached = <<>> THEN NULL ELSE cached[1]
  /\ \A i \in 1..Len(cached) :
       link[cached[i]] = IF i = Len(cached) THEN NULL ELSE cached[i + 1]
  /\ \A i, j \in 1..Len(cached) : cached[i] = cached[j] => i = j

\* A block has one owner: a user, the list or the system.
OneOwner ==
  /\ held \cap system = {}
  /\ \A i \in 1..Len(cached) : cached[i] \notin held \cup system
  /\ \A b \in Block \ (held \cup system) : \E i \in 1..Len(cached) : cached[i] = b

\* The cache stays small, however many blocks come back: the counter is all
\* that free() looks at.
CacheBounded == Len(cached) <= 2 * ChunkSize

\* What the users rely on.
A == INSTANCE Allocator
AllocatorSpec == A!Spec

=============================================================================
