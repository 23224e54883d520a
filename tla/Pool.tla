-------------------------------- MODULE Pool --------------------------------
(***************************************************************************)
(* The memory pool of PreferDB/allocated/include: the free list of         *)
(* simple_segregated_storage.hpp, the blocks and the growth of pool.hpp,   *)
(* and the three ways a program owns a pool: pool_allocator and            *)
(* fast_pool_allocator (pool_alloc.hpp, over singleton_pool.hpp), and      *)
(* object_pool (object_pool.hpp).                                          *)
(*                                                                         *)
(* An address counts chunks.  A block of n chunks takes n + 1 addresses:   *)
(* the last one is the header with the pointer to the next block and its   *)
(* size.  The free list, threaded through the chunks in the code, is the   *)
(* sequence of their addresses.                                            *)
(***************************************************************************)
EXTENDS Integers, FiniteSetsExt, SequencesExt

CONSTANTS Arena,          \* the addresses are 1..Arena
          RequestedSize,  \* bytes of an element
          MinAllocSize,   \* pool::min_alloc_size
          MinAlign,       \* pool::min_align
          StartSizes,     \* the values start_size may have
          MaxSizes,       \* the values max_size may have; 0 is no limit
          Requests        \* how many elements a client may ask for

VARIABLES first,          \* the free list
          list,           \* the blocks, in the order of the block list
          next_size,      \* chunks of the next block
          start_size, max_size,
          user,           \* who owns the pool
          held,           \* allocations the client has and may use
          destroyed       \* what ~object_pool called a destructor for, in order

poolVars == <<first, list, next_size, start_size, max_size, user, held, destroyed>>

Users == {"pool_allocator", "fast_pool_allocator", "object_pool", "nobody"}

ASSUME PoolAssumption ==
  /\ Arena \in Nat /\ RequestedSize \in Nat \ {0}
  /\ MinAllocSize \in Nat \ {0} /\ MinAlign \in Nat \ {0}
  /\ StartSizes \subseteq Nat \ {0} /\ MaxSizes \subseteq Nat /\ Requests \subseteq Nat

-----------------------------------------------------------------------------
(* Sizes *)

alloc_size ==
  LET s   == IF RequestedSize > MinAllocSize THEN RequestedSize ELSE MinAllocSize
      rem == s % MinAlign
  IN  IF rem = 0 THEN s ELSE s + MinAlign - rem

num_chunks(n) ==
  LET total_req_size == n * RequestedSize
  IN  total_req_size \div alloc_size + (IF total_req_size % alloc_size = 0 THEN 0 ELSE 1)

\* next_size after a block of n chunks was obtained.
GrownSize(n) ==
  CASE max_size = 0 -> 2 * n
    [] max_size # 0 /\ (n * alloc_size) \div RequestedSize < max_size
         -> Min({2 * n, (max_size * RequestedSize) \div alloc_size})
    [] OTHER -> n

-----------------------------------------------------------------------------
(* simple_segregated_storage: operations on a free list s *)

\* The n chunks from a on, in order of their addresses.
segregate(a, n) == [i \in 1..n |-> a + i - 1]

\* How many chunks precede the place of address p in the list.
find_prev(s, p) == Min({i \in 0..Len(s) : i = Len(s) \/ s[i + 1] > p})

add_block(s, a, n) == segregate(a, n) \o s

add_ordered_block(s, a, n) ==
  LET loc == find_prev(s, a)
  IN  SubSeq(s, 1, loc) \o segregate(a, n) \o SubSeq(s, loc + 1, Len(s))

\* free instead of ordered_free.
ordered_free_Front(s, a) == <<a>> \o s

ordered_free(s, a) == InsertAt(s, find_prev(s, a) + 1, a)

\* The n chunks after position i of the list are contiguous.
try_malloc_n(s, i, n) ==
  /\ i + n <= Len(s)
  /\ \A j \in i + 1..i + n - 1 : s[j + 1] = s[j] + 1

\* The positions where n contiguous chunks may be taken: malloc_n takes the first.
malloc_n(s, n) == IF n = 0 THEN {} ELSE {i \in 0..Len(s) : try_malloc_n(s, i, n)}

Without(s, i, n) == SubSeq(s, 1, i) \o SubSeq(s, i + n + 1, Len(s))

-----------------------------------------------------------------------------
(* Blocks *)

\* Blocks may touch: the last chunk of one is followed by the first of another.
Header_None == 0

Header == 1     \* the pointer to the next block and its size, behind the chunks

Chunks(b)    == b.begin..b.begin + b.chunks - 1
BlockEnd(b)  == b.begin + b.chunks
Footprint(b) == b.begin..BlockEnd(b) + Header - 1

\* UserAllocator::malloc: any place where the block fits.
Grants(n) ==
  {b \in [begin : 1..Arena, chunks : {n}] :
     /\ BlockEnd(b) + Header - 1 <= Arena
     /\ \A c \in Range(list) : Footprint(b) \cap Footprint(c) = {}}

NoBlock == [begin |-> 0, chunks |-> 0]

\* A block of size chunks, else one of the smaller size, else none, and the
\* size that was asked for last.
Attempts(size, smaller) ==
       [block : Grants(size), size : {size}]
  \cup (IF smaller < size THEN [block : Grants(smaller), size : {smaller}] ELSE {})
  \cup [block : {NoBlock}, size : {smaller}]

InsertOrdered(b) ==
  LET i == Min({j \in 0..Len(list) : j = Len(list) \/ list[j + 1].begin > b.begin})
  IN  InsertAt(list, i + 1, b)

Held(a, n) == [at |-> a, n |-> n]

-----------------------------------------------------------------------------
(* pool: taking memory *)

PoolInit ==
  /\ first = <<>> /\ list = <<>>
  /\ start_size \in StartSizes /\ next_size = start_size
  /\ max_size \in MaxSizes
  /\ user \in Users \ {"nobody"}
  /\ held = {} /\ destroyed = <<>>

\* The client gets chunk a, which left free list s.  In object_pool::construct
\* the constructor runs first: when it throws, the chunk is freed again.
Give(s, a, throws) ==
  /\ first' = IF throws THEN ordered_free(s, a) ELSE s
  /\ held' = IF throws THEN held ELSE held \cup {Held(a, 1)}

FromFreeList(throws) ==
  /\ first # <<>>
  /\ Give(Tail(first), Head(first), throws)
  /\ UNCHANGED <<list, next_size>>

BacktrackedSize == IF next_size > 4 THEN next_size \div 2 ELSE next_size

malloc_need_resize ==
  /\ first = <<>>
  /\ \E r \in Attempts(next_size, BacktrackedSize) :
       IF r.block = NoBlock
       THEN next_size' = r.size /\ UNCHANGED <<first, list, held>>
       ELSE /\ next_size' = GrownSize(r.size)
            /\ list' = <<r.block>> \o list
            /\ LET s == add_block(first, r.block.begin, r.block.chunks)
               IN  Give(Tail(s), Head(s), FALSE)

ordered_malloc_need_resize(throws) ==
  /\ first = <<>>
  /\ \E r \in Attempts(next_size, BacktrackedSize) :
       IF r.block = NoBlock
       THEN next_size' = r.size /\ UNCHANGED <<first, list, held>>
       ELSE /\ next_size' = GrownSize(r.size)
            /\ list' = InsertOrdered(r.block)
            /\ LET s == add_ordered_block(first, r.block.begin, r.block.chunks)
               IN  Give(Tail(s), Head(s), throws)

malloc == FromFreeList(FALSE) \/ malloc_need_resize

ordered_malloc(throws) == FromFreeList(throws) \/ ordered_malloc_need_resize(throws)

\* ordered_malloc(n), n > 0, when the free list holds enough contiguous chunks.
TakeContiguous(n) ==
  /\ malloc_n(first, num_chunks(n)) # {}
  /\ LET i == Min(malloc_n(first, num_chunks(n)))
     IN  /\ held' = held \cup {Held(first[i + 1], n)}
         /\ first' = Without(first, i, num_chunks(n))
  /\ UNCHANGED <<list, next_size>>

\* ordered_malloc(n) takes a new block and gives its head to the client.
GrowContiguous(n) ==
  LET k    == num_chunks(n)
      size == Max({next_size, k})
  IN  /\ malloc_n(first, k) = {}
      /\ \E r \in Attempts(size, IF k < size THEN Max({size \div 2, k}) ELSE size) :
           IF r.block = NoBlock
           THEN next_size' = r.size /\ UNCHANGED <<first, list, held>>
           ELSE /\ next_size' = GrownSize(r.size)
                /\ first' = IF r.size > k
                            THEN add_ordered_block(first, r.block.begin + k, r.size - k)
                            ELSE first
                /\ list' = InsertOrdered(r.block)
                /\ held' = held \cup {Held(r.block.begin, n)}

ordered_malloc_of(n) ==
  \/ n = 0 /\ UNCHANGED <<first, list, next_size, held>>
  \/ n > 0 /\ TakeContiguous(n)
  \/ n > 0 /\ GrowContiguous(n)

-----------------------------------------------------------------------------
(* pool: giving memory back *)

\* The last chunk is not looked at.
AllFree_ButLast(ahead, b) ==
  b.chunks <= Len(ahead) /\ SubSeq(ahead, 1, b.chunks - 1) = segregate(b.begin, b.chunks - 1)

\* The free list goes on with all the chunks of block b.
AllFree(ahead, b) ==
  b.chunks <= Len(ahead) /\ SubSeq(ahead, 1, b.chunks) = segregate(b.begin, b.chunks)

\* The walk of release_memory over the blocks and the free list at once: passed
\* is the free list up to prev_free_p, ahead the free list from free_p on.
ReleaseBlock(w, b) ==
  LET n == b.chunks
      whole == AllFree(w.ahead, b)
      inside == Min({j \in 1..Len(w.ahead) : j = Len(w.ahead) \/ w.ahead[j + 1] >= BlockEnd(b)})
  IN  CASE w.ahead = <<>> -> [w EXCEPT !.kept = Append(@, b)]
        [] w.ahead # <<>> /\ whole
             -> [w EXCEPT !.ahead = SubSeq(@, n + 1, Len(@))]
        [] w.ahead # <<>> /\ ~whole /\ Head(w.ahead) \in Chunks(b)
             -> [passed |-> w.passed \o SubSeq(w.ahead, 1, inside),
                 ahead  |-> SubSeq(w.ahead, inside + 1, Len(w.ahead)),
                 kept   |-> Append(w.kept, b)]
        [] OTHER -> [w EXCEPT !.kept = Append(@, b)]

release_memory ==
  LET w == FoldLeft(ReleaseBlock, [passed |-> <<>>, ahead |-> first, kept |-> <<>>], list)
  IN  /\ first' = w.passed \o w.ahead
      /\ list' = w.kept
      /\ next_size' = start_size
      /\ UNCHANGED held

\* Every block goes, the client's chunks with them.
purge_memory ==
  /\ IF list = <<>>
     THEN UNCHANGED <<first, list, next_size>>
     ELSE first' = <<>> /\ list' = <<>> /\ next_size' = start_size
  /\ held' = {}

\* ~object_pool: c is the next chunk of the walk over all blocks.
DestroyChunk(w, c) ==
  IF w.freed # <<>> /\ c = Head(w.freed)
  THEN [w EXCEPT !.freed = Tail(@)]
  ELSE [w EXCEPT !.destroyed = Append(@, c)]

AllChunks == FlattenSeq([i \in 1..Len(list) |-> segregate(list[i].begin, list[i].chunks)])

-----------------------------------------------------------------------------
(* The owners of a pool *)

pool_allocator_allocate(n) ==
  /\ user = "pool_allocator"
  /\ ordered_malloc_of(n)
  /\ UNCHANGED <<start_size, max_size, user, destroyed>>

pool_allocator_deallocate(h) ==
  /\ user = "pool_allocator"
  /\ held' = held \ {h}
  /\ first' = add_ordered_block(first, h.at, num_chunks(h.n))
  /\ UNCHANGED <<list, next_size, start_size, max_size, user, destroyed>>

fast_allocate(n) ==
  /\ user = "fast_pool_allocator"
  /\ IF n = 1 THEN malloc ELSE ordered_malloc_of(n)
  /\ UNCHANGED <<start_size, max_size, user, destroyed>>

fast_deallocate(h) ==
  /\ user = "fast_pool_allocator"
  /\ held' = held \ {h}
  /\ first' = IF h.n = 1 THEN <<h.at>> \o first
                         ELSE add_block(first, h.at, num_chunks(h.n))
  /\ UNCHANGED <<list, next_size, start_size, max_size, user, destroyed>>

\* singleton_pool::release_memory, whose lists must be ordered.
singleton_release_memory ==
  /\ user = "pool_allocator"
  /\ release_memory
  /\ UNCHANGED <<start_size, max_size, user, destroyed>>

singleton_purge_memory ==
  /\ user \in {"pool_allocator", "fast_pool_allocator"}
  /\ purge_memory
  /\ UNCHANGED <<start_size, max_size, user, destroyed>>

\* construct: memory, then the constructor, which may throw.
construct(throws) ==
  /\ user = "object_pool"
  /\ ordered_malloc(throws)
  /\ UNCHANGED <<start_size, max_size, user, destroyed>>

destroy(h) ==
  /\ user = "object_pool"
  /\ held' = held \ {h}
  /\ first' = ordered_free(first, h.at)
  /\ UNCHANGED <<list, next_size, start_size, max_size, user, destroyed>>

set_next_size(n) ==
  /\ user = "object_pool"
  /\ next_size' = n /\ start_size' = n
  /\ UNCHANGED <<first, list, max_size, user, held, destroyed>>

destruct_object_pool ==
  /\ user = "object_pool"
  /\ user' = "nobody"
  /\ destroyed' = FoldLeft(DestroyChunk, [freed |-> first, destroyed |-> <<>>], AllChunks).destroyed
  /\ list' = <<>>
  /\ UNCHANGED <<first, next_size, start_size, max_size, held>>

PoolNext ==
  \/ \E n \in Requests : pool_allocator_allocate(n) \/ fast_allocate(n)
  \/ \E h \in held : pool_allocator_deallocate(h) \/ fast_deallocate(h) \/ destroy(h)
  \/ singleton_release_memory \/ singleton_purge_memory
  \/ construct(FALSE) \/ construct(TRUE) \/ destruct_object_pool
  \/ \E n \in StartSizes : set_next_size(n)

PoolSpec == PoolInit /\ [][PoolNext]_poolVars

-----------------------------------------------------------------------------
(* Properties *)

Ascending(s) == \A i, j \in 1..Len(s) : i < j => s[i] < s[j]

InOrder(blocks) == \A i, j \in 1..Len(blocks) : i < j => blocks[i].begin < blocks[j].begin

HeldChunks(h) == h.at..h.at + num_chunks(h.n) - 1

\* Every chunk of every block is either once in the free list or in exactly one
\* allocation, which lies inside one block, whatever mix of single and array,
\* ordered and unordered requests and returns, growth, failed growth and release
\* led here: no chunk is handed out twice, lost, or touched after its block
\* went back to the system.
ChunksAccountedFor ==
  user # "nobody" =>
    /\ Cardinality(Range(first)) = Len(first)
    /\ \A h \in held : \E b \in Range(list) : HeldChunks(h) \subseteq Chunks(b)
    /\ \A g, h \in held : g # h => HeldChunks(g) \cap HeldChunks(h) = {}
    /\ \A h \in held : HeldChunks(h) \cap Range(first) = {}
    /\ Range(first) \cup UNION {HeldChunks(h) : h \in held} = UNION {Chunks(b) : b \in Range(list)}

\* release_memory gives back every block without an allocated chunk and no
\* other, the free list loses just the chunks of these blocks, and both lists
\* stay in order.
ReleaseIsExact ==
  [][release_memory /\ user = "pool_allocator" =>
       LET Busy(b) == \E h \in held : h.at \in Chunks(b)
       IN  /\ Range(list') = {b \in Range(list) : Busy(b)}
           /\ Range(first') = {c \in Range(first) : \E b \in Range(list') : c \in Chunks(b)}
           /\ InOrder(list') /\ Ascending(first')]_poolVars

\* ~object_pool calls the destructor of each object the client still has exactly
\* once, and of nothing else.
LeftoversDestroyedOnce ==
  user = "nobody" =>
    Ascending(destroyed) /\ Range(destroyed) = {h.at : h \in held}
=============================================================================
