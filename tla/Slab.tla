-------------------------------- MODULE Slab --------------------------------
(***************************************************************************)
(* The slab allocator under the collector, src/rts/rts/gc_jgc.c: blocks    *)
(* carved out of megablocks, caches that cut blocks into entries of one    *)
(* size, the bit array of used entries at the start of each block, and     *)
(* s_cleanup_blocks, which sorts the blocks of every cache after a         *)
(* collection.                                                             *)
(*                                                                         *)
(* Tracing is seen from below only: a collection clears the used bits,     *)
(* calls s_set_used_bit for any of the entries that were handed out, and   *)
(* cleans up (module Collector says for which).  SLISTs are sequences;     *)
(* SLIST_INSERT_HEAD puts its block in front.                              *)
(***************************************************************************)
EXTENDS Naturals, Sequences, FiniteSets

CONSTANTS
    Caches,         \* the (size, num_ptrs) pairs the program asks for
    NumEntries,     \* sc->num_entries of each cache
    BitsPerUnit,    \* BITS_PER_UNIT: bits in one word of a bit array
    MaxBlocks,      \* bound: blocks the megablocks can give
    Threshold,      \* the first arena->block_threshold (8 in new_arena)
    NoCache, NoBlock

ASSUME BoundsAssumption == MaxBlocks \in Nat /\ Threshold \in Nat
ASSUME NamesAssumption == NoCache \notin Caches /\ NoBlock \notin 1 .. MaxBlocks

(* What new_cache makes of every size below 170 words on 64 bit: a block   *)
(* has at least two entries, and the last unit of its bits is not full.    *)
ASSUME GeometryAssumption ==
    /\ BitsPerUnit \in Nat \ {0}
    /\ \A c \in Caches : /\ NumEntries[c] \in Nat
                         /\ NumEntries[c] >= 2
                         /\ NumEntries[c] % BitsPerUnit # 0

Blocks    == 1 .. MaxBlocks
Places(c) == 0 .. NumEntries[c] - 1
Entries   == UNION {{c} \X Blocks \X Places(c) : c \in Caches}

VARIABLES
    caches,     \* arena->caches
    partial,    \* sc->blocks of each cache
    full,       \* sc->full_blocks of each cache
    freeBlocks, \* arena->free_blocks
    carved,     \* blocks taken from megablocks so far
    used,       \* pg->used of each block: the places whose bit is set
    numFree,    \* pg->u.pi.num_free
    nextFree,   \* pg->u.pi.next_free, a unit
    blockUsed,  \* arena->block_used
    threshold,  \* arena->block_threshold
    held,       \* the entries handed out and not reclaimed since
    pc,         \* idle, mark (bits cleared, marking) or sweep
    request,    \* the cache get_free_block collects for, or NoCache
    marked,     \* the entries s_set_used_bit was called for
    rest,       \* the caches s_cleanup_blocks has still to look at
    todo,       \* the blocks of the first of them it has still to look at
    best,       \* the block it has set aside to go first, or NoBlock
    freeBest    \* free_best, which is to be the free entries of best

lists     == <<partial, full, freeBlocks>>
bits      == <<used, numFree, nextFree>>
sweepVars == <<rest, todo, best, freeBest>>
gcVars    == <<pc, request, marked, sweepVars>>
vars      == <<caches, lists, carved, bits, blockUsed, threshold, held, gcVars>>

Init ==
    /\ caches = << >> /\ freeBlocks = << >>
    /\ partial = [c \in Caches |-> << >>] /\ full = partial
    /\ carved = 0 /\ blockUsed = 0 /\ threshold = Threshold
    /\ used = [b \in Blocks |-> {}]
    /\ numFree = [b \in Blocks |-> 0] /\ nextFree = numFree
    /\ held = {} /\ marked = {}
    /\ pc = "idle" /\ request = NoCache
    /\ rest = << >> /\ todo = << >> /\ best = NoBlock /\ freeBest = 0

-----------------------------------------------------------------------------
(* Bit arrays, in units of BITS_PER_UNIT places.                           *)

Units(c) == (NumEntries[c] + BitsPerUnit - 1) \div BitsPerUnit  \* BITARRAY_SIZE
Unit(u)  == u * BitsPerUnit .. u * BitsPerUnit + BitsPerUnit - 1

(* A faulty variant: the excess is cleared as well.                        *)
ClearedAll(c) == {}

(* What clear_block_used_bits leaves set: in the last unit, the bits from  *)
(* the excess num_entries % BITS_PER_UNIT on.                              *)
ClearedBits(c) ==
    {p \in Unit(Units(c) - 1) : p % BitsPerUnit >= NumEntries[c] % BitsPerUnit}

(* bitset_find_free: the lowest clear bit of the first unit that has one,  *)
(* looking from next_free on and around.  Without one it would not end.    *)
Least(S) == CHOOSE x \in S : \A y \in S : x <= y
ClearIn(b, u) == Unit(u) \ used[b]
HasClear(c, b) == \E u \in 0 .. Units(c) - 1 : ClearIn(b, u) # {}
FoundUnit(c, b) ==
    LET At(k) == (nextFree[b] + k) % Units(c)
    IN At(Least({k \in 0 .. Units(c) - 1 : ClearIn(b, At(k)) # {}}))
FoundPlace(c, b) == Least(ClearIn(b, FoundUnit(c, b)))

-----------------------------------------------------------------------------
(* Allocation.                                                             *)

Known(c) == \E k \in DOMAIN caches : caches[k] = c

(* find_cache when there is no cache of that shape yet: new_cache.         *)
NewCache(c) ==
    /\ pc = "idle" /\ ~Known(c)
    /\ caches' = <<c>> \o caches
    /\ UNCHANGED <<lists, carved, bits, blockUsed, threshold, held, gcVars>>

(* s_alloc from the first block of the cache; a block that becomes full    *)
(* moves to full_blocks.                                                   *)
AllocPartial(c) ==
    /\ pc = "idle" /\ partial[c] # << >>
    /\ LET b == Head(partial[c])
       IN /\ HasClear(c, b)
          /\ numFree' = [numFree EXCEPT ![b] = @ - 1]
          /\ used' = [used EXCEPT ![b] = @ \cup {FoundPlace(c, b)}]
          /\ nextFree' = [nextFree EXCEPT ![b] = FoundUnit(c, b)]
          /\ held' = held \cup {<<c, b, FoundPlace(c, b)>>}
          /\ IF numFree[b] = 1
             THEN /\ partial' = [partial EXCEPT ![c] = Tail(@)]
                  /\ full' = [full EXCEPT ![c] = <<b>> \o @]
             ELSE UNCHANGED <<partial, full>>
    /\ UNCHANGED <<caches, freeBlocks, carved, blockUsed, threshold, gcVars>>

(* The rest of s_alloc with a block from get_free_block.  Its bits are     *)
(* trusted when num_free says that all its entries are free; used[0] = 1   *)
(* then overwrites the first unit.                                         *)
Install(c, b, free) ==
    LET kept == IF free = NumEntries[c] THEN used[b] ELSE ClearedBits(c)
    IN /\ partial' = [partial EXCEPT ![c] = <<b>> \o @]
       /\ nextFree' = [nextFree EXCEPT ![b] = 0]
       /\ used' = [used EXCEPT ![b] = (kept \ Unit(0)) \cup {0}]
       /\ numFree' = [numFree EXCEPT ![b] = NumEntries[c] - 1]

NeedsBlock(c) == pc = "idle" /\ Known(c) /\ partial[c] = << >>

(* get_free_block finds a block in the arena's free list.                  *)
AllocFree(c) ==
    /\ NeedsBlock(c) /\ freeBlocks # << >>
    /\ Install(c, Head(freeBlocks), numFree[Head(freeBlocks)])
    /\ held' = held \cup {<<c, Head(freeBlocks), 0>>}
    /\ freeBlocks' = Tail(freeBlocks)
    /\ blockUsed' = blockUsed + 1
    /\ UNCHANGED <<caches, full, carved, threshold, gcVars>>

(* get_free_block carves the next block of the megablock.                  *)
Carve(c) ==
    /\ carved < MaxBlocks
    /\ carved' = carved + 1
    /\ Install(c, carved + 1, 0)

AllocCarve(c) ==
    /\ NeedsBlock(c) /\ freeBlocks = << >>
    /\ blockUsed + 1 < threshold
    /\ Carve(c)
    /\ blockUsed' = blockUsed + 1
    /\ held' = held \cup {<<c, carved + 1, 0>>}
    /\ UNCHANGED <<caches, full, freeBlocks, threshold, gcVars>>

-----------------------------------------------------------------------------
(* Collection.                                                             *)

In(b, list) == \E k \in DOMAIN list : list[k] = b

(* A faulty variant: full_blocks is forgotten.                             *)
ClearsPartial(c, b) == In(b, partial[c])

(* clear_used_bits goes over both lists of every cache.                    *)
Clears(c, b) == In(b, partial[c]) \/ In(b, full[c])

ClearUsedBits ==
    LET Owner(b) == {c \in Caches : Clears(c, b)}
        After(b, old, New(_)) ==
            IF Owner(b) = {} THEN old ELSE New(CHOOSE c \in Owner(b) : TRUE)
    IN /\ used' = [b \in Blocks |-> After(b, used[b], ClearedBits)]
       /\ numFree' = [b \in Blocks |->
                         After(b, numFree[b], LAMBDA c : NumEntries[c])]
       /\ pc' = "mark"
       /\ UNCHANGED <<caches, lists, carved, nextFree, threshold, held, marked,
                      sweepVars>>

(* get_free_block collects when too many blocks are in use.                *)
AllocCollects(c) ==
    /\ NeedsBlock(c) /\ freeBlocks = << >>
    /\ blockUsed + 1 >= threshold
    /\ carved < MaxBlocks
    /\ blockUsed' = blockUsed + 1
    /\ request' = c
    /\ ClearUsedBits

(* hs_perform_gc.                                                          *)
PerformGC ==
    /\ pc = "idle"
    /\ ClearUsedBits
    /\ UNCHANGED <<blockUsed, request>>

(* Faulty variants: the bit is not looked at first; num_free is forgotten. *)
BitUnsetAlways(b, p) == TRUE
SameCount(b) == numFree[b]

BitUnset(b, p) == p \notin used[b]
OneLess(b) == numFree[b] - 1

(* s_set_used_bit.                                                         *)
Mark(e) ==
    LET b == e[2]
        p == e[3]
    IN /\ pc = "mark"
       /\ marked' = marked \cup {e}
       /\ IF BitUnset(b, p)
          THEN /\ used' = [used EXCEPT ![b] = @ \cup {p}]
               /\ numFree' = [numFree EXCEPT ![b] = OneLess(b)]
          ELSE UNCHANGED <<used, numFree>>
       /\ UNCHANGED <<caches, lists, carved, nextFree, blockUsed, threshold, held,
                      pc, request, sweepVars>>

(* s_cleanup_blocks takes apart the lists of the next cache, if any is     *)
(* left; blocks are the partial lists as the caches before it leave them.  *)
Detach(cs, blocks) ==
    /\ rest' = cs
    /\ best' = NoBlock /\ freeBest' = 0
    /\ IF cs = << >>
       THEN partial' = blocks /\ UNCHANGED <<todo, full>>
       ELSE /\ todo' = blocks[Head(cs)] \o full[Head(cs)]
            /\ partial' = [blocks EXCEPT ![Head(cs)] = << >>]
            /\ full' = [full EXCEPT ![Head(cs)] = << >>]

sweepUnchanged == <<caches, carved, bits, threshold, held, request, marked>>

StartSweep ==
    /\ pc = "mark" /\ pc' = "sweep"
    /\ Detach(caches, partial)
    /\ UNCHANGED <<sweepUnchanged, freeBlocks, blockUsed>>

(* Faulty variants: a block with one free entry is taken for full, or one  *)
(* with any free entry for empty.                                          *)
NearlyFull(b) == numFree[b] <= 1
NotFull(c, b) == numFree[b] # 0

Full(b)     == numFree[b] = 0
Empty(c, b) == numFree[b] = NumEntries[c]

(* The three things s_cleanup_blocks does with a block.                    *)
KeepFull(c, b) ==
    /\ Full(b)
    /\ full' = [full EXCEPT ![c] = <<b>> \o @]
    /\ UNCHANGED <<partial, freeBlocks, blockUsed, best, freeBest>>

GiveBack(c, b) ==
    /\ ~Full(b) /\ Empty(c, b)
    /\ freeBlocks' = <<b>> \o freeBlocks
    /\ blockUsed' = blockUsed - 1
    /\ UNCHANGED <<partial, full, best, freeBest>>

(* A block that goes to the front stays behind in best; what is put in the *)
(* list in its place is the block that was best so far, and free_best is   *)
(* taken from that one.                                                    *)
KeepPartial(c, b) ==
    /\ ~Full(b) /\ ~Empty(c, b)
    /\ IF best = NoBlock
       THEN best' = b /\ freeBest' = numFree[b] /\ UNCHANGED partial
       ELSE LET better == numFree[b] < freeBest
                other  == IF better THEN best ELSE b
            IN /\ best' = IF better THEN b ELSE best
               /\ freeBest' = IF better THEN numFree[other] ELSE freeBest
               /\ partial' = [partial EXCEPT ![c] = <<other>> \o @]
    /\ UNCHANGED <<full, freeBlocks, blockUsed>>

SweepBlock ==
    /\ pc = "sweep" /\ todo # << >>
    /\ LET c == Head(rest)
           b == Head(todo)
       IN KeepFull(c, b) \/ GiveBack(c, b) \/ KeepPartial(c, b)
    /\ todo' = Tail(todo)
    /\ UNCHANGED <<sweepUnchanged, pc, rest>>

(* Faulty variants: best is not put back, or the next cache not taken.     *)
WithoutBest(c) == partial
SameCaches == rest

WithBest(c) ==
    IF best = NoBlock THEN partial
                      ELSE [partial EXCEPT ![c] = <<best>> \o @]
CachesLeft == Tail(rest)

SweepCache ==
    /\ pc = "sweep" /\ todo = << >> /\ rest # << >>
    /\ Detach(CachesLeft, WithBest(Head(rest)))
    /\ UNCHANGED <<sweepUnchanged, pc, freeBlocks, blockUsed>>

(* The end of hs_perform_gc.                                               *)
EndGC ==
    /\ pc = "sweep" /\ rest = << >> /\ request = NoCache
    /\ pc' = "idle"
    /\ held' = marked /\ marked' = {}
    /\ UNCHANGED <<caches, lists, carved, bits, blockUsed, threshold, request,
                   sweepVars>>

(* The end of the collection in get_free_block, which carves a block even  *)
(* when the collection gave some back.                                     *)
EndGCThenCarve ==
    /\ pc = "sweep" /\ rest = << >> /\ request # NoCache
    /\ pc' = "idle"
    /\ threshold' = IF blockUsed * 10 >= threshold * 9
                    THEN 2 * threshold ELSE threshold
    /\ Carve(request)
    /\ held' = marked \cup {<<request, carved + 1, 0>>} /\ marked' = {}
    /\ request' = NoCache
    /\ UNCHANGED <<caches, full, freeBlocks, blockUsed, sweepVars>>

-----------------------------------------------------------------------------
Sweeping == StartSweep \/ SweepBlock \/ SweepCache \/ EndGC \/ EndGCThenCarve

Next ==
    \/ \E c \in Caches : NewCache(c) \/ AllocPartial(c) \/ AllocFree(c)
                            \/ AllocCarve(c) \/ AllocCollects(c)
    \/ PerformGC
    \/ \E e \in held : Mark(e)
    \/ Sweeping

(* Marking ends (module Collector), and the sweep is a loop over lists.    *)
Spec == Init /\ [][Next]_vars /\ WF_vars(Sweeping)

-----------------------------------------------------------------------------
(* Properties.                                                             *)

SeqBlocks(s) == {s[k] : k \in DOMAIN s}

(* The types of the arena's counters and lists; num_free never underflows, *)
(* and s_set_used_bit is called for entries that were handed out only.     *)
TypeOK ==
    /\ caches \in Seq(Caches)
    /\ partial \in [Caches -> Seq(Blocks)] /\ full \in [Caches -> Seq(Blocks)]
    /\ freeBlocks \in Seq(Blocks)
    /\ carved \in 0 .. MaxBlocks
    /\ used \in [Blocks -> SUBSET Nat]
    /\ numFree \in [Blocks -> Nat] /\ nextFree \in [Blocks -> Nat]
    /\ blockUsed \in Nat /\ threshold \in Nat
    /\ held \subseteq Entries /\ marked \subseteq held
    /\ pc \in {"idle", "mark", "sweep"}
    /\ request \in Caches \cup {NoCache}
    /\ rest \in Seq(Caches) /\ todo \in Seq(Blocks)
    /\ best \in Blocks \cup {NoBlock} /\ freeBest \in Nat

(* The blocks that belong to a cache now, the ones s_cleanup_blocks has in *)
(* its hands included.                                                     *)
BlocksOf(c) ==
    SeqBlocks(partial[c]) \cup SeqBlocks(full[c]) \cup
    (IF rest # << >> /\ c = Head(rest)
     THEN SeqBlocks(todo) \cup ({best} \ {NoBlock}) ELSE {})

(* num_free counts the clear bits of the entries of a block, whichever of  *)
(* allocation, clear_block_used_bits and s_set_used_bit came last; an      *)
(* allocation trusts it to mean that bitset_find_free will find a place.   *)
FreeCountExact ==
    \A c \in Caches : \A b \in BlocksOf(c) :
        numFree[b] = Cardinality(Places(c) \ used[b])

(* Two entries share memory; caches cut blocks differently.                *)
Overlap(x, y) == x[2] = y[2] /\ (x[1] # y[1] \/ x[3] = y[3])

NextEntry(c) ==
    CASE partial[c] # << >> -> <<c, Head(partial[c]), FoundPlace(c, Head(partial[c]))>>
      [] partial[c] = << >> /\ freeBlocks # << >> -> <<c, Head(freeBlocks), 0>>
      [] OTHER -> <<c, carved + 1, 0>>

(* What s_alloc would return now is an entry inside its block (the assert  *)
(* at its end) that overlaps no entry handed out: the bits past            *)
(* num_entries, which used[0] = 1 may clear, are never found, and a bit    *)
(* can always be found where s_alloc looks for one.                        *)
FreshEntry ==
    pc = "idle" => \A c \in Caches :
        /\ partial[c] # << >> =>
               HasClear(c, Head(partial[c])) /\ NextEntry(c) \in Entries
        /\ \A h \in held : ~Overlap(h, NextEntry(c))

At(list, b) == {k \in DOMAIN list : list[k] = b}

SpotsOf(b) ==
    (UNION {{<<"blocks", c>>} \X At(partial[c], b) : c \in Caches}) \cup
    (UNION {{<<"full_blocks", c>>} \X At(full[c], b) : c \in Caches}) \cup
    ({<<"free_blocks", NoCache>>} \X At(freeBlocks, b)) \cup
    ({<<"todo", NoCache>>} \X At(todo, b)) \cup
    ({<<"best", NoCache>>} \X At(<<best>>, b))

(* No block is lost and none is in two lists: s_alloc, get_free_block and  *)
(* s_cleanup_blocks hand every carved block to exactly one owner, and once *)
(* at that.                                                                *)
EveryBlockOnce ==
    \A b \in Blocks : Cardinality(SpotsOf(b)) = IF b <= carved THEN 1 ELSE 0

(* s_alloc takes an entry of the first block without looking, and gives a  *)
(* block up once it is full; s_cleanup_blocks gives back empty ones.       *)
ListsMatchCounts ==
    pc = "idle" => \A c \in Caches :
        /\ \A b \in SeqBlocks(partial[c]) : numFree[b] \in 1 .. NumEntries[c] - 1
        /\ \A b \in SeqBlocks(full[c]) : numFree[b] = 0

(* s_alloc uses a block of the free list as it is when its num_free is the *)
(* num_entries of the cache: then its bits must be those of an empty block *)
(* of that cache, whichever cache it came from.                            *)
FreeBlocksClean ==
    \A b \in SeqBlocks(freeBlocks), c \in Caches :
        numFree[b] = NumEntries[c] => used[b] = ClearedBits(c)

(* block_used, which decides when the arena collects and grows, counts the *)
(* blocks of the caches and the one being asked for.                       *)
BlockUsedExact ==
    blockUsed = Cardinality(UNION {BlocksOf(c) : c \in Caches})
                    + (IF request = NoCache THEN 0 ELSE 1)

(* Between collections the bits of a block say which of its entries are    *)
(* handed out; from clear_used_bits on they say which were marked.         *)
BitsAreEntries ==
    \A c \in Caches : \A b \in BlocksOf(c) :
        used[b] \cap Places(c) =
            {p \in Places(c) :
                <<c, b, p>> \in IF pc = "idle" THEN held ELSE marked}

(* s_alloc returns only memory that overlaps nothing handed out before and *)
(* not reclaimed, through any mixture of caches and collections.           *)
Pool == INSTANCE EntryPool
ImplementsEntryPool == Pool!Spec

(* s_cleanup_blocks comes to the end of its lists, and the allocation that *)
(* started the collection gets its block.                                  *)
CollectionEnds == pc # "idle" ~> pc = "idle" /\ request = NoCache

(* The comment in s_cleanup_blocks: 'best' keeps track of the block with   *)
(* the fewest free spots and percolates it to the front.                   *)
BestGoesFirst ==
    [][\A c \in Caches : (SweepCache /\ c = Head(rest)) =>
           \A b \in SeqBlocks(partial'[c]) :
               numFree[Head(partial'[c])] <= numFree[b]]_vars

=============================================================================
