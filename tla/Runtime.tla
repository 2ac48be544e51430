------------------------------ MODULE Runtime -------------------------------
(***************************************************************************)
(* A process that uses a compiled program, under the memory manager that   *)
(* never reclaims (_JHC_GC_NONE): its start and end (rts_support.c, main   *)
(* of jhc_rts.c), the allocator that cuts requests from one chunk after    *)
(* another (gc_none.c), and the stable pointers in their doubly linked     *)
(* list (stableptr.c, LIST of sys/queue.h), link by link.                  *)
(***************************************************************************)
EXTENDS Integers, Sequences, FiniteSets

CONSTANTS
    WordSize,       \* sizeof(void *)
    ChunkSize,      \* JHC_MEM_CHUNK_SIZE
    Requests,       \* the sizes asked for
    MaxChunks,      \* bound: the chunks malloc ever gives
    Structs,        \* the addresses malloc may give a struct StablePtr
    Values,         \* what stable pointers stand for
    MaxInits,       \* bound: how deep a host nests hs_init
    NULL            \* the null pointer

ASSUME SizesAssumption ==
    /\ WordSize \in Nat \ {0}
    /\ ChunkSize \in Nat
    /\ \E k \in 1..ChunkSize : ChunkSize = WordSize * k

(* No object is empty or larger than a chunk: the code tests for neither.  *)
ASSUME RequestsAssumption == Requests \subseteq 1..ChunkSize

ASSUME NullAssumption == NULL \notin Structs

ASSUME ValuesAssumption == Values # {}

VARIABLES
    standalone,         \* whether main is the program's, or that of a host in C
    pc,                 \* "outside" in C, "haskell", "exited", "aborted"
    hs_init_count,
    started,            \* history: how often jhc_alloc_init has run
    chunk, mem_offset,  \* jhc_current_chunk by its number, and mem_offset
    allocs,             \* history: what has been handed out
    lh_first,           \* of root_StablePtrs
    next, prev,         \* le_next and le_prev, also of structs that are free
    contents,
    live,               \* the structs that malloc has given and free has not taken
    order               \* history: the live structs and their values, the newest first

processVars == <<standalone, pc, hs_init_count, started>>
allocVars == <<chunk, mem_offset, allocs>>
listVars == <<lh_first, next, prev, contents, live, order>>
vars == <<processVars, allocVars, listVars>>

-----------------------------------------------------------------------------
(* gc_none.c                                                               *)

(* A faulty variant: always a word more.                                   *)
M_ALIGNPadded(a, n) == n - (n % a) + a

(* M_ALIGN(a, n)                                                           *)
M_ALIGN(a, n) == n - 1 + (a - ((n - 1) % a))

(* A faulty variant: what is already handed out of the chunk is forgotten. *)
TooLongAlone(n) == n > ChunkSize \/ mem_offset = ChunkSize

(* Whether the request does not fit into what is left of the chunk.        *)
TooLong(n) == n > ChunkSize - mem_offset

(* jhc_malloc: the rest of the chunk is lost when a new one is begun.      *)
jhc_malloc(n) ==
    LET size == M_ALIGN(WordSize, n)
        c == IF TooLong(size) THEN chunk + 1 ELSE chunk
        o == IF TooLong(size) THEN 0 ELSE mem_offset
    IN /\ pc = "haskell"
       /\ c <= MaxChunks
       /\ chunk' = c
       /\ mem_offset' = o + size
       /\ allocs' = allocs \union {[chunk |-> c, offset |-> o, size |-> n]}
       /\ UNCHANGED <<processVars, listVars>>

(* jhc_malloc_grow: malloc returns no memory.                              *)
OutOfMemory(n) ==
    /\ pc = "haskell"
    /\ TooLong(M_ALIGN(WordSize, n))
    /\ pc' = "aborted"
    /\ UNCHANGED <<standalone, hs_init_count, started, allocVars, listVars>>

-----------------------------------------------------------------------------
(* stableptr.c.  The address of a link is ListHead or that of a struct's   *)
(* le_next.                                                                *)

ListHead == << "lh_first" >>
NextOf(p) == << "le_next", p >>
Links == {ListHead} \union {NextOf(p) : p \in Structs}

(* A faulty variant: the new struct does not lead on to the list.          *)
c_newStablePtrAlone(p, v) ==
    /\ pc = "haskell"
    /\ p \in Structs \ live
    /\ next' = [next EXCEPT ![p] = NULL]
    /\ prev' = [prev EXCEPT ![p] = ListHead]
    /\ lh_first' = p
    /\ contents' = [contents EXCEPT ![p] = v]
    /\ live' = live \union {p}
    /\ order' = << << p, v >> >> \o order
    /\ UNCHANGED <<processVars, allocVars>>

(* c_newStablePtr: LIST_INSERT_HEAD.                                       *)
c_newStablePtr(p, v) ==
    /\ pc = "haskell"
    /\ p \in Structs \ live
    /\ next' = [next EXCEPT ![p] = lh_first]
    /\ prev' = [q \in Structs |-> IF q = p THEN ListHead
                                  ELSE IF q = lh_first THEN NextOf(p)
                                  ELSE prev[q]]
    /\ lh_first' = p
    /\ contents' = [contents EXCEPT ![p] = v]
    /\ live' = live \union {p}
    /\ order' = << << p, v >> >> \o order
    /\ UNCHANGED <<processVars, allocVars>>

(* The history goes on without p.                                          *)
Forgotten(p) ==
    \E k \in 1..Len(order) :
        /\ order[k][1] = p
        /\ order' = SubSeq(order, 1, k - 1) \o SubSeq(order, k + 1, Len(order))

(* A faulty variant: the struct behind p still leads back to it.           *)
c_freeStablePtrOneWay(p) ==
    /\ pc \in {"haskell", "outside"}
    /\ hs_init_count > 0
    /\ p \in live
    /\ lh_first' = IF prev[p] = ListHead THEN next[p] ELSE lh_first
    /\ next' = [q \in Structs |-> IF prev[p] = NextOf(q) THEN next[p] ELSE next[q]]
    /\ live' = live \ {p}
    /\ Forgotten(p)
    /\ UNCHANGED <<processVars, allocVars, prev, contents>>

(* c_freeStablePtr, from Haskell or through hs_free_stable_ptr from C:     *)
(* LIST_REMOVE, with *le_prev the link that leads to p.                    *)
c_freeStablePtr(p) ==
    /\ pc \in {"haskell", "outside"}
    /\ hs_init_count > 0
    /\ p \in live
    /\ prev' = [q \in Structs |-> IF q = next[p] THEN prev[p] ELSE prev[q]]
    /\ lh_first' = IF prev[p] = ListHead THEN next[p] ELSE lh_first
    /\ next' = [q \in Structs |-> IF prev[p] = NextOf(q) THEN next[p] ELSE next[q]]
    /\ live' = live \ {p}
    /\ Forgotten(p)
    /\ UNCHANGED <<processVars, allocVars, contents>>

-----------------------------------------------------------------------------
(* rts_support.c                                                           *)

(* hs_init: main calls it once, a host as often as it likes.               *)
hs_init ==
    /\ pc = "outside"
    /\ hs_init_count < IF standalone THEN 1 ELSE MaxInits
    /\ hs_init_count' = hs_init_count + 1
    /\ started' = IF hs_init_count = 0 THEN started + 1 ELSE started
    /\ UNCHANGED <<standalone, pc, allocVars, listVars>>

(* _amain or an exported function, and its return.                         *)
Enter ==
    /\ pc = "outside"
    /\ hs_init_count > 0
    /\ pc' = "haskell"
    /\ UNCHANGED <<standalone, hs_init_count, started, allocVars, listVars>>

Leave ==
    /\ pc = "haskell"
    /\ pc' = "outside"
    /\ UNCHANGED <<standalone, hs_init_count, started, allocVars, listVars>>

(* A faulty variant: the last hs_exit returns to the host.                 *)
hs_exitReturns ==
    /\ pc = "outside"
    /\ standalone => hs_init_count > 0
    /\ hs_init_count' = IF hs_init_count = 0 THEN 0 ELSE hs_init_count - 1
    /\ pc' = IF hs_init_count = 0 THEN "aborted" ELSE "outside"
    /\ UNCHANGED <<standalone, started, allocVars, listVars>>

(* hs_exit: the last one ends the process, one too many aborts it.         *)
hs_exit ==
    /\ pc = "outside"
    /\ standalone => hs_init_count > 0
    /\ hs_init_count' = IF hs_init_count = 0 THEN 0 ELSE hs_init_count - 1
    /\ pc' = CASE hs_init_count = 0 -> "aborted"
               [] hs_init_count = 1 -> "exited"
               [] OTHER -> "outside"
    /\ UNCHANGED <<standalone, started, allocVars, listVars>>

(* jhc_exit from the program, or from jhc_error after an exception that    *)
(* main's jhc_setjmp catches: the process ends whatever the count is.      *)
jhc_exit ==
    /\ pc = "haskell"
    /\ pc' = "exited"
    /\ UNCHANGED <<standalone, hs_init_count, started, allocVars, listVars>>

(* jhc_case_fell_off: no alternative of a case matches.                    *)
jhc_case_fell_off ==
    /\ pc = "haskell"
    /\ pc' = "aborted"
    /\ UNCHANGED <<standalone, hs_init_count, started, allocVars, listVars>>

-----------------------------------------------------------------------------

Init ==
    /\ standalone \in BOOLEAN
    /\ pc = "outside"
    /\ hs_init_count = 0
    /\ started = 0
    /\ chunk = 0 /\ mem_offset = 0 /\ allocs = {}
    /\ lh_first = NULL
    /\ next = [p \in Structs |-> NULL]
    /\ prev = [p \in Structs |-> ListHead]
    /\ contents = [p \in Structs |-> CHOOSE v \in Values : TRUE]
    /\ live = {} /\ order = << >>

Next ==
    \/ \E n \in Requests : jhc_malloc(n) \/ OutOfMemory(n)
    \/ \E p \in Structs, v \in Values : c_newStablePtr(p, v)
    \/ \E p \in Structs : c_freeStablePtr(p)
    \/ hs_init \/ Enter \/ Leave \/ hs_exit \/ jhc_exit \/ jhc_case_fell_off

Spec == Init /\ [][Next]_vars

-----------------------------------------------------------------------------
(* What holds.                                                             *)

(* The variables have their types (gc_none.c:25-28, stableptr.c:4).        *)
Allocation == [chunk : Nat, offset : Nat, size : Requests]
TypeOK ==
    /\ standalone \in BOOLEAN
    /\ pc \in {"outside", "haskell", "exited", "aborted"}
    /\ hs_init_count \in Nat /\ started \in Nat
    /\ chunk \in Nat /\ mem_offset \in 0..ChunkSize /\ allocs \subseteq Allocation
    /\ lh_first \in Structs \union {NULL}
    /\ next \in [Structs -> Structs \union {NULL}]
    /\ prev \in [Structs -> Links]
    /\ contents \in [Structs -> Values]
    /\ live \subseteq Structs /\ order \in Seq(Structs \X Values)

(* What has been handed out lies within its chunk and no two allocations   *)
(* share a byte, whatever sizes have been asked for before                 *)
(* (gc_none.c:54-65).                                                      *)
Disjoint(a, b) ==
    \/ a.chunk # b.chunk
    \/ a.offset + a.size <= b.offset
    \/ b.offset + b.size <= a.offset

AllocsDisjoint ==
    /\ \A a \in allocs : a.offset + a.size <= ChunkSize
    /\ \A a, b \in allocs : a # b => Disjoint(a, b)

(* The links of live structs agree in both directions, and lead to live    *)
(* structs only: what c_freeStablePtr writes through le_prev is a link     *)
(* still in use, in whatever order structs are made, freed and their       *)
(* memory used again (stableptr.c:6-20, queue.h:120-132).                  *)
LinksAgree ==
    /\ lh_first # NULL => lh_first \in live /\ prev[lh_first] = ListHead
    /\ \A p \in live :
         /\ next[p] # NULL => next[p] \in live /\ prev[next[p]] = NextOf(p)
         /\ prev[p] = ListHead => lh_first = p
         /\ \A q \in Structs : prev[p] = NextOf(q) => q \in live /\ next[q] = p

(* The structs LIST_FOREACH comes to, in its first n steps.                *)
Walk(n) ==
    LET w[i \in 0..n] == IF i = 0 THEN lh_first
                         ELSE IF w[i - 1] = NULL THEN NULL ELSE next[w[i - 1]]
    IN w

(* A walk of the list, as the collector makes it for its roots, ends and   *)
(* comes to every live struct once, the newest first, and what             *)
(* c_derefStablePtr reads there is the value the pointer was made for      *)
(* (queue.h:134-137, stableptr.c:22-26).                                   *)
WalkIsList ==
    LET n == Len(order)
        w == Walk(n)
    IN /\ w[n] = NULL
       /\ \A i \in 1..n : w[i - 1] # NULL /\ order[i] = << w[i - 1], contents[w[i - 1]] >>
       /\ live = {order[i][1] : i \in 1..n}
       /\ Cardinality(live) = n

(* The run time is set up before any Haskell code runs and once in a       *)
(* process: after the last hs_exit there is no process to set it up again, *)
(* and before it every further hs_init finds it set up                     *)
(* (rts_support.c:62-91).                                                  *)
SetUpOnce ==
    /\ started <= 1
    /\ pc = "haskell" \/ hs_init_count > 0 => started = 1
    /\ pc = "outside" => started = IF hs_init_count > 0 THEN 1 ELSE 0

=============================================================================
