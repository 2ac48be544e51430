------------------------------ MODULE Monolith ------------------------------
(***************************************************************************)
(* Monolithic blocks of src/rts/rts/gc_jgc.c: arrays of 150 words or more  *)
(* and foreign pointers, which are allocated one by one and linked into    *)
(* arena->monolithic_blocks, with the finalizers a foreign pointer         *)
(* carries.  Beside them the heap holds nodes of the slab, which monoliths *)
(* point to.                                                               *)
(*                                                                         *)
(* The trace is the one of module Collector, with the grey stack as a set. *)
(* What differs for a monolith is s_set_used_bit, the sweep, and that all  *)
(* its words are scanned as smart pointers: also those of a block that     *)
(* holds raw data, which may be NULL or point out of the heap.             *)
(***************************************************************************)
EXTENDS Naturals, Sequences, FiniteSets

CONSTANTS
    Monos,          \* monolithic blocks that can be allocated
    Nodes,          \* entries of the slab without pointers of their own
    Counts,         \* element counts the program asks arrays of
    ByteCounts,     \* sizes in words it asks raw memory of
    Finalizers,     \* finalizer functions
    MaxFinalizers,  \* bound: finalizers on one foreign pointer
    Null,           \* NULL, which has the tag of a pointer
    Outside         \* a word with the tag of a pointer that is none into the heap

(* Blocks are memory of their own; elements are counted in an unsigned.    *)
ASSUME ObjectsAssumption ==
    /\ Monos \cap Nodes = {}
    /\ {Null, Outside} \cap (Monos \cup Nodes) = {} /\ Null # Outside
ASSUME BoundsAssumption ==
    Counts \subseteq Nat /\ ByteCounts \subseteq Nat /\ MaxFinalizers \in Nat

Objects == Monos \cup Nodes
Words == Objects \cup {Null, Outside}      \* what gc_add_grey is called with

VARIABLES
    kind,           \* none (not allocated), array, bytes or foreign
    numPtrs,        \* pg->u.m.num_ptrs
    elems,          \* what the elements of an array point to
    finalizers,     \* the finalizers of a foreign pointer, in order
    ran,            \* the finalizers that were run for it
    nodes,          \* the nodes in use
    roots,          \* what the program can reach without passing a monolith
    list,           \* arena->monolithic_blocks
    used,           \* the used bits
    pc,             \* idle, trace, sweep, or trapped
    grey,           \* pointers gc_add_grey is still to be called with
    todo            \* the rest of the list s_cleanup_blocks walks

heapVars == <<kind, numPtrs, elems, finalizers, ran, nodes>>
gcVars == <<pc, grey, todo>>
vars == <<heapVars, roots, list, used, gcVars>>

Init ==
    /\ kind = [m \in Monos |-> "none"]
    /\ numPtrs = [m \in Monos |-> 0]
    /\ elems = [m \in Monos |-> {}]
    /\ finalizers = [m \in Monos |-> << >>]
    /\ ran = [m \in Monos |-> << >>]
    /\ nodes = {} /\ roots = {} /\ used = {}
    /\ list = << >> /\ todo = << >>
    /\ pc = "idle"
    /\ grey = {}

-----------------------------------------------------------------------------
(* The program.                                                            *)

(* s_monoblock.                                                            *)
Monoblock(m, k, count, content) ==
    /\ pc = "idle"
    /\ kind[m] = "none"
    /\ kind' = [kind EXCEPT ![m] = k]
    /\ numPtrs' = [numPtrs EXCEPT ![m] = count]
    /\ elems' = [elems EXCEPT ![m] = content]
    /\ finalizers' = [finalizers EXCEPT ![m] = << >>]
    /\ ran' = [ran EXCEPT ![m] = << >>]
    /\ list' = <<m>> \o list
    /\ used' = used \cup {m}
    /\ roots' = roots \cup {m}
    /\ UNCHANGED <<nodes, gcVars>>

(* gc_array_alloc and the loop that fills the array with a value.          *)
AllocArray(m, count, content) ==
    Monoblock(m, "array", count, content)

(* gc_array_alloc of no elements: the array is NULL.  (Only variables hold *)
(* it here; where the collector finds a NULL makes no difference to it.)   *)
AllocEmpty ==
    /\ pc = "idle"
    /\ roots' = roots \cup {Null}
    /\ UNCHANGED <<heapVars, list, used, gcVars>>

(* gc_malloc_foreignptr: raw memory in the heap, behind a word with its    *)
(* address.                                                                *)
MallocForeignPtr(m, count) == Monoblock(m, "bytes", count, {})

(* gc_new_foreignptr: an address and an empty list of finalizers.          *)
NewForeignPtr(m) == Monoblock(m, "foreign", 2, {})

(* gc_add_foreignptr_finalizer.                                            *)
AddFinalizer(m, f) ==
    /\ pc = "idle"
    /\ m \in roots /\ kind[m] = "foreign"
    /\ Len(finalizers[m]) < MaxFinalizers
    /\ finalizers' = [finalizers EXCEPT ![m] = Append(@, f)]
    /\ UNCHANGED <<kind, numPtrs, elems, ran, nodes, roots, list, used, gcVars>>

AllocNode(n) ==
    /\ pc = "idle"
    /\ n \notin nodes
    /\ nodes' = nodes \cup {n}
    /\ used' = used \cup {n}
    /\ roots' = roots \cup {n}
    /\ UNCHANGED <<kind, numPtrs, elems, finalizers, ran, list, gcVars>>

(* The element written may have been the last one of the old content.  (A  *)
(* program that goes on with a block freed under it is not described.)     *)
WriteArray(m, x) ==
    /\ pc = "idle"
    /\ m \in roots /\ kind[m] = "array"
    /\ \E kept \in {{}, elems[m]} : elems' = [elems EXCEPT ![m] = kept \cup {x}]
    /\ UNCHANGED <<kind, numPtrs, finalizers, ran, nodes, roots, list, used, gcVars>>

ReadArray(m, x) ==
    /\ pc = "idle"
    /\ m \in roots /\ kind[m] = "array" /\ x \in elems[m]
    /\ roots' = roots \cup {x}
    /\ UNCHANGED <<heapVars, list, used, gcVars>>

Forget(x) ==
    /\ pc = "idle"
    /\ roots' = roots \ {x}
    /\ UNCHANGED <<heapVars, list, used, gcVars>>

Mutator ==
    \/ \E m \in Monos, count \in Counts, x \in roots \ {Null} :
          AllocArray(m, count, {x})
    \/ \E m \in Monos, count \in Counts : AllocArray(m, count, {})
    \/ AllocEmpty
    \/ \E m \in Monos, count \in ByteCounts : MallocForeignPtr(m, count)
    \/ \E m \in Monos : NewForeignPtr(m)
    \/ \E m \in roots \cap Monos, f \in Finalizers : AddFinalizer(m, f)
    \/ \E n \in Nodes : AllocNode(n)
    \/ \E m \in roots \cap Monos, x \in roots \ {Null} : WriteArray(m, x)
    \/ \E m \in roots \cap Monos, x \in Objects : ReadArray(m, x)
    \/ \E x \in roots : Forget(x)

-----------------------------------------------------------------------------
(* Collections.                                                            *)

InList(m) == \E k \in DOMAIN list : list[k] = m

(* A faulty variant: one kind of roots is forgotten.                       *)
RootNodes == roots \cap Nodes

RootPointers == roots

(* clear_used_bits reaches the monoliths of the list, and every node.      *)
(* (What lies where a freed block was is decided when it is looked at.)    *)
StartGC ==
    /\ pc = "idle"
    /\ pc' = "trace"
    /\ used' = {m \in used \cap Monos : kind[m] # "none" /\ ~InList(m)}
    /\ grey' = RootPointers
    /\ UNCHANGED <<heapVars, roots, list, todo>>

(* s_set_used_bit divides by u.pi.size before it looks at the flags, and   *)
(* for a monolith that byte is the second one of u.m.num_ptrs.             *)
SizeByte(m) == (numPtrs[m] \div 256) % 256
DividesByZero(x) == x \in Monos /\ SizeByte(x) = 0

(* A faulty variant: the bit is not tested before it is set.               *)
MustScanAlways(x) == TRUE

MustScan(x) == x \notin used

InUse == nodes \cup {m \in Monos : kind[m] # "none"}

(* Not memory of the heap: a block that was freed, a C address.            *)
Stray(x) == x = Outside \/ x \in Monos \ InUse

(* What the words of a block may be, one set for each case: a foreign      *)
(* pointer holds a C address, which may have any tag, and NULL or the      *)
(* address of the array of its finalizers.                                 *)
WordsOf(m) ==
    CASE kind[m] = "array"   -> {elems[m]}
      [] kind[m] = "bytes"   -> SUBSET {Null, Outside}
      [] kind[m] = "foreign" ->
            {address \cup (IF finalizers[m] = << >> THEN {Null} ELSE {Outside}) :
                address \in {{}, {Null}, {Outside}}}

(* What gc_mark_deeper may find in x.  In memory that is not of the heap   *)
(* it finds a bit set, or nothing, or any words at all.                    *)
Found(x) ==
    IF ~MustScan(x) THEN {{}}
    ELSE IF Stray(x) THEN SUBSET (InUse \cup {Null, Outside})
    ELSE IF x \in Monos THEN WordsOf(x) ELSE {{}}

(* gc_add_grey, and the scan of what it has pushed.                        *)
Visit(x) ==
    /\ pc = "trace"
    /\ x \in grey \ {Null}
    /\ used' = used \cup {x}
    /\ \E found \in Found(x) : grey' = (grey \ {x}) \cup found
    /\ UNCHANGED <<heapVars, roots, list, pc, todo>>

(* The process ends where the division traps (elsewhere its result is 0),  *)
(* where s_set_used_bit reads the header of the block NULL is in, and,     *)
(* perhaps, where it takes other memory for a block.                       *)
Trap ==
    /\ pc = "trace"
    /\ \E x \in grey : DividesByZero(x) \/ x = Null \/ Stray(x)
    /\ pc' = "trapped"
    /\ roots' = {} /\ used' = {} /\ grey' = {}
    /\ UNCHANGED <<heapVars, list, todo>>

(* A faulty variant: SLIST_INIT is left out.                               *)
ListNotEmptied == list

ListEmptied == << >>

StartSweep ==
    /\ pc = "trace"
    /\ grey = {}
    /\ pc' = "sweep"
    /\ todo' = list
    /\ list' = ListEmptied
    /\ UNCHANGED <<heapVars, roots, used, grey>>

(* The next block is read off the link after SLIST_INSERT_HEAD has         *)
(* overwritten it with the head of the new list.                           *)
KeepMonolith ==
    /\ pc = "sweep"
    /\ todo # << >>
    /\ Head(todo) \in used
    /\ list' = <<Head(todo)>> \o list
    /\ todo' = list
    /\ UNCHANGED <<heapVars, roots, used, pc, grey>>

(* A faulty variant: the loop starts after the first finalizer.            *)
RunFinalizersLate(m) ==
    ran' = [ran EXCEPT ![m] = @ \o SubSeq(finalizers[m], 2, Len(finalizers[m]))]

(* A faulty variant: the loop calls the null at the end as well.           *)
RunFinalizersPast(m) ==
    ran' = [ran EXCEPT ![m] = Append(@ \o finalizers[m], "null")]

(* The loop over the array of finalizers, first to last.                   *)
RunFinalizers(m) == ran' = [ran EXCEPT ![m] = @ \o finalizers[m]]

FreeMonolith ==
    /\ pc = "sweep"
    /\ todo # << >>
    /\ Head(todo) \notin used
    /\ RunFinalizers(Head(todo))
    /\ kind' = [kind EXCEPT ![Head(todo)] = "none"]
    /\ numPtrs' = [numPtrs EXCEPT ![Head(todo)] = 0]
    /\ elems' = [elems EXCEPT ![Head(todo)] = {}]
    /\ todo' = Tail(todo)
    /\ UNCHANGED <<finalizers, nodes, roots, list, used, pc, grey>>

(* The caches are swept after the monoliths.                               *)
EndGC ==
    /\ pc = "sweep"
    /\ todo = << >>
    /\ pc' = "idle"
    /\ nodes' = nodes \cap used
    /\ UNCHANGED <<kind, numPtrs, elems, finalizers, ran, roots, list, used, grey, todo>>

Collect ==
    \/ StartGC
    \/ \E x \in grey : Visit(x)
    \/ Trap \/ StartSweep \/ KeepMonolith \/ FreeMonolith \/ EndGC

Next == Mutator \/ Collect

(* A collection is a loop over roots, fields and lists: it goes on.        *)
Spec == Init /\ [][Next]_vars /\ WF_vars(Collect)

-----------------------------------------------------------------------------
(* Properties.                                                             *)

(* The types of the model; what the finalizer loop calls are finalizers.   *)
TypeOK ==
    /\ kind \in [Monos -> {"none", "array", "bytes", "foreign"}]
    /\ numPtrs \in [Monos -> Nat]
    /\ elems \in [Monos -> SUBSET Objects]
    /\ finalizers \in [Monos -> Seq(Finalizers)]
    /\ ran \in [Monos -> Seq(Finalizers)]
    /\ nodes \subseteq Nodes
    /\ roots \subseteq Objects \cup {Null} /\ {used, grey} \subseteq SUBSET Words
    /\ list \in Seq(Monos) /\ todo \in Seq(Monos)
    /\ pc \in {"idle", "trace", "sweep", "trapped"}

(* s_cleanup_blocks frees a monolith, which is memory of its own, at most  *)
(* once: the list and the rest of the old list never repeat a block, and   *)
(* never hold one that was freed.                                          *)
ListedOnce ==
    /\ {(list \o todo)[k] : k \in DOMAIN (list \o todo)} \subseteq InUse
    /\ \A j, k \in DOMAIN (list \o todo) : (list \o todo)[j] = (list \o todo)[k] => j = k

(* What the program holds itself is never freed under it, not even when    *)
(* the block had dropped off the list in an earlier collection.            *)
RootsKept == [][FreeMonolith => Head(todo) \notin roots]_vars

(* The finalizers of a foreign pointer all run, once each and in the order *)
(* they were added, when its memory is freed and never before.             *)
FinalizersRunOnFree ==
    \A m \in Monos : ran[m] = IF kind[m] = "none" THEN finalizers[m] ELSE << >>

(* A heap in which the collector follows nothing but pointers into it, and *)
(* divides by no zero: arrays whose count has a second byte.               *)
Tame ==
    /\ grey \subseteq InUse
    /\ \A m \in InUse \cap Monos :
          kind[m] = "array" /\ ~DividesByZero(m) /\ elems[m] \subseteq InUse

(* A collection comes to an end or ends the process (by the division, at   *)
(* NULL, or outside of the heap), and in a tame heap the program goes on.  *)
CollectionEnds ==
    /\ pc = "trace" ~> pc \in {"idle", "trapped"}
    /\ (pc = "trace" /\ Tame) ~> pc = "idle"

(* Everything the program can get at by reading arrays is still in use.    *)
(* clear_used_bits must be followed by a marking phase, and s_set_used_bit *)
(* returns true if the node should be scanned: together they are to make a *)
(* collection mark all that is reachable.                                  *)
NoDangling ==
    pc = "idle" => \A m \in roots \cap Monos : elems[m] \subseteq InUse

=============================================================================
