----------------------------- MODULE Collector -----------------------------
(***************************************************************************)
(* The tracing collector of the jhc run time, src/rts/rts/gc_jgc.c, and    *)
(* the compiled program (the mutator) it serves.                           *)
(*                                                                         *)
(* The mutator keeps its roots in the gc stack, a C array of smart         *)
(* pointers that compiled functions extend frame by frame, in root_stack,  *)
(* where gc_add_root records the values of evaluated CAFs, and in the list *)
(* of stable pointers.  A collection clears every used bit, marks from the *)
(* three kinds of roots with an explicit grey stack, and gives every entry *)
(* whose bit stayed clear back to the allocator.  While it marks it        *)
(* removes redirections: a field that holds a lazy pointer to an evaluated *)
(* thunk is overwritten with the thunk's value, so that the thunk itself   *)
(* can be reclaimed.                                                       *)
(*                                                                         *)
(* A stable pointer is a struct from malloc, and the collector greys the   *)
(* struct as if it were an entry of the heap: what s_set_used_bit reads as *)
(* its block, its used bit and its number of pointers is whatever the C    *)
(* heap has there.  So the struct may count as marked, or wait on the grey *)
(* stack and have its words followed to more memory of that kind, or the   *)
(* division by the size of the block may trap and end the program.         *)
(*                                                                         *)
(* The allocator is seen here through its interface only: an allocation    *)
(* returns some entry that is not in use (modules Slab and EntryPool).     *)
(***************************************************************************)
EXTENDS Naturals, Sequences, FiniteSets

CONSTANTS
    Nodes,              \* the entries of the collected heap
    Cafs,               \* the static thunks, at addresses in [nh_start, nh_end]
    NoNode,             \* the pointer field of a word that points nowhere
    MaxPtrs,            \* num_ptrs of the blocks that hold pointers
    MaxStack,           \* bound: gc stack slots and stable pointers at a time
    StackGrow,          \* _JHC_JGC_STACKGROW, the slack of stack_grow
    Places,             \* C memory the collector may take for entries
    ForeignWords,       \* the num_ptrs it may find in front of a place
    SavingMallocHeap    \* _JHC_JGC_SAVING_MALLOC_HEAP: drain after each root

ASSUME NodesAssumption == NoNode \notin Nodes \cup Cafs /\ Nodes \cap Cafs = {}
ASSUME BoundsAssumption == MaxPtrs \in Nat \ {0} /\ MaxStack \in Nat /\ StackGrow \in Nat
ASSUME SavingAssumption == SavingMallocHeap \in BOOLEAN
ASSUME ForeignAssumption == IsFiniteSet(Places) /\ ForeignWords \subseteq Nat \ {0}

-----------------------------------------------------------------------------
(* Smart pointers: the two tag bits, and what the pointer part points to.  *)

Raw    == [tag |-> "value", to |-> NoNode]      \* P_VALUE: an unboxed word
Code   == [tag |-> "func",  to |-> NoNode]      \* P_FUNC: the head of a thunk
Whnf(n) == [tag |-> "whnf", to |-> n]           \* P_WHNF: a constructor node
Lazy(n) == [tag |-> "lazy", to |-> n]           \* P_LAZY: a thunk or redirection

WPtr == {Raw} \cup {Whnf(n) : n \in Nodes}      \* wptr_t
SPtr == WPtr \cup {Lazy(n) : n \in Nodes \cup Cafs}     \* sptr_t
FPtr == WPtr \cup {Code}                                \* fptr_t

Ptrs == 1 .. MaxPtrs

VARIABLES
    kind,       \* what an entry holds: free, atom (num_ptrs 0), con, thunk, ind
    head,       \* the first word of a thunk, or of a redirection ("ind")
    field,      \* the pointer words an entry was filled with
    cafHead,    \* the first word of each CAF
    gcStack,    \* gc_stack_base[0 .. gc - gc_stack_base)
    rootStack,  \* root_stack: the CAF values recorded by gc_add_root
    stable,     \* root_StablePtrs: the live structs, newest first
    pc,         \* where gc_perform_gc is: idle, roots, stables, slots, deeper
    used,       \* the used bits of the blocks, as a set of entries
    grey,       \* struct stack stack: entries marked and not yet scanned
    greyForeign, \* the places on that stack
    foreignUsed, \* the places whose bit this collection has set
    greySize,   \* stack.size, the words allocated for it
    idx,        \* the loop counter over root_stack, then over the gc stack
    cur,        \* the entry gc_mark_deeper is scanning, or NoNode
    word        \* the loop counter over e->ptrs[]

foreignVars == <<greyForeign, foreignUsed>>
mutVars == <<kind, head, field, cafHead, gcStack, rootStack, stable>>
gcVars  == <<pc, used, grey, foreignVars, greySize, idx, cur, word>>
vars    == <<mutVars, gcVars>>

NoFields == [p \in Ptrs |-> Raw]

Init ==
    /\ kind = [n \in Nodes |-> "free"]
    /\ head = [n \in Nodes |-> Raw]
    /\ field = [n \in Nodes |-> NoFields]
    /\ cafHead = [c \in Cafs |-> Code]
    /\ gcStack = << >>
    /\ rootStack = << >>
    /\ stable = << >>
    /\ pc = "idle"
    /\ used = {}
    /\ grey = << >>
    /\ greyForeign = {}
    /\ foreignUsed = {}
    /\ greySize = 0
    /\ idx = 1
    /\ cur = NoNode
    /\ word = 1

-----------------------------------------------------------------------------
(* The mutator.  It reaches the heap only through values it has pushed on  *)
(* the gc stack: a value a compiled function still needs is in its frame   *)
(* whenever it allocates, evaluates or calls a compiled function.  For     *)
(* isAllocing (Grin/Devolve.hs) a safe foreign call is none of these; what *)
(* runs below such a call, and may collect, is the matter of ForeignCalls. *)

Slots == DOMAIN gcStack

MaySpend == Len(gcStack) + Len(stable) < MaxStack

Push(v) ==
    /\ MaySpend
    /\ gcStack' = Append(gcStack, v)

Without(q, s) ==
    [t \in 1 .. Len(q) - 1 |-> IF t < s THEN q[t] ELSE q[t + 1]]

(* A function returns, or sets up its frame again with one value fewer.    *)
DropSlot(s) ==
    /\ pc = "idle"
    /\ gcStack' = Without(gcStack, s)
    /\ UNCHANGED <<kind, head, field, cafHead, rootStack, stable, gcVars>>

(* s_alloc hands out an entry whose used bit is clear; the compiled code   *)
(* fills it with values it holds before anything else is allocated.        *)
Alloc(n, k, f) ==
    /\ pc = "idle"
    /\ n \notin used
    /\ \A p \in Ptrs : f[p] = Raw \/ \E s \in Slots : f[p] = gcStack[s]
    /\ k = "atom" => f = NoFields
    /\ Push(IF k = "thunk" THEN Lazy(n) ELSE Whnf(n))
    /\ used' = used \cup {n}
    /\ kind' = [kind EXCEPT ![n] = k]
    /\ head' = [head EXCEPT ![n] = IF k = "thunk" THEN Code ELSE Raw]
    /\ field' = [field EXCEPT ![n] = f]
    /\ UNCHANGED <<cafHead, rootStack, stable, pc, grey, foreignVars, greySize,
                   idx, cur, word>>

(* A constructor is taken apart, or the code of a thunk loads the values   *)
(* the thunk closed over (the body of a function E_f).                     *)
LoadField(s, p) ==
    /\ pc = "idle"
    /\ gcStack[s].to \in Nodes
    /\ kind[gcStack[s].to] \in {"con", "thunk"}
    /\ Push(field[gcStack[s].to][p])
    /\ UNCHANGED <<kind, head, field, cafHead, rootStack, stable, gcVars>>

(* A mutable array is written, or a node overwritten in place.  Only nodes *)
(* bound by a function are: no initCafs is ever built (Grin/FromE.hs), so  *)
(* the branch of Overwrite for a node named by a global is never taken.    *)
StoreField(s, p, t) ==
    /\ pc = "idle"
    /\ gcStack[s].to \in Nodes
    /\ kind[gcStack[s].to] \in {"con", "thunk"}
    /\ field' = [field EXCEPT ![gcStack[s].to][p] = gcStack[t]]
    /\ UNCHANGED <<kind, head, cafHead, gcStack, rootStack, stable, gcVars>>

(* The head of the block of memory a lazy pointer points to.               *)
HeadOf(v) == IF v.to \in Cafs THEN cafHead[v.to] ELSE head[v.to]

(* eval of a lazy pointer whose head is already a redirection.             *)
Follow(s) ==
    /\ pc = "idle"
    /\ gcStack[s].tag = "lazy"
    /\ HeadOf(gcStack[s]) # Code
    /\ Push(HeadOf(gcStack[s]))
    /\ UNCHANGED <<kind, head, field, cafHead, rootStack, stable, gcVars>>

(* The evaluation of a thunk ends: update() writes its value over its head.*)
(* The other words keep what they held.                                    *)
Update(s, t) ==
    /\ pc = "idle"
    /\ gcStack[s].tag = "lazy"
    /\ gcStack[s].to \in Nodes
    /\ kind[gcStack[s].to] = "thunk"
    /\ gcStack[t] \in WPtr
    /\ kind' = [kind EXCEPT ![gcStack[s].to] = "ind"]
    /\ head' = [head EXCEPT ![gcStack[s].to] = gcStack[t]]
    /\ UNCHANGED <<field, cafHead, gcStack, rootStack, stable, gcVars>>

(* Compiled code names a CAF by its static address.                        *)
LoadCaf(c) ==
    /\ pc = "idle"
    /\ Push(Lazy(c))
    /\ UNCHANGED <<kind, head, field, cafHead, rootStack, stable, gcVars>>

(* A faulty variant: the value of an evaluated CAF is not made a root.     *)
AddRootForgotten(v) == rootStack' = rootStack

(* gc_add_root: only a pointer into the collected heap is recorded.        *)
AddRoot(v) ==
    rootStack' = IF v.to \in Nodes THEN Append(rootStack, v.to) ELSE rootStack

(* The evaluation of a CAF ends: update(), then gc_add_root().             *)
UpdateCaf(c, t) ==
    /\ pc = "idle"
    /\ cafHead[c] = Code
    /\ gcStack[t] \in WPtr
    /\ cafHead' = [cafHead EXCEPT ![c] = gcStack[t]]
    /\ AddRoot(gcStack[t])
    /\ UNCHANGED <<kind, head, field, gcStack, stable, gcVars>>

(* c_newStablePtr: the struct that malloc returns heads the list.  What it *)
(* is made for is a value with no node in the heap, such as a constructor  *)
(* without arguments: no used bit is set on behalf of the contents of a    *)
(* stable pointer, so that nothing is promised of a node.                  *)
NewStable(p) ==
    /\ pc = "idle"
    /\ MaySpend
    /\ \A i \in DOMAIN stable : stable[i] # p
    /\ stable' = <<p>> \o stable
    /\ UNCHANGED <<kind, head, field, cafHead, gcStack, rootStack, gcVars>>

(* c_freeStablePtr.                                                        *)
FreeStable(i) ==
    /\ pc = "idle"
    /\ stable' = Without(stable, i)
    /\ UNCHANGED <<kind, head, field, cafHead, gcStack, rootStack, gcVars>>

(* c_derefStablePtr.                                                       *)
DerefStable ==
    /\ pc = "idle"
    /\ stable # << >>
    /\ Push(Raw)
    /\ UNCHANGED <<kind, head, field, cafHead, rootStack, stable, gcVars>>

Mutator ==
    \/ \E s \in Slots : DropSlot(s)
    \/ \E n \in Nodes, k \in {"atom", "con", "thunk"},
          f \in [Ptrs -> {Raw} \cup {gcStack[s] : s \in Slots}] : Alloc(n, k, f)
    \/ \E s \in Slots, p \in Ptrs : LoadField(s, p)
    \/ \E s, t \in Slots, p \in Ptrs : StoreField(s, p, t)
    \/ \E s \in Slots : Follow(s)
    \/ \E s, t \in Slots : Update(s, t)
    \/ \E c \in Cafs : LoadCaf(c)
    \/ \E c \in Cafs, t \in Slots : UpdateCaf(c, t)
    \/ \E p \in Places : NewStable(p)
    \/ \E i \in DOMAIN stable : FreeStable(i)
    \/ DerefStable

-----------------------------------------------------------------------------
(* The collector.                                                          *)

(* s_set_used_bit(n): does the entry have to be scanned?                   *)
MustScan(n) == n \notin used /\ kind[n] # "atom"

(* A faulty variant: the entries already on the stack are not counted.     *)
CheckedFromEmpty(len, n) ==
    IF greySize < n THEN greySize + n + StackGrow ELSE greySize

(* stack_check(&stack, n) when the stack holds len entries.  The unsigned  *)
(* difference takes a stack that ran over for one with plenty of room.     *)
Checked(len, n) ==
    IF len <= greySize /\ greySize - len < n
    THEN greySize + n + StackGrow ELSE greySize

GreyLen == Len(grey) + Cardinality(greyForeign)       \* stack.ptr
NoGrey  == grey = << >> /\ greyForeign = {}

(* A faulty variant: redirections are traced like any other entry.         *)
ShortCircuitNever(v) == v

(* What is left of a lazy pointer when redirections are short-circuited.   *)
ShortCircuit(v) ==
    IF v.tag = "lazy" /\ HeadOf(v) # Code THEN HeadOf(v) ELSE v

(* gc_perform_gc is called by s_alloc when too many blocks are in use, or  *)
(* by the program (hs_perform_gc): clear_used_bits, stack_check.           *)
StartGC ==
    /\ pc = "idle"
    /\ pc' = "roots"
    /\ used' = {}
    /\ greySize' = IF 0 < Len(rootStack) THEN Len(rootStack) + StackGrow ELSE 0
    /\ idx' = 1
    /\ UNCHANGED <<mutVars, grey, foreignVars, cur, word>>

(* A faulty variant: a redirected slot's own entry is not kept.            *)
KeptNever(v) == {}

(* A redirection a slot of the gc stack points to: the slot is not         *)
(* rewritten, so s_set_used_bit keeps the redirection.                     *)
Kept(v) == IF ShortCircuit(v) # v /\ v.to \in Nodes THEN {v.to} ELSE {}

(* gc_check_heap, for the pointer part of a word.                          *)
InHeap(n) == n \in Nodes

(* gc_add_grey: an entry marked for the first time waits to be scanned.    *)
AddGrey(n, marked) ==
    IF InHeap(n)
    THEN /\ used' = marked \cup {n}
         /\ grey' = IF MustScan(n) THEN Append(grey, n) ELSE grey
    ELSE used' = marked /\ grey' = grey

(* With SavingMallocHeap each root is traced before the next is looked at. *)
ReadyForRoot == SavingMallocHeap => NoGrey /\ cur = NoNode

MarkRoot ==
    /\ pc = "roots"
    /\ ReadyForRoot
    /\ idx <= Len(rootStack)
    /\ AddGrey(rootStack[idx], used)
    /\ idx' = idx + 1
    /\ UNCHANGED <<mutVars, pc, foreignVars, greySize, cur, word>>

RootsDone ==
    /\ pc = "roots"
    /\ ReadyForRoot
    /\ idx > Len(rootStack)
    /\ pc' = "stables"
    /\ idx' = 1
    /\ UNCHANGED <<mutVars, used, grey, foreignVars, greySize, cur, word>>

(* The struct of a stable pointer is greyed, with no stack_check for it.   *)
MarkStable ==
    /\ pc = "stables"
    /\ ReadyForRoot
    /\ idx <= Len(stable)
    /\ \/ UNCHANGED foreignVars
       \/ /\ stable[idx] \notin foreignUsed
          /\ foreignUsed' = foreignUsed \cup {stable[idx]}
          /\ greyForeign' = greyForeign \cup {stable[idx]}
    /\ idx' = idx + 1
    /\ UNCHANGED <<mutVars, pc, used, grey, greySize, cur, word>>

StablesDone ==
    /\ pc = "stables"
    /\ ReadyForRoot
    /\ idx > Len(stable)
    /\ pc' = "slots"
    /\ idx' = 1
    /\ greySize' = Checked(GreyLen, IF SavingMallocHeap THEN 1 ELSE Len(gcStack))
    /\ UNCHANGED <<mutVars, used, grey, foreignVars, cur, word>>

(* One slot of the gc stack: only the value of a redirection is traced.    *)
MarkSlot ==
    /\ pc = "slots"
    /\ ReadyForRoot
    /\ idx <= Len(gcStack)
    /\ AddGrey(ShortCircuit(gcStack[idx]).to, used \cup Kept(gcStack[idx]))
    /\ idx' = idx + 1
    /\ UNCHANGED <<mutVars, pc, foreignVars, greySize, cur, word>>

SlotsDone ==
    /\ pc = "slots"
    /\ ReadyForRoot
    /\ idx > Len(gcStack)
    /\ pc' = "deeper"
    /\ UNCHANGED <<mutVars, used, grey, foreignVars, greySize, idx, cur, word>>

(* Where gc_mark_deeper runs: at the end, or after each root as well.      *)
Draining == pc = "deeper" \/ (SavingMallocHeap /\ pc \in {"roots", "stables", "slots"})

(* A faulty variant: the entry is not taken off the stack.                 *)
PopGreyKept ==
    /\ Draining
    /\ cur = NoNode
    /\ grey # << >>
    /\ cur' = grey[Len(grey)]
    /\ greySize' = Checked(GreyLen, MaxPtrs)
    /\ word' = 1
    /\ UNCHANGED <<mutVars, pc, used, grey, foreignVars, idx>>

(* gc_mark_deeper takes an entry off the grey stack.                       *)
PopGrey ==
    /\ Draining
    /\ cur = NoNode
    /\ grey # << >>
    /\ cur' = grey[Len(grey)]
    /\ grey' = SubSeq(grey, 1, Len(grey) - 1)
    /\ greySize' = Checked(GreyLen - 1, MaxPtrs)
    /\ word' = 1
    /\ UNCHANGED <<mutVars, pc, used, foreignVars, idx>>

(* A faulty variant: the loop over e->ptrs[] runs one word too far.        *)
MoreWordsTooMany(w) == w <= MaxPtrs

(* The loop condition of gc_mark_deeper, once i has been incremented.      *)
MoreWords(w) == w < MaxPtrs

(* One word of the entry: drop a redirection, then grey what is left.      *)
ScanWord ==
    /\ cur # NoNode
    /\ field' = [field EXCEPT ![cur][word] = ShortCircuit(@)]
    /\ AddGrey(ShortCircuit(field[cur][word]).to, used)
    /\ word' = IF MoreWords(word) THEN word + 1 ELSE 1
    /\ cur' = IF MoreWords(word) THEN cur ELSE NoNode
    /\ UNCHANGED <<kind, head, cafHead, gcStack, rootStack, stable, pc,
                   foreignVars, greySize, idx>>

(* gc_mark_deeper takes a place off the grey stack and follows its words,  *)
(* which lead to other places or to what has been marked.                  *)
ScanForeign ==
    /\ Draining
    /\ cur = NoNode
    /\ \E p \in greyForeign, n \in ForeignWords, found \in SUBSET (Places \ foreignUsed) :
          /\ Cardinality(found) <= n
          /\ greyForeign' = (greyForeign \ {p}) \cup found
          /\ foreignUsed' = foreignUsed \cup found
          /\ greySize' = Checked(GreyLen - 1, n)
    /\ UNCHANGED <<mutVars, pc, used, grey, idx, cur, word>>

(* The collector treats foreign memory as a block, or has pushed beyond    *)
(* the end of the grey stack: the program may end here.                    *)
Trap ==
    /\ \/ pc = "stables" /\ ReadyForRoot /\ idx <= Len(stable)
       \/ Draining /\ cur = NoNode /\ greyForeign # {}
       \/ GreyLen > greySize
    /\ pc' = "trapped"
    /\ used' = {}
    /\ grey' = << >>
    /\ greyForeign' = {}
    /\ foreignUsed' = {}
    /\ greySize' = 0
    /\ idx' = 1
    /\ cur' = NoNode
    /\ word' = 1
    /\ UNCHANGED mutVars

(* s_cleanup_blocks: an entry whose bit is clear is free again.            *)
Sweep ==
    /\ pc = "deeper"
    /\ cur = NoNode
    /\ NoGrey
    /\ pc' = "idle"
    /\ kind' = [n \in Nodes |-> IF n \in used THEN kind[n] ELSE "free"]
    /\ head' = [n \in Nodes |-> IF n \in used THEN head[n] ELSE Raw]
    /\ field' = [n \in Nodes |-> IF n \in used THEN field[n] ELSE NoFields]
    /\ foreignUsed' = {}
    /\ greySize' = 0
    /\ idx' = 1
    /\ UNCHANGED <<cafHead, gcStack, rootStack, stable, used, grey, greyForeign,
                   cur, word>>

Collect ==
    \/ MarkRoot \/ RootsDone \/ MarkStable \/ StablesDone \/ MarkSlot \/ SlotsDone
    \/ PopGrey \/ ScanWord \/ ScanForeign \/ Sweep \/ Trap

Next == Mutator \/ StartGC \/ Collect

(* A collection runs to its end before the program goes on.                *)
Spec == Init /\ [][Next]_vars /\ WF_vars(Collect)

-----------------------------------------------------------------------------
(* Properties.                                                             *)

TypeOK ==
    /\ kind \in [Nodes -> {"free", "atom", "con", "thunk", "ind"}]
    /\ head \in [Nodes -> FPtr]
    /\ field \in [Nodes -> [Ptrs -> SPtr]]
    /\ cafHead \in [Cafs -> FPtr]
    /\ gcStack \in Seq(SPtr)
    /\ rootStack \in Seq(Nodes)
    /\ stable \in Seq(Places)
    /\ pc \in {"idle", "roots", "stables", "slots", "deeper", "trapped"}
    /\ used \in SUBSET Nodes
    /\ grey \in Seq(Nodes)
    /\ greyForeign \in SUBSET Places
    /\ foreignUsed \in SUBSET Places
    /\ greySize \in Nat
    /\ idx \in Nat \ {0}
    /\ cur \in Nodes \cup {NoNode}
    /\ word \in Ptrs

(* A word a pointer test may follow: what it points to is allocated, and   *)
(* is of the kind its tag promises.                                        *)
Sound(v) ==
    /\ v.tag = "whnf" => kind[v.to] \in {"con", "atom"}
    /\ v.tag = "lazy" /\ v.to \in Nodes => kind[v.to] \in {"thunk", "ind"}

SlotsSound  == \A s \in Slots : Sound(gcStack[s])
RootsSound  == \A r \in DOMAIN rootStack : kind[rootStack[r]] \in {"con", "atom"}
CafsSound   == \A c \in Cafs :
                  /\ Sound(cafHead[c])
                  /\ cafHead[c].to \in Nodes =>
                        \E r \in DOMAIN rootStack : rootStack[r] = cafHead[c].to
FieldsSound == \A n \in Nodes : kind[n] \in {"con", "thunk"} =>
                  \A p \in Ptrs : Sound(field[n][p])
HeadsSound  == \A n \in Nodes :
                  /\ kind[n] = "ind" => head[n] # Code /\ Sound(head[n])
                  /\ kind[n] = "thunk" => head[n] = Code

(* No collection reclaims, and no allocation hands out again, an entry the *)
(* program can still get at: every word the mutator or the collector may   *)
(* follow leads to an allocated entry of the kind its tag says.  The stale *)
(* words behind the head of an evaluated thunk are the exception.          *)
NoDangling == SlotsSound /\ RootsSound /\ CafsSound /\ FieldsSound /\ HeadsSound

(* gc_mark_deeper never scans an evaluated thunk, whose words after the    *)
(* head are stale: they may point to entries reclaimed, or handed out as   *)
(* something else, since the thunk was updated.                            *)
NeverScansStale ==
    /\ \A g \in DOMAIN grey : kind[grey[g]] \in {"con", "thunk"}
    /\ cur # NoNode => kind[cur] \in {"con", "thunk"}

(* The first stack_check is for root_stack alone, so the structs of stable *)
(* pointers have to do with the slack that call left behind: none when no  *)
(* CAF has been evaluated, STACKGROW words otherwise, of which only one is *)
(* in use at a time where the stack is drained after each root.            *)
StablesFit ==
    \/ stable = << >>
    \/ rootStack # << >> /\ (SavingMallocHeap \/ Len(stable) <= StackGrow)

(* gc_add_grey stores at stack->stack[stack->ptr++] without a check: the   *)
(* stack_check calls made earlier must have left room for every push.  They*)
(* have as long as the stable pointers fit in the slack.                   *)
GreyFits == StablesFit => GreyLen <= greySize

(* What the program can get at, redirections taken as the values they are. *)
Edges(n) ==
    IF kind[n] = "ind" THEN {head[n].to}
    ELSE {ShortCircuit(field[n][p]).to : p \in Ptrs}
RootSet ==
    {rootStack[r] : r \in DOMAIN rootStack}
    \cup {gcStack[s].to : s \in Slots}
    \cup {ShortCircuit(gcStack[s]).to : s \in Slots}
Closed(S) == /\ RootSet \cap Nodes \subseteq S
             /\ \A n \in S : Edges(n) \cap Nodes \subseteq S
Reachable == {n \in Nodes : \A S \in SUBSET Nodes : Closed(S) => n \in S}

(* When marking ends the used bits are exactly the entries the program can *)
(* get at: nothing it needs is reclaimed and no garbage is kept.  In       *)
(* particular an evaluated thunk outlives a collection only if a slot of   *)
(* the gc stack itself points to it.                                       *)
MarksExactly ==
    pc = "deeper" /\ cur = NoNode /\ NoGrey => used = Reachable

(* A collection, once begun, ends, or the program does.                    *)
CollectionEnds == pc # "idle" ~> pc \in {"idle", "trapped"}

-----------------------------------------------------------------------------
(* The heap the program sees: redirections read as the values they are,    *)
(* and evaluated thunks gone.  A collection then changes nothing until its *)
(* last step reclaims what cannot be reached.                              *)
Holds(n) == kind[n] \in {"atom", "con", "thunk"}

Heap == INSTANCE LazyHeap WITH
    obj   <- [n \in Nodes |-> IF Holds(n) THEN kind[n] ELSE "free"],
    field <- [n \in Nodes |-> IF Holds(n)
                              THEN [p \in Ptrs |-> ShortCircuit(field[n][p])]
                              ELSE NoFields],
    caf   <- cafHead,
    stack <- [s \in Slots |-> ShortCircuit(gcStack[s])]

(* The collector implements the heap of a lazy language: no program can    *)
(* tell that redirections are removed or entries reclaimed.                *)
ImplementsLazyHeap == Heap!Spec

=============================================================================
