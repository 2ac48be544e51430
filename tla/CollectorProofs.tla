-------------------------- MODULE CollectorProofs --------------------------
(***************************************************************************)
(* For every heap, every set of CAFs and every bound: the collector only   *)
(* follows pointers to allocated entries, never scans the stale words of   *)
(* an evaluated thunk, never reclaims what the program can reach, and      *)
(* never pushes beyond the end of its grey stack as long as the stable     *)
(* pointers fit in the slack behind root_stack.                            *)
(***************************************************************************)
EXTENDS Collector, SequenceTheorems, FiniteSetTheorems, TLAPS

InGrey(n) == \E g \in DOMAIN grey : grey[g] = n

(* Nothing is left to do for this word: it is no redirection, and what it  *)
(* points to has its used bit set.                                         *)
Traced(v) ==
    /\ ShortCircuit(v) = v
    /\ v.to \in Nodes => v.to \in used

(* The invariant of the marking loops.  An entry is white (used bit        *)
(* clear), grey (on the stack), being scanned (cur), or black: and a black *)
(* entry points to no white one.                                           *)
GreyUsed ==
    /\ \A g \in DOMAIN grey : grey[g] \in used
    /\ cur # NoNode => cur \in used

BlackTraced ==
    \A n \in used : kind[n] \in {"con", "thunk"} /\ n # cur /\ ~InGrey(n) =>
        \A p \in Ptrs : Traced(field[n][p])

CurTraced == cur # NoNode => \A p \in Ptrs : p < word => Traced(field[cur][p])

RootsMarked ==
    \A r \in DOMAIN rootStack :
        \/ pc = "roots" /\ r >= idx
        \/ rootStack[r] \in used

SlotsMarked ==
    \A s \in Slots :
        \/ pc \in {"roots", "stables"}
        \/ pc = "slots" /\ s >= idx
        \/ /\ gcStack[s].to \in Nodes => gcStack[s].to \in used
           /\ ShortCircuit(gcStack[s]).to \in Nodes =>
                 ShortCircuit(gcStack[s]).to \in used

(* A redirection keeps its used bit only together with its value.          *)
IndMarked ==
    \A n \in used : kind[n] = "ind" /\ head[n].to \in Nodes => head[n].to \in used

Marking == /\ GreyUsed
           /\ BlackTraced
           /\ CurTraced
           /\ RootsMarked
           /\ SlotsMarked
           /\ IndMarked

(* gc_perform_gc is under way.                                             *)
Tracing == pc \in {"roots", "stables", "slots", "deeper"}

(* Between collections the used bits say what is allocated.                *)
Idle == /\ NoGrey
        /\ cur = NoNode
        /\ \A n \in Nodes : kind[n] # "free" => n \in used

(* Room for every push that may come before the next stack_check, if the   *)
(* stable pointers fit.  A drained stack has to hold one root at a time.   *)
RoomForRoots ==
    IF SavingMallocHeap
    THEN /\ pc \in {"roots", "stables"} /\ rootStack # << >> => 1 <= greySize
         /\ pc = "slots" => 1 <= greySize
    ELSE /\ pc = "roots" =>
               /\ idx <= Len(rootStack) + 1
               /\ GreyLen + (Len(rootStack) + 1 - idx) + Len(stable) <= greySize
         /\ pc = "stables" => GreyLen + (Len(stable) + 1 - idx) <= greySize
         /\ pc = "slots" => GreyLen + (Len(gcStack) + 1 - idx) <= greySize

RoomForWords == cur # NoNode => GreyLen + (MaxPtrs - word) + 1 <= greySize

Room ==
    /\ ~SavingMallocHeap /\ pc \in {"roots", "stables", "slots"} => cur = NoNode
    /\ StablesFit => GreyLen <= greySize /\ RoomForRoots /\ RoomForWords

IInv == /\ TypeOK
        /\ NoDangling
        /\ NeverScansStale
        /\ pc = "idle" => Idle
        /\ pc = "trapped" => cur = NoNode
        /\ Tracing => Marking
        /\ Room

-----------------------------------------------------------------------------
(* Facts about smart pointers and about sequences of them.                 *)

(* What can be evaluated further is no value: eval and the collector only  *)
(* ever take a value out of a redirection.                                 *)
LEMMA HeadTyping ==
    ASSUME TypeOK, NEW v \in SPtr, v.tag = "lazy"
    PROVE  HeadOf(v) \in FPtr
  BY NodesAssumption DEF TypeOK, HeadOf, SPtr, WPtr, FPtr, Raw, Whnf, Lazy, Code

(* Short-circuiting a smart pointer gives a smart pointer.                 *)
LEMMA ShortCircuitTyping ==
    ASSUME TypeOK, NEW v \in SPtr
    PROVE  ShortCircuit(v) \in SPtr
  BY HeadTyping DEF ShortCircuit, SPtr, FPtr

(* What gc_add_grey does to the used bits and to the grey stack.           *)
LEMMA AddGreyEffect ==
    ASSUME TypeOK, NEW n, NEW marked \in SUBSET Nodes, AddGrey(n, marked)
    PROVE  /\ used' \in SUBSET Nodes
           /\ grey' \in Seq(Nodes)
           /\ used' = IF n \in Nodes THEN marked \cup {n} ELSE marked
           /\ grey' = IF n \in Nodes /\ n \notin used /\ kind[n] # "atom"
                      THEN Append(grey, n) ELSE grey
  <1>1. CASE n \in Nodes
    <2>1. used' = marked \cup {n} /\ grey' = IF MustScan(n) THEN Append(grey, n) ELSE grey
      BY <1>1 DEF AddGrey, InHeap
    <2>2. CASE MustScan(n)
      BY <1>1, <2>1, <2>2 DEF MustScan, TypeOK
    <2>3. CASE ~MustScan(n)
      BY <1>1, <2>1, <2>3 DEF MustScan, TypeOK
    <2> QED
      BY <2>2, <2>3
  <1>2. CASE n \notin Nodes
    BY <1>2 DEF AddGrey, InHeap, TypeOK
  <1> QED
    BY <1>1, <1>2

(* The sequence that is left when an element is dropped.                   *)
LEMMA DroppedTyping ==
    ASSUME NEW S, NEW q \in Seq(S), NEW s \in DOMAIN q
    PROVE  Without(q, s) \in Seq(S)
  <1> DEFINE r == [t \in 1 .. Len(q) - 1 |-> IF t < s THEN q[t] ELSE q[t + 1]]
  <1>1. Len(q) \in Nat /\ DOMAIN q = 1 .. Len(q) /\ \A t \in 1 .. Len(q) : q[t] \in S
    OBVIOUS
  <1>2. Len(q) - 1 \in Nat
    BY <1>1
  <1>3. \A t \in 1 .. Len(q) - 1 : r[t] \in S
    BY <1>1
  <1>4. r \in [1 .. Len(q) - 1 -> S]
    BY <1>3
  <1> QED
    BY <1>2, <1>4, IsASeq DEF Without

(* stack_check never makes the grey stack anything but an array.           *)
LEMMA CheckedTyping ==
    ASSUME TypeOK, NEW len, NEW n \in Nat
    PROVE  Checked(len, n) \in Nat
  BY BoundsAssumption DEF TypeOK, Checked

-----------------------------------------------------------------------------
(* Types.                                                                  *)

(* Every step of the program or the collector keeps every variable in its  *)
(* type.                                                                   *)
LEMMA TypeStep ==
    ASSUME TypeOK, [Next]_vars
    PROVE  TypeOK'
  <1> USE NodesAssumption, BoundsAssumption
  <1>1. ASSUME NEW s \in Slots, DropSlot(s) PROVE TypeOK'
    BY <1>1, DroppedTyping DEF TypeOK, DropSlot, gcVars, foreignVars, Slots
  <1>2. ASSUME NEW n \in Nodes, NEW k \in {"atom", "con", "thunk"},
               NEW f \in [Ptrs -> {Raw} \cup {gcStack[s] : s \in Slots}],
               Alloc(n, k, f)
        PROVE  TypeOK'
    <2>1. f \in [Ptrs -> SPtr]
      <3>1. Raw \in SPtr
        BY DEF SPtr, WPtr
      <3>2. \A s \in Slots : gcStack[s] \in SPtr
        BY DEF TypeOK, Slots
      <3> QED
        BY <3>1, <3>2
    <2>2. gcStack' \in Seq(SPtr)
      BY <1>2 DEF TypeOK, Alloc, Push, SPtr, WPtr
    <2>3. head' \in [Nodes -> FPtr]
      BY <1>2 DEF TypeOK, Alloc, WPtr, FPtr
    <2>4. kind' \in [Nodes -> {"free", "atom", "con", "thunk", "ind"}]
      BY <1>2 DEF TypeOK, Alloc
    <2> QED
      BY <1>2, <2>1, <2>2, <2>3, <2>4 DEF TypeOK, Alloc, foreignVars
  <1>3. ASSUME NEW s \in Slots, NEW p \in Ptrs, LoadField(s, p) PROVE TypeOK'
    BY <1>3 DEF TypeOK, LoadField, Push, gcVars, foreignVars, Slots
  <1>4. ASSUME NEW s \in Slots, NEW t \in Slots, NEW p \in Ptrs, StoreField(s, p, t)
        PROVE  TypeOK'
    BY <1>4 DEF TypeOK, StoreField, gcVars, foreignVars, Slots
  <1>5. ASSUME NEW s \in Slots, Follow(s) PROVE TypeOK'
    BY <1>5, HeadTyping DEF TypeOK, Follow, Push, gcVars, foreignVars, Slots, SPtr, FPtr
  <1>6. ASSUME NEW s \in Slots, NEW t \in Slots, Update(s, t) PROVE TypeOK'
    BY <1>6 DEF TypeOK, Update, gcVars, foreignVars, Slots, FPtr
  <1>7. ASSUME NEW c \in Cafs, LoadCaf(c) PROVE TypeOK'
    BY <1>7 DEF TypeOK, LoadCaf, Push, gcVars, foreignVars, SPtr
  <1>8. ASSUME NEW c \in Cafs, NEW t \in Slots, UpdateCaf(c, t) PROVE TypeOK'
    BY <1>8 DEF TypeOK, UpdateCaf, AddRoot, gcVars, foreignVars, Slots, FPtr
  <1>9. ASSUME StartGC PROVE TypeOK'
    BY <1>9 DEF TypeOK, StartGC, mutVars, foreignVars
  <1>10. ASSUME MarkRoot PROVE TypeOK'
    <2>2. used' \in SUBSET Nodes /\ grey' \in Seq(Nodes)
      BY <1>10, AddGreyEffect DEF TypeOK, MarkRoot
    <2> QED
      BY <1>10, <2>2 DEF TypeOK, MarkRoot, mutVars, foreignVars
  <1>11. ASSUME RootsDone PROVE TypeOK'
    BY <1>11 DEF TypeOK, RootsDone, mutVars, foreignVars
  <1>12. ASSUME MarkSlot PROVE TypeOK'
    <2>1. Kept(gcStack[idx]) \in SUBSET Nodes
      BY DEF Kept
    <2>2. used' \in SUBSET Nodes /\ grey' \in Seq(Nodes)
      BY <1>12, <2>1, AddGreyEffect DEF TypeOK, MarkSlot
    <2> QED
      BY <1>12, <2>2 DEF TypeOK, MarkSlot, mutVars, foreignVars
  <1>13. ASSUME SlotsDone PROVE TypeOK'
    BY <1>13 DEF TypeOK, SlotsDone, mutVars, foreignVars
  <1>14. ASSUME PopGrey PROVE TypeOK'
    <2>1. greySize' \in Nat
      BY <1>14, CheckedTyping DEF PopGrey
    <2> QED
      BY <1>14, <2>1 DEF TypeOK, PopGrey, mutVars, foreignVars, Ptrs
  <1>15. ASSUME ScanWord PROVE TypeOK'
    <2>1. field[cur][word] \in SPtr
      BY <1>15 DEF TypeOK, ScanWord
    <2>2. field' \in [Nodes -> [Ptrs -> SPtr]]
      BY <1>15, <2>1, ShortCircuitTyping DEF TypeOK, ScanWord
    <2>3. used' \in SUBSET Nodes /\ grey' \in Seq(Nodes)
      BY <1>15, AddGreyEffect DEF TypeOK, ScanWord
    <2>4. word' \in Ptrs
      BY <1>15 DEF TypeOK, ScanWord, MoreWords, Ptrs
    <2> QED
      BY <1>15, <2>2, <2>3, <2>4 DEF TypeOK, ScanWord, foreignVars
  <1>16. ASSUME Sweep PROVE TypeOK'
    <2>1. kind' \in [Nodes -> {"free", "atom", "con", "thunk", "ind"}]
      BY <1>16 DEF TypeOK, Sweep
    <2>2. head' \in [Nodes -> FPtr]
      BY <1>16 DEF TypeOK, Sweep, WPtr, FPtr
    <2>3. field' \in [Nodes -> [Ptrs -> SPtr]]
      BY <1>16 DEF TypeOK, Sweep, NoFields, SPtr, WPtr
    <2> QED
      BY <1>16, <2>1, <2>2, <2>3 DEF TypeOK, Sweep
  <1>17. CASE UNCHANGED vars
    BY <1>17 DEF TypeOK, vars, mutVars, gcVars, foreignVars
  <1>18. ASSUME NEW p \in Places, NewStable(p) PROVE TypeOK'
    <2>1. stable' \in Seq(Places)
      BY <1>18 DEF TypeOK, NewStable
    <2> QED
      BY <1>18, <2>1 DEF TypeOK, NewStable, gcVars, foreignVars
  <1>19. ASSUME NEW i \in DOMAIN stable, FreeStable(i) PROVE TypeOK'
    BY <1>19, DroppedTyping DEF TypeOK, FreeStable, gcVars, foreignVars
  <1>20. ASSUME DerefStable PROVE TypeOK'
    <2>1. Raw \in SPtr
      BY DEF SPtr, WPtr
    <2>2. gcStack' \in Seq(SPtr)
      BY <1>20, <2>1 DEF TypeOK, DerefStable, Push
    <2> QED
      BY <1>20, <2>2 DEF TypeOK, DerefStable, gcVars, foreignVars
  <1>21. ASSUME MarkStable PROVE TypeOK'
    <2>1. stable[idx] \in Places
      BY <1>21 DEF TypeOK, MarkStable
    <2> QED
      BY <1>21, <2>1 DEF TypeOK, MarkStable, mutVars, foreignVars
  <1>22. ASSUME StablesDone PROVE TypeOK'
    <2>1. greySize' \in Nat
      BY <1>22, CheckedTyping DEF StablesDone, TypeOK
    <2> QED
      BY <1>22, <2>1 DEF TypeOK, StablesDone, mutVars, foreignVars
  <1>23. ASSUME ScanForeign PROVE TypeOK'
    <2>1. greySize' \in Nat
      BY <1>23, CheckedTyping, ForeignAssumption DEF ScanForeign
    <2> QED
      BY <1>23, <2>1 DEF TypeOK, ScanForeign, mutVars
  <1>24. ASSUME Trap PROVE TypeOK'
    BY <1>24 DEF TypeOK, Trap, mutVars, Ptrs
  <1>25. CASE Mutator
    BY <1>1, <1>2, <1>3, <1>4, <1>5, <1>6, <1>7, <1>8, <1>18, <1>19, <1>20, <1>25
       DEF Mutator
  <1>26. CASE Collect
    BY <1>10, <1>11, <1>12, <1>13, <1>14, <1>15, <1>16, <1>21, <1>22, <1>23, <1>24,
       <1>26 DEF Collect
  <1> QED
    BY <1>9, <1>17, <1>25, <1>26 DEF Next

-----------------------------------------------------------------------------
(* Pointers stay sound.                                                    *)

(* A value needs no short-circuiting, and a sound one leads to a node that *)
(* is not lazy.                                                            *)
LEMMA ValueFacts ==
    ASSUME NEW w \in WPtr, Sound(w)
    PROVE  /\ w.tag # "lazy"
           /\ ShortCircuit(w) = w
           /\ w.to \in Nodes => kind[w.to] \in {"con", "atom"}
  BY NodesAssumption DEF WPtr, Raw, Whnf, Sound, ShortCircuit

(* In a sound heap a short-circuited pointer is sound, needs no further    *)
(* short-circuiting, and never leads to an evaluated thunk.                *)
LEMMA ShortCircuitSound ==
    ASSUME TypeOK, NoDangling, NEW v \in SPtr, Sound(v)
    PROVE  /\ Sound(ShortCircuit(v))
           /\ ShortCircuit(ShortCircuit(v)) = ShortCircuit(v)
           /\ ShortCircuit(v).to \in Nodes =>
                 kind[ShortCircuit(v).to] \in {"con", "atom", "thunk"}
           /\ ShortCircuit(v) # v /\ v.to \in Nodes =>
                 kind[v.to] = "ind" /\ ShortCircuit(v) = head[v.to]
  <1> USE NodesAssumption
  <1>1. CASE v.tag = "lazy" /\ v.to \in Cafs
    <2>1. HeadOf(v) = cafHead[v.to] /\ cafHead[v.to] \in FPtr /\ Sound(cafHead[v.to])
      BY <1>1 DEF HeadOf, NoDangling, CafsSound, TypeOK
    <2>2. CASE HeadOf(v) = Code
      BY <1>1, <2>1, <2>2 DEF ShortCircuit
    <2>3. CASE HeadOf(v) # Code
      <3>1. ShortCircuit(v) = cafHead[v.to] /\ cafHead[v.to] \in WPtr
        BY <1>1, <2>1, <2>3 DEF ShortCircuit, FPtr
      <3> QED
        BY <1>1, <2>1, <3>1, ValueFacts
    <2> QED
      BY <2>2, <2>3
  <1>2. CASE v.tag = "lazy" /\ v.to \notin Cafs
    <2>1. v.to \in Nodes /\ kind[v.to] \in {"thunk", "ind"}
      BY <1>2 DEF Sound, SPtr, WPtr, Raw, Whnf, Lazy
    <2>2. HeadOf(v) = head[v.to] /\ head[v.to] \in FPtr
      BY <1>2, <2>1 DEF HeadOf, TypeOK
    <2>3. CASE kind[v.to] = "thunk"
      BY <1>2, <2>1, <2>2, <2>3 DEF ShortCircuit, NoDangling, HeadsSound
    <2>4. CASE kind[v.to] = "ind"
      <3>1. head[v.to] # Code /\ Sound(head[v.to])
        BY <2>1, <2>4 DEF NoDangling, HeadsSound
      <3>2. ShortCircuit(v) = head[v.to]
        BY <1>2, <2>2, <3>1 DEF ShortCircuit
      <3>3. head[v.to] \in WPtr
        BY <2>2, <3>1 DEF FPtr
      <3> QED
        BY <2>4, <3>1, <3>2, <3>3, ValueFacts
    <2> QED
      BY <2>1, <2>3, <2>4
  <1>3. CASE v.tag # "lazy"
    BY <1>3 DEF ShortCircuit, Sound, SPtr, WPtr, Raw, Whnf, Lazy
  <1> QED
    BY <1>1, <1>2, <1>3

(* An entry that comes into use disturbs no sound pointer: none leads to a *)
(* free entry.                                                             *)
LEMMA SoundKept ==
    ASSUME TypeOK, NEW n \in Nodes, kind[n] = "free", NEW k,
           kind' = [kind EXCEPT ![n] = k], NEW v \in SPtr \cup FPtr, Sound(v)
    PROVE  Sound(v)'
  BY NodesAssumption DEF TypeOK, Sound, SPtr, FPtr, WPtr, Raw, Code, Whnf, Lazy

(* An evaluated thunk is still what a lazy pointer may lead to.            *)
LEMMA SoundUpdated ==
    ASSUME TypeOK, NEW n \in Nodes, kind[n] = "thunk",
           kind' = [kind EXCEPT ![n] = "ind"], NEW v \in SPtr \cup FPtr, Sound(v)
    PROVE  Sound(v)'
  BY NodesAssumption DEF TypeOK, Sound, SPtr, FPtr, WPtr, Raw, Code, Whnf, Lazy

(* No action of the program makes a pointer unsound.                       *)
LEMMA MutatorSound ==
    ASSUME TypeOK, NoDangling, pc = "idle", Idle, Mutator
    PROVE  NoDangling'
  <1> USE NodesAssumption
  <1>1. ASSUME NEW s \in Slots, DropSlot(s) PROVE NoDangling'
    <2>1. \A t \in DOMAIN gcStack' : \E u \in Slots : gcStack'[t] = gcStack[u]
      BY <1>1 DEF DropSlot, Without, Slots, TypeOK
    <2>2. \A v : Sound(v)' <=> Sound(v)
      BY <1>1 DEF DropSlot, Sound
    <2>3. SlotsSound'
      BY <2>1, <2>2 DEF NoDangling, SlotsSound, Slots
    <2> QED
      BY <1>1, <2>2, <2>3
         DEF DropSlot, NoDangling, RootsSound, CafsSound, FieldsSound, HeadsSound
  <1>2. ASSUME NEW n \in Nodes, NEW k \in {"atom", "con", "thunk"},
               NEW f \in [Ptrs -> {Raw} \cup {gcStack[s] : s \in Slots}],
               Alloc(n, k, f)
        PROVE  NoDangling'
    <2>1. kind[n] = "free"
      BY <1>2 DEF Alloc, Idle
    <2>2. \A v \in SPtr \cup FPtr : Sound(v) => Sound(v)'
      BY <1>2, <2>1, SoundKept DEF Alloc
    <2>3. SlotsSound'
      <3>1. Sound(IF k = "thunk" THEN Lazy(n) ELSE Whnf(n))'
        BY <1>2 DEF Alloc, Sound, Lazy, Whnf, TypeOK
      <3>2. \A t \in DOMAIN gcStack' :
               \/ t \in Slots /\ gcStack'[t] = gcStack[t]
               \/ gcStack'[t] = IF k = "thunk" THEN Lazy(n) ELSE Whnf(n)
        BY <1>2 DEF Alloc, Push, Slots, TypeOK
      <3>3. \A t \in Slots : gcStack[t] \in SPtr /\ Sound(gcStack[t])
        BY DEF NoDangling, SlotsSound, Slots, TypeOK
      <3> QED
        BY <2>2, <3>1, <3>2, <3>3 DEF SlotsSound, Slots
    <2>4. RootsSound'
      BY <1>2, <2>1 DEF Alloc, NoDangling, RootsSound, TypeOK
    <2>5. CafsSound'
      BY <1>2, <2>2 DEF Alloc, NoDangling, CafsSound, TypeOK
    <2>6. FieldsSound'
      <3>1. \A p \in Ptrs : f[p] \in SPtr /\ Sound(f[p])
        <4>1. Raw \in SPtr /\ Sound(Raw)
          BY DEF SPtr, WPtr, Sound, Raw
        <4>2. \A t \in Slots : gcStack[t] \in SPtr /\ Sound(gcStack[t])
          BY DEF NoDangling, SlotsSound, Slots, TypeOK
        <4> QED
          BY <4>1, <4>2
      <3>2. \A p \in Ptrs : Sound(f[p])'
        BY <2>2, <3>1
      <3>3. ASSUME NEW m \in Nodes, NEW p \in Ptrs, m # n, kind[m] \in {"con", "thunk"}
            PROVE  Sound(field[m][p])' 
        <4>1. field[m][p] \in SPtr /\ Sound(field[m][p])
          BY <3>3 DEF NoDangling, FieldsSound, TypeOK
        <4>2. field'[m][p] = field[m][p]
          BY <1>2, <3>3 DEF Alloc, TypeOK
        <4> QED
          BY <2>2, <4>1, <4>2 DEF Sound
      <3> QED
        BY <1>2, <3>2, <3>3 DEF Alloc, FieldsSound, TypeOK
    <2>7. HeadsSound'
      BY <1>2, <2>2 DEF Alloc, NoDangling, HeadsSound, TypeOK
    <2> QED
      BY <2>3, <2>4, <2>5, <2>6, <2>7 DEF NoDangling
  <1>3. ASSUME NEW v \in SPtr, Sound(v), Push(v),
               UNCHANGED <<kind, head, field, cafHead, rootStack>>
        PROVE  NoDangling'
    <2>1. \A t \in DOMAIN gcStack' :
             (t \in Slots /\ gcStack'[t] = gcStack[t]) \/ gcStack'[t] = v
      BY <1>3 DEF Push, Slots, TypeOK
    <2>2. \A w : Sound(w)' <=> Sound(w)
      BY <1>3 DEF Sound
    <2>3. SlotsSound'
      BY <1>3, <2>1, <2>2 DEF NoDangling, SlotsSound, Slots
    <2> QED
      BY <1>3, <2>2, <2>3
         DEF NoDangling, RootsSound, CafsSound, FieldsSound, HeadsSound
  <1>4. ASSUME NEW s \in Slots, NEW p \in Ptrs, LoadField(s, p) PROVE NoDangling'
    <2>1. field[gcStack[s].to][p] \in SPtr /\ Sound(field[gcStack[s].to][p])
      BY <1>4 DEF LoadField, NoDangling, FieldsSound, TypeOK
    <2> QED
      BY <1>3, <1>4, <2>1 DEF LoadField
  <1>5. ASSUME NEW s \in Slots, NEW t \in Slots, NEW p \in Ptrs, StoreField(s, p, t)
        PROVE  NoDangling'
    <2>1. \A w : Sound(w)' <=> Sound(w)
      BY <1>5 DEF StoreField, Sound
    <2>2. gcStack[t] \in SPtr /\ Sound(gcStack[t])
      BY DEF NoDangling, SlotsSound, Slots, TypeOK
    <2>3. FieldsSound'
      <3> SUFFICES ASSUME NEW m \in Nodes, kind[m] \in {"con", "thunk"}, NEW q \in Ptrs
                   PROVE  Sound(field'[m][q])
        BY <1>5, <2>1 DEF FieldsSound, StoreField
      <3>1. field'[m][q] = field[m][q] \/ field'[m][q] = gcStack[t]
        BY <1>5 DEF StoreField, TypeOK
      <3> QED
        BY <2>2, <3>1 DEF NoDangling, FieldsSound
    <2> QED
      BY <1>5, <2>1, <2>3
         DEF StoreField, NoDangling, SlotsSound, Slots, RootsSound, CafsSound, HeadsSound
  <1>6. ASSUME NEW s \in Slots, Follow(s) PROVE NoDangling'
    <2>1. gcStack[s] \in SPtr /\ Sound(gcStack[s])
      BY DEF NoDangling, SlotsSound, Slots, TypeOK
    <2>2. ShortCircuit(gcStack[s]) = HeadOf(gcStack[s])
      BY <1>6 DEF Follow, ShortCircuit
    <2> QED
      BY <1>3, <1>6, <2>1, <2>2, ShortCircuitSound, ShortCircuitTyping DEF Follow
  <1>7. ASSUME NEW s \in Slots, NEW t \in Slots, Update(s, t) PROVE NoDangling'
    <2> DEFINE l == gcStack[s].to
    <2>1. l \in Nodes /\ kind[l] = "thunk" /\ kind' = [kind EXCEPT ![l] = "ind"]
      BY <1>7 DEF Update
    <2>2. gcStack[t] \in WPtr /\ Sound(gcStack[t])
      BY <1>7 DEF Update, NoDangling, SlotsSound
    <2>3. \A v \in SPtr \cup FPtr : Sound(v) => Sound(v)'
      BY <2>1, SoundUpdated
    <2>4. SlotsSound'
      <3> SUFFICES ASSUME NEW u \in Slots PROVE Sound(gcStack[u])'
        BY <1>7 DEF Update, SlotsSound, Slots
      <3>1. gcStack[u] \in SPtr /\ Sound(gcStack[u])
        BY DEF NoDangling, SlotsSound, Slots, TypeOK
      <3> QED
        BY <1>7, <2>3, <3>1 DEF Update, Sound
    <2>5. RootsSound'
      BY <1>7, <2>1 DEF Update, NoDangling, RootsSound, TypeOK
    <2>6. CafsSound'
      BY <1>7, <2>3 DEF Update, NoDangling, CafsSound, TypeOK
    <2>7. FieldsSound'
      <3> SUFFICES ASSUME NEW m \in Nodes, kind'[m] \in {"con", "thunk"}, NEW q \in Ptrs
                   PROVE  Sound(field[m][q])'
        BY DEF FieldsSound
      <3>1. kind[m] \in {"con", "thunk"}
        BY <2>1 DEF TypeOK
      <3>2. field[m][q] \in SPtr /\ Sound(field[m][q])
        BY <3>1 DEF NoDangling, FieldsSound, TypeOK
      <3> QED
        BY <1>7, <2>3, <3>2 DEF Update, Sound
    <2>8. HeadsSound'
      <3> SUFFICES ASSUME NEW m \in Nodes
                   PROVE  /\ kind'[m] = "ind" => head'[m] # Code /\ Sound(head[m])'
                          /\ kind'[m] = "thunk" => head'[m] = Code
        BY DEF HeadsSound
      <3>1. CASE m = l
        <4>1. head'[m] = gcStack[t] /\ kind'[m] = "ind"
          BY <1>7, <2>1, <3>1 DEF Update, TypeOK
        <4>2. gcStack[t] # Code
          BY <2>2 DEF WPtr, Raw, Whnf, Code
        <4> QED
          BY <2>2, <2>3, <4>1, <4>2 DEF Sound, FPtr
      <3>2. CASE m # l
        <4>1. head'[m] = head[m] /\ kind'[m] = kind[m] /\ head[m] \in FPtr
          BY <1>7, <2>1, <3>2 DEF Update, TypeOK
        <4> QED
          BY <2>3, <4>1 DEF NoDangling, HeadsSound, Sound
      <3> QED
        BY <3>1, <3>2
    <2> QED
      BY <2>4, <2>5, <2>6, <2>7, <2>8 DEF NoDangling
  <1>8. ASSUME NEW c \in Cafs, LoadCaf(c) PROVE NoDangling'
    <2>1. Lazy(c) \in SPtr /\ Sound(Lazy(c))
      BY DEF SPtr, Sound, Lazy
    <2>2. \A t \in DOMAIN gcStack' :
             (t \in Slots /\ gcStack'[t] = gcStack[t]) \/ gcStack'[t] = Lazy(c)
      BY <1>8 DEF LoadCaf, Push, Slots, TypeOK
    <2>3. \A w : Sound(w)' <=> Sound(w)
      BY <1>8 DEF LoadCaf, Sound
    <2>4. SlotsSound'
      BY <2>1, <2>2, <2>3 DEF NoDangling, SlotsSound, Slots
    <2> QED
      BY <1>8, <2>3, <2>4
         DEF LoadCaf, NoDangling, RootsSound, CafsSound, FieldsSound, HeadsSound
  <1>9. ASSUME NEW c \in Cafs, NEW t \in Slots, UpdateCaf(c, t) PROVE NoDangling'
    <2>1. \A w : Sound(w)' <=> Sound(w)
      BY <1>9 DEF UpdateCaf, Sound
    <2>2. gcStack[t] \in WPtr /\ Sound(gcStack[t])
      BY <1>9 DEF UpdateCaf, NoDangling, SlotsSound
    <2>3. RootsSound'
      BY <1>9, <2>2, ValueFacts DEF UpdateCaf, AddRoot, NoDangling, RootsSound, TypeOK
    <2>4. CafsSound'
      <3> SUFFICES ASSUME NEW d \in Cafs
                   PROVE  /\ Sound(cafHead'[d])
                          /\ cafHead'[d].to \in Nodes =>
                                \E r \in DOMAIN rootStack' : rootStack'[r] = cafHead'[d].to
        BY <2>1 DEF CafsSound
      <3>1. \A r \in DOMAIN rootStack :
               r \in DOMAIN rootStack' /\ rootStack'[r] = rootStack[r]
        BY <1>9 DEF UpdateCaf, AddRoot, TypeOK
      <3>2. CASE d = c
        <4>1. cafHead'[d] = gcStack[t]
          BY <1>9, <3>2 DEF UpdateCaf, TypeOK
        <4>2. gcStack[t].to \in Nodes =>
                 \E r \in DOMAIN rootStack' : rootStack'[r] = gcStack[t].to
          <5> SUFFICES ASSUME gcStack[t].to \in Nodes
                       PROVE  \E r \in DOMAIN rootStack' : rootStack'[r] = gcStack[t].to
            OBVIOUS
          <5>1. rootStack' = Append(rootStack, gcStack[t].to)
            BY <1>9 DEF UpdateCaf, AddRoot
          <5>2. /\ Len(rootStack) + 1 \in DOMAIN rootStack'
                /\ rootStack'[Len(rootStack) + 1] = gcStack[t].to
            BY <5>1 DEF TypeOK
          <5> QED
            BY <5>2
        <4> QED
          BY <2>2, <4>1, <4>2
      <3>3. CASE d # c
        <4>1. cafHead'[d] = cafHead[d]
          BY <1>9, <3>3 DEF UpdateCaf, TypeOK
        <4> QED
          BY <3>1, <4>1 DEF NoDangling, CafsSound
      <3> QED
        BY <3>2, <3>3
    <2> QED
      BY <1>9, <2>1, <2>3, <2>4
         DEF UpdateCaf, NoDangling, SlotsSound, Slots, FieldsSound, HeadsSound
  <1>10. CASE DerefStable
    <2>1. Raw \in SPtr /\ Sound(Raw)
      BY DEF SPtr, WPtr, Sound, Raw
    <2> QED
      BY <1>3, <1>10, <2>1 DEF DerefStable
  <1>11. ASSUME UNCHANGED <<kind, head, field, cafHead, gcStack, rootStack>>
         PROVE  NoDangling'
    BY <1>11 DEF NoDangling, Sound, SlotsSound, Slots, RootsSound, CafsSound,
                 FieldsSound, HeadsSound
  <1>12. ASSUME NEW p, NewStable(p) PROVE NoDangling'
    BY <1>11, <1>12 DEF NewStable
  <1>13. ASSUME NEW i, FreeStable(i) PROVE NoDangling'
    BY <1>11, <1>13 DEF FreeStable
  <1> QED
    BY <1>1, <1>2, <1>4, <1>5, <1>6, <1>7, <1>8, <1>9, <1>10, <1>12, <1>13 DEF Mutator

-----------------------------------------------------------------------------
(* Marking.                                                                *)

(* One call of gc_add_grey, made after redirections in "kept" were marked: *)
(* every new entry that has words to scan is on the grey stack.            *)
LEMMA GreyStep ==
    ASSUME TypeOK, NeverScansStale, GreyUsed, IndMarked,
           NEW n, n \in Nodes => kind[n] \in {"con", "atom", "thunk"},
           NEW kept \in SUBSET Nodes,
           \A l \in kept : kind[l] = "ind" /\ (head[l].to \in Nodes => head[l].to = n),
           AddGrey(n, used \cup kept), UNCHANGED <<kind, head>>
    PROVE  /\ used \subseteq used' /\ kept \subseteq used'
           /\ n \in Nodes => n \in used'
           /\ \A g \in DOMAIN grey' : grey'[g] \in used' /\ kind[grey'[g]] \in {"con", "thunk"}
           /\ \A m : InGrey(m) => InGrey(m)'
           /\ \A m \in used' : kind[m] \in {"con", "thunk"} /\ ~InGrey(m)' =>
                 m \in used /\ ~InGrey(m)
           /\ IndMarked'
  <1>1. /\ used' = IF n \in Nodes THEN used \cup kept \cup {n} ELSE used \cup kept
        /\ grey' = IF n \in Nodes /\ n \notin used /\ kind[n] # "atom"
                   THEN Append(grey, n) ELSE grey
        /\ used' \in SUBSET Nodes /\ grey' \in Seq(Nodes)
    <2>1. used \cup kept \in SUBSET Nodes
      BY DEF TypeOK
    <2> QED
      BY <2>1, AddGreyEffect
  <1>2. used \subseteq used' /\ kept \subseteq used' /\ (n \in Nodes => n \in used')
    BY <1>1
  <1>3. \A g \in DOMAIN grey : g \in DOMAIN grey' /\ grey'[g] = grey[g]
    BY <1>1 DEF TypeOK
  <1>4. \A g \in DOMAIN grey' :
           \/ g \in DOMAIN grey /\ grey'[g] = grey[g]
           \/ grey'[g] = n /\ n \in Nodes /\ kind[n] # "atom"
    BY <1>1 DEF TypeOK
  <1>5. n \in Nodes /\ n \notin used /\ kind[n] # "atom" => InGrey(n)'
    <2> SUFFICES ASSUME n \in Nodes, n \notin used, kind[n] # "atom"
                 PROVE  \E g \in DOMAIN grey' : grey'[g] = n
      BY DEF InGrey
    <2>1. Len(grey) + 1 \in DOMAIN grey' /\ grey'[Len(grey) + 1] = n
      BY <1>1 DEF TypeOK
    <2> QED
      BY <2>1
  <1>6. \A g \in DOMAIN grey' : grey'[g] \in used' /\ kind[grey'[g]] \in {"con", "thunk"}
    BY <1>2, <1>4 DEF GreyUsed, NeverScansStale
  <1>7. \A m : InGrey(m) => InGrey(m)'
    BY <1>3 DEF InGrey
  <1>8. \A m \in used' : kind[m] \in {"con", "thunk"} /\ ~InGrey(m)' =>
           m \in used /\ ~InGrey(m)
    BY <1>1, <1>5, <1>7
  <1>9. IndMarked'
    <2> SUFFICES ASSUME NEW m \in used', kind[m] = "ind", head[m].to \in Nodes
                 PROVE  head[m].to \in used'
      BY DEF IndMarked
    <2>1. CASE m \in used
      BY <1>2, <2>1 DEF IndMarked
    <2>2. CASE m \in kept
      BY <1>2, <2>2
    <2> QED
      BY <1>1, <2>1, <2>2
  <1> QED
    BY <1>2, <1>6, <1>7, <1>8, <1>9

(* Every step of the marking loops keeps the invariant of marking.         *)
LEMMA MarkingStep ==
    ASSUME TypeOK, NoDangling, NeverScansStale, Tracing, Marking,
           \/ MarkRoot \/ RootsDone \/ MarkStable \/ StablesDone \/ MarkSlot \/ SlotsDone
           \/ PopGrey \/ ScanWord \/ ScanForeign
    PROVE  NoDangling' /\ NeverScansStale' /\ Marking' /\ Tracing'
  <1> USE NodesAssumption DEF Tracing
  <1>1. ASSUME UNCHANGED mutVars PROVE NoDangling' /\ \A v : Sound(v)' <=> Sound(v)
    BY <1>1 DEF mutVars, NoDangling, Sound, SlotsSound, Slots, RootsSound, CafsSound,
                FieldsSound, HeadsSound
  <1>2. ASSUME UNCHANGED <<kind, head, cafHead>>, used \subseteq used', NEW v, Traced(v)
        PROVE  Traced(v)'
    BY <1>2 DEF Traced, ShortCircuit, HeadOf
  <1>3. CASE MarkRoot
    <2>1. UNCHANGED mutVars
      BY <1>3 DEF MarkRoot
    <2>2. rootStack[idx] \in Nodes /\ kind[rootStack[idx]] \in {"con", "atom"}
      BY <1>3 DEF MarkRoot, TypeOK, NoDangling, RootsSound
    <2>3. AddGrey(rootStack[idx], used \cup {})
      BY <1>3 DEF MarkRoot
    <2>4. /\ used \subseteq used'
          /\ rootStack[idx] \in used'
          /\ \A g \in DOMAIN grey' : grey'[g] \in used' /\ kind[grey'[g]] \in {"con", "thunk"}
          /\ \A m \in used' : kind[m] \in {"con", "thunk"} /\ ~InGrey(m)' =>
                m \in used /\ ~InGrey(m)
          /\ IndMarked'
      <3>1. UNCHANGED <<kind, head>>
        BY <2>1 DEF mutVars
      <3> QED
        BY <2>2, <2>3, <3>1, GreyStep DEF Marking
    <2>5. NeverScansStale' /\ GreyUsed'
      BY <1>3, <2>1, <2>4 DEF MarkRoot, mutVars, NeverScansStale, Marking, GreyUsed
    <2>6. BlackTraced'
      BY <1>2, <1>3, <2>1, <2>4 DEF MarkRoot, mutVars, Marking, BlackTraced
    <2>7. CurTraced'
      BY <1>2, <1>3, <2>1, <2>4 DEF MarkRoot, mutVars, Marking, CurTraced
    <2>8. RootsMarked'
      BY <1>3, <2>1, <2>4 DEF MarkRoot, mutVars, Marking, RootsMarked, TypeOK
    <2>9. SlotsMarked'
      BY <1>3, <2>1 DEF MarkRoot, mutVars, SlotsMarked, Slots
    <2> QED
      BY <1>1, <1>3, <2>1, <2>4, <2>5, <2>6, <2>7, <2>8, <2>9 DEF MarkRoot, Marking
  <1>4. CASE RootsDone
    <2>1. UNCHANGED <<mutVars, used, grey, cur, word>> /\ pc = "roots" /\ pc' = "stables"
      BY <1>4 DEF RootsDone
    <2>2. GreyUsed' /\ BlackTraced' /\ CurTraced' /\ IndMarked' /\ NeverScansStale'
      BY <2>1 DEF mutVars, Marking, GreyUsed, BlackTraced, CurTraced, IndMarked,
                  NeverScansStale, InGrey, Traced, ShortCircuit, HeadOf
    <2>3. RootsMarked'
      BY <1>4, <2>1 DEF RootsDone, mutVars, Marking, RootsMarked, TypeOK
    <2>4. SlotsMarked'
      BY <2>1 DEF SlotsMarked
    <2> QED
      BY <1>1, <2>1, <2>2, <2>3, <2>4 DEF Marking
  <1>5. CASE MarkSlot
    <2> DEFINE v == gcStack[idx]
    <2>1. UNCHANGED mutVars
      BY <1>5 DEF MarkSlot
    <2>2. idx \in Slots /\ v \in SPtr /\ Sound(v)
      BY <1>5 DEF MarkSlot, Slots, TypeOK, NoDangling, SlotsSound
    <2>3. ShortCircuit(v).to \in Nodes => kind[ShortCircuit(v).to] \in {"con", "atom", "thunk"}
      BY <2>2, ShortCircuitSound
    <2>4. /\ Kept(v) \in SUBSET Nodes
          /\ \A l \in Kept(v) : kind[l] = "ind" /\ head[l].to = ShortCircuit(v).to
      BY <2>2, ShortCircuitSound DEF Kept
    <2>5. AddGrey(ShortCircuit(v).to, used \cup Kept(v))
      BY <1>5 DEF MarkSlot
    <2>6. /\ used \subseteq used' /\ Kept(v) \subseteq used'
          /\ ShortCircuit(v).to \in Nodes => ShortCircuit(v).to \in used'
          /\ \A g \in DOMAIN grey' : grey'[g] \in used' /\ kind[grey'[g]] \in {"con", "thunk"}
          /\ \A m \in used' : kind[m] \in {"con", "thunk"} /\ ~InGrey(m)' =>
                m \in used /\ ~InGrey(m)
          /\ IndMarked'
      <3>1. UNCHANGED <<kind, head>>
        BY <2>1 DEF mutVars
      <3> HIDE DEF v
      <3> QED
        BY <2>3, <2>4, <2>5, <3>1, GreyStep DEF Marking
    <2>7. NeverScansStale' /\ GreyUsed'
      BY <1>5, <2>1, <2>6 DEF MarkSlot, mutVars, NeverScansStale, Marking, GreyUsed
    <2>8. BlackTraced'
      BY <1>2, <1>5, <2>1, <2>6 DEF MarkSlot, mutVars, Marking, BlackTraced
    <2>9. CurTraced'
      BY <1>2, <1>5, <2>1, <2>6 DEF MarkSlot, mutVars, Marking, CurTraced
    <2>10. RootsMarked'
      BY <1>5, <2>1, <2>6 DEF MarkSlot, mutVars, Marking, RootsMarked, TypeOK
    <2>11. SlotsMarked'
      <3>1. v.to \in Nodes => v.to \in used'
        BY <2>6 DEF Kept
      <3>2. \A u : ShortCircuit(u)' = ShortCircuit(u)
        BY <2>1 DEF mutVars, ShortCircuit, HeadOf
      <3> SUFFICES ASSUME NEW s \in Slots, ~(s >= idx + 1)
                   PROVE  /\ gcStack[s].to \in Nodes => gcStack[s].to \in used'
                          /\ ShortCircuit(gcStack[s]).to \in Nodes =>
                                ShortCircuit(gcStack[s]).to \in used'
        BY <1>5, <2>1, <3>2 DEF MarkSlot, mutVars, SlotsMarked, Slots
      <3>3. CASE s = idx
        BY <2>6, <3>1, <3>3
      <3>4. CASE s # idx
        <4>1. ~(s >= idx)
          BY <3>4 DEF Slots, TypeOK
        <4> QED
          BY <1>5, <2>6, <4>1 DEF MarkSlot, Marking, SlotsMarked
      <3> QED
        BY <3>3, <3>4
    <2> QED
      BY <1>1, <1>5, <2>1, <2>6, <2>7, <2>8, <2>9, <2>10, <2>11 DEF MarkSlot, Marking
  <1>6. CASE SlotsDone
    <2>1. UNCHANGED <<mutVars, used, grey, cur, word>> /\ pc = "slots" /\ pc' = "deeper"
      BY <1>6 DEF SlotsDone
    <2>2. GreyUsed' /\ BlackTraced' /\ CurTraced' /\ IndMarked' /\ NeverScansStale'
      BY <2>1 DEF mutVars, Marking, GreyUsed, BlackTraced, CurTraced, IndMarked,
                  NeverScansStale, InGrey, Traced, ShortCircuit, HeadOf
    <2>3. RootsMarked'
      BY <2>1 DEF mutVars, Marking, RootsMarked
    <2>4. SlotsMarked'
      <3>1. \A u : ShortCircuit(u)' = ShortCircuit(u)
        BY <2>1 DEF mutVars, ShortCircuit, HeadOf
      <3>2. \A s \in Slots : ~(s >= idx)
        BY <1>6 DEF SlotsDone, Slots, TypeOK
      <3> QED
        BY <2>1, <3>1, <3>2 DEF mutVars, Marking, SlotsMarked, Slots
    <2> QED
      BY <1>1, <2>1, <2>2, <2>3, <2>4 DEF Marking
  <1>7. CASE PopGrey
    <2>1. UNCHANGED <<mutVars, pc, used, idx>> /\ word' = 1 /\ cur = NoNode
      BY <1>7 DEF PopGrey
    <2>2. /\ Len(grey) \in DOMAIN grey /\ cur' = grey[Len(grey)]
          /\ \A g \in DOMAIN grey' : g \in DOMAIN grey /\ grey'[g] = grey[g]
          /\ \A g \in DOMAIN grey : g # Len(grey) => g \in DOMAIN grey' /\ grey'[g] = grey[g]
      BY <1>7 DEF PopGrey, TypeOK
    <2>3. cur' \in used /\ kind[cur'] \in {"con", "thunk"} /\ cur' # NoNode
      BY <2>2 DEF Marking, GreyUsed, NeverScansStale, TypeOK
    <2>4. NeverScansStale' /\ GreyUsed'
      BY <2>1, <2>2, <2>3 DEF mutVars, NeverScansStale, Marking, GreyUsed
    <2>5. \A m : InGrey(m) /\ m # cur' => InGrey(m)'
      BY <2>2 DEF InGrey
    <2>6. \A v : Traced(v)' <=> Traced(v)
      BY <2>1 DEF mutVars, Traced, ShortCircuit, HeadOf
    <2>7. BlackTraced'
      BY <2>1, <2>5, <2>6 DEF mutVars, Marking, BlackTraced, TypeOK
    <2>8. CurTraced'
      BY <2>1, BoundsAssumption DEF CurTraced, Ptrs
    <2>9. RootsMarked' /\ SlotsMarked' /\ IndMarked'
      BY <2>1 DEF mutVars, Marking, RootsMarked, SlotsMarked, IndMarked, Slots,
                  ShortCircuit, HeadOf
    <2> QED
      BY <1>1, <2>1, <2>4, <2>7, <2>8, <2>9 DEF Marking
  <1>8. CASE ScanWord
    <2> DEFINE v == field[cur][word]
    <2> DEFINE w == ShortCircuit(v)
    <2>1. UNCHANGED <<kind, head, cafHead, gcStack, rootStack, pc, idx>>
      BY <1>8 DEF ScanWord
    <2>2. cur \in Nodes /\ cur \in used /\ kind[cur] \in {"con", "thunk"} /\ word \in Ptrs
      BY <1>8 DEF ScanWord, TypeOK, Marking, GreyUsed, NeverScansStale
    <2>3. v \in SPtr /\ Sound(v)
      BY <2>2 DEF TypeOK, NoDangling, FieldsSound
    <2>4. /\ w \in SPtr /\ Sound(w) /\ ShortCircuit(w) = w
          /\ w.to \in Nodes => kind[w.to] \in {"con", "atom", "thunk"}
      BY <2>3, ShortCircuitSound, ShortCircuitTyping
    <2>5. AddGrey(w.to, used \cup {})
      BY <1>8 DEF ScanWord
    <2>6. /\ field'[cur][word] = w
          /\ \A m \in Nodes, p \in Ptrs :
                m # cur \/ p # word => field'[m][p] = field[m][p]
      BY <1>8, <2>2 DEF ScanWord, TypeOK
    <2>7. /\ used \subseteq used'
          /\ w.to \in Nodes => w.to \in used'
          /\ \A g \in DOMAIN grey' : grey'[g] \in used' /\ kind[grey'[g]] \in {"con", "thunk"}
          /\ \A m \in used' : kind[m] \in {"con", "thunk"} /\ ~InGrey(m)' =>
                m \in used /\ ~InGrey(m)
          /\ IndMarked'
      <3> HIDE DEF w
      <3> QED
        BY <2>1, <2>4, <2>5, GreyStep DEF Marking
    <2>8. \A u : (Sound(u)' <=> Sound(u)) /\ ShortCircuit(u)' = ShortCircuit(u)
      BY <2>1 DEF Sound, ShortCircuit, HeadOf
    <2>9. \A x : x = w => Traced(x)'
      <3> HIDE DEF w
      <3> SUFFICES ASSUME NEW x, x = w PROVE Traced(x)'
        OBVIOUS
      <3>1. ShortCircuit(x)' = x
        BY <2>4, <2>8
      <3> QED
        BY <2>7, <3>1 DEF Traced
    <2>10. NoDangling'
      <3>1. FieldsSound'
        <4> HIDE DEF w, v
        <4> QED
          BY <2>1, <2>4, <2>6, <2>8 DEF NoDangling, FieldsSound
      <3> QED
        BY <2>1, <2>8, <3>1
           DEF NoDangling, SlotsSound, Slots, RootsSound, CafsSound, HeadsSound
    <2>11. \/ cur' = cur /\ word' = word + 1
           \/ cur' = NoNode /\ word = MaxPtrs
      BY <1>8, <2>2, BoundsAssumption DEF ScanWord, MoreWords, Ptrs
    <2>12. NeverScansStale' /\ GreyUsed'
      BY <2>1, <2>2, <2>7, <2>11 DEF NeverScansStale, GreyUsed
    <2>13. \A x : \A p \in Ptrs : p <= word /\ x = field'[cur][p] => Traced(x)'
      <3> SUFFICES ASSUME NEW p \in Ptrs, NEW x, p <= word, x = field'[cur][p]
                   PROVE  Traced(x)'
        OBVIOUS
      <3>1. CASE p = word
        <4> HIDE DEF w
        <4> QED
          BY <2>6, <2>9, <3>1
      <3>2. CASE p # word
        <4>1. p < word
          BY <3>2, <2>2, BoundsAssumption DEF Ptrs
        <4>2. x = field[cur][p]
          BY <2>2, <2>6, <3>2
        <4>3. Traced(x)
          BY <1>8, <4>1, <4>2 DEF ScanWord, Marking, CurTraced
        <4> QED
          BY <1>2, <2>1, <2>7, <4>3
      <3> QED
        BY <3>1, <3>2
    <2>14. BlackTraced'
      <3>1. ASSUME NEW m \in used', kind[m] \in {"con", "thunk"}, m # cur',
                   ~InGrey(m)', NEW p \in Ptrs, NEW x, x = field'[m][p]
            PROVE  Traced(x)'
        <4>1. CASE m = cur
          <5>1. word = MaxPtrs
            BY <2>2, <2>11, <3>1, <4>1
          <5>2. p <= word
            BY <5>1, BoundsAssumption DEF Ptrs
          <5> QED
            BY <2>13, <3>1, <4>1, <5>2
        <4>2. CASE m # cur
          <5>1. m \in used /\ ~InGrey(m) /\ m \in Nodes
            BY <2>7, <3>1 DEF TypeOK
          <5>2. Traced(field[m][p]) /\ x = field[m][p]
            BY <2>6, <3>1, <4>2, <5>1 DEF Marking, BlackTraced
          <5> QED
            BY <1>2, <2>1, <2>7, <5>2
        <4> QED
          BY <4>1, <4>2
      <3> QED
        BY <2>1, <3>1 DEF BlackTraced
    <2>15. CurTraced'
      <3>1. ASSUME cur' # NoNode, NEW p \in Ptrs, p < word' PROVE cur' = cur /\ p <= word
        BY <2>2, <2>11, <3>1, BoundsAssumption DEF Ptrs
      <3> QED
        BY <2>13, <3>1 DEF CurTraced
    <2>16. RootsMarked' /\ SlotsMarked'
      BY <2>1, <2>7, <2>8 DEF Marking, RootsMarked, SlotsMarked, Slots
    <2> QED
      BY <2>1, <2>7, <2>10, <2>12, <2>14, <2>15, <2>16 DEF Marking
  <1>9. ASSUME UNCHANGED <<mutVars, used, grey, cur, word>>
        PROVE  GreyUsed' /\ BlackTraced' /\ CurTraced' /\ IndMarked' /\ NeverScansStale'
    BY <1>9 DEF mutVars, Marking, GreyUsed, BlackTraced, CurTraced, IndMarked,
                NeverScansStale, InGrey, Traced, ShortCircuit, HeadOf
  <1>10. CASE MarkStable
    <2>1. UNCHANGED <<mutVars, used, grey, cur, word>> /\ pc = "stables" /\ pc' = pc
      BY <1>10 DEF MarkStable
    <2>2. RootsMarked' /\ SlotsMarked'
      BY <2>1 DEF mutVars, Marking, RootsMarked, SlotsMarked
    <2> QED
      BY <1>1, <1>9, <2>1, <2>2 DEF Marking
  <1>11. CASE StablesDone
    <2>1. UNCHANGED <<mutVars, used, grey, cur, word>> /\ pc = "stables" /\ pc' = "slots"
          /\ idx' = 1
      BY <1>11 DEF StablesDone
    <2>2. RootsMarked'
      BY <2>1 DEF mutVars, Marking, RootsMarked
    <2>3. SlotsMarked'
      BY <2>1 DEF mutVars, SlotsMarked, Slots, TypeOK
    <2> QED
      BY <1>1, <1>9, <2>1, <2>2, <2>3 DEF Marking
  <1>12. CASE ScanForeign
    <2>1. UNCHANGED <<mutVars, pc, used, grey, idx, cur, word>>
      BY <1>12 DEF ScanForeign
    <2>2. RootsMarked' /\ SlotsMarked'
      BY <2>1 DEF mutVars, Marking, RootsMarked, SlotsMarked, Slots, ShortCircuit, HeadOf
    <2> QED
      BY <1>1, <1>9, <2>1, <2>2 DEF Marking
  <1> QED
    BY <1>3, <1>4, <1>5, <1>6, <1>7, <1>8, <1>10, <1>11, <1>12

-----------------------------------------------------------------------------
(* The beginning and the end of a collection.                              *)

(* A collection begins with no used bit set and nothing marked.            *)
LEMMA StartStep ==
    ASSUME TypeOK, NoDangling, NeverScansStale, Idle, StartGC
    PROVE  NoDangling' /\ NeverScansStale' /\ Marking' /\ Tracing'
  <1>1. UNCHANGED <<mutVars, grey, cur, word>> /\ used' = {} /\ pc' = "roots" /\ idx' = 1
    BY DEF StartGC
  <1>2. grey' = << >> /\ cur' = NoNode
    BY <1>1 DEF Idle, NoGrey
  <1>3. NoDangling'
    BY <1>1 DEF mutVars, NoDangling, Sound, SlotsSound, Slots, RootsSound, CafsSound,
                FieldsSound, HeadsSound
  <1>4. NeverScansStale'
    BY <1>2 DEF NeverScansStale
  <1>5. GreyUsed' /\ BlackTraced' /\ CurTraced' /\ IndMarked'
    BY <1>1, <1>2 DEF GreyUsed, BlackTraced, CurTraced, IndMarked
  <1>6. RootsMarked' /\ SlotsMarked'
    BY <1>1 DEF mutVars, RootsMarked, SlotsMarked, TypeOK
  <1> QED
    BY <1>1, <1>3, <1>4, <1>5, <1>6 DEF Marking, Tracing

(* When marking has ended, every sound pointer the program or the kept     *)
(* entries hold leads to a marked entry, so that sweeping leaves it sound. *)
LEMMA SweepStep ==
    ASSUME TypeOK, NoDangling, Marking, Sweep
    PROVE  NoDangling' /\ NeverScansStale' /\ Idle'
  <1> USE NodesAssumption
  <1>1. /\ pc = "deeper" /\ cur = NoNode /\ NoGrey /\ grey = << >>
        /\ UNCHANGED <<cafHead, gcStack, rootStack, used, grey, greyForeign, cur, word>>
        /\ kind' = [n \in Nodes |-> IF n \in used THEN kind[n] ELSE "free"]
        /\ head' = [n \in Nodes |-> IF n \in used THEN head[n] ELSE Raw]
        /\ field' = [n \in Nodes |-> IF n \in used THEN field[n] ELSE NoFields]
    BY DEF Sweep, NoGrey
  <1>2. ASSUME NEW v \in SPtr \cup FPtr, Sound(v), v.to \in Nodes => v.to \in used
        PROVE  Sound(v)'
    BY <1>1, <1>2 DEF Sound, SPtr, FPtr, WPtr, Raw, Code, Whnf, Lazy
  <1>3. \A r \in DOMAIN rootStack : rootStack[r] \in used
    BY <1>1 DEF Marking, RootsMarked
  <1>4. SlotsSound'
    <2> SUFFICES ASSUME NEW s \in Slots PROVE Sound(gcStack[s])'
      BY <1>1 DEF SlotsSound, Slots
    <2>1. gcStack[s] \in SPtr /\ Sound(gcStack[s])
      BY DEF NoDangling, SlotsSound, Slots, TypeOK
    <2>2. gcStack[s].to \in Nodes => gcStack[s].to \in used
      BY <1>1 DEF Marking, SlotsMarked
    <2> QED
      BY <1>1, <1>2, <2>1, <2>2 DEF Sound
  <1>5. RootsSound'
    BY <1>1, <1>3 DEF NoDangling, RootsSound, TypeOK
  <1>6. CafsSound'
    <2> SUFFICES ASSUME NEW c \in Cafs
                 PROVE  /\ Sound(cafHead[c])'
                        /\ cafHead[c].to \in Nodes =>
                              \E r \in DOMAIN rootStack : rootStack[r] = cafHead[c].to
      BY <1>1 DEF CafsSound
    <2>1. /\ cafHead[c] \in FPtr /\ Sound(cafHead[c])
          /\ cafHead[c].to \in Nodes =>
                \E r \in DOMAIN rootStack : rootStack[r] = cafHead[c].to
      BY DEF NoDangling, CafsSound, TypeOK
    <2>2. cafHead[c].to \in Nodes => cafHead[c].to \in used
      BY <1>3, <2>1
    <2> QED
      BY <1>1, <1>2, <2>1, <2>2 DEF Sound
  <1>7. FieldsSound'
    <2> SUFFICES ASSUME NEW m \in Nodes, kind'[m] \in {"con", "thunk"}, NEW p \in Ptrs
                 PROVE  Sound(field[m][p])'
      BY DEF FieldsSound
    <2>1. m \in used /\ kind[m] \in {"con", "thunk"} /\ field'[m] = field[m]
      BY <1>1
    <2>2. field[m][p] \in SPtr /\ Sound(field[m][p])
      BY <2>1 DEF NoDangling, FieldsSound, TypeOK
    <2>3. field[m][p].to \in Nodes => field[m][p].to \in used
      BY <1>1, <2>1 DEF Marking, BlackTraced, Traced, InGrey
    <2>4. ASSUME NEW x, x = field[m][p] PROVE Sound(x)'
      BY <1>2, <2>2, <2>3, <2>4
    <2> QED
      BY <2>1, <2>4 DEF Sound
  <1>8. HeadsSound'
    <2> SUFFICES ASSUME NEW m \in Nodes
                 PROVE  /\ kind'[m] = "ind" => head'[m] # Code /\ Sound(head[m])'
                        /\ kind'[m] = "thunk" => head'[m] = Code
      BY DEF HeadsSound
    <2>1. kind'[m] \in {"ind", "thunk"} =>
             m \in used /\ kind[m] = kind'[m] /\ head'[m] = head[m] /\ head[m] \in FPtr
      BY <1>1 DEF TypeOK
    <2>2. kind'[m] = "thunk" => head'[m] = Code
      BY <2>1 DEF NoDangling, HeadsSound
    <2>3. kind'[m] = "ind" =>
             /\ head[m] # Code /\ Sound(head[m])
             /\ head[m].to \in Nodes => head[m].to \in used
      BY <2>1 DEF NoDangling, HeadsSound, Marking, IndMarked
    <2>4. ASSUME kind'[m] = "ind", NEW x, x = head[m] PROVE Sound(x)'
      BY <1>2, <2>1, <2>3, <2>4
    <2> QED
      BY <2>1, <2>2, <2>3, <2>4 DEF Sound
  <1>9. NeverScansStale'
    BY <1>1 DEF NeverScansStale
  <1>10. Idle'
    BY <1>1 DEF Idle, NoGrey
  <1> QED
    BY <1>4, <1>5, <1>6, <1>7, <1>8, <1>9, <1>10 DEF NoDangling

-----------------------------------------------------------------------------
(* Room on the grey stack.                                                 *)

(* stack_check leaves room for n more entries.                             *)
LEMMA CheckedFacts ==
    ASSUME TypeOK, NEW len \in Nat, NEW n \in Nat, len <= greySize
    PROVE  Checked(len, n) \in Nat /\ len + n <= Checked(len, n) /\ greySize <= Checked(len, n)
  BY BoundsAssumption DEF Checked, TypeOK

(* The grey stack holds finitely many entries and places.                  *)
LEMMA GreyLenFacts ==
    ASSUME TypeOK
    PROVE  /\ Len(grey) \in Nat /\ Cardinality(greyForeign) \in Nat
           /\ IsFiniteSet(greyForeign)
           /\ GreyLen \in Nat /\ GreyLen = Len(grey) + Cardinality(greyForeign)
  <1>1. IsFiniteSet(greyForeign)
    BY FS_Subset, ForeignAssumption DEF TypeOK
  <1>2. Cardinality(greyForeign) \in Nat
    BY <1>1, FS_CardinalityType
  <1>3. Len(grey) \in Nat
    BY DEF TypeOK
  <1> QED
    BY <1>1, <1>2, <1>3 DEF GreyLen

(* A drained stack has nothing on it.                                      *)
LEMMA EmptyGrey == NoGrey => GreyLen = 0
  <1>1. Len(<< >>) = 0 /\ Cardinality({}) = 0
    BY FS_EmptySet
  <1> QED
    BY <1>1 DEF NoGrey, GreyLen

(* gc_add_grey pushes at most one entry.                                   *)
LEMMA AddGreyLength ==
    ASSUME TypeOK, NEW n, NEW marked \in SUBSET Nodes, AddGrey(n, marked),
           greyForeign' = greyForeign
    PROVE  GreyLen' \in Nat /\ GreyLen' <= GreyLen + 1
  <1>1. Len(grey') \in Nat /\ Len(grey') <= Len(grey) + 1
    <2>1. (grey' = Append(grey, n) /\ n \in Nodes) \/ grey' = grey
      BY AddGreyEffect
    <2>2. grey \in Seq(Nodes) /\ Len(grey) \in Nat
      BY DEF TypeOK
    <2> QED
      BY <2>1, <2>2
  <1>2. GreyLen' = Len(grey') + Cardinality(greyForeign)
    BY DEF GreyLen
  <1> QED
    BY <1>1, <1>2, GreyLenFacts

(* So does the greying of a stable pointer.                                *)
LEMMA MarkStableLength ==
    ASSUME TypeOK, MarkStable
    PROVE  GreyLen' \in Nat /\ GreyLen' <= GreyLen + 1
  <1>1. grey' = grey
    BY DEF MarkStable
  <1>2. GreyLen' = Len(grey) + Cardinality(greyForeign')
    BY <1>1 DEF GreyLen
  <1>3. CASE UNCHANGED foreignVars
    BY <1>2, <1>3, GreyLenFacts DEF foreignVars
  <1>4. CASE greyForeign' = greyForeign \cup {stable[idx]}
    <2>1. /\ Cardinality(greyForeign') \in Nat
          /\ Cardinality(greyForeign') <= Cardinality(greyForeign) + 1
      <3>1. Cardinality(greyForeign') =
               IF stable[idx] \in greyForeign THEN Cardinality(greyForeign)
               ELSE Cardinality(greyForeign) + 1
        BY <1>4, GreyLenFacts, FS_AddElement
      <3> QED
        BY <3>1, GreyLenFacts
    <2> QED
      BY <1>2, <2>1, GreyLenFacts
  <1> QED
    BY <1>3, <1>4 DEF MarkStable

(* Taking an entry off the grey stack.                                     *)
LEMMA PopGreyLength ==
    ASSUME TypeOK, PopGrey
    PROVE  GreyLen' \in Nat /\ GreyLen = GreyLen' + 1
  <1>1. grey \in Seq(Nodes) /\ grey # << >>
    BY DEF PopGrey, TypeOK
  <1>2. PICK k \in Nat : Len(grey) = k + 1
    <2>1. Len(grey) \in Nat \ {0}
      BY <1>1, EmptySeq
    <2>2. Len(grey) - 1 \in Nat /\ Len(grey) = (Len(grey) - 1) + 1
      BY <2>1
    <2> QED
      BY <2>2
  <1>3. Len(grey') = k
    <2>1. grey' = SubSeq(grey, 1, k)
      BY <1>2 DEF PopGrey
    <2>2. \A j \in 1 .. k : grey[j] \in Nodes
      BY <1>1, <1>2, LenProperties
    <2> QED
      BY <2>1, <2>2, SubSeqProperties
  <1>4. GreyLen' = k + Cardinality(greyForeign)
    BY <1>3 DEF PopGrey, foreignVars, GreyLen
  <1> QED
    BY <1>2, <1>4, GreyLenFacts

(* Scanning a place pushes no more places than it has words.               *)
LEMMA ScanForeignLength ==
    ASSUME TypeOK, ScanForeign
    PROVE  \E n \in Nat \ {0}, k \in Nat :
              /\ GreyLen = k + 1 /\ greySize' = Checked(k, n)
              /\ GreyLen' \in Nat /\ GreyLen' <= k + n
  <1>1. PICK p \in greyForeign, n \in ForeignWords, found \in SUBSET (Places \ foreignUsed) :
           /\ Cardinality(found) <= n
           /\ greyForeign' = (greyForeign \ {p}) \cup found
           /\ greySize' = Checked(GreyLen - 1, n)
    BY DEF ScanForeign
  <1> DEFINE rest == greyForeign \ {p}
  <1>2. IsFiniteSet(found) /\ Cardinality(found) \in Nat
    BY FS_Subset, FS_CardinalityType, ForeignAssumption
  <1>3. /\ IsFiniteSet(rest) /\ Cardinality(rest) \in Nat
        /\ Cardinality(greyForeign) = Cardinality(rest) + 1
    <2>1. IsFiniteSet(rest) /\ Cardinality(rest) = Cardinality(greyForeign) - 1
      BY <1>1, GreyLenFacts, FS_RemoveElement
    <2>2. Cardinality(rest) \in Nat
      BY <2>1, FS_CardinalityType
    <2> QED
      BY <2>1, <2>2, GreyLenFacts
  <1>4. /\ Cardinality(rest \cup found) \in Nat
        /\ Cardinality(rest \cup found) <= Cardinality(rest) + Cardinality(found)
    <2>1. /\ IsFiniteSet(rest \cup found) /\ IsFiniteSet(rest \cap found)
          /\ Cardinality(rest \cup found) =
                Cardinality(rest) + Cardinality(found) - Cardinality(rest \cap found)
      BY <1>2, <1>3, FS_Union, FS_Intersection
    <2>2. Cardinality(rest \cup found) \in Nat /\ Cardinality(rest \cap found) \in Nat
      BY <2>1, FS_CardinalityType
    <2> HIDE DEF rest
    <2> QED
      BY <1>2, <1>3, <2>1, <2>2
  <1> DEFINE k == Len(grey) + Cardinality(rest)
  <1>5. n \in Nat \ {0}
    BY ForeignAssumption
  <1>6. GreyLen' = Len(grey) + Cardinality(rest \cup found)
    BY <1>1 DEF GreyLen, ScanForeign
  <1> HIDE DEF rest
  <1>7. k \in Nat /\ GreyLen = k + 1 /\ GreyLen - 1 = k
    BY <1>3, GreyLenFacts
  <1>8. GreyLen' \in Nat /\ GreyLen' <= k + n
    <2>1. \A l, r, f, u \in Nat : u <= r + f /\ f <= n => l + u \in Nat /\ l + u <= l + r + n
      BY <1>5
    <2>2. Len(grey) \in Nat
      BY GreyLenFacts
    <2>3. Len(grey) + Cardinality(rest) + n = k + n
      OBVIOUS
    <2> HIDE DEF k
    <2> QED
      BY <1>1, <1>2, <1>3, <1>4, <1>6, <2>1, <2>2, <2>3
  <1> HIDE DEF k
  <1> QED
    BY <1>1, <1>5, <1>7, <1>8

(* Whenever gc_add_grey is called there is room for the entry it pushes,   *)
(* if the stable pointers fit.                                             *)
LEMMA RoomStep ==
    ASSUME IInv, [Next]_vars
    PROVE  Room'
  <1> USE BoundsAssumption, SavingAssumption
  <1>1. TypeOK /\ Room /\ (pc = "idle" => Idle)
    BY DEF IInv
  <1>2. /\ Len(rootStack) \in Nat /\ Len(gcStack) \in Nat /\ Len(stable) \in Nat
        /\ greySize \in Nat /\ idx \in Nat \ {0} /\ word \in Nat /\ GreyLen \in Nat
    BY <1>1, GreyLenFacts DEF TypeOK, Ptrs
  <1>3. ASSUME NoGrey', cur' = NoNode, greySize' \in Nat,
               pc' \notin {"roots", "stables", "slots"}
        PROVE  Room'
    <2>1. GreyLen' = 0
      BY <1>3, FS_EmptySet DEF NoGrey, GreyLen
    <2> QED
      BY <1>3, <2>1 DEF Room, RoomForRoots, RoomForWords
  <1>4. CASE Mutator
    <2>1. pc = "idle" /\ pc' = "idle" /\ UNCHANGED <<grey, greyForeign, greySize, cur>>
      BY <1>4 DEF Mutator, DropSlot, Alloc, LoadField, StoreField, Follow, Update,
                  LoadCaf, UpdateCaf, NewStable, FreeStable, DerefStable, gcVars, foreignVars
    <2>2. NoGrey' /\ cur' = NoNode /\ greySize' \in Nat
      BY <1>1, <1>2, <2>1 DEF Idle, NoGrey
    <2> QED
      BY <1>3, <2>1, <2>2
  <1>5. CASE StartGC
    <2>1. NoGrey /\ cur = NoNode
      BY <1>1, <1>5 DEF StartGC, Idle
    <2>2. /\ UNCHANGED <<grey, greyForeign, cur, rootStack, stable>>
          /\ idx' = 1 /\ pc' = "roots"
          /\ greySize' = IF 0 < Len(rootStack) THEN Len(rootStack) + StackGrow ELSE 0
      BY <1>5 DEF StartGC, mutVars, foreignVars
    <2>3. GreyLen' = 0 /\ cur' = NoNode
      BY <2>1, <2>2, FS_EmptySet DEF NoGrey, GreyLen
    <2>4. StablesFit' => GreyLen' <= greySize' /\ RoomForRoots'
      <3> SUFFICES ASSUME StablesFit PROVE GreyLen' <= greySize' /\ RoomForRoots'
        BY <2>2 DEF StablesFit
      <3>1. CASE rootStack # << >>
        <4>1. 0 < Len(rootStack)
          BY <1>1, <1>2, <3>1 DEF TypeOK
        <4>2. SavingMallocHeap \/ Len(stable) <= StackGrow
          BY <1>2, <3>1 DEF StablesFit
        <4>3. greySize' = Len(rootStack) + StackGrow
          BY <2>2, <4>1
        <4> QED
          BY <1>2, <2>2, <2>3, <4>1, <4>2, <4>3 DEF RoomForRoots
      <3>2. CASE rootStack = << >>
        <4>1. stable = << >> /\ Len(rootStack) = 0 /\ Len(stable) = 0
          BY <3>2 DEF StablesFit
        <4> QED
          BY <2>2, <2>3, <3>2, <4>1 DEF RoomForRoots
      <3> QED
        BY <3>1, <3>2
    <2> QED
      BY <2>2, <2>3, <2>4 DEF Room, RoomForWords
  <1>6. CASE MarkRoot
    <2>1. /\ UNCHANGED <<rootStack, gcStack, stable, pc, greyForeign, greySize, cur, word>>
          /\ idx' = idx + 1 /\ pc = "roots" /\ idx <= Len(rootStack)
          /\ AddGrey(rootStack[idx], used)
          /\ ReadyForRoot
      BY <1>6 DEF MarkRoot, mutVars, foreignVars
    <2>2. GreyLen' \in Nat /\ GreyLen' <= GreyLen + 1
      BY <1>1, <2>1, AddGreyLength DEF TypeOK
    <2>3. SavingMallocHeap => GreyLen = 0 /\ cur = NoNode
      BY <2>1, EmptyGrey DEF ReadyForRoot
    <2>4. cur = NoNode
      BY <1>1, <2>1, <2>3 DEF Room
    <2>5. ASSUME StablesFit PROVE GreyLen' <= greySize' /\ RoomForRoots'
      <3>1. CASE SavingMallocHeap
        <4>1. rootStack # << >>
          BY <1>2, <2>1
        <4>2. 1 <= greySize
          BY <1>1, <2>1, <2>5, <3>1, <4>1 DEF Room, RoomForRoots
        <4> QED
          BY <1>2, <2>1, <2>2, <2>3, <3>1, <4>2 DEF RoomForRoots
      <3>2. CASE ~SavingMallocHeap
        <4>1. GreyLen + (Len(rootStack) + 1 - idx) + Len(stable) <= greySize
          BY <1>1, <2>1, <2>5, <3>2 DEF Room, RoomForRoots
        <4> QED
          BY <1>2, <2>1, <2>2, <3>2, <4>1 DEF RoomForRoots
      <3> QED
        BY <3>1, <3>2
    <2> QED
      BY <2>1, <2>4, <2>5 DEF Room, StablesFit, RoomForWords
  <1>7. CASE RootsDone
    <2>1. /\ UNCHANGED <<rootStack, stable, grey, greyForeign, greySize, cur>>
          /\ idx' = 1 /\ pc' = "stables" /\ pc = "roots" /\ idx > Len(rootStack)
          /\ ReadyForRoot
      BY <1>7 DEF RootsDone, mutVars, foreignVars
    <2>2. GreyLen' = GreyLen /\ StablesFit' = StablesFit
      BY <2>1 DEF GreyLen, StablesFit
    <2>3. cur = NoNode
      BY <1>1, <2>1 DEF Room, ReadyForRoot
    <2>4. ASSUME StablesFit PROVE GreyLen' <= greySize' /\ RoomForRoots'
      <3>1. GreyLen <= greySize /\ RoomForRoots
        BY <1>1, <2>4 DEF Room
      <3>2. CASE SavingMallocHeap
        BY <2>1, <2>2, <3>1, <3>2 DEF RoomForRoots
      <3>3. CASE ~SavingMallocHeap
        <4>1. /\ idx <= Len(rootStack) + 1
              /\ GreyLen + (Len(rootStack) + 1 - idx) + Len(stable) <= greySize
          BY <2>1, <3>1, <3>3 DEF RoomForRoots
        <4>2. GreyLen + Len(stable) <= greySize
          BY <1>2, <2>1, <4>1
        <4>3. GreyLen' + (Len(stable)' + 1 - idx') <= greySize'
          BY <1>2, <2>1, <2>2, <4>2
        <4> QED
          BY <2>1, <2>2, <3>1, <3>3, <4>3 DEF RoomForRoots
      <3> QED
        BY <3>2, <3>3
    <2> QED
      BY <2>1, <2>2, <2>3, <2>4 DEF Room, RoomForWords
  <1>8. CASE MarkStable
    <2>1. /\ UNCHANGED <<rootStack, gcStack, stable, pc, greySize, cur, word>>
          /\ idx' = idx + 1 /\ pc = "stables" /\ idx <= Len(stable)
          /\ ReadyForRoot
      BY <1>8 DEF MarkStable, mutVars
    <2>2. GreyLen' \in Nat /\ GreyLen' <= GreyLen + 1
      BY <1>1, <1>8, MarkStableLength
    <2>3. SavingMallocHeap => GreyLen = 0 /\ cur = NoNode
      BY <2>1, EmptyGrey DEF ReadyForRoot
    <2>4. cur = NoNode
      BY <1>1, <2>1, <2>3 DEF Room
    <2>5. ASSUME StablesFit PROVE GreyLen' <= greySize' /\ RoomForRoots'
      <3>1. CASE SavingMallocHeap
        <4>1. rootStack # << >>
          <5>1. stable # << >>
            BY <1>2, <2>1
          <5> QED
            BY <2>5, <5>1 DEF StablesFit
        <4>2. 1 <= greySize
          BY <1>1, <2>1, <2>5, <3>1, <4>1 DEF Room, RoomForRoots
        <4> QED
          BY <1>2, <2>1, <2>2, <2>3, <3>1, <4>2 DEF RoomForRoots
      <3>2. CASE ~SavingMallocHeap
        <4>1. GreyLen + (Len(stable) + 1 - idx) <= greySize
          BY <1>1, <2>1, <2>5, <3>2 DEF Room, RoomForRoots
        <4> QED
          BY <1>2, <2>1, <2>2, <3>2, <4>1 DEF RoomForRoots
      <3> QED
        BY <3>1, <3>2
    <2> QED
      BY <2>1, <2>4, <2>5 DEF Room, StablesFit, RoomForWords
  <1>9. CASE StablesDone
    <2> DEFINE k == IF SavingMallocHeap THEN 1 ELSE Len(gcStack)
    <2>1. /\ UNCHANGED <<rootStack, stable, gcStack, grey, greyForeign, cur>>
          /\ idx' = 1 /\ pc' = "slots" /\ pc = "stables" /\ greySize' = Checked(GreyLen, k)
          /\ ReadyForRoot
      BY <1>9 DEF StablesDone, mutVars, foreignVars
    <2>2. GreyLen' = GreyLen /\ StablesFit' = StablesFit
      BY <2>1 DEF GreyLen, StablesFit
    <2>3. cur = NoNode
      BY <1>1, <2>1 DEF Room, ReadyForRoot
    <2>4. ASSUME StablesFit PROVE GreyLen' <= greySize' /\ RoomForRoots'
      <3>1. GreyLen <= greySize
        BY <1>1, <2>4 DEF Room
      <3>2. k \in Nat
        BY <1>2
      <3> HIDE DEF k
      <3>3. GreyLen + k <= greySize' /\ greySize' \in Nat
        BY <1>1, <1>2, <2>1, <3>1, <3>2, CheckedFacts
      <3>4. GreyLen' <= greySize'
        BY <1>2, <2>2, <3>2, <3>3
      <3> USE DEF k
      <3>5. CASE SavingMallocHeap
        BY <1>2, <2>1, <3>3, <3>4, <3>5 DEF RoomForRoots
      <3>6. CASE ~SavingMallocHeap
        <4>1. GreyLen' + (Len(gcStack)' + 1 - idx') <= greySize'
          BY <1>2, <2>1, <2>2, <3>3, <3>6
        <4> QED
          BY <2>1, <3>4, <3>6, <4>1 DEF RoomForRoots
      <3> QED
        BY <3>5, <3>6
    <2> QED
      BY <2>1, <2>2, <2>3, <2>4 DEF Room, RoomForWords
  <1>10. CASE MarkSlot
    <2>1. /\ UNCHANGED <<rootStack, gcStack, stable, pc, greyForeign, greySize, cur, word>>
          /\ idx' = idx + 1 /\ pc = "slots" /\ idx <= Len(gcStack)
          /\ AddGrey(ShortCircuit(gcStack[idx]).to, used \cup Kept(gcStack[idx]))
          /\ ReadyForRoot
      BY <1>10 DEF MarkSlot, mutVars, foreignVars
    <2>2. GreyLen' \in Nat /\ GreyLen' <= GreyLen + 1
      <3>1. used \cup Kept(gcStack[idx]) \in SUBSET Nodes
        BY <1>1 DEF Kept, TypeOK
      <3> QED
        BY <1>1, <2>1, <3>1, AddGreyLength
    <2>3. SavingMallocHeap => GreyLen = 0 /\ cur = NoNode
      BY <2>1, EmptyGrey DEF ReadyForRoot
    <2>4. cur = NoNode
      BY <1>1, <2>1, <2>3 DEF Room
    <2>5. ASSUME StablesFit PROVE GreyLen' <= greySize' /\ RoomForRoots'
      <3>1. CASE SavingMallocHeap
        <4>1. 1 <= greySize
          BY <1>1, <2>1, <2>5, <3>1 DEF Room, RoomForRoots
        <4> QED
          BY <1>2, <2>1, <2>2, <2>3, <3>1, <4>1 DEF RoomForRoots
      <3>2. CASE ~SavingMallocHeap
        <4>1. GreyLen + (Len(gcStack) + 1 - idx) <= greySize
          BY <1>1, <2>1, <2>5, <3>2 DEF Room, RoomForRoots
        <4> QED
          BY <1>2, <2>1, <2>2, <3>2, <4>1 DEF RoomForRoots
      <3> QED
        BY <3>1, <3>2
    <2> QED
      BY <2>1, <2>4, <2>5 DEF Room, StablesFit, RoomForWords
  <1>11. CASE SlotsDone
    <2>1. /\ UNCHANGED <<rootStack, stable, grey, greyForeign, greySize, cur, word>>
          /\ pc' = "deeper"
      BY <1>11 DEF SlotsDone, mutVars, foreignVars
    <2>2. GreyLen' = GreyLen
      BY <2>1 DEF GreyLen
    <2> QED
      BY <1>1, <2>1, <2>2 DEF Room, StablesFit, RoomForRoots, RoomForWords
  (* Where the stack is being drained there is room for the next root if   *)
  (* there was, as the array never shrinks.                                *)
  <1>12. ASSUME Draining, UNCHANGED <<rootStack, stable, pc>>,
                greySize' \in Nat, greySize <= greySize', RoomForRoots
         PROVE  RoomForRoots'
    <2>1. CASE SavingMallocHeap
      <3>1. 1 <= greySize => 1 <= greySize'
        BY <1>2, <1>12
      <3> QED
        BY <1>12, <2>1, <3>1 DEF RoomForRoots
    <2>2. CASE ~SavingMallocHeap
      BY <1>12, <2>2 DEF Draining, RoomForRoots
    <2> QED
      BY <2>1, <2>2
  <1>13. CASE PopGrey
    <2>1. /\ UNCHANGED <<rootStack, stable, pc>> /\ word' = 1 /\ Draining
          /\ greySize' = Checked(GreyLen - 1, MaxPtrs)
      BY <1>13 DEF PopGrey, mutVars
    <2>2. GreyLen' \in Nat /\ GreyLen = GreyLen' + 1
      BY <1>1, <1>13, PopGreyLength
    <2>3. ASSUME StablesFit PROVE GreyLen' <= greySize' /\ RoomForRoots' /\ RoomForWords'
      <3>1. GreyLen <= greySize /\ RoomForRoots
        BY <1>1, <2>3 DEF Room
      <3>2. GreyLen' <= greySize /\ GreyLen - 1 = GreyLen'
        <4>1. \A k, l, size \in Nat : l = k + 1 /\ l <= size => k <= size /\ l - 1 = k
          OBVIOUS
        <4>2. greySize \in Nat /\ GreyLen \in Nat /\ GreyLen <= greySize
          BY <1>2, <3>1
        <4> QED
          BY <2>2, <4>1, <4>2
      <3>3. /\ GreyLen' + MaxPtrs <= greySize' /\ greySize <= greySize' /\ greySize' \in Nat
        <4>1. MaxPtrs \in Nat
          OBVIOUS
        <4> QED
          BY <1>1, <2>1, <2>2, <3>2, <4>1, CheckedFacts
      <3>4. GreyLen' <= greySize' /\ RoomForWords'
        BY <2>1, <2>2, <3>3 DEF RoomForWords
      <3> QED
        BY <1>12, <2>1, <3>1, <3>3, <3>4
    <2>4. ~SavingMallocHeap => pc' = "deeper"
      BY <2>1 DEF Draining
    <2> QED
      BY <2>1, <2>3, <2>4 DEF Room, StablesFit
  <1>14. CASE ScanWord
    <2>1. /\ UNCHANGED <<rootStack, gcStack, stable, pc, greyForeign, greySize, idx>>
          /\ cur # NoNode
          /\ AddGrey(ShortCircuit(field[cur][word]).to, used)
      BY <1>14 DEF ScanWord, foreignVars
    <2>2. GreyLen' \in Nat /\ GreyLen' <= GreyLen + 1
      BY <1>1, <2>1, AddGreyLength DEF TypeOK
    <2>3. (cur' = cur /\ word' = word + 1 /\ word < MaxPtrs) \/ cur' = NoNode
      BY <1>14 DEF ScanWord, MoreWords
    <2>4. word <= MaxPtrs
      BY <1>1 DEF TypeOK, Ptrs
    <2>5. ~SavingMallocHeap => pc \notin {"roots", "stables", "slots"}
      BY <1>1, <2>1 DEF Room
    <2>6. ASSUME StablesFit PROVE GreyLen' <= greySize' /\ RoomForRoots' /\ RoomForWords'
      <3>1. RoomForRoots /\ GreyLen + (MaxPtrs - word) + 1 <= greySize
        BY <1>1, <2>1, <2>6 DEF Room, RoomForWords
      <3>2. GreyLen' <= greySize'
        BY <1>2, <2>1, <2>2, <2>4, <3>1
      <3>3. RoomForWords'
        BY <1>2, <2>1, <2>2, <2>3, <2>4, <3>1 DEF RoomForWords
      <3>4. RoomForRoots'
        BY <2>1, <2>5, <3>1 DEF RoomForRoots
      <3> QED
        BY <3>2, <3>3, <3>4
    <2> QED
      BY <2>1, <2>5, <2>6 DEF Room, StablesFit
  <1>15. CASE ScanForeign
    <2>1. /\ UNCHANGED <<rootStack, stable, pc, cur>> /\ Draining /\ cur = NoNode
      BY <1>15 DEF ScanForeign, mutVars
    <2>2. PICK n \in Nat \ {0}, k \in Nat :
             /\ GreyLen = k + 1 /\ greySize' = Checked(k, n)
             /\ GreyLen' \in Nat /\ GreyLen' <= k + n
      BY <1>1, <1>15, ScanForeignLength
    <2>3. ASSUME StablesFit PROVE GreyLen' <= greySize' /\ RoomForRoots'
      <3>1. GreyLen <= greySize /\ RoomForRoots
        BY <1>1, <2>3 DEF Room
      <3>2. k <= greySize
        BY <1>2, <2>2, <3>1
      <3>3. k + n <= greySize' /\ greySize <= greySize' /\ greySize' \in Nat
        BY <1>1, <2>2, <3>2, CheckedFacts
      <3>4. GreyLen' <= greySize'
        BY <2>2, <3>3
      <3> QED
        BY <1>12, <2>1, <3>1, <3>3, <3>4
    <2> QED
      BY <2>1, <2>3 DEF Room, StablesFit, RoomForWords
  <1>16. CASE Sweep
    <2>1. NoGrey' /\ cur' = NoNode /\ pc' = "idle" /\ greySize' = 0
      BY <1>16 DEF Sweep, NoGrey
    <2> QED
      BY <1>3, <2>1
  <1>17. CASE Trap
    <2>1. NoGrey' /\ cur' = NoNode /\ pc' = "trapped" /\ greySize' = 0
      BY <1>17 DEF Trap, NoGrey
    <2> QED
      BY <1>3, <2>1
  <1>18. CASE UNCHANGED vars
    <2>1. UNCHANGED <<mutVars, pc, grey, greyForeign, greySize, idx, cur, word>>
      BY <1>18 DEF vars, gcVars, foreignVars
    <2> QED
      BY <1>1, <2>1 DEF mutVars, Room, GreyLen, StablesFit, RoomForRoots, RoomForWords
  <1> QED
    BY <1>4, <1>5, <1>6, <1>7, <1>8, <1>9, <1>10, <1>11, <1>13, <1>14, <1>15, <1>16,
       <1>17, <1>18 DEF Next, Collect

-----------------------------------------------------------------------------
(* The inductive invariant.                                                *)

LEMMA InitIInv == Init => IInv
  <1> SUFFICES ASSUME Init PROVE IInv
    OBVIOUS
  <1> USE NodesAssumption, BoundsAssumption DEF Init
  <1>1. TypeOK
    BY DEF TypeOK, NoFields, SPtr, WPtr, FPtr, Ptrs
  <1>2. NoDangling
    BY DEF NoDangling, SlotsSound, Slots, RootsSound, CafsSound, FieldsSound, HeadsSound,
           Sound, Code
  <1>3. NeverScansStale
    BY DEF NeverScansStale
  <1>4. Idle
    BY DEF Idle, NoGrey
  <1>5. Room
    BY FS_EmptySet DEF Room, GreyLen, RoomForRoots, RoomForWords
  <1> QED
    BY <1>1, <1>2, <1>3, <1>4, <1>5 DEF IInv, Tracing

(* Between collections the program's steps keep the grey stack empty and   *)
(* the used bits in step with what is allocated.                           *)
LEMMA MutatorIdle ==
    ASSUME TypeOK, NeverScansStale, Idle, Mutator
    PROVE  Idle' /\ NeverScansStale' /\ pc' = "idle"
  <1>1. pc' = "idle" /\ UNCHANGED <<grey, greyForeign, cur>>
    BY DEF Mutator, DropSlot, Alloc, LoadField, StoreField, Follow, Update,
           LoadCaf, UpdateCaf, NewStable, FreeStable, DerefStable, gcVars, foreignVars
  <1>2. \A n \in Nodes : kind'[n] # "free" => n \in used'
    <2> SUFFICES ASSUME NEW n \in Nodes, kind'[n] # "free"
                 PROVE  n \in used'
      OBVIOUS
    <2>1. /\ kind \in [Nodes -> {"free", "atom", "con", "thunk", "ind"}]
          /\ (kind[n] # "free" => n \in used)
      <3>1. pc = "idle"
        BY DEF Mutator, DropSlot, Alloc, LoadField, StoreField, Follow, Update,
               LoadCaf, UpdateCaf, NewStable, FreeStable, DerefStable
      <3> QED
        BY <3>1 DEF Idle, TypeOK
    <2>2. CASE UNCHANGED <<kind, used>>
      BY <2>1, <2>2
    <2>3. ASSUME NEW m, NEW k, NEW f, Alloc(m, k, f) PROVE n \in used'
      BY <2>1, <2>3 DEF Alloc
    <2>4. ASSUME NEW s, NEW t, Update(s, t) PROVE n \in used'
      BY <2>1, <2>4 DEF Update, gcVars
    <2> QED
      <3>1. \/ UNCHANGED <<kind, used>>
            \/ \E m, k, f : Alloc(m, k, f)
            \/ \E s, t : Update(s, t)
        BY DEF Mutator, DropSlot, LoadField, StoreField, Follow, LoadCaf, UpdateCaf,
               NewStable, FreeStable, DerefStable, gcVars
      <3> QED
        BY <2>2, <2>3, <2>4, <3>1
  <1> QED
    BY <1>1, <1>2 DEF Idle, NoGrey, NeverScansStale

LEMMA NextIInv == IInv /\ [Next]_vars => IInv'
  <1> SUFFICES ASSUME IInv, [Next]_vars PROVE IInv'
    OBVIOUS
  <1>1. TypeOK' /\ Room'
    BY TypeStep, RoomStep DEF IInv
  <1>2. CASE Mutator
    <2>1. pc = "idle"
      BY <1>2 DEF Mutator, DropSlot, Alloc, LoadField, StoreField, Follow, Update,
                  LoadCaf, UpdateCaf, NewStable, FreeStable, DerefStable
    <2> QED
      BY <1>1, <1>2, <2>1, MutatorSound, MutatorIdle DEF IInv, Tracing
  <1>3. CASE StartGC
    BY <1>1, <1>3, StartStep DEF IInv, StartGC, Tracing
  <1>4. CASE \/ MarkRoot \/ RootsDone \/ MarkStable \/ StablesDone \/ MarkSlot \/ SlotsDone
             \/ PopGrey \/ ScanWord \/ ScanForeign
    <2>1. Tracing
      <3>1. CASE ScanWord
        BY <3>1 DEF ScanWord, IInv, Idle, TypeOK, Tracing
      <3> QED
        BY <1>4, <3>1
           DEF MarkRoot, RootsDone, MarkStable, StablesDone, MarkSlot, SlotsDone,
               PopGrey, ScanForeign, Draining, Tracing
    <2> QED
      BY <1>1, <1>4, <2>1, MarkingStep DEF IInv, Tracing
  <1>5. CASE Sweep
    <2>1. Tracing /\ pc' = "idle"
      BY <1>5 DEF Sweep, Tracing
    <2> QED
      BY <1>1, <1>5, <2>1, SweepStep DEF IInv, Tracing
  <1>7. CASE Trap
    <2>1. UNCHANGED mutVars /\ grey' = << >> /\ cur' = NoNode /\ pc' = "trapped"
      BY <1>7 DEF Trap
    <2>2. NoDangling' /\ NeverScansStale'
      BY <2>1 DEF IInv, mutVars, NoDangling, Sound, SlotsSound, Slots,
                  RootsSound, CafsSound, FieldsSound, HeadsSound, NeverScansStale
    <2> QED
      BY <1>1, <2>1, <2>2 DEF IInv, Tracing
  <1>6. CASE UNCHANGED vars
    <2>1. NoDangling' /\ NeverScansStale'
      BY <1>6 DEF IInv, vars, mutVars, gcVars, foreignVars, NoDangling, Sound, SlotsSound, Slots,
                  RootsSound, CafsSound, FieldsSound, HeadsSound, NeverScansStale
    <2>2. (pc' = "idle" => Idle') /\ (Tracing' => Marking')
      BY <1>6 DEF IInv, vars, mutVars, gcVars, foreignVars, Idle, NoGrey, Tracing, Marking,
                  GreyUsed, BlackTraced, CurTraced, RootsMarked, SlotsMarked, IndMarked,
                  InGrey, Traced, ShortCircuit, HeadOf, Slots
    <2>3. pc' = "trapped" => cur' = NoNode
      BY <1>6 DEF IInv, vars, gcVars
    <2> QED
      BY <1>1, <2>1, <2>2, <2>3 DEF IInv
  <1> QED
    BY <1>2, <1>3, <1>4, <1>5, <1>6, <1>7 DEF Next, Collect

LEMMA Invariant == Spec => []IInv
  BY InitIInv, NextIInv, PTL DEF Spec

(* Every variable keeps its type, for any heap and any bounds.             *)
THEOREM Typing == Spec => []TypeOK
  BY Invariant, PTL DEF IInv

(* No collection reclaims what the program can still reach: whatever the   *)
(* program does and whenever gc_perform_gc is called, every word that may  *)
(* be followed leads to an allocated entry of the kind its tag says.       *)
THEOREM Safety == Spec => []NoDangling
  BY Invariant, PTL DEF IInv

(* gc_mark_deeper never scans the stale words of an evaluated thunk.       *)
THEOREM StaleUnscanned == Spec => []NeverScansStale
  BY Invariant, PTL DEF IInv

(* The unchecked push of gc_add_grey never leaves the memory that the      *)
(* stack_check calls obtained, with either way of draining the stack, as   *)
(* long as the stable pointers, which no stack_check counts, fit in the    *)
(* slack that was left behind the values of CAFs.                          *)
THEOREM GreyStackFits == Spec => []GreyFits
  <1>1. IInv => GreyFits
    BY DEF IInv, Room, GreyFits
  <1> QED
    BY <1>1, Invariant, PTL

=============================================================================
