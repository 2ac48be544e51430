------------------------ MODULE CollectorHeapProofs ------------------------
(***************************************************************************)
(* For every heap, every set of CAFs and every bound: a collection marks   *)
(* exactly what the program can reach, and the collector implements the    *)
(* heap of module LazyHeap, in which nothing is ever redirected and        *)
(* nothing that can be reached is ever reclaimed.                          *)
(*                                                                         *)
(* Besides the invariant of CollectorProofs this takes two facts: an       *)
(* entry without pointers holds none, and while the collector marks, only  *)
(* reachable entries have their used bit set.                              *)
(***************************************************************************)
EXTENDS CollectorProofs

AtomsBare == \A n \in Nodes : kind[n] \in {"free", "atom"} => field[n] = NoFields

OnlyReachable == pc # "idle" => used \subseteq Reachable

-----------------------------------------------------------------------------
(* What the collector may follow is what the program can reach.            *)

(* Entries that are not a redirection have the short-circuited fields for  *)
(* edges, and those fields are sound pointers.                             *)
LEMMA FieldFacts ==
    ASSUME TypeOK, NoDangling, AtomsBare, NEW n \in Nodes, kind[n] # "ind", NEW p \in Ptrs
    PROVE  field[n][p] \in SPtr /\ Sound(field[n][p])
  <1>1. CASE kind[n] \in {"con", "thunk"}
    BY <1>1 DEF NoDangling, FieldsSound, TypeOK
  <1>2. CASE kind[n] \in {"free", "atom"}
    <2>1. field[n][p] = Raw
      BY <1>2 DEF AtomsBare, NoFields
    <2> QED
      BY <2>1 DEF Raw, SPtr, WPtr, Sound
  <1> QED
    BY <1>1, <1>2 DEF TypeOK

LEMMA RawFacts == ShortCircuit(Raw) = Raw /\ Raw.to \notin Nodes
  BY NodesAssumption DEF ShortCircuit, Raw

(* The roots and whatever a reachable entry points to are reachable.       *)
LEMMA ReachableFacts ==
    /\ Reachable \subseteq Nodes
    /\ RootSet \cap Nodes \subseteq Reachable
    /\ \A n \in Reachable : Edges(n) \cap Nodes \subseteq Reachable
  BY DEF Reachable, Closed

(* gc_perform_gc removes redirections, but moves nothing in or out of      *)
(* reach.                                                                  *)
LEMMA ReachableKept ==
    ASSUME RootSet' = RootSet, \A n \in Nodes : Edges(n)' = Edges(n)
    PROVE  Reachable' = Reachable
  <1>1. \A S \in SUBSET Nodes : Closed(S)' <=> Closed(S)
    BY DEF Closed
  <1> QED
    BY <1>1 DEF Reachable

(* The field that gc_mark_deeper has just written.                         *)
LEMMA ScannedFields ==
    ASSUME IInv, ScanWord
    PROVE  /\ cur \in Nodes /\ cur \in used /\ kind[cur] \in {"con", "thunk"} /\ word \in Ptrs
           /\ field[cur][word] \in SPtr /\ Sound(field[cur][word])
           /\ \A n \in Nodes, p \in Ptrs : ShortCircuit(field'[n][p]) = ShortCircuit(field[n][p])
           /\ \A n \in Nodes : kind[n] \in {"free", "atom"} => field'[n] = field[n]
  <1> DEFINE v == field[cur][word]
  <1>1. Tracing
    BY DEF ScanWord, IInv, Idle, TypeOK, Tracing
  <1>2. cur \in Nodes /\ cur \in used /\ kind[cur] \in {"con", "thunk"} /\ word \in Ptrs
    BY <1>1 DEF ScanWord, IInv, TypeOK, Marking, GreyUsed, NeverScansStale
  <1>3. v \in SPtr /\ Sound(v)
    BY <1>2 DEF IInv, TypeOK, NoDangling, FieldsSound
  <1>4. ShortCircuit(ShortCircuit(v)) = ShortCircuit(v)
    BY <1>3, ShortCircuitSound DEF IInv
  <1>5. /\ field'[cur][word] = ShortCircuit(v)
        /\ \A n \in Nodes, p \in Ptrs : n # cur \/ p # word => field'[n][p] = field[n][p]
        /\ \A n \in Nodes : n # cur => field'[n] = field[n]
    BY <1>2 DEF ScanWord, IInv, TypeOK
  <1> HIDE DEF v
  <1>6. ASSUME NEW n \in Nodes, NEW p \in Ptrs
        PROVE  ShortCircuit(field'[n][p]) = ShortCircuit(field[n][p])
    BY <1>4, <1>5, <1>6 DEF v
  <1> QED
    BY <1>2, <1>3, <1>5, <1>6 DEF v

(* A step of the collector that is not the last leaves the reachable       *)
(* entries as they are.                                                    *)
LEMMA CollectKeeps ==
    ASSUME IInv,
           \/ UNCHANGED mutVars
           \/ ScanWord
    PROVE  /\ Reachable' = Reachable
           /\ \A v : ShortCircuit(v)' = ShortCircuit(v)
           /\ UNCHANGED <<kind, head, cafHead, gcStack, rootStack>>
  <1>1. UNCHANGED <<kind, head, cafHead, gcStack, rootStack>>
    BY DEF mutVars, ScanWord
  <1>2. \A v : ShortCircuit(v)' = ShortCircuit(v)
    BY <1>1 DEF ShortCircuit, HeadOf
  <1>3. RootSet' = RootSet
    BY <1>1, <1>2 DEF RootSet, Slots
  <1>4. \A n \in Nodes, p \in Ptrs : ShortCircuit(field'[n][p]) = ShortCircuit(field[n][p])
    <2>1. CASE UNCHANGED mutVars
      BY <2>1 DEF mutVars
    <2>2. CASE ScanWord
      BY <2>2, ScannedFields
    <2> QED
      BY <2>1, <2>2
  <1>5. \A n \in Nodes, p \in Ptrs : ShortCircuit(field[n][p])' = ShortCircuit(field[n][p])
    BY <1>1, <1>4 DEF ShortCircuit, HeadOf
  <1>6. \A n \in Nodes : Edges(n)' = Edges(n)
    BY <1>1, <1>5 DEF Edges
  <1> QED
    BY <1>1, <1>2, <1>3, <1>6, ReachableKept

(* gc_add_grey of something reachable, with redirections that are.         *)
LEMMA AddGreyReachable ==
    ASSUME TypeOK, NEW n, NEW marked \in SUBSET Nodes, AddGrey(n, marked),
           marked \subseteq Reachable, n \in Nodes => n \in Reachable
    PROVE  used' \subseteq Reachable
  BY AddGreyEffect

LEMMA ExactStep ==
    ASSUME IInv, AtomsBare, OnlyReachable, [Next]_vars
    PROVE  AtomsBare' /\ OnlyReachable'
  <1> USE DEF IInv
  <1>1. CASE Mutator
    <2>1. pc' = "idle"
      BY <1>1 DEF Mutator, DropSlot, Alloc, LoadField, StoreField, Follow, Update,
                  LoadCaf, UpdateCaf, NewStable, FreeStable, DerefStable, gcVars
    <2>2. ASSUME NEW n \in Nodes, NEW k \in {"atom", "con", "thunk"},
                 NEW f \in [Ptrs -> {Raw} \cup {gcStack[s] : s \in Slots}], Alloc(n, k, f)
          PROVE  AtomsBare'
      BY <2>2 DEF Alloc, AtomsBare, TypeOK
    <2>3. ASSUME NEW s \in Slots, NEW t \in Slots, NEW p \in Ptrs, StoreField(s, p, t)
          PROVE  AtomsBare'
      BY <2>3 DEF StoreField, AtomsBare, TypeOK
    <2>4. ASSUME NEW s \in Slots, NEW t \in Slots, Update(s, t) PROVE AtomsBare'
      BY <2>4 DEF Update, AtomsBare, TypeOK
    <2>5. ASSUME UNCHANGED <<kind, field>> PROVE AtomsBare'
      BY <2>5 DEF AtomsBare
    <2> QED
      BY <1>1, <2>1, <2>2, <2>3, <2>4, <2>5
         DEF Mutator, DropSlot, LoadField, Follow, LoadCaf, UpdateCaf, NewStable,
             FreeStable, DerefStable, OnlyReachable
  <1>2. CASE StartGC
    BY <1>2 DEF StartGC, mutVars, AtomsBare, OnlyReachable
  <1>3. CASE MarkRoot
    <2>1. UNCHANGED mutVars /\ pc = "roots" /\ AddGrey(rootStack[idx], used)
      BY <1>3 DEF MarkRoot
    <2>2. idx \in DOMAIN rootStack
      BY <1>3 DEF MarkRoot, TypeOK
    <2>3. rootStack[idx] \in Nodes => rootStack[idx] \in Reachable
      BY <2>2, ReachableFacts DEF RootSet
    <2>4. used' \subseteq Reachable
      BY <2>1, <2>3, AddGreyReachable DEF OnlyReachable, TypeOK
    <2> QED
      BY <2>1, <2>4, CollectKeeps DEF OnlyReachable, AtomsBare, mutVars
  <1>4. CASE MarkSlot
    <2> DEFINE v == gcStack[idx]
    <2>1. /\ UNCHANGED mutVars /\ pc = "slots"
          /\ AddGrey(ShortCircuit(v).to, used \cup Kept(v))
      BY <1>4 DEF MarkSlot
    <2>2. idx \in Slots
      BY <1>4 DEF MarkSlot, TypeOK, Slots
    <2>3. ShortCircuit(v).to \in Nodes => ShortCircuit(v).to \in Reachable
      BY <2>2, ReachableFacts DEF RootSet
    <2>4. Kept(v) \subseteq Reachable /\ Kept(v) \in SUBSET Nodes
      BY <2>2, ReachableFacts DEF RootSet, Kept
    <2> HIDE DEF v
    <2>5. used' \subseteq Reachable
      <3>1. used \cup Kept(v) \in SUBSET Nodes /\ used \cup Kept(v) \subseteq Reachable
        BY <2>1, <2>4 DEF OnlyReachable, TypeOK
      <3> QED
        BY <2>1, <2>3, <3>1, AddGreyReachable
    <2> QED
      BY <2>1, <2>5, CollectKeeps DEF OnlyReachable, AtomsBare, mutVars
  <1>5. CASE ScanWord
    <2> DEFINE n == ShortCircuit(field[cur][word]).to
    <2>1. cur \in Nodes /\ cur \in used /\ kind[cur] \in {"con", "thunk"} /\ word \in Ptrs
      BY <1>5, ScannedFields
    <2>2. pc # "idle" /\ AddGrey(n, used)
      BY <1>5 DEF ScanWord, Idle
    <2>3. n \in Edges(cur) /\ cur \in Reachable
      BY <2>1, <2>2 DEF Edges, OnlyReachable
    <2>4. n \in Nodes => n \in Reachable
      BY <2>3, ReachableFacts
    <2> HIDE DEF n
    <2>5. used' \subseteq Reachable
      BY <2>2, <2>4, AddGreyReachable DEF OnlyReachable, TypeOK
    <2>6. AtomsBare'
      BY <1>5, ScannedFields, CollectKeeps DEF AtomsBare
    <2> QED
      BY <1>5, <2>5, <2>6, CollectKeeps DEF OnlyReachable
  <1>6. CASE \/ RootsDone \/ MarkStable \/ StablesDone \/ SlotsDone \/ PopGrey
             \/ ScanForeign
    <2>1. UNCHANGED <<mutVars, used>> /\ pc # "idle"
      BY <1>6 DEF RootsDone, MarkStable, StablesDone, SlotsDone, PopGrey, ScanForeign,
                  Draining
    <2> QED
      BY <2>1, CollectKeeps DEF OnlyReachable, AtomsBare, mutVars
  <1>7. CASE Sweep
    BY <1>7 DEF Sweep, AtomsBare, OnlyReachable
  <1>8. CASE UNCHANGED vars
    <2>1. UNCHANGED mutVars /\ used' = used /\ pc' = pc
      BY <1>8 DEF vars, gcVars
    <2> QED
      BY <2>1, CollectKeeps DEF OnlyReachable, AtomsBare, mutVars
  <1>9. CASE Trap
    BY <1>9, CollectKeeps DEF Trap, OnlyReachable, AtomsBare, mutVars
  <1> QED
    BY <1>1, <1>2, <1>3, <1>4, <1>5, <1>6, <1>7, <1>8, <1>9 DEF Next, Collect

(* The invariant of the proofs below.                                      *)
Exact == IInv /\ AtomsBare /\ OnlyReachable

LEMMA ExactInvariant == Spec => []Exact
  <1>1. Init => Exact
    BY InitIInv DEF Init, Exact, AtomsBare, OnlyReachable
  <1>2. Exact /\ [Next]_vars => Exact'
    BY NextIInv, ExactStep DEF Exact
  <1> QED
    BY <1>1, <1>2, PTL DEF Spec

(* Once nothing is left to scan, what is marked holds the roots and is     *)
(* closed under what its entries point to.                                 *)
LEMMA MarkedClosed ==
    ASSUME Exact, pc = "deeper", cur = NoNode, grey = << >>
    PROVE  Closed(used)
  <1> USE DEF Exact, IInv, Tracing
  <1>1. RootSet \cap Nodes \subseteq used
    BY DEF RootSet, Marking, RootsMarked, SlotsMarked
  <1>2. ASSUME NEW n \in used PROVE Edges(n) \cap Nodes \subseteq used
    <2>1. CASE kind[n] = "ind"
      BY <1>2, <2>1 DEF Edges, Marking, IndMarked
    <2>2. CASE kind[n] \in {"con", "thunk"}
      <3>1. n \in Nodes /\ n # cur /\ ~InGrey(n)
        BY <1>2, NodesAssumption DEF InGrey, TypeOK
      <3>2. \A p \in Ptrs : Traced(field[n][p])
        BY <1>2, <2>2, <3>1 DEF Marking, BlackTraced
      <3>3. \A p \in Ptrs : ShortCircuit(field[n][p]).to \in Nodes =>
                              ShortCircuit(field[n][p]).to \in used
        BY <3>2 DEF Traced
      <3> QED
        BY <2>2, <3>3 DEF Edges
    <2>3. CASE kind[n] \in {"free", "atom"}
      <3>1. \A p \in Ptrs : field[n][p] = Raw
        BY <1>2, <2>3 DEF AtomsBare, NoFields, TypeOK
      <3> QED
        BY <2>3, <3>1, RawFacts DEF Edges
    <2> QED
      BY <1>2, <2>1, <2>2, <2>3 DEF TypeOK
  <1> QED
    BY <1>1, <1>2 DEF Closed

(* At the end of marking the used bits are those of the reachable entries: *)
(* nothing the program needs is reclaimed, and no garbage is kept.         *)
THEOREM ExactMarking == Spec => []MarksExactly
  <1>1. ASSUME Exact PROVE MarksExactly
    <2> SUFFICES ASSUME pc = "deeper", cur = NoNode, grey = << >>
                 PROVE  used = Reachable
      BY DEF MarksExactly, NoGrey
    <2>1. Reachable \subseteq used
      BY <1>1, MarkedClosed DEF Reachable, Exact, IInv, TypeOK
    <2>2. used \subseteq Reachable
      BY <1>1 DEF Exact, OnlyReachable
    <2> QED
      BY <2>1, <2>2
  <1> QED
    BY <1>1, ExactInvariant, PTL

-----------------------------------------------------------------------------
(* The heap the program sees, under names of its own.                      *)

Objs  == [n \in Nodes |-> IF Holds(n) THEN kind[n] ELSE "free"]
Words == [n \in Nodes |-> IF Holds(n)
                          THEN [p \in Ptrs |-> ShortCircuit(field[n][p])]
                          ELSE NoFields]
Seen  == [s \in Slots |-> ShortCircuit(gcStack[s])]

(* What an entry that holds something is, and what it points to.           *)
LEMMA ObjFacts ==
    ASSUME TypeOK, NEW n \in Nodes
    PROVE  /\ Objs[n] = IF Holds(n) THEN kind[n] ELSE "free"
           /\ Holds(n) => \A p \in Ptrs : Words[n][p] = ShortCircuit(field[n][p])
           /\ ~Holds(n) => Words[n] = NoFields
  BY DEF Objs, Words

(* The program sees as many values as there are slots.                     *)
LEMMA SeenFacts ==
    ASSUME TypeOK
    PROVE  /\ Seen \in Seq(SPtr) /\ Len(Seen) = Len(gcStack)
           /\ DOMAIN Seen = Slots /\ Slots = 1 .. Len(gcStack)
           /\ \A s \in Slots : Seen[s] = ShortCircuit(gcStack[s]) /\ gcStack[s] \in SPtr
  <1>1. Slots = 1 .. Len(gcStack) /\ Len(gcStack) \in Nat
    BY DEF TypeOK, Slots
  <1>2. \A s \in Slots : gcStack[s] \in SPtr
    BY DEF TypeOK, Slots
  <1>3. \A s \in Slots : ShortCircuit(gcStack[s]) \in SPtr
    BY <1>2, ShortCircuitTyping
  <1>4. Seen \in [1 .. Len(gcStack) -> SPtr]
    BY <1>1, <1>3 DEF Seen
  <1>5. Seen \in Seq(SPtr)
    BY <1>1, <1>4, IsASeq
  <1>6. DOMAIN Seen = 1 .. Len(gcStack)
    BY <1>4
  <1> QED
    BY <1>1, <1>2, <1>5, <1>6 DEF Seen

(* A slot that leads to a constructor or an unevaluated thunk is no        *)
(* redirection.                                                            *)
LEMMA SlotIsSeen ==
    ASSUME TypeOK, NoDangling, NEW s \in Slots, gcStack[s].to \in Nodes,
           kind[gcStack[s].to] # "ind"
    PROVE  Seen[s] = gcStack[s]
  BY SeenFacts, ShortCircuitSound DEF NoDangling, SlotsSound

(* Redirections stay what they are: so does what the program sees of       *)
(* every smart pointer.                                                    *)
LEMMA ShortCircuitKept ==
    ASSUME UNCHANGED <<kind, head, cafHead>>
    PROVE  \A v : ShortCircuit(v)' = ShortCircuit(v)
  BY DEF ShortCircuit, HeadOf

(* A sequence that has grown, as a function.                               *)
LEMMA AppendFacts ==
    ASSUME NEW S, NEW q \in Seq(S), NEW x \in S
    PROVE  /\ Append(q, x) = [i \in 1 .. Len(q) + 1 |-> Append(q, x)[i]]
           /\ Append(q, x)[Len(q) + 1] = x
           /\ \A i \in 1 .. Len(q) : Append(q, x)[i] = q[i]
  <1>1. Append(q, x) \in Seq(S) /\ Len(Append(q, x)) = Len(q) + 1
    OBVIOUS
  <1>2. Append(q, x) \in [1 .. Len(q) + 1 -> S]
    BY <1>1, LenProperties
  <1>3. Append(q, x) = [i \in 1 .. Len(q) + 1 |-> Append(q, x)[i]]
    BY <1>2
  <1>4. Append(q, x)[Len(q) + 1] = x /\ \A i \in 1 .. Len(q) : Append(q, x)[i] = q[i]
    OBVIOUS
  <1> QED
    BY <1>3, <1>4

(* The bound on slots and stable pointers bounds the slots.                *)
LEMMA FewSlots == TypeOK /\ MaySpend => Len(gcStack) < MaxStack
  <1> SUFFICES ASSUME TypeOK, MaySpend PROVE Len(gcStack) < MaxStack
    OBVIOUS
  <1>1. Len(gcStack) \in Nat /\ Len(stable) \in Nat /\ MaxStack \in Nat
    BY BoundsAssumption DEF TypeOK
  <1>2. Len(gcStack) + Len(stable) < MaxStack
    BY DEF MaySpend
  <1> QED
    BY <1>1, <1>2

(* The compiled code pushes a value.                                       *)
LEMMA PushSeen ==
    ASSUME TypeOK, NEW v \in SPtr, Push(v), UNCHANGED <<kind, head, field, cafHead>>
    PROVE  /\ Len(Seen) < MaxStack
           /\ Seen' = Append(Seen, ShortCircuit(v))
           /\ Objs' = Objs /\ Words' = Words
  <1>1. \A w : ShortCircuit(w)' = ShortCircuit(w)
    BY ShortCircuitKept
  <1>2. Objs' = Objs /\ Words' = Words
    BY <1>1 DEF Objs, Words, Holds
  <1>3. Len(gcStack) < MaxStack /\ gcStack' = Append(gcStack, v)
    BY FewSlots DEF Push
  <1>4. Seen' = [s \in DOMAIN gcStack' |-> ShortCircuit(gcStack'[s])]
    BY <1>1 DEF Seen, Slots
  <1>5. /\ DOMAIN gcStack' = 1 .. Len(gcStack) + 1
        /\ \A s \in 1 .. Len(gcStack) : gcStack'[s] = gcStack[s]
        /\ gcStack'[Len(gcStack) + 1] = v
        /\ Len(gcStack) \in Nat
    BY <1>3 DEF TypeOK
  <1>6. Append(Seen, ShortCircuit(v)) =
           [s \in 1 .. Len(gcStack) + 1 |-> ShortCircuit(gcStack'[s])]
    <2> DEFINE x == ShortCircuit(v)
               n == Len(gcStack)
    <2>1. x \in SPtr /\ Seen \in Seq(SPtr) /\ Len(Seen) = n /\ n \in Nat
      BY <1>5, SeenFacts, ShortCircuitTyping
    <2>2. \A s \in 1 .. n : Seen[s] = ShortCircuit(gcStack'[s])
      BY <1>5, SeenFacts
    <2>3. x = ShortCircuit(gcStack'[n + 1])
      BY <1>5
    <2> HIDE DEF x, n
    <2>4. /\ Append(Seen, x)[n + 1] = x
          /\ \A s \in 1 .. n : Append(Seen, x)[s] = Seen[s]
          /\ Append(Seen, x) = [s \in 1 .. n + 1 |-> Append(Seen, x)[s]]
      BY <2>1, AppendFacts
    <2>5. \A s \in 1 .. n + 1 : Append(Seen, x)[s] = ShortCircuit(gcStack'[s])
      BY <2>1, <2>2, <2>3, <2>4
    <2> QED
      BY <2>4, <2>5 DEF x, n
  <1> QED
    BY <1>2, <1>3, <1>4, <1>5, <1>6, SeenFacts

-----------------------------------------------------------------------------
(* Each operation of the program is that operation of the heap it sees.    *)

LEMMA DropImplements ==
    ASSUME IInv, NEW s \in Slots, DropSlot(s)
    PROVE  Heap!Drop(s)
  <1> USE DEF IInv
  <1>1. UNCHANGED <<kind, head, field, cafHead>>
    BY DEF DropSlot
  <1>2. \A v : ShortCircuit(v)' = ShortCircuit(v)
    BY <1>1, ShortCircuitKept
  <1>3. Objs' = Objs /\ Words' = Words
    BY <1>1, <1>2 DEF Objs, Words, Holds
  <1>4. gcStack' = [t \in 1 .. Len(gcStack) - 1 |->
                       IF t < s THEN gcStack[t] ELSE gcStack[t + 1]]
    BY DEF DropSlot, Without
  <1>5. Seen' = [t \in 1 .. Len(gcStack) - 1 |-> ShortCircuit(gcStack'[t])]
    BY <1>2, <1>4 DEF Seen, Slots
  <1>6. \A t \in 1 .. Len(gcStack) - 1 :
           ShortCircuit(gcStack'[t]) = IF t < s THEN Seen[t] ELSE Seen[t + 1]
    <2> SUFFICES ASSUME NEW t \in 1 .. Len(gcStack) - 1
                 PROVE  ShortCircuit(gcStack'[t]) = IF t < s THEN Seen[t] ELSE Seen[t + 1]
      OBVIOUS
    <2>1. gcStack'[t] = IF t < s THEN gcStack[t] ELSE gcStack[t + 1]
      BY <1>4
    <2>2. t \in Slots /\ t + 1 \in Slots
      BY SeenFacts DEF TypeOK
    <2>3. Seen[t] = ShortCircuit(gcStack[t]) /\ Seen[t + 1] = ShortCircuit(gcStack[t + 1])
      BY <2>2, SeenFacts
    <2> QED
      BY <2>1, <2>3
  <1>7. Seen' = [t \in 1 .. Len(Seen) - 1 |-> IF t < s THEN Seen[t] ELSE Seen[t + 1]]
    BY <1>5, <1>6, SeenFacts
  <1> QED
    BY <1>1, <1>3, <1>7 DEF Heap!Drop, Objs, Words, Seen

LEMMA LoadImplements ==
    ASSUME IInv, NEW s \in Slots, NEW p \in Ptrs, LoadField(s, p)
    PROVE  Heap!Load(s, p)
  <1> USE DEF IInv
  <1> DEFINE n == gcStack[s].to
             v == field[n][p]
  <1>1. n \in Nodes /\ kind[n] \in {"con", "thunk"} /\ Push(v)
        /\ UNCHANGED <<kind, head, field, cafHead>>
    BY DEF LoadField
  <1>2. v \in SPtr
    BY <1>1 DEF TypeOK
  <1>3. Seen[s] = gcStack[s]
    BY <1>1, SlotIsSeen
  <1>4. Objs[n] \in {"con", "thunk"} /\ Words[n][p] = ShortCircuit(v)
    BY <1>1, ObjFacts DEF Holds
  <1>5. /\ Len(Seen) < MaxStack /\ Seen' = Append(Seen, ShortCircuit(v))
        /\ Objs' = Objs /\ Words' = Words
    BY <1>1, <1>2, PushSeen
  <1>6. /\ Seen[s].to \in Nodes /\ Objs[Seen[s].to] \in {"con", "thunk"}
        /\ Len(Seen) < MaxStack /\ Seen' = Append(Seen, Words[Seen[s].to][p])
    BY <1>1, <1>3, <1>4, <1>5
  <1> HIDE DEF n, v
  <1> QED
    BY <1>1, <1>5, <1>6 DEF Heap!Load, Heap!Push, Objs, Words, Seen

LEMMA StoreImplements ==
    ASSUME IInv, NEW s \in Slots, NEW t \in Slots, NEW p \in Ptrs, StoreField(s, p, t)
    PROVE  Heap!Store(s, p, t)
  <1> USE DEF IInv
  <1> DEFINE n == gcStack[s].to
  <1>1. /\ n \in Nodes /\ kind[n] \in {"con", "thunk"}
        /\ field' = [field EXCEPT ![n][p] = gcStack[t]]
        /\ UNCHANGED <<kind, head, cafHead, gcStack>>
    BY DEF StoreField
  <1>2. \A v : ShortCircuit(v)' = ShortCircuit(v)
    BY <1>1, ShortCircuitKept
  <1>3. Seen[s] = gcStack[s]
    BY <1>1, SlotIsSeen
  <1>4. Objs' = Objs /\ Seen' = Seen
    BY <1>1, <1>2 DEF Objs, Seen, Slots, Holds
  <1>5. Seen[t] = ShortCircuit(gcStack[t])
    BY SeenFacts
  <1> HIDE DEF n
  <1>6. Words' = [Words EXCEPT ![n][p] = Seen[t]]
    <2>1. Words' = [m \in Nodes |-> IF Holds(m)
                       THEN [q \in Ptrs |-> ShortCircuit(field'[m][q])] ELSE NoFields]
      BY <1>1, <1>2 DEF Words, Holds
    <2>2. \A m \in Nodes, q \in Ptrs :
             field'[m][q] = IF m = n /\ q = p THEN gcStack[t] ELSE field[m][q]
      BY <1>1 DEF TypeOK
    <2>3. Holds(n)
      BY <1>1 DEF Holds
    <2>4. \A m \in Nodes, q \in Ptrs :
             ShortCircuit(field'[m][q]) =
                IF m = n /\ q = p THEN Seen[t] ELSE ShortCircuit(field[m][q])
      BY <1>5, <2>2
    <2>5. Words[n] = [q \in Ptrs |-> ShortCircuit(field[n][q])]
      BY <1>1, <2>3 DEF Words
    <2>6. [q \in Ptrs |-> ShortCircuit(field'[n][q])] = [Words[n] EXCEPT ![p] = Seen[t]]
      BY <1>1, <2>4, <2>5
    <2>7. \A m \in Nodes : m # n =>
             [q \in Ptrs |-> ShortCircuit(field'[m][q])]
                = [q \in Ptrs |-> ShortCircuit(field[m][q])]
      BY <2>4
    <2>8. \A m \in Nodes : Words'[m] = IF m = n THEN [Words[n] EXCEPT ![p] = Seen[t]]
                                       ELSE Words[m]
      BY <2>1, <2>3, <2>6, <2>7 DEF Words
    <2> QED
      BY <1>1, <2>1, <2>8 DEF Words
  <1>7. Objs[n] \in {"con", "thunk"}
    BY <1>1, ObjFacts DEF Holds
  <1>8. /\ Seen[s].to \in Nodes /\ Objs[Seen[s].to] \in {"con", "thunk"}
        /\ Words' = [Words EXCEPT ![Seen[s].to][p] = Seen[t]]
    BY <1>1, <1>3, <1>6, <1>7 DEF n
  <1> QED
    BY <1>1, <1>4, <1>8 DEF Heap!Store, Objs, Words, Seen

LEMMA FollowImplements ==
    ASSUME IInv, NEW s \in Slots, Follow(s)
    PROVE  Heap!Copy(s)
  <1> USE DEF IInv
  <1> DEFINE v == HeadOf(gcStack[s])
  <1>1. v = ShortCircuit(gcStack[s]) /\ Push(v) /\ UNCHANGED <<kind, head, field, cafHead>>
    BY DEF Follow, ShortCircuit
  <1>2. v \in SPtr /\ v = Seen[s] /\ ShortCircuit(v) = v
    BY <1>1, SeenFacts, ShortCircuitTyping, ShortCircuitSound DEF NoDangling, SlotsSound
  <1> HIDE DEF v
  <1>3. /\ Len(Seen) < MaxStack /\ Seen' = Append(Seen, Seen[s])
        /\ Objs' = Objs /\ Words' = Words
    BY <1>1, <1>2, PushSeen
  <1> QED
    BY <1>1, <1>3 DEF Heap!Copy, Heap!Push, Objs, Words, Seen

LEMMA LoadCafImplements ==
    ASSUME IInv, NEW c \in Cafs, LoadCaf(c)
    PROVE  Heap!Name(c)
  <1> USE DEF IInv
  <1>1. Push(Lazy(c)) /\ UNCHANGED <<kind, head, field, cafHead>> /\ Lazy(c) \in SPtr
    BY DEF LoadCaf, SPtr
  <1>2. ShortCircuit(Lazy(c)) = IF cafHead[c] = Code THEN Heap!Lazy(c) ELSE cafHead[c]
    BY DEF ShortCircuit, HeadOf, Lazy, Heap!Lazy
  <1>3. /\ Len(Seen) < MaxStack /\ Seen' = Append(Seen, ShortCircuit(Lazy(c)))
        /\ Objs' = Objs /\ Words' = Words
    BY <1>1, PushSeen
  <1> QED
    BY <1>1, <1>2, <1>3 DEF Heap!Name, Heap!Push, Heap!Code, Code, Objs, Words, Seen

(* c_derefStablePtr gives the program a value without a node.              *)
LEMMA DerefImplements ==
    ASSUME IInv, DerefStable
    PROVE  Heap!Constant
  <1> USE DEF IInv
  <1>1. Push(Raw) /\ UNCHANGED <<kind, head, field, cafHead>>
    BY DEF DerefStable
  <1>2. Raw \in SPtr /\ ShortCircuit(Raw) = Raw
    BY RawFacts DEF SPtr, WPtr
  <1>3. /\ Len(Seen) < MaxStack /\ Seen' = Append(Seen, Raw)
        /\ Objs' = Objs /\ Words' = Words
    BY <1>1, <1>2, PushSeen
  <1> QED
    BY <1>1, <1>3 DEF Heap!Constant, Heap!Push, Heap!Raw, Raw, Objs, Words, Seen

(* A thunk or a CAF at x is overwritten with the value v: the program sees *)
(* v wherever it saw a lazy pointer to x.                                  *)
LEMMA Overwritten ==
    ASSUME TypeOK, NEW x \in Nodes \cup Cafs, NEW v \in WPtr, HeadOf(Lazy(x)) = Code,
           \/ x \in Nodes /\ head' = [head EXCEPT ![x] = v] /\ cafHead' = cafHead
           \/ x \in Cafs /\ cafHead' = [cafHead EXCEPT ![x] = v] /\ head' = head,
           NEW w \in SPtr
    PROVE  ShortCircuit(w)' = Heap!Subst(x, v, ShortCircuit(w))
  <1> USE NodesAssumption
  <1>1. v # Code
    BY DEF WPtr, Raw, Whnf, Code
  <1>2. CASE w = Lazy(x)
    <2>1. HeadOf(w)' = v /\ HeadOf(w) = Code /\ w.tag = "lazy"
      BY <1>2 DEF HeadOf, Lazy, TypeOK
    <2> QED
      BY <1>1, <1>2, <2>1 DEF ShortCircuit, Heap!Subst, Heap!Lazy, Lazy
  <1>3. CASE w # Lazy(x) /\ w.tag = "lazy"
    <2>1. w \in {Lazy(n) : n \in Nodes \cup Cafs}
      BY <1>3 DEF SPtr, WPtr, Raw, Whnf
    <2>2. w.to # x /\ w.to \in Nodes \cup Cafs
      BY <1>3, <2>1 DEF Lazy
    <2>3. HeadOf(w)' = HeadOf(w)
      BY <2>2 DEF HeadOf, TypeOK
    <2>4. HeadOf(w) # Code => HeadOf(w) \in WPtr
      BY <1>3, HeadTyping DEF FPtr
    <2>5. HeadOf(w) # Code => HeadOf(w) # Lazy(x)
      BY <2>4 DEF WPtr, Raw, Whnf, Lazy
    <2> QED
      BY <1>3, <2>3, <2>5 DEF ShortCircuit, Heap!Subst, Heap!Lazy, Lazy
  <1>4. CASE w.tag # "lazy"
    BY <1>4 DEF ShortCircuit, Heap!Subst, Heap!Lazy
  <1> QED
    BY <1>2, <1>3, <1>4

(* The same for the words of an object other than x; words that are        *)
(* nothing but Raw are left alone, being no lazy pointers.                 *)
LEMMA OverwrittenWords ==
    ASSUME TypeOK, NEW x, NEW v, NEW n \in Nodes, field' = field, Holds(n)' <=> Holds(n),
           \A w \in SPtr : ShortCircuit(w)' = Heap!Subst(x, v, ShortCircuit(w))
    PROVE  Words'[n] = [p \in Ptrs |-> Heap!Subst(x, v, Words[n][p])]
  <1>1. CASE Holds(n)
    <2>1. Words'[n] = [p \in Ptrs |-> ShortCircuit(field[n][p])']
      BY <1>1 DEF Words, ShortCircuit, HeadOf
    <2>2. \A p \in Ptrs : field[n][p] \in SPtr
      BY DEF TypeOK
    <2>3. \A p \in Ptrs : ShortCircuit(field[n][p])' = Heap!Subst(x, v, Words[n][p])
      BY <1>1, <2>2, ObjFacts DEF ShortCircuit, HeadOf
    <2> QED
      BY <2>1, <2>3
  <1>2. CASE ~Holds(n)
    <2>1. Words'[n] = NoFields /\ \A p \in Ptrs : Words[n][p] = Raw
      BY <1>2, ObjFacts DEF NoFields, Words
    <2>2. \A p \in Ptrs : Heap!Subst(x, v, Words[n][p]) = Raw
      BY <2>1 DEF Heap!Subst, Heap!Lazy, Raw
    <2> QED
      BY <2>1, <2>2 DEF NoFields
  <1> QED
    BY <1>1, <1>2

LEMMA UpdateImplements ==
    ASSUME IInv, AtomsBare, NEW s \in Slots, NEW t \in Slots, Update(s, t)
    PROVE  Heap!EvalThunk(Seen[s].to, Seen[t])
  <1> USE DEF IInv
  <1> DEFINE x == gcStack[s].to
             v == gcStack[t]
  <1>1. /\ gcStack[s].tag = "lazy" /\ x \in Nodes /\ kind[x] = "thunk" /\ v \in WPtr
        /\ kind' = [kind EXCEPT ![x] = "ind"] /\ head' = [head EXCEPT ![x] = v]
        /\ UNCHANGED <<field, cafHead, gcStack>>
    BY DEF Update
  <1>2. Sound(v) /\ Seen[t] = v
    BY <1>1, SeenFacts, ValueFacts DEF NoDangling, SlotsSound
  <1>3. Seen[s] = gcStack[s]
    BY <1>1, SlotIsSeen
  <1>4. HeadOf(Lazy(x)) = Code
    BY <1>1, NodesAssumption DEF HeadOf, Lazy, NoDangling, HeadsSound
  <1> HIDE DEF x, v
  <1>5. \A w \in SPtr : ShortCircuit(w)' = Heap!Subst(x, v, ShortCircuit(w))
    BY <1>1, <1>4, Overwritten
  <1>6. Seen' = [u \in Slots |-> Heap!Subst(x, v, Seen[u])]
    <2>1. \A u \in Slots : ShortCircuit(gcStack[u])' = Heap!Subst(x, v, Seen[u])
      BY <1>1, <1>5, SeenFacts DEF ShortCircuit, HeadOf
    <2> QED
      BY <1>1, <2>1 DEF Seen, Slots
  <1>7. Objs' = [Objs EXCEPT ![x] = "free"]
    BY <1>1 DEF Objs, Holds, TypeOK
  <1>8. Words' = [n \in Nodes |-> IF n = x THEN NoFields
                                  ELSE [p \in Ptrs |-> Heap!Subst(x, v, Words[n][p])]]
    <2>1. \A n \in Nodes : Holds(n)' <=> n # x /\ Holds(n)
      BY <1>1 DEF Holds, TypeOK
    <2>2. Words'[x] = NoFields
      BY <1>1, <2>1 DEF Words
    <2>3. \A n \in Nodes : n # x =>
             Words'[n] = [p \in Ptrs |-> Heap!Subst(x, v, Words[n][p])]
      BY <1>1, <1>5, <2>1, OverwrittenWords
    <2>4. Words' = [n \in Nodes |-> Words'[n]]
      BY DEF Words
    <2> QED
      BY <2>2, <2>3, <2>4
  <1>9. Objs[x] = "thunk"
    BY <1>1, ObjFacts DEF Holds
  <1>10. v.tag \in {"value", "whnf"}
    BY <1>1 DEF WPtr, Raw, Whnf
  <1>11. Seen[s].to = x /\ Seen[t] = v
    BY <1>2, <1>3 DEF x
  <1>12. Heap!Become(Seen[s].to, Seen[t])
    BY <1>6, <1>8, <1>10, <1>11, SeenFacts
       DEF Heap!Become, Heap!Evaluated, Heap!Slots, Heap!NoFields, Heap!Raw, Heap!Ptrs,
           Objs, Words, Seen, NoFields, Raw, Ptrs
  <1> QED
    BY <1>1, <1>7, <1>9, <1>11, <1>12 DEF Heap!EvalThunk, Objs

LEMMA UpdateCafImplements ==
    ASSUME IInv, NEW c \in Cafs, NEW t \in Slots, UpdateCaf(c, t)
    PROVE  Heap!EvalCaf(c, Seen[t])
  <1> USE DEF IInv
  <1> DEFINE v == gcStack[t]
  <1>1. /\ cafHead[c] = Code /\ v \in WPtr /\ cafHead' = [cafHead EXCEPT ![c] = v]
        /\ UNCHANGED <<kind, head, field, gcStack>>
    BY DEF UpdateCaf
  <1>2. Sound(v) /\ Seen[t] = v
    BY <1>1, SeenFacts, ValueFacts DEF NoDangling, SlotsSound
  <1>3. HeadOf(Lazy(c)) = Code
    BY <1>1 DEF HeadOf, Lazy
  <1> HIDE DEF v
  <1>4. \A w \in SPtr : ShortCircuit(w)' = Heap!Subst(c, v, ShortCircuit(w))
    BY <1>1, <1>3, Overwritten
  <1>5. Seen' = [u \in Slots |-> Heap!Subst(c, v, Seen[u])]
    <2>1. \A u \in Slots : ShortCircuit(gcStack[u])' = Heap!Subst(c, v, Seen[u])
      BY <1>1, <1>4, SeenFacts DEF ShortCircuit, HeadOf
    <2> QED
      BY <1>1, <2>1 DEF Seen, Slots
  <1>6. Objs' = Objs
    BY <1>1 DEF Objs, Holds
  <1>7. Words' = [n \in Nodes |-> IF n = c THEN NoFields
                                  ELSE [p \in Ptrs |-> Heap!Subst(c, v, Words[n][p])]]
    <2>1. \A n \in Nodes : Holds(n)' <=> Holds(n)
      BY <1>1 DEF Holds
    <2>2. \A n \in Nodes : Words'[n] = [p \in Ptrs |-> Heap!Subst(c, v, Words[n][p])]
      BY <1>1, <1>4, <2>1, OverwrittenWords
    <2>3. Words' = [n \in Nodes |-> Words'[n]] /\ c \notin Nodes
      BY NodesAssumption DEF Words
    <2> QED
      BY <2>2, <2>3
  <1>8. v.tag \in {"value", "whnf"}
    BY <1>1 DEF WPtr, Raw, Whnf
  <1>9. Heap!Become(c, Seen[t])
    BY <1>2, <1>5, <1>7, <1>8, SeenFacts
       DEF Heap!Become, Heap!Evaluated, Heap!Slots, Heap!NoFields, Heap!Raw, Heap!Ptrs,
           Objs, Words, Seen, NoFields, Raw, Ptrs
  <1> QED
    BY <1>1, <1>2, <1>6, <1>9 DEF Heap!EvalCaf, Heap!Code, Code, Objs

(* The words an entry is filled with, as the program sees them.            *)
SeenFields(f) == [p \in Ptrs |-> ShortCircuit(f[p])]

(* No sound pointer leads to the entry that s_alloc hands out, so nothing  *)
(* the program sees changes.                                               *)
LEMMA AllocKeeps ==
    ASSUME IInv, NEW n \in Nodes, kind[n] = "free", NEW h,
           head' = [head EXCEPT ![n] = h], cafHead' = cafHead,
           NEW w \in SPtr, Sound(w)
    PROVE  ShortCircuit(w)' = ShortCircuit(w)
  <1>1. w.tag = "lazy" => w.to # n
    BY DEF Sound
  <1>2. w.tag = "lazy" => HeadOf(w)' = HeadOf(w)
    <2>1. w.tag = "lazy" => w.to \in Nodes \cup Cafs
      BY DEF SPtr, WPtr, Raw, Whnf, Lazy
    <2> QED
      BY <1>1, <2>1 DEF HeadOf, IInv, TypeOK
  <1> QED
    BY <1>2 DEF ShortCircuit

LEMMA AllocImplements ==
    ASSUME IInv, AtomsBare, NEW n \in Nodes, NEW k \in {"atom", "con", "thunk"},
           NEW f \in [Ptrs -> {Raw} \cup {gcStack[s] : s \in Slots}], Alloc(n, k, f)
    PROVE  \E g \in [Ptrs -> {Raw} \cup {Seen[s] : s \in Slots}] : Heap!New(n, k, g)
  <1> USE DEF IInv
  <1> DEFINE new == IF k = "thunk" THEN Lazy(n) ELSE Whnf(n)
  <1>0. PICK g : g = SeenFields(f)
    OBVIOUS
  <1>1. /\ pc = "idle" /\ n \notin used
        /\ k = "atom" => f = NoFields
        /\ \A p \in Ptrs : f[p] = Raw \/ \E s \in Slots : f[p] = gcStack[s]
        /\ Len(gcStack) < MaxStack /\ gcStack' = Append(gcStack, new)
        /\ kind' = [kind EXCEPT ![n] = k]
        /\ head' = [head EXCEPT ![n] = IF k = "thunk" THEN Code ELSE Raw]
        /\ field' = [field EXCEPT ![n] = f]
        /\ cafHead' = cafHead
    BY FewSlots DEF Alloc, Push
  <1>2. kind[n] = "free" /\ \A p \in Ptrs : field[n][p] = Raw
    BY <1>1 DEF Idle, AtomsBare, NoFields
  <1>3. \A w \in SPtr : Sound(w) => ShortCircuit(w)' = ShortCircuit(w)
    BY <1>1, <1>2, AllocKeeps
  <1>4. \A s \in Slots : gcStack[s] \in SPtr /\ Sound(gcStack[s])
    BY DEF NoDangling, SlotsSound, Slots, TypeOK
  <1>5. \A p \in Ptrs : f[p] \in SPtr /\ Sound(f[p])
                        /\ (g[p] = Raw \/ \E s \in Slots : g[p] = Seen[s])
    <2>1. Raw \in SPtr /\ Sound(Raw) /\ ShortCircuit(Raw) = Raw
      BY RawFacts DEF SPtr, WPtr, Sound, Raw
    <2>2. \A p \in Ptrs : g[p] = ShortCircuit(f[p])
      BY <1>0 DEF SeenFields
    <2> QED
      BY <1>1, <1>4, <2>1, <2>2, SeenFacts
  <1>6. \A m \in Nodes : Objs'[m] = IF m = n THEN k ELSE Objs[m]
    BY <1>1, <1>2 DEF Objs, Holds, TypeOK
  <1>7. Objs' = [Objs EXCEPT ![n] = k]
    BY <1>6 DEF Objs
  <1>8. Words' = [Words EXCEPT ![n] = g]
    <2>1. Words'[n] = g
      <3>1. Words'[n] = [p \in Ptrs |-> ShortCircuit(f[p])']
        BY <1>1 DEF Words, Holds, TypeOK, ShortCircuit, HeadOf
      <3> QED
        BY <1>0, <1>3, <1>5, <3>1 DEF SeenFields
    <2>2. ASSUME NEW m \in Nodes, m # n PROVE Words'[m] = Words[m]
      <3>1. field'[m] = field[m] /\ kind'[m] = kind[m]
        BY <1>1, <2>2 DEF TypeOK
      <3>2. Holds(m)' <=> Holds(m)
        BY <3>1 DEF Holds
      <3>3. CASE ~Holds(m)
        BY <3>2, <3>3 DEF Words
      <3>4. CASE Holds(m)
        <4>1. \A p \in Ptrs : field[m][p] \in SPtr /\ Sound(field[m][p])
          BY <3>4, FieldFacts DEF Holds
        <4>2. \A p \in Ptrs : ShortCircuit(field[m][p])' = ShortCircuit(field[m][p])
          BY <1>3, <3>1, <4>1 DEF ShortCircuit, HeadOf
        <4>3. Words'[m] = [p \in Ptrs |-> ShortCircuit(field[m][p])']
          BY <3>2, <3>4 DEF Words
        <4> QED
          BY <3>4, <4>2, <4>3 DEF Words
      <3> QED
        BY <3>3, <3>4
    <2>3. Words' = [m \in Nodes |-> Words'[m]]
      BY DEF Words
    <2> QED
      BY <2>1, <2>2, <2>3 DEF Words
  <1>9. Seen' = Append(Seen, new)
    <2>1. /\ DOMAIN gcStack' = 1 .. Len(gcStack) + 1
          /\ \A s \in 1 .. Len(gcStack) : gcStack'[s] = gcStack[s]
          /\ gcStack'[Len(gcStack) + 1] = new
          /\ Len(gcStack) \in Nat
      BY <1>1 DEF TypeOK
    <2>2. new \in SPtr /\ ShortCircuit(new)' = new
      BY <1>1, NodesAssumption
         DEF SPtr, WPtr, ShortCircuit, HeadOf, Lazy, Whnf, TypeOK
    <2>3. \A s \in 1 .. Len(gcStack) : Seen'[s] = Seen[s]
      BY <1>3, <1>4, <2>1, SeenFacts DEF Seen, Slots, ShortCircuit, HeadOf
    <2>4. Seen'[Len(gcStack) + 1] = new
      BY <2>1, <2>2 DEF Seen, Slots, ShortCircuit, HeadOf
    <2>5. Seen' = [s \in 1 .. Len(gcStack) + 1 |-> Seen'[s]]
      BY <2>1 DEF Seen, Slots
    <2> HIDE DEF new
    <2>6. Append(Seen, new) = [s \in 1 .. Len(gcStack) + 1 |-> Append(Seen, new)[s]]
      BY <2>1, <2>2, SeenFacts, AppendFacts
    <2> QED
      BY <2>1, <2>2, <2>3, <2>4, <2>5, <2>6, SeenFacts
  <1>10. Objs[n] = "free"
    BY <1>2, ObjFacts DEF Holds
  <1>11. Heap!New(n, k, g)
    BY <1>1, <1>5, <1>7, <1>8, <1>9, <1>10, SeenFacts
       DEF Heap!New, Heap!Push, Heap!Slots, Heap!Raw, Heap!Lazy, Heap!Whnf, Heap!Ptrs,
           Objs, Words, Seen, Raw, Lazy, Whnf, Ptrs
  <1>12. g \in [Ptrs -> {Raw} \cup {Seen[s] : s \in Slots}]
    BY <1>0, <1>5 DEF SeenFields
  <1> QED
    BY <1>11, <1>12

-----------------------------------------------------------------------------
(* A collection changes nothing the program sees until its last step.      *)

LEMMA MarkingStutters ==
    ASSUME IInv, UNCHANGED <<kind, head, field, cafHead, gcStack>> \/ ScanWord
    PROVE  Objs' = Objs /\ Words' = Words /\ cafHead' = cafHead /\ Seen' = Seen
  <1>1. /\ \A v : ShortCircuit(v)' = ShortCircuit(v)
        /\ UNCHANGED <<kind, head, cafHead, gcStack>>
    BY CollectKeeps, ShortCircuitKept
  <1>2. \A n \in Nodes, p \in Ptrs : ShortCircuit(field'[n][p]) = ShortCircuit(field[n][p])
    <2>1. CASE UNCHANGED <<kind, head, field, cafHead, gcStack>>
      BY <2>1
    <2>2. CASE ScanWord
      BY <2>2, ScannedFields
    <2> QED
      BY <2>1, <2>2
  <1>3. Objs' = Objs /\ Seen' = Seen
    BY <1>1 DEF Objs, Seen, Slots, Holds
  <1>4. \A n \in Nodes : [p \in Ptrs |-> ShortCircuit(field[n][p])']
                            = [p \in Ptrs |-> ShortCircuit(field[n][p])]
    BY <1>1, <1>2 DEF ShortCircuit, HeadOf
  <1>5. Words' = Words
    BY <1>1, <1>4 DEF Words, Holds
  <1> QED
    BY <1>1, <1>3, <1>5

(* s_cleanup_blocks reclaims what marking has not reached: nothing that is *)
(* kept, on the gc stack or in a CAF leads to it.                          *)
LEMMA SweepImplements ==
    ASSUME Exact, Sweep
    PROVE  Heap!Reclaim
  <1> USE DEF Exact, IInv
  <1> DEFINE keep == {n \in used : Holds(n)}
  <1>1. /\ pc = "deeper" /\ cur = NoNode /\ grey = << >>
        /\ Tracing /\ UNCHANGED <<cafHead, gcStack>>
        /\ kind' = [n \in Nodes |-> IF n \in used THEN kind[n] ELSE "free"]
        /\ head' = [n \in Nodes |-> IF n \in used THEN head[n] ELSE Raw]
        /\ field' = [n \in Nodes |-> IF n \in used THEN field[n] ELSE NoFields]
    BY DEF Sweep, NoGrey, Tracing
  <1>2. Closed(used) /\ used \subseteq Nodes
    BY <1>1, MarkedClosed DEF TypeOK
  <1>3. ASSUME NEW v \in SPtr, v.to \in Nodes => v.to \in used
        PROVE  ShortCircuit(v)' = ShortCircuit(v)
    <2>1. v.tag = "lazy" => v.to \in Nodes \cup Cafs
      BY DEF SPtr, WPtr, Raw, Whnf, Lazy
    <2>2. v.tag = "lazy" => HeadOf(v)' = HeadOf(v)
      BY <1>1, <1>3, <2>1 DEF HeadOf, TypeOK
    <2> QED
      BY <2>2 DEF ShortCircuit
  <1>4. \A s \in Slots : /\ gcStack[s].to \in Nodes => gcStack[s].to \in used
                         /\ Seen[s].to \in Nodes => Seen[s].to \in used
    BY <1>2, SeenFacts DEF Closed, RootSet
  <1>5. \A s \in Slots : Seen[s].to \in Nodes => Seen[s].to \in keep
    <2>1. \A s \in Slots : Seen[s].to \in Nodes =>
             kind[Seen[s].to] \in {"con", "atom", "thunk"}
      BY SeenFacts, ShortCircuitSound DEF NoDangling, SlotsSound
    <2> QED
      BY <1>4, <2>1 DEF Holds
  <1>6. \A c \in Cafs : cafHead[c].to \in Nodes => cafHead[c].to \in keep
    <2> SUFFICES ASSUME NEW c \in Cafs, cafHead[c].to \in Nodes
                 PROVE  cafHead[c].to \in keep
      OBVIOUS
    <2>1. PICK r \in DOMAIN rootStack : rootStack[r] = cafHead[c].to
      BY DEF NoDangling, CafsSound
    <2>2. kind[rootStack[r]] \in {"con", "atom"} /\ rootStack[r] \in used
      BY <1>2, <2>1 DEF NoDangling, RootsSound, Closed, RootSet
    <2> QED
      BY <2>1, <2>2 DEF Holds
  <1>7. ASSUME NEW n \in keep, NEW p \in Ptrs
        PROVE  /\ Words[n][p].to \in Nodes => Words[n][p].to \in keep
               /\ ShortCircuit(field[n][p])' = ShortCircuit(field[n][p])
    <2>1. n \in Nodes /\ n \in used /\ Holds(n) /\ kind[n] # "ind"
      BY <1>2 DEF Holds
    <2>2. field[n][p] \in SPtr /\ Sound(field[n][p]) /\ Words[n][p] = ShortCircuit(field[n][p])
      BY <2>1, FieldFacts, ObjFacts
    <2>3. Words[n][p].to \in Edges(n)
      BY <2>1, <2>2 DEF Edges
    <2>4. Words[n][p].to \in Nodes => kind[Words[n][p].to] \in {"con", "atom", "thunk"}
      BY <2>2, ShortCircuitSound
    <2>5. Words[n][p].to \in Nodes => Words[n][p].to \in keep
      BY <1>2, <2>1, <2>3, <2>4 DEF Closed, Holds
    <2>6. field[n][p].to \in Nodes => field[n][p].to \in used
      <3>1. CASE kind[n] = "atom"
        BY <2>1, <3>1, RawFacts DEF AtomsBare, NoFields
      <3>2. CASE kind[n] # "atom"
        BY <1>1, <2>1, <3>2, NodesAssumption
           DEF Holds, Marking, BlackTraced, Traced, InGrey
      <3> QED
        BY <3>1, <3>2
    <2> QED
      BY <1>1, <1>3, <2>1, <2>2, <2>5, <2>6 DEF ShortCircuit, HeadOf
  <1>8. \A n \in Nodes : Holds(n)' <=> n \in keep
    BY <1>1, <1>2 DEF Holds
  <1>9. Objs' = [n \in Nodes |-> IF n \in keep THEN Objs[n] ELSE "free"]
    <2>1. \A n \in Nodes : n \in keep => kind'[n] = Objs[n]
      BY <1>1, ObjFacts
    <2> QED
      BY <1>8, <2>1 DEF Objs
  <1>10. Words' = [n \in Nodes |-> IF n \in keep THEN Words[n] ELSE NoFields]
    <2>1. ASSUME NEW n \in Nodes, n \in keep PROVE Words'[n] = Words[n]
      <3>1. field'[n] = field[n] /\ Holds(n)' /\ Holds(n)
        BY <1>1, <1>8, <2>1
      <3>2. Words'[n] = [p \in Ptrs |-> ShortCircuit(field[n][p])']
        BY <3>1 DEF Words
      <3>3. \A p \in Ptrs : ShortCircuit(field[n][p])' = ShortCircuit(field[n][p])
        BY <1>7, <2>1
      <3> QED
        BY <3>1, <3>2, <3>3 DEF Words
    <2>2. \A n \in Nodes : n \notin keep => Words'[n] = NoFields
      BY <1>8 DEF Words
    <2>3. Words' = [n \in Nodes |-> Words'[n]]
      BY DEF Words
    <2> QED
      BY <2>1, <2>2, <2>3
  <1>11. Seen' = Seen
    <2>1. \A s \in Slots : ShortCircuit(gcStack[s])' = ShortCircuit(gcStack[s])
      BY <1>1, <1>3, <1>4, SeenFacts DEF ShortCircuit, HeadOf
    <2> QED
      BY <1>1, <2>1 DEF Seen, Slots, ShortCircuit, HeadOf
  <1>12. keep \in SUBSET {n \in Nodes : Objs[n] # "free"}
    BY <1>2, ObjFacts DEF Holds
  <1>13. \A n \in keep, p \in Ptrs : Words[n][p].to \in Nodes => Words[n][p].to \in keep
    BY <1>7
  <1> HIDE DEF keep
  <1> QED
    BY <1>1, <1>5, <1>6, <1>9, <1>10, <1>11, <1>12, <1>13, SeenFacts
       DEF Heap!Reclaim, Heap!Slots, Heap!NoFields, Heap!Raw, Heap!Ptrs,
           Objs, Words, Seen, NoFields, Raw, Ptrs

-----------------------------------------------------------------------------
(* The refinement.                                                         *)

LEMMA InitImplements == Init => Heap!Init
  <1> SUFFICES ASSUME Init PROVE Heap!Init
    OBVIOUS
  <1>1. Objs = [n \in Nodes |-> "free"]
    BY DEF Init, Objs, Holds
  <1>2. Words = [n \in Nodes |-> NoFields]
    BY DEF Init, Words, Holds
  <1>3. TypeOK /\ Len(gcStack) = 0
    BY InitIInv DEF IInv, Init
  <1>4. Seen = << >>
    BY <1>3, SeenFacts
  <1> QED
    BY <1>1, <1>2, <1>4
       DEF Heap!Init, Heap!Code, Heap!NoFields, Heap!Raw, Heap!Ptrs, Init,
           Objs, Words, Seen, Code, NoFields, Raw, Ptrs

LEMMA MutatorImplements ==
    ASSUME Exact, Mutator
    PROVE  Heap!Next \/ UNCHANGED <<kind, head, field, cafHead, gcStack>>
  <1> USE DEF Exact
  <1>1. Heap!Slots = Slots
    BY SeenFacts DEF Heap!Slots, Seen, IInv
  <1>2. ASSUME NEW s \in Slots, DropSlot(s) PROVE Heap!Next
    BY <1>1, <1>2, DropImplements DEF Heap!Next
  <1>3. ASSUME NEW n \in Nodes, NEW k \in {"atom", "con", "thunk"},
               NEW f \in [Ptrs -> {Raw} \cup {gcStack[s] : s \in Slots}], Alloc(n, k, f)
        PROVE  Heap!Next
    <2>1. \E g \in [Ptrs -> {Raw} \cup {Seen[s] : s \in Slots}] : Heap!New(n, k, g)
      BY <1>3, AllocImplements
    <2>2. Heap!Ptrs = Ptrs /\ Heap!Raw = Raw
      BY DEF Heap!Ptrs, Ptrs, Heap!Raw, Raw
    <2>3. \E m \in Nodes, j \in {"atom", "con", "thunk"},
             g \in [Heap!Ptrs -> {Heap!Raw} \cup {Seen[s] : s \in Heap!Slots}] :
                Heap!New(m, j, g)
      BY <1>1, <2>1, <2>2
    <2> HIDE DEF Exact
    <2> QED
      BY <2>3 DEF Heap!Next, Seen
  <1>4. ASSUME NEW s \in Slots, NEW p \in Ptrs, LoadField(s, p) PROVE Heap!Next
    BY <1>1, <1>4, LoadImplements DEF Heap!Next, Heap!Ptrs, Ptrs
  <1>5. ASSUME NEW s \in Slots, NEW t \in Slots, NEW p \in Ptrs, StoreField(s, p, t)
        PROVE  Heap!Next
    BY <1>1, <1>5, StoreImplements DEF Heap!Next, Heap!Ptrs, Ptrs
  <1>6. ASSUME NEW s \in Slots, Follow(s) PROVE Heap!Next
    BY <1>1, <1>6, FollowImplements DEF Heap!Next
  <1>7. ASSUME NEW s \in Slots, NEW t \in Slots, Update(s, t) PROVE Heap!Next
    BY <1>1, <1>7, UpdateImplements DEF Heap!Next, Seen
  <1>8. ASSUME NEW c \in Cafs, LoadCaf(c) PROVE Heap!Next
    BY <1>8, LoadCafImplements DEF Heap!Next
  <1>9. ASSUME NEW c \in Cafs, NEW t \in Slots, UpdateCaf(c, t) PROVE Heap!Next
    BY <1>1, <1>9, UpdateCafImplements DEF Heap!Next, Seen
  <1>10. CASE DerefStable
    BY <1>10, DerefImplements DEF Heap!Next
  <1> QED
    BY <1>2, <1>3, <1>4, <1>5, <1>6, <1>7, <1>8, <1>9, <1>10
       DEF Mutator, NewStable, FreeStable

(* Every step is a step of the abstract heap, or changes nothing there.    *)
LEMMA NextImplements ==
    ASSUME Exact, [Next]_vars
    PROVE  [Heap!Next]_(Heap!hvars)
  <1> SUFFICES ASSUME ~Heap!Next
               PROVE  Heap!hvars' = Heap!hvars
    OBVIOUS
  <1>1. Mutator => UNCHANGED <<kind, head, field, cafHead, gcStack>>
    BY MutatorImplements
  <1>2. ~Sweep
    BY SweepImplements DEF Heap!Next
  <1>3. UNCHANGED <<kind, head, field, cafHead, gcStack>> \/ ScanWord
    BY <1>1, <1>2
       DEF Next, Collect, StartGC, MarkRoot, RootsDone, MarkStable, StablesDone, MarkSlot,
           SlotsDone, PopGrey, ScanForeign, Trap, vars, mutVars
  <1>4. Objs' = Objs /\ Words' = Words /\ cafHead' = cafHead /\ Seen' = Seen
    BY <1>3, MarkingStutters DEF Exact
  <1> QED
    BY <1>4 DEF Heap!hvars, Objs, Words, Seen

(* The collector implements the heap of a lazy language: no program can    *)
(* tell that gc_perform_gc removes redirections and reclaims entries.      *)
THEOREM HeapRefinement == Spec => ImplementsLazyHeap
  <1>1. Exact /\ [Next]_vars => [Heap!Next]_(Heap!hvars)
    BY NextImplements
  <1> QED
    BY <1>1, InitImplements, ExactInvariant, PTL DEF Spec, ImplementsLazyHeap, Heap!Spec

=============================================================================
