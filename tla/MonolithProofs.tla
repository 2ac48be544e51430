--------------------------- MODULE MonolithProofs ---------------------------
(***************************************************************************)
(* For every number of monoliths, elements and finalizers: the sweep of    *)
(* s_cleanup_blocks never meets a block twice or after it was freed, runs  *)
(* the finalizers of what it frees once, and frees nothing the program     *)
(* holds, although it loses blocks from its list.                          *)
(***************************************************************************)
EXTENDS Monolith, SequenceTheorems, TLAPS

(* What a list of monoliths is: blocks in use, none of them twice.         *)
Listed(s) ==
    /\ \A k \in DOMAIN s : kind[s[k]] # "none"
    /\ \A j, k \in DOMAIN s : s[j] = s[k] => j = k

(* The old list is walked only while the new one is still empty: the first *)
(* block that is kept ends the walk.                                       *)
OneList ==
    /\ Listed(list) /\ Listed(todo)
    /\ todo # << >> => list = << >>

(* The roots are marked, or wait to be, from clear_used_bits to the end of *)
(* the sweep.                                                              *)
RootsMarked ==
    /\ pc = "trace" => roots \subseteq used \cup grey
    /\ pc = "sweep" => roots \subseteq used
    /\ pc \in {"idle", "trace"} => todo = << >>

IInv == TypeOK /\ OneList /\ RootsMarked /\ FinalizersRunOnFree

-----------------------------------------------------------------------------
(* A block put in front of a list.                                         *)
LEMMA ConsFacts ==
    ASSUME NEW m \in Monos, NEW s \in Seq(Monos)
    PROVE  /\ <<m>> \o s \in Seq(Monos)
           /\ DOMAIN (<<m>> \o s) = 1 .. Len(s) + 1
           /\ DOMAIN s = 1 .. Len(s)
           /\ Len(s) \in Nat
           /\ (<<m>> \o s)[1] = m
           /\ \A k \in 1 .. Len(s) : (<<m>> \o s)[k + 1] = s[k]
  <1>1. <<m>> \in Seq(Monos) /\ Len(<<m>>) = 1 /\ <<m>>[1] = m
    OBVIOUS
  <1>2. /\ <<m>> \o s \in Seq(Monos)
        /\ Len(<<m>> \o s) = 1 + Len(s)
        /\ \A k \in 1 .. 1 + Len(s) :
              (<<m>> \o s)[k] = IF k <= 1 THEN <<m>>[k] ELSE s[k - 1]
    BY <1>1, ConcatProperties
  <1>3. Len(s) \in Nat /\ DOMAIN s = 1 .. Len(s)
    BY LenProperties
  <1> QED
    BY <1>1, <1>2, <1>3, LenProperties

LEMMA ListedCons ==
    ASSUME NEW m \in Monos, NEW s \in Seq(Monos), Listed(s), kind[m] # "none",
           \A k \in DOMAIN s : s[k] # m
    PROVE  Listed(<<m>> \o s)
  <1> DEFINE t == <<m>> \o s
  <1>1. /\ DOMAIN t = 1 .. Len(s) + 1 /\ DOMAIN s = 1 .. Len(s) /\ Len(s) \in Nat
        /\ t[1] = m /\ \A k \in 1 .. Len(s) : t[k + 1] = s[k]
    BY ConsFacts
  <1>2. \A k \in DOMAIN t : k = 1 \/ (k - 1 \in 1 .. Len(s) /\ t[k] = s[k - 1])
    BY <1>1
  <1> HIDE DEF t
  <1>3. Listed(t)
    BY <1>1, <1>2 DEF Listed
  <1> QED
    BY <1>3 DEF t

(* The list without its first block, which it does not hold again.         *)
LEMMA ListedTail ==
    ASSUME NEW s \in Seq(Monos), s # << >>, Listed(s)
    PROVE  /\ Head(s) \in Monos /\ Tail(s) \in Seq(Monos)
           /\ kind[Head(s)] # "none"
           /\ Listed(Tail(s))
           /\ \A k \in DOMAIN Tail(s) : Tail(s)[k] # Head(s)
  <1>1. /\ Head(s) = s[1] /\ s[1] \in Monos /\ Tail(s) \in Seq(Monos)
        /\ Len(s) \in Nat \ {0} /\ DOMAIN s = 1 .. Len(s)
        /\ DOMAIN Tail(s) = 1 .. Len(s) - 1
        /\ \A k \in 1 .. Len(s) - 1 : Tail(s)[k] = s[k + 1]
    BY HeadTailProperties, LenProperties, EmptySeq
  <1> QED
    BY <1>1 DEF Listed

-----------------------------------------------------------------------------
LEMMA InitIInv == Init => IInv
  BY BoundsAssumption
     DEF Init, IInv, TypeOK, OneList, Listed, RootsMarked, FinalizersRunOnFree, Objects

(* A new monolith was not in use, so it was in no list.                    *)
LEMMA MonoblockStep ==
    ASSUME IInv, NEW m \in Monos, NEW k \in {"array", "bytes", "foreign"}, NEW count \in Nat,
           NEW content \in SUBSET Objects, Monoblock(m, k, count, content)
    PROVE  IInv'
  <1>1. pc = "idle" /\ todo = << >> /\ Listed(list) /\ list \in Seq(Monos)
    BY DEF Monoblock, IInv, RootsMarked, OneList, TypeOK
  <1>2. \A i \in DOMAIN list : list[i] # m
    BY <1>1 DEF Monoblock, Listed
  <1>3. TypeOK'
    <2>1. list' \in Seq(Monos) /\ todo' \in Seq(Monos)
      BY <1>1, ConsFacts DEF Monoblock, IInv, TypeOK, gcVars
    <2>2. /\ finalizers' \in [Monos -> Seq(Finalizers)] /\ ran' \in [Monos -> Seq(Finalizers)]
          /\ kind' \in [Monos -> {"none", "array", "bytes", "foreign"}]
          /\ numPtrs' \in [Monos -> Nat] /\ elems' \in [Monos -> SUBSET Objects]
      BY DEF Monoblock, IInv, TypeOK
    <2> QED
      BY <1>1, <2>1, <2>2 DEF Monoblock, IInv, TypeOK, Words, Objects, gcVars
  <1>4. OneList'
    <2>1. kind'[m] # "none" /\ \A i \in DOMAIN list : kind'[list[i]] = kind[list[i]]
      BY <1>1, <1>2 DEF Monoblock, IInv, TypeOK
    <2>2. Listed(list)'
      <3>1. /\ DOMAIN (<<m>> \o list) = 1 .. Len(list) + 1
            /\ DOMAIN list = 1 .. Len(list) /\ Len(list) \in Nat
            /\ (<<m>> \o list)[1] = m
            /\ \A i \in 1 .. Len(list) : (<<m>> \o list)[i + 1] = list[i]
        BY <1>1, ConsFacts
      <3>2. list' = <<m>> \o list
        BY DEF Monoblock
      <3>3. \A i \in DOMAIN list' :
               i = 1 \/ (i - 1 \in 1 .. Len(list) /\ list'[i] = list[i - 1])
        BY <3>1, <3>2
      <3>4. \A i \in DOMAIN list : list[i] # m /\ kind'[list[i]] # "none"
        BY <1>1, <1>2, <2>1 DEF Listed
      <3>5. \A i \in DOMAIN list' : kind'[list'[i]] # "none"
        BY <2>1, <3>1, <3>2, <3>3, <3>4
      <3>6. \A i, j \in DOMAIN list' : list'[i] = list'[j] => i = j
        <4>1. \A i, j \in DOMAIN list : list[i] = list[j] => i = j
          BY <1>1 DEF Listed
        <4>2. list'[1] = m /\ DOMAIN list' = 1 .. Len(list) + 1
          BY <3>1, <3>2
        <4> QED
          BY <3>1, <3>3, <3>4, <4>1, <4>2
      <3> QED
        BY <3>5, <3>6 DEF Listed
    <2>3. todo' = << >>
      BY <1>1 DEF Monoblock, gcVars
    <2> QED
      BY <2>2, <2>3 DEF OneList, Listed
  <1>5. RootsMarked'
    BY <1>1 DEF Monoblock, RootsMarked, gcVars
  <1>6. FinalizersRunOnFree'
    BY DEF Monoblock, IInv, TypeOK, FinalizersRunOnFree
  <1> QED
    BY <1>3, <1>4, <1>5, <1>6 DEF IInv

LEMMA MutatorStep == IInv /\ Mutator => IInv'
  <1> SUFFICES ASSUME IInv, Mutator PROVE IInv'
    OBVIOUS
  <1>1. ASSUME NEW m \in Monos, NEW count \in Counts, NEW x \in roots \ {Null},
               AllocArray(m, count, {x})
        PROVE  IInv'
    <2>1. {x} \in SUBSET Objects
      BY DEF IInv, TypeOK
    <2> QED
      BY <1>1, <2>1, MonoblockStep, BoundsAssumption DEF AllocArray
  <1>2. ASSUME NEW m \in Monos, NEW count \in Counts, AllocArray(m, count, {})
        PROVE  IInv'
    BY <1>2, MonoblockStep, BoundsAssumption DEF AllocArray
  <1>3. ASSUME NEW m \in Monos, NewForeignPtr(m) PROVE IInv'
    BY <1>3, MonoblockStep DEF NewForeignPtr
  <1>4. ASSUME NEW m \in roots \cap Monos, NEW f \in Finalizers, AddFinalizer(m, f)
        PROVE  IInv'
    <2>1. finalizers' \in [Monos -> Seq(Finalizers)]
      BY <1>4 DEF AddFinalizer, IInv, TypeOK
    <2> QED
      BY <1>4, <2>1 DEF AddFinalizer, IInv, TypeOK, OneList, Listed, RootsMarked,
                        FinalizersRunOnFree, gcVars
  <1>5. ASSUME NEW n \in Nodes, AllocNode(n) PROVE IInv'
    <2>1. TypeOK'
      BY <1>5 DEF AllocNode, IInv, TypeOK, gcVars, Words, Objects
    <2> QED
      BY <1>5, <2>1 DEF AllocNode, IInv, OneList, Listed, RootsMarked,
                        FinalizersRunOnFree, gcVars
  <1>6. ASSUME NEW m \in roots \cap Monos, NEW x \in roots \ {Null}, WriteArray(m, x)
        PROVE  IInv'
    <2>1. elems' \in [Monos -> SUBSET Objects]
      BY <1>6 DEF WriteArray, IInv, TypeOK
    <2> QED
      BY <1>6, <2>1 DEF WriteArray, IInv, TypeOK, OneList, Listed, RootsMarked,
                        FinalizersRunOnFree, gcVars
  <1>7. ASSUME NEW m \in roots \cap Monos, NEW x \in Objects, ReadArray(m, x)
        PROVE  IInv'
    BY <1>7 DEF ReadArray, IInv, TypeOK, OneList, Listed, RootsMarked,
                FinalizersRunOnFree, gcVars, heapVars
  <1>8. ASSUME NEW x \in roots, Forget(x) PROVE IInv'
    BY <1>8 DEF Forget, IInv, TypeOK, OneList, Listed, RootsMarked,
                FinalizersRunOnFree, gcVars, heapVars
  <1>9. ASSUME NEW m \in Monos, NEW count \in ByteCounts, MallocForeignPtr(m, count)
        PROVE  IInv'
    BY <1>9, MonoblockStep, BoundsAssumption DEF MallocForeignPtr
  <1>10. CASE AllocEmpty
    BY <1>10 DEF AllocEmpty, IInv, TypeOK, OneList, Listed, RootsMarked,
                 FinalizersRunOnFree, gcVars, heapVars
  <1> QED
    BY <1>1, <1>2, <1>3, <1>4, <1>5, <1>6, <1>7, <1>8, <1>9, <1>10 DEF Mutator

(* Whatever is found in a block or elsewhere, gc_add_grey gets a word.     *)
LEMMA FoundWords ==
    ASSUME TypeOK, NEW x, NEW found \in Found(x)
    PROVE  found \subseteq Words
  <1>1. InUse \subseteq Words /\ {Null, Outside} \subseteq Words
    BY DEF TypeOK, InUse, Words, Objects
  <1>2. CASE ~MustScan(x) \/ Stray(x) \/ x \notin Monos
    BY <1>1, <1>2 DEF Found
  <1>3. CASE MustScan(x) /\ ~Stray(x) /\ x \in Monos
    <2>1. found \in WordsOf(x)
      BY <1>3 DEF Found
    <2>2. kind[x] \in {"array", "bytes", "foreign"}
      BY <1>3, ObjectsAssumption DEF Stray, InUse, TypeOK
    <2>3. CASE kind[x] = "array"
      <3>1. found = elems[x]
        BY <2>1, <2>3 DEF WordsOf
      <3> QED
        BY <1>3, <3>1 DEF TypeOK, Words
    <2>4. CASE kind[x] = "bytes"
      <3>1. found \in SUBSET {Null, Outside}
        BY <2>1, <2>4 DEF WordsOf
      <3> QED
        BY <1>1, <3>1
    <2>5. CASE kind[x] = "foreign"
      <3>1. \E address \in {{}, {Null}, {Outside}} :
               found = address \cup (IF finalizers[x] = << >> THEN {Null} ELSE {Outside})
        BY <2>1, <2>5 DEF WordsOf
      <3> QED
        BY <1>1, <3>1
    <2> QED
      BY <2>2, <2>3, <2>4, <2>5
  <1> QED
    BY <1>2, <1>3

LEMMA CollectStep == IInv /\ Collect => IInv'
  <1> SUFFICES ASSUME IInv, Collect PROVE IInv'
    OBVIOUS
  <1>1. CASE StartGC
    BY <1>1 DEF StartGC, RootPointers, IInv, TypeOK, OneList, Listed, RootsMarked,
                FinalizersRunOnFree, heapVars, Words, Objects
  <1>2. ASSUME NEW x \in grey, Visit(x) PROVE IInv'
    <2>1. PICK found \in Found(x) : grey' = (grey \ {x}) \cup found
      BY <1>2 DEF Visit
    <2>2. found \subseteq Words
      BY FoundWords DEF IInv
    <2>3. grey' \subseteq Words /\ used' \subseteq Words
      BY <1>2, <2>1, <2>2 DEF Visit, IInv, TypeOK
    <2>4. RootsMarked'
      BY <1>2, <2>1 DEF Visit, IInv, RootsMarked, heapVars
    <2> QED
      BY <1>2, <2>3, <2>4 DEF Visit, IInv, TypeOK, OneList, Listed,
                              FinalizersRunOnFree, heapVars
  <1>3. CASE Trap
    BY <1>3 DEF Trap, IInv, TypeOK, OneList, Listed, RootsMarked,
                FinalizersRunOnFree, heapVars
  <1>4. CASE StartSweep
    BY <1>4 DEF StartSweep, ListEmptied, IInv, TypeOK, OneList, Listed, RootsMarked,
                FinalizersRunOnFree, heapVars
  <1>5. CASE KeepMonolith
    <2>1. todo \in Seq(Monos) /\ Listed(todo) /\ list = << >>
      BY <1>5 DEF KeepMonolith, IInv, TypeOK, OneList
    <2>2. Head(todo) \in Monos /\ kind[Head(todo)] # "none"
      BY <1>5, <2>1, ListedTail DEF KeepMonolith
    <2>3. list' = <<Head(todo)>> /\ todo' = << >>
      BY <1>5, <2>1, <2>2, ConcatEmptySeq DEF KeepMonolith
    <2>4. UNCHANGED <<kind, numPtrs, elems, finalizers, ran, nodes, roots, used, pc, grey>>
      BY <1>5 DEF KeepMonolith, heapVars
    <2>5. list' \in Seq(Monos) /\ todo' \in Seq(Monos)
      BY <2>2, <2>3
    <2>6. TypeOK'
      BY <2>4, <2>5 DEF IInv, TypeOK
    <2>7. OneList'
      BY <2>2, <2>3, <2>4 DEF OneList, Listed
    <2>8. RootsMarked'
      BY <2>3, <2>4 DEF IInv, RootsMarked
    <2>9. FinalizersRunOnFree'
      BY <2>4 DEF IInv, FinalizersRunOnFree
    <2> QED
      BY <2>6, <2>7, <2>8, <2>9 DEF IInv
  <1>6. CASE FreeMonolith
    <2> DEFINE m == Head(todo)
    <2>1. /\ m \in Monos /\ kind[m] # "none"
          /\ Tail(todo) \in Seq(Monos) /\ Listed(Tail(todo))
          /\ \A k \in DOMAIN Tail(todo) : Tail(todo)[k] # m
          /\ list = << >>
      BY <1>6, ListedTail DEF FreeMonolith, IInv, TypeOK, OneList
    <2>2. /\ kind' = [kind EXCEPT ![m] = "none"] /\ todo' = Tail(todo)
          /\ numPtrs' = [numPtrs EXCEPT ![m] = 0]
          /\ elems' = [elems EXCEPT ![m] = {}]
          /\ ran' = [ran EXCEPT ![m] = @ \o finalizers[m]]
          /\ UNCHANGED <<finalizers, nodes, roots, list, used, pc, grey>>
      BY <1>6 DEF FreeMonolith, RunFinalizers
    <2> HIDE DEF m
    <2>3. ran[m] = << >> /\ finalizers[m] \in Seq(Finalizers)
      BY <2>1 DEF IInv, TypeOK, FinalizersRunOnFree
    <2>4. ran[m] \o finalizers[m] = finalizers[m]
      BY <2>3, ConcatEmptySeq
    <2>5. TypeOK'
      <3>1. /\ kind' \in [Monos -> {"none", "array", "bytes", "foreign"}]
            /\ numPtrs' \in [Monos -> Nat] /\ elems' \in [Monos -> SUBSET Objects]
        BY <2>1, <2>2 DEF IInv, TypeOK
      <3>2. ran' \in [Monos -> Seq(Finalizers)]
        BY <2>1, <2>2, <2>3, <2>4 DEF IInv, TypeOK
      <3> QED
        BY <2>1, <2>2, <3>1, <3>2 DEF IInv, TypeOK
    <2>6. OneList'
      <3>1. \A k \in DOMAIN todo' : todo'[k] \in Monos /\ todo'[k] # m
        BY <2>1, <2>2
      <3>2. \A k \in DOMAIN todo' : kind'[todo'[k]] = kind[todo'[k]]
        BY <2>2, <3>1 DEF IInv, TypeOK
      <3>3. Listed(todo')
        BY <2>1, <2>2
      <3>4. Listed(todo)'
        BY <3>2, <3>3 DEF Listed
      <3> QED
        BY <2>1, <2>2, <3>4 DEF OneList, Listed
    <2>7. RootsMarked'
      BY <1>6, <2>2 DEF FreeMonolith, IInv, RootsMarked
    <2>8. FinalizersRunOnFree'
      BY <2>1, <2>2, <2>4 DEF IInv, TypeOK, FinalizersRunOnFree
    <2> QED
      BY <2>5, <2>6, <2>7, <2>8 DEF IInv
  <1>7. CASE EndGC
    BY <1>7 DEF EndGC, IInv, TypeOK, OneList, Listed, RootsMarked, FinalizersRunOnFree
  <1> QED
    BY <1>1, <1>2, <1>3, <1>4, <1>5, <1>6, <1>7 DEF Collect

LEMMA NextIInv == IInv /\ [Next]_vars => IInv'
  <1>1. IInv /\ UNCHANGED vars => IInv'
    BY DEF vars, heapVars, gcVars, IInv, TypeOK, OneList, Listed, RootsMarked,
           FinalizersRunOnFree
  <1> QED
    BY <1>1, MutatorStep, CollectStep DEF Next

LEMMA Invariant == Spec => []IInv
  BY InitIInv, NextIInv, PTL DEF Spec

-----------------------------------------------------------------------------
(* Every variable keeps its type; what the loop over the finalizers calls  *)
(* is a finalizer, never the null at the end of the array.                 *)
THEOREM Typing == Spec => []TypeOK
  BY Invariant, PTL DEF IInv

(* s_cleanup_blocks never frees a monolith twice and never keeps a freed   *)
(* one in its list, although it reads the next block off a link it has     *)
(* overwritten.                                                            *)
THEOREM NeverFreedTwice == Spec => []ListedOnce
  <1>1. IInv => ListedOnce
    <2> SUFFICES ASSUME IInv PROVE ListedOnce
      OBVIOUS
    <2>1. list \in Seq(Monos) /\ todo \in Seq(Monos) /\ Listed(list) /\ Listed(todo)
      BY DEF IInv, TypeOK, OneList
    <2>2. list \o todo = list \/ list \o todo = todo
      BY <2>1, ConcatEmptySeq DEF IInv, OneList
    <2>3. PICK s \in Seq(Monos) : s = list \o todo /\ Listed(s)
      BY <2>1, <2>2
    <2>4. \A k \in DOMAIN s : s[k] \in Monos
      BY <2>3
    <2> QED
      BY <2>3, <2>4 DEF ListedOnce, Listed, InUse
  <1> QED
    BY <1>1, Invariant, PTL

(* The finalizers of a foreign pointer run when its memory is freed, all   *)
(* of them, in order, once, and at no other time.                          *)
THEOREM Finalization == Spec => []FinalizersRunOnFree
  BY Invariant, PTL DEF IInv

(* What the program holds itself is not freed, although a monolith that    *)
(* dropped off the list keeps a used bit nobody clears.                    *)
THEOREM RootsSurvive == Spec => RootsKept
  <1>1. IInv /\ [Next]_vars => [FreeMonolith => Head(todo) \notin roots]_vars
    BY DEF IInv, RootsMarked, FreeMonolith
  <1> QED
    BY <1>1, Invariant, PTL DEF Spec, RootsKept

=============================================================================
