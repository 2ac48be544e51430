--------------------------- MODULE RuntimeProofs ----------------------------
(***************************************************************************)
(* Proofs about the process of Runtime: its allocator, the links of its    *)
(* stable pointers and its start.                                          *)
(***************************************************************************)
EXTENDS Runtime, SequenceTheorems, FiniteSetTheorems, WellFoundedInduction, TLAPS

-----------------------------------------------------------------------------
(* Alignment.                                                              *)

(* Of multiples of w the one next above m is not above another one that m  *)
(* is below.                                                               *)
LEMMA NextMultiple ==
    ASSUME NEW w \in Nat \ {0}, NEW q \in Int, NEW k \in Int, w * q < w * k
    PROVE  w * q + w <= w * k
<1>1. q < k
  <2>1. SUFFICES ASSUME k <= q PROVE w * k <= w * q
    BY <2>1
  <2>2. q - k \in Nat
    BY <2>1
  <2>3. w * (q - k) >= 0
    BY <2>2
  <2> QED BY <2>3
<1>2. w * (k - (q + 1)) >= 0
  BY <1>1
<1> QED BY <1>2

(* M_ALIGN keeps a request and stays within the chunk.                     *)
LEMMA AlignFits ==
    ASSUME NEW n \in 1..ChunkSize
    PROVE  /\ M_ALIGN(WordSize, n) \in Nat
           /\ n <= M_ALIGN(WordSize, n)
           /\ M_ALIGN(WordSize, n) <= ChunkSize
<1> DEFINE r == (n - 1) % WordSize
           q == (n - 1) \div WordSize
<1>1. WordSize \in Nat \ {0} /\ ChunkSize \in Nat
  BY SizesAssumption
<1>2. n - 1 \in Nat
  BY <1>1
<1>3. r \in 0..(WordSize - 1) /\ q \in Int /\ n - 1 = WordSize * q + r
  BY <1>1, <1>2
<1>4. PICK k \in 1..ChunkSize : ChunkSize = WordSize * k
  BY SizesAssumption
<1>5. WordSize * q < WordSize * k
  BY <1>1, <1>3, <1>4
<1>6. WordSize * q + WordSize <= WordSize * k
  BY <1>1, <1>3, <1>4, <1>5, NextMultiple
<1> QED BY <1>1, <1>3, <1>4, <1>6 DEF M_ALIGN

-----------------------------------------------------------------------------
(* The history of the stable pointers.                                     *)

LEMMA Prepended ==
    ASSUME NEW T, NEW s \in Seq(T), NEW e \in T
    PROVE  /\ << e >> \o s \in Seq(T) /\ Len(<< e >> \o s) = Len(s) + 1
           /\ (<< e >> \o s)[1] = e
           /\ \A i \in 2..(Len(s) + 1) : (<< e >> \o s)[i] = s[i - 1]
<1>1. << e >> \in Seq(T) /\ Len(<< e >>) = 1 /\ << e >>[1] = e /\ Len(s) \in Nat
  OBVIOUS
<1>2. /\ << e >> \o s \in Seq(T) /\ Len(<< e >> \o s) = 1 + Len(s)
      /\ \A i \in 1..(1 + Len(s)) :
            (<< e >> \o s)[i] = IF i <= 1 THEN << e >>[i] ELSE s[i - 1]
  BY <1>1, ConcatProperties
<1> QED BY <1>1, <1>2

Without(s, k) == SubSeq(s, 1, k - 1) \o SubSeq(s, k + 1, Len(s))

LEMMA CutOut ==
    ASSUME NEW T, NEW s \in Seq(T), NEW k \in 1..Len(s)
    PROVE  /\ Without(s, k) \in Seq(T) /\ Len(Without(s, k)) = Len(s) - 1
           /\ \A i \in 1..(k - 1) : Without(s, k)[i] = s[i]
           /\ \A i \in k..(Len(s) - 1) : Without(s, k)[i] = s[i + 1]
<1> DEFINE t == Without(s, k)
           n == Len(s)
           u == SubSeq(s, 1, k - 1)
           v == SubSeq(s, k + 1, n)
<1>1. n \in Nat /\ k \in 1..n /\ \A i \in 1..n : s[i] \in T
  BY ElementOfSeq
<1>2. /\ u \in Seq(T) /\ Len(u) = k - 1 /\ \A i \in 1..(k - 1) : u[i] = s[i]
  <2>1. \A i \in 1..(k - 1) : s[i] \in T
    BY <1>1
  <2> HIDE DEF n
  <2> QED BY <1>1, <2>1, SubSeqProperties
<1>3. /\ v \in Seq(T) /\ Len(v) = n - k /\ \A i \in 1..(n - k) : v[i] = s[k + i]
  <2>1. \A i \in (k + 1)..n : s[i] \in T
    BY <1>1
  <2> HIDE DEF n
  <2>2. /\ v \in Seq(T)
        /\ Len(v) = IF k + 1 <= n THEN n - (k + 1) + 1 ELSE 0
        /\ \A i \in 1..(n - (k + 1) + 1) : v[i] = s[(k + 1) + i - 1]
    BY <1>1, <2>1, SubSeqProperties
  <2>3. n - (k + 1) + 1 = n - k /\ \A i \in Nat : (k + 1) + i - 1 = k + i
    BY <1>1
  <2> HIDE DEF v
  <2> QED BY <1>1, <2>2, <2>3
<1> HIDE DEF u, v
<1>4. /\ u \o v \in Seq(T) /\ Len(u \o v) = Len(u) + Len(v)
      /\ \A i \in 1..(Len(u) + Len(v)) :
            (u \o v)[i] = IF i <= Len(u) THEN u[i] ELSE v[i - Len(u)]
  BY <1>2, <1>3, ConcatProperties
<1>5. t = u \o v
  BY DEF u, v, Without
<1> HIDE DEF n, t
<1>6. t \in Seq(T) /\ Len(t) = n - 1
  <2>1. (k - 1) + (n - k) = n - 1
    BY <1>1
  <2>2. Len(t) = (k - 1) + (n - k) /\ t \in Seq(T)
    BY <1>2, <1>3, <1>4, <1>5
  <2> QED BY <2>1, <2>2
<1>7. ASSUME NEW i \in 1..(k - 1) PROVE t[i] = s[i]
  <2>1. i \in 1..((k - 1) + (n - k)) /\ i <= k - 1
    BY <1>1
  <2>2. t[i] = u[i]
    BY <1>2, <1>3, <1>4, <1>5, <2>1
  <2> QED BY <1>2, <2>2
<1>8. ASSUME NEW i \in k..(n - 1) PROVE t[i] = s[i + 1]
  <2>1. i - (k - 1) \in 1..(n - k) /\ k + (i - (k - 1)) = i + 1
        /\ i \in 1..((k - 1) + (n - k)) /\ ~(i <= k - 1)
    BY <1>1
  <2>2. t[i] = v[i - (k - 1)]
    BY <1>2, <1>3, <1>4, <1>5, <2>1
  <2> QED BY <1>3, <2>1, <2>2
<1> QED BY <1>6, <1>7, <1>8 DEF n, t

-----------------------------------------------------------------------------
(* Types.                                                                  *)

(* The variables of the run time keep their types, for every chunk size,   *)
(* word size and set of requests: mem_offset never leaves its chunk        *)
(* (gc_none.c:54-65).                                                      *)
THEOREM Typing == Spec => []TypeOK
<1>1. Init => TypeOK
  <2> SUFFICES ASSUME Init PROVE TypeOK
    OBVIOUS
  <2>1. (CHOOSE v \in Values : TRUE) \in Values
    BY ValuesAssumption
  <2>2. 0 \in 0..ChunkSize
    BY SizesAssumption
  <2> QED BY <2>1, <2>2 DEF Init, TypeOK, Links
<1>2. TypeOK /\ [Next]_vars => TypeOK'
  <2> SUFFICES ASSUME TypeOK, [Next]_vars PROVE TypeOK'
    OBVIOUS
  <2> USE DEF TypeOK, processVars, allocVars, listVars
  <2>1. ASSUME NEW n \in Requests, jhc_malloc(n) PROVE TypeOK'
    <3> DEFINE size == M_ALIGN(WordSize, n)
    <3>1. size \in Nat /\ n <= size /\ size <= ChunkSize
      BY RequestsAssumption, AlignFits
    <3> HIDE DEF size
    <3>2. ChunkSize \in Nat
      BY SizesAssumption
    <3>3. chunk' \in Nat /\ mem_offset' \in 0..ChunkSize
      BY <2>1, <3>1, <3>2 DEF jhc_malloc, TooLong, size
    <3>4. allocs' \subseteq Allocation
      BY <2>1, <3>2 DEF jhc_malloc, Allocation
    <3> QED BY <2>1, <3>3, <3>4 DEF jhc_malloc
  <2>2. ASSUME NEW n \in Requests, OutOfMemory(n) PROVE TypeOK'
    BY <2>2 DEF OutOfMemory
  <2>3. ASSUME NEW p \in Structs, NEW v \in Values, c_newStablePtr(p, v)
        PROVE  TypeOK'
    <3>1. order' \in Seq(Structs \X Values)
      <4>1. order' = << << p, v >> >> \o order /\ order \in Seq(Structs \X Values)
        BY <2>3 DEF c_newStablePtr
      <4>2. << p, v >> \in Structs \X Values
        OBVIOUS
      <4> QED BY <4>1, <4>2, Prepended
    <3> QED BY <2>3, <3>1 DEF c_newStablePtr, Links, NextOf
  <2>4. ASSUME NEW p \in Structs, c_freeStablePtr(p) PROVE TypeOK'
    <3>1. order' \in Seq(Structs \X Values)
      <4>1. PICK k \in 1..Len(order) :
               order' = SubSeq(order, 1, k - 1) \o SubSeq(order, k + 1, Len(order))
        BY <2>4 DEF c_freeStablePtr, Forgotten
      <4>2. order \in Seq(Structs \X Values)
        OBVIOUS
      <4> QED BY <4>1, <4>2, CutOut
    <3> QED BY <2>4, <3>1 DEF c_freeStablePtr, Links
  <2>5. CASE hs_init
    BY <2>5 DEF hs_init
  <2>6. CASE Enter
    BY <2>6 DEF Enter
  <2>7. CASE Leave
    BY <2>7 DEF Leave
  <2>8. CASE hs_exit
    BY <2>8 DEF hs_exit
  <2>9. CASE jhc_exit \/ jhc_case_fell_off
    BY <2>9 DEF jhc_exit, jhc_case_fell_off
  <2>10. CASE UNCHANGED vars
    BY <2>10 DEF vars
  <2> QED BY <2>1, <2>2, <2>3, <2>4, <2>5, <2>6, <2>7, <2>8, <2>9, <2>10 DEF Next
<1> QED BY <1>1, <1>2, PTL DEF Spec

-----------------------------------------------------------------------------
(* The allocator.                                                          *)

(* Beyond AllocsDisjoint: nothing has been handed out of a chunk still to  *)
(* come, nor of this one from mem_offset on.                               *)
BehindOffset ==
    \A a \in allocs : /\ a.chunk <= chunk
                      /\ a.chunk = chunk => a.offset + a.size <= mem_offset

(* No two allocations share a byte and none leaves its chunk, for every    *)
(* chunk size and every set of requests that fit in a chunk                *)
(* (gc_none.c:54-65).                                                      *)
THEOREM Disjointness == Spec => []AllocsDisjoint
<1> DEFINE Inv == BehindOffset /\ AllocsDisjoint
<1>1. Init => Inv
  BY DEF Init, BehindOffset, AllocsDisjoint
<1>2. TypeOK /\ Inv /\ [Next]_vars => Inv'
  <2> SUFFICES ASSUME TypeOK, Inv, [Next]_vars PROVE Inv'
    OBVIOUS
  <2>1. ASSUME NEW n \in Requests, jhc_malloc(n) PROVE Inv'
    <3> DEFINE size == M_ALIGN(WordSize, n)
               c == IF TooLong(size) THEN chunk + 1 ELSE chunk
               o == IF TooLong(size) THEN 0 ELSE mem_offset
               new == [chunk |-> c, offset |-> o, size |-> n]
    <3>1. size \in Nat /\ n <= size /\ size <= ChunkSize /\ n \in 1..ChunkSize
      BY RequestsAssumption, AlignFits
    <3>2. /\ allocs' = allocs \union {new}
          /\ chunk' = c
          /\ mem_offset' = o + size
      BY <2>1 DEF jhc_malloc
    <3> HIDE DEF size
    <3>3. ChunkSize \in Nat /\ chunk \in Nat /\ mem_offset \in 0..ChunkSize
      BY SizesAssumption DEF TypeOK
    <3>4. /\ c \in Nat /\ chunk <= c /\ o \in Nat /\ o + size <= ChunkSize
          /\ c = chunk => o = mem_offset
      BY <3>1, <3>3 DEF TooLong
    <3> HIDE DEF c, o
    <3>5. \A a \in allocs : a.chunk \in Nat /\ a.offset \in Nat /\ a.size \in 1..ChunkSize
      BY RequestsAssumption DEF TypeOK, Allocation
    <3>6. \A a \in allocs : a.chunk <= c /\ (a.chunk = c => a.offset + a.size <= o)
      BY <3>3, <3>4, <3>5 DEF BehindOffset
    <3>7. BehindOffset'
      BY <3>1, <3>2, <3>4, <3>5, <3>6 DEF BehindOffset
    <3>8. new.offset + new.size <= ChunkSize
      BY <3>1, <3>3, <3>4
    <3>9. \A a \in allocs : Disjoint(a, new) /\ Disjoint(new, a)
      BY <3>6 DEF Disjoint
    <3>10. AllocsDisjoint'
      BY <3>2, <3>8, <3>9 DEF AllocsDisjoint
    <3> QED BY <3>7, <3>10
  <2>2. CASE UNCHANGED allocVars
    BY <2>2 DEF allocVars, BehindOffset, AllocsDisjoint
  <2>3. ASSUME NEW n \in Requests, OutOfMemory(n) PROVE UNCHANGED allocVars
    BY <2>3 DEF OutOfMemory
  <2>4. ASSUME NEW p \in Structs, NEW v \in Values, c_newStablePtr(p, v)
        PROVE  UNCHANGED allocVars
    BY <2>4 DEF c_newStablePtr
  <2>5. ASSUME NEW p \in Structs, c_freeStablePtr(p) PROVE UNCHANGED allocVars
    BY <2>5 DEF c_freeStablePtr
  <2>6. hs_init \/ Enter \/ Leave \/ hs_exit \/ jhc_exit \/ jhc_case_fell_off
          \/ UNCHANGED vars => UNCHANGED allocVars
    BY DEF hs_init, Enter, Leave, hs_exit, jhc_exit, jhc_case_fell_off, vars
  <2> QED BY <2>1, <2>2, <2>3, <2>4, <2>5, <2>6 DEF Next
<1> QED BY <1>1, <1>2, Typing, PTL DEF Spec

-----------------------------------------------------------------------------
(* The stable pointers.                                                    *)

(* The links of the list agree for any number of structs, made and freed   *)
(* in any order, their memory used again or not: the invariant is local,   *)
(* and inductive with the types (stableptr.c:6-20, queue.h:120-132).       *)
THEOREM LinksStay == Spec => []LinksAgree
<1>1. Init => LinksAgree
  BY DEF Init, LinksAgree
<1>2. TypeOK /\ LinksAgree /\ [Next]_vars => LinksAgree'
  <2> SUFFICES ASSUME TypeOK, LinksAgree, [Next]_vars PROVE LinksAgree'
    OBVIOUS
  <2>0. \A p, q \in Structs : NextOf(p) # ListHead /\ (NextOf(p) = NextOf(q) => p = q)
    BY DEF NextOf, ListHead
  <2>1. ASSUME NEW p \in Structs, NEW v \in Values, c_newStablePtr(p, v)
        PROVE  LinksAgree'
    BY <2>0, <2>1, NullAssumption DEF c_newStablePtr, LinksAgree, TypeOK
  <2>2. ASSUME NEW p \in Structs, c_freeStablePtr(p) PROVE LinksAgree'
    BY <2>0, <2>2, NullAssumption DEF c_freeStablePtr, LinksAgree, TypeOK
  <2>3. CASE UNCHANGED listVars
    BY <2>3 DEF listVars, LinksAgree
  <2>4. ASSUME NEW n \in Requests, jhc_malloc(n) \/ OutOfMemory(n)
        PROVE  UNCHANGED listVars
    BY <2>4 DEF jhc_malloc, OutOfMemory
  <2>5. hs_init \/ Enter \/ Leave \/ hs_exit \/ jhc_exit \/ jhc_case_fell_off
          \/ UNCHANGED vars => UNCHANGED listVars
    BY DEF hs_init, Enter, Leave, hs_exit, jhc_exit, jhc_case_fell_off, vars
  <2> QED BY <2>1, <2>2, <2>3, <2>4, <2>5 DEF Next
<1> QED BY <1>1, <1>2, Typing, PTL DEF Spec

(* The list as the history has it: its links lead from every struct to the *)
(* one that was made before it.                                            *)
IsList(first, nx, pv, ct, lv, s) ==
    /\ first = IF Len(s) = 0 THEN NULL ELSE s[1][1]
    /\ \A i \in 1..Len(s) :
         /\ nx[s[i][1]] = IF i = Len(s) THEN NULL ELSE s[i + 1][1]
         /\ pv[s[i][1]] = IF i = 1 THEN ListHead ELSE NextOf(s[i - 1][1])
         /\ ct[s[i][1]] = s[i][2]
    /\ \A i, j \in 1..Len(s) : s[i][1] = s[j][1] => i = j
    /\ lv = {s[i][1] : i \in 1..Len(s)}

ListIs == IsList(lh_first, next, prev, contents, live, order)

LEMMA NewHead ==
    ASSUME TypeOK, ListIs, NEW p \in Structs, NEW v \in Values, c_newStablePtr(p, v)
    PROVE  ListIs'
<1> DEFINE n == Len(order)
           o2 == order'
<1>1. /\ n \in Nat /\ Len(o2) = n + 1 /\ o2[1] = << p, v >>
      /\ \A i \in 2..(n + 1) : o2[i] = order[i - 1]
      /\ \A i \in 1..n : order[i] \in Structs \X Values
  <2>1. o2 = << << p, v >> >> \o order /\ order \in Seq(Structs \X Values)
    BY DEF c_newStablePtr, TypeOK
  <2>2. << p, v >> \in Structs \X Values
    OBVIOUS
  <2> HIDE DEF o2
  <2> QED BY <2>1, <2>2, Prepended, ElementOfSeq
<1>2. /\ lh_first = IF n = 0 THEN NULL ELSE order[1][1]
      /\ \A i \in 1..n :
            /\ next[order[i][1]] = IF i = n THEN NULL ELSE order[i + 1][1]
            /\ prev[order[i][1]] = IF i = 1 THEN ListHead ELSE NextOf(order[i - 1][1])
            /\ contents[order[i][1]] = order[i][2]
      /\ \A i, j \in 1..n : order[i][1] = order[j][1] => i = j
      /\ live = {order[i][1] : i \in 1..n}
  BY DEF ListIs, IsList
<1>3. /\ lh_first' = p /\ live' = live \union {p} /\ p \notin live
      /\ next' = [next EXCEPT ![p] = lh_first] /\ contents' = [contents EXCEPT ![p] = v]
      /\ prev' = [q \in Structs |-> IF q = p THEN ListHead
                                    ELSE IF q = lh_first THEN NextOf(p)
                                    ELSE prev[q]]
  BY DEF c_newStablePtr
<1>4. next \in [Structs -> Structs \union {NULL}] /\ contents \in [Structs -> Values]
  BY DEF TypeOK
<1> HIDE DEF n, o2
<1>5. \A i \in 1..n : order[i][1] \in Structs /\ order[i][1] # p
  BY <1>1, <1>2, <1>3
<1>6. /\ next'[p] = lh_first /\ contents'[p] = v /\ prev'[p] = ListHead
      /\ \A q \in Structs : q # p =>
            /\ next'[q] = next[q] /\ contents'[q] = contents[q]
            /\ prev'[q] = IF q = lh_first THEN NextOf(p) ELSE prev[q]
  BY <1>3, <1>4
<1>7. lh_first' = IF n + 1 = 0 THEN NULL ELSE o2[1][1]
  BY <1>1, <1>3
<1>8. ASSUME NEW i \in 1..(n + 1)
      PROVE  /\ next'[o2[i][1]] = IF i = n + 1 THEN NULL ELSE o2[i + 1][1]
             /\ prev'[o2[i][1]] = IF i = 1 THEN ListHead ELSE NextOf(o2[i - 1][1])
             /\ contents'[o2[i][1]] = o2[i][2]
  <2>1. CASE i = 1
    <3>1. o2[i] = << p, v >>
      BY <1>1, <2>1
    <3>2. next'[p] = IF i = n + 1 THEN NULL ELSE o2[i + 1][1]
      <4>1. CASE n = 0
        BY <1>2, <1>6, <2>1, <4>1
      <4>2. CASE n # 0
        <5>1. 2 \in 2..(n + 1) /\ i + 1 = 2 /\ i # n + 1 /\ 2 - 1 = 1
          BY <1>1, <2>1, <4>2
        <5>2. o2[i + 1] = order[1]
          BY <1>1, <5>1
        <5> QED BY <1>2, <1>6, <4>2, <5>1, <5>2
      <4> QED BY <4>1, <4>2
    <3> QED BY <1>6, <2>1, <3>1, <3>2
  <2>2. CASE i # 1
    <3> DEFINE j == i - 1
    <3>1. /\ j \in 1..n /\ i \in 2..(n + 1) /\ j + 1 = i /\ i - 1 = j
          /\ i = n + 1 <=> j = n
      BY <1>1, <2>2
    <3> HIDE DEF j
    <3>2. o2[i] = order[j] /\ order[j][1] # p /\ order[j][1] \in Structs
      BY <1>1, <1>5, <3>1
    <3>3. next'[order[j][1]] = IF i = n + 1 THEN NULL ELSE o2[i + 1][1]
      <4>1. CASE i = n + 1
        BY <1>2, <1>6, <3>1, <3>2, <4>1
      <4>2. CASE i # n + 1
        <5>1. i + 1 \in 2..(n + 1) /\ (i + 1) - 1 = j + 1 /\ j # n
          BY <1>1, <3>1, <4>2
        <5>2. o2[i + 1] = order[j + 1]
          BY <1>1, <5>1
        <5>3. next[order[j][1]] = order[j + 1][1]
          BY <1>2, <3>1, <5>1
        <5>4. next'[order[j][1]] = next[order[j][1]]
          BY <1>6, <3>2
        <5> QED BY <4>2, <5>2, <5>3, <5>4
      <4> QED BY <4>1, <4>2
    <3>4. prev'[order[j][1]] = NextOf(o2[i - 1][1])
      <4>1. CASE j = 1
        <5>1. order[j][1] = lh_first
          BY <1>1, <1>2, <3>1, <4>1
        <5> QED BY <1>1, <1>6, <3>1, <3>2, <4>1, <5>1
      <4>2. CASE j # 1
        <5>1. j \in 2..(n + 1) /\ 1 \in 1..n /\ n # 0
          BY <1>1, <3>1, <4>2
        <5>2. order[j][1] # lh_first
          BY <1>2, <3>1, <4>2, <5>1
        <5>3. o2[j] = order[j - 1]
          BY <1>1, <5>1
        <5>4. prev[order[j][1]] = NextOf(order[j - 1][1])
          BY <1>2, <3>1, <4>2
        <5>5. prev'[order[j][1]] = prev[order[j][1]]
          BY <1>6, <3>2, <5>2
        <5> QED BY <3>1, <5>3, <5>4, <5>5
      <4> QED BY <4>1, <4>2
    <3>5. contents'[order[j][1]] = order[j][2]
      <4>1. contents[order[j][1]] = order[j][2]
        BY <1>2, <3>1
      <4>2. contents'[order[j][1]] = contents[order[j][1]]
        BY <1>6, <3>2
      <4> QED BY <4>1, <4>2
    <3> QED BY <2>2, <3>2, <3>3, <3>4, <3>5
  <2> QED BY <2>1, <2>2
<1>9. ASSUME NEW i \in 1..(n + 1), NEW j \in 1..(n + 1), o2[i][1] = o2[j][1]
      PROVE  i = j
  <2>1. ASSUME NEW k \in 1..(n + 1), k # 1
        PROVE  k - 1 \in 1..n /\ o2[k] = order[k - 1] /\ o2[k][1] # p
    <3>1. k - 1 \in 1..n /\ k \in 2..(n + 1)
      BY <1>1, <2>1
    <3> QED BY <1>1, <1>5, <3>1
  <2>2. o2[1][1] = p
    BY <1>1
  <2>3. CASE i = 1 \/ j = 1
    BY <1>9, <2>1, <2>2, <2>3
  <2>4. CASE i # 1 /\ j # 1
    <3>1. i - 1 = j - 1
      BY <1>2, <1>9, <2>1, <2>4
    <3> QED BY <1>1, <3>1
  <2> QED BY <2>3, <2>4
<1>10. live' = {o2[i][1] : i \in 1..(n + 1)}
  <2>1. ASSUME NEW q \in live' PROVE \E i \in 1..(n + 1) : q = o2[i][1]
    <3>1. CASE q = p
      <4>1. 1 \in 1..(n + 1) /\ o2[1][1] = p
        BY <1>1
      <4> QED BY <3>1, <4>1
    <3>2. CASE q \in live
      <4>1. PICK i \in 1..n : q = order[i][1]
        BY <1>2, <3>2
      <4>2. i + 1 \in 1..(n + 1) /\ i + 1 \in 2..(n + 1) /\ (i + 1) - 1 = i
        BY <1>1
      <4>3. o2[i + 1] = order[i]
        BY <1>1, <4>2
      <4> QED BY <4>1, <4>2, <4>3
    <3> QED BY <1>3, <3>1, <3>2
  <2>2. ASSUME NEW i \in 1..(n + 1) PROVE o2[i][1] \in live'
    <3>1. CASE i = 1
      BY <1>1, <1>3, <3>1
    <3>2. CASE i # 1
      <4>1. i - 1 \in 1..n /\ i \in 2..(n + 1)
        BY <1>1, <3>2
      <4>2. o2[i] = order[i - 1]
        BY <1>1, <4>1
      <4> QED BY <1>2, <1>3, <4>1, <4>2
    <3> QED BY <3>1, <3>2
  <2> QED BY <2>1, <2>2
<1>11. Len(order') = n + 1 /\ o2 = order'
  BY <1>1 DEF o2
<1> QED BY <1>7, <1>8, <1>9, <1>10, <1>11 DEF ListIs, IsList

LEMMA Unlinked ==
    ASSUME TypeOK, ListIs, NEW p \in Structs, c_freeStablePtr(p)
    PROVE  ListIs'
<1> DEFINE n == Len(order)
           o2 == order'
<1>1. /\ lh_first = IF n = 0 THEN NULL ELSE order[1][1]
      /\ \A i \in 1..n :
            /\ next[order[i][1]] = IF i = n THEN NULL ELSE order[i + 1][1]
            /\ prev[order[i][1]] = IF i = 1 THEN ListHead ELSE NextOf(order[i - 1][1])
            /\ contents[order[i][1]] = order[i][2]
      /\ \A i, j \in 1..n : order[i][1] = order[j][1] => i = j
      /\ live = {order[i][1] : i \in 1..n}
  BY DEF ListIs, IsList
<1>2. PICK k \in 1..n :
         /\ order[k][1] = p
         /\ o2 = SubSeq(order, 1, k - 1) \o SubSeq(order, k + 1, n)
  BY DEF c_freeStablePtr, Forgotten
<1>3. /\ n \in Nat /\ Len(o2) = n - 1
      /\ \A i \in 1..(k - 1) : o2[i] = order[i]
      /\ \A i \in k..(n - 1) : o2[i] = order[i + 1]
      /\ \A i \in 1..n : order[i] \in Structs \X Values
  <2>1. order \in Seq(Structs \X Values) /\ n \in Nat
    BY DEF TypeOK
  <2>2. \A i \in 1..n : order[i] \in Structs \X Values
    BY <2>1, ElementOfSeq
  <2> HIDE DEF o2
  <2>3. k \in 1..Len(order) /\ o2 = Without(order, k)
    BY <1>2 DEF Without
  <2> DEFINE T == Structs \X Values
  <2>4. order \in Seq(T)
    BY <2>1
  <2> HIDE DEF T
  <2>5. /\ Len(o2) = Len(order) - 1
        /\ \A i \in 1..(k - 1) : o2[i] = order[i]
        /\ \A i \in k..(Len(order) - 1) : o2[i] = order[i + 1]
    BY <2>3, <2>4, CutOut
  <2> QED BY <2>1, <2>2, <2>5
<1>4. /\ prev' = [q \in Structs |-> IF q = next[p] THEN prev[p] ELSE prev[q]]
      /\ lh_first' = IF prev[p] = ListHead THEN next[p] ELSE lh_first
      /\ next' = [q \in Structs |-> IF prev[p] = NextOf(q) THEN next[p] ELSE next[q]]
      /\ live' = live \ {p} /\ contents' = contents
  BY DEF c_freeStablePtr
<1>5. \A q, r \in Structs : NextOf(q) # ListHead /\ (NextOf(q) = NextOf(r) => q = r)
  BY DEF NextOf, ListHead
<1>6. Len(order') = n - 1 /\ o2 = order'
  BY <1>3
<1> HIDE DEF n, o2
<1>7. /\ next[p] = IF k = n THEN NULL ELSE order[k + 1][1]
      /\ prev[p] = IF k = 1 THEN ListHead ELSE NextOf(order[k - 1][1])
  BY <1>1, <1>2
<1>8. \A i \in 1..n : order[i][1] \in Structs
  BY <1>3
<1>9. k = 1 \/ (k - 1 \in 1..n /\ k - 1 # k)
  BY <1>3
<1>10. k = n \/ (k + 1 \in 1..n /\ k + 1 # k)
  BY <1>3
(* Only the links of the neighbours change.                                *)
<1>11. ASSUME NEW i \in 1..n
       PROVE  next'[order[i][1]] = IF i = k - 1 THEN next[p] ELSE next[order[i][1]]
  <2>1. prev[p] = NextOf(order[i][1]) <=> i = k - 1
    <3>1. CASE k = 1
      <4>1. prev[p] = ListHead /\ i # k - 1
        BY <1>3, <1>7, <3>1
      <4> QED BY <1>5, <1>8, <4>1
    <3>2. CASE k # 1
      <4>1. prev[p] = NextOf(order[k - 1][1]) /\ k - 1 \in 1..n
        BY <1>7, <1>9, <3>2
      <4>2. order[k - 1][1] = order[i][1] <=> i = k - 1
        BY <1>1, <4>1
      <4> QED BY <1>5, <1>8, <4>1, <4>2
    <3> QED BY <3>1, <3>2
  <2>2. next'[order[i][1]] =
           IF prev[p] = NextOf(order[i][1]) THEN next[p] ELSE next[order[i][1]]
    BY <1>4, <1>8
  <2> QED BY <2>1, <2>2
<1>12. ASSUME NEW i \in 1..n
       PROVE  prev'[order[i][1]] = IF i = k + 1 THEN prev[p] ELSE prev[order[i][1]]
  <2>1. order[i][1] = next[p] <=> i = k + 1
    <3>1. CASE k = n
      <4>1. next[p] = NULL /\ i # k + 1
        BY <1>3, <1>7, <3>1
      <4> QED BY <1>8, <4>1, NullAssumption
    <3>2. CASE k # n
      <4>1. next[p] = order[k + 1][1] /\ k + 1 \in 1..n
        BY <1>7, <1>10, <3>2
      <4> QED BY <1>1, <4>1
    <3> QED BY <3>1, <3>2
  <2>2. prev'[order[i][1]] = IF order[i][1] = next[p] THEN prev[p] ELSE prev[order[i][1]]
    BY <1>4, <1>8
  <2> QED BY <2>1, <2>2
<1>13. lh_first' = IF n - 1 = 0 THEN NULL ELSE o2[1][1]
  <2>1. CASE k = 1
    <3>1. lh_first' = next[p]
      BY <1>4, <1>7, <2>1
    <3>2. CASE n = 1
      BY <1>7, <2>1, <3>1, <3>2
    <3>3. CASE n # 1
      <4>1. 1 \in k..(n - 1) /\ n - 1 # 0 /\ k # n /\ k + 1 = 1 + 1
        BY <1>3, <2>1, <3>3
      <4>2. o2[1] = order[1 + 1]
        BY <1>3, <4>1
      <4> QED BY <1>7, <3>1, <4>1, <4>2
    <3> QED BY <3>2, <3>3
  <2>2. CASE k # 1
    <3>1. k - 1 \in 1..n /\ 1 \in 1..(k - 1) /\ n - 1 # 0 /\ n # 0
      BY <1>3, <2>2
    <3>2. prev[p] # ListHead
      BY <1>5, <1>7, <1>8, <2>2, <3>1
    <3>3. lh_first' = order[1][1]
      BY <1>1, <1>4, <3>1, <3>2
    <3>4. o2[1] = order[1]
      BY <1>3, <3>1
    <3> QED BY <3>1, <3>3, <3>4
  <2> QED BY <2>1, <2>2
<1>14. ASSUME NEW i \in 1..(n - 1)
       PROVE  /\ next'[o2[i][1]] = IF i = n - 1 THEN NULL ELSE o2[i + 1][1]
              /\ prev'[o2[i][1]] = IF i = 1 THEN ListHead ELSE NextOf(o2[i - 1][1])
              /\ contents'[o2[i][1]] = o2[i][2]
  <2>1. CASE i < k
    <3>1. i \in 1..n /\ i \in 1..(k - 1) /\ i # k /\ i # n /\ i # k + 1
      BY <1>3, <2>1
    <3>2. o2[i] = order[i]
      BY <1>3, <3>1
    <3>3. contents'[o2[i][1]] = o2[i][2]
      BY <1>1, <1>4, <3>1, <3>2
    <3>4. prev'[o2[i][1]] = IF i = 1 THEN ListHead ELSE NextOf(o2[i - 1][1])
      <4>1. prev'[o2[i][1]] = IF i = 1 THEN ListHead ELSE NextOf(order[i - 1][1])
        BY <1>1, <1>12, <3>1, <3>2
      <4>2. CASE i # 1
        <5>1. i - 1 \in 1..(k - 1)
          BY <1>3, <3>1, <4>2
        <5>2. o2[i - 1] = order[i - 1]
          BY <1>3, <5>1
        <5> QED BY <4>1, <4>2, <5>2
      <4> QED BY <4>1, <4>2
    <3>5. next'[o2[i][1]] = IF i = n - 1 THEN NULL ELSE o2[i + 1][1]
      <4>1. CASE i = k - 1
        <5>1. next'[o2[i][1]] = next[p]
          BY <1>11, <3>1, <3>2, <4>1
        <5>2. CASE k = n
          BY <1>7, <4>1, <5>1, <5>2
        <5>3. CASE k # n
          <6>1. i + 1 = k /\ k \in k..(n - 1) /\ i # n - 1
            BY <1>3, <4>1, <5>3
          <6>2. o2[i + 1] = order[k + 1]
            BY <1>3, <6>1
          <6> QED BY <1>7, <5>1, <5>3, <6>1, <6>2
        <5> QED BY <5>2, <5>3
      <4>2. CASE i # k - 1
        <5>1. i + 1 \in 1..(k - 1) /\ i # n - 1
          BY <1>3, <3>1, <4>2
        <5>2. o2[i + 1] = order[i + 1]
          BY <1>3, <5>1
        <5>3. next'[o2[i][1]] = next[order[i][1]]
          BY <1>11, <3>1, <3>2, <4>2
        <5>4. next[order[i][1]] = order[i + 1][1]
          BY <1>1, <3>1
        <5> QED BY <5>1, <5>2, <5>3, <5>4
      <4> QED BY <4>1, <4>2
    <3> QED BY <3>3, <3>4, <3>5
  <2>2. CASE ~(i < k)
    <3>1. /\ i + 1 \in 1..n /\ i \in k..(n - 1) /\ i + 1 # k /\ i + 1 # k - 1 /\ i + 1 # 1
          /\ i + 1 = n <=> i = n - 1
          /\ i + 1 = k + 1 <=> i = k
      BY <1>3, <2>2
    <3>2. o2[i] = order[i + 1]
      BY <1>3, <3>1
    <3>3. contents'[o2[i][1]] = o2[i][2]
      BY <1>1, <1>4, <3>1, <3>2
    <3>4. prev'[o2[i][1]] = IF i = 1 THEN ListHead ELSE NextOf(o2[i - 1][1])
      <4>1. prev'[o2[i][1]] = IF i = k THEN prev[p] ELSE prev[order[i + 1][1]]
        BY <1>12, <3>1, <3>2
      <4>2. CASE i = k
        <5>1. prev'[o2[i][1]] = IF k = 1 THEN ListHead ELSE NextOf(order[k - 1][1])
          BY <1>7, <4>1, <4>2
        <5>2. CASE k # 1
          <6>1. k - 1 \in 1..(k - 1)
            BY <1>3, <5>2
          <6>2. o2[k - 1] = order[k - 1]
            BY <1>3, <6>1
          <6> QED BY <4>2, <5>1, <5>2, <6>2
        <5> QED BY <4>2, <5>1, <5>2
      <4>3. CASE i # k
        <5>1. i - 1 \in k..(n - 1) /\ (i - 1) + 1 = i /\ (i + 1) - 1 = i /\ i # 1
          <6>1. k \in 1..n /\ n \in Nat /\ i \in k..(n - 1) /\ i # k
            BY <1>2, <1>3, <3>1, <4>3
          <6> QED BY <6>1
        <5>2. o2[i - 1] = order[i]
          BY <1>3, <5>1
        <5>3. prev[order[i + 1][1]] = NextOf(order[(i + 1) - 1][1])
          BY <1>1, <3>1
        <5> QED BY <4>1, <4>3, <5>1, <5>2, <5>3
      <4> QED BY <4>2, <4>3
    <3>5. next'[o2[i][1]] = IF i = n - 1 THEN NULL ELSE o2[i + 1][1]
      <4>1. next'[o2[i][1]] = next[order[i + 1][1]]
        BY <1>11, <3>1, <3>2
      <4>2. CASE i = n - 1
        <5>1. next[order[i + 1][1]] = NULL
          BY <1>1, <3>1, <4>2
        <5> QED BY <4>1, <4>2, <5>1
      <4>3. CASE i # n - 1
        <5>1. i + 1 \in k..(n - 1)
          BY <1>3, <3>1, <4>3
        <5>2. o2[i + 1] = order[(i + 1) + 1]
          BY <1>3, <5>1
        <5>3. next[order[i + 1][1]] = order[(i + 1) + 1][1]
          BY <1>1, <3>1, <4>3
        <5> QED BY <4>1, <4>3, <5>2, <5>3
      <4> QED BY <4>2, <4>3
    <3> QED BY <3>3, <3>4, <3>5
  <2> QED BY <2>1, <2>2
(* What o2 lists is what order listed, but for p.                          *)
<1>15. \A i \in 1..(n - 1) :
          \E j \in 1..n : j # k /\ o2[i] = order[j] /\ j = IF i < k THEN i ELSE i + 1
  <2> SUFFICES ASSUME NEW i \in 1..(n - 1)
               PROVE  \E j \in 1..n : j # k /\ o2[i] = order[j]
                                      /\ j = IF i < k THEN i ELSE i + 1
    OBVIOUS
  <2>1. CASE i < k
    <3>1. i \in 1..(k - 1) /\ i \in 1..n /\ i # k
      BY <1>3, <2>1
    <3> QED BY <1>3, <2>1, <3>1
  <2>2. CASE ~(i < k)
    <3>1. i \in k..(n - 1) /\ i + 1 \in 1..n /\ i + 1 # k
      BY <1>3, <2>2
    <3> QED BY <1>3, <2>2, <3>1
  <2> QED BY <2>1, <2>2
<1>16. ASSUME NEW i \in 1..(n - 1), NEW j \in 1..(n - 1), o2[i][1] = o2[j][1]
       PROVE  i = j
  <2>1. PICK a \in 1..n : o2[i] = order[a] /\ a = IF i < k THEN i ELSE i + 1
    BY <1>15
  <2>2. PICK b \in 1..n : o2[j] = order[b] /\ b = IF j < k THEN j ELSE j + 1
    BY <1>15
  <2>3. a = b
    BY <1>1, <1>16, <2>1, <2>2
  <2>4. a = IF i < k THEN i ELSE i + 1
    BY <2>1
  <2>5. a = IF j < k THEN j ELSE j + 1
    BY <2>2, <2>3
  <2> QED BY <1>3, <2>4, <2>5
<1>17. live' = {o2[i][1] : i \in 1..(n - 1)}
  <2>1. ASSUME NEW q \in live' PROVE \E i \in 1..(n - 1) : q = o2[i][1]
    <3>1. PICK j \in 1..n : q = order[j][1]
      BY <1>1, <1>4
    <3>2. j # k
      BY <1>2, <1>4, <3>1
    <3>3. CASE j < k
      <4>1. j \in 1..(k - 1) /\ j \in 1..(n - 1)
        BY <1>3, <3>3
      <4> QED BY <1>3, <3>1, <4>1
    <3>4. CASE ~(j < k)
      <4>1. j - 1 \in k..(n - 1) /\ j - 1 \in 1..(n - 1) /\ (j - 1) + 1 = j
        BY <1>3, <3>2, <3>4
      <4>2. o2[j - 1] = order[j]
        BY <1>3, <4>1
      <4> QED BY <3>1, <4>1, <4>2
    <3> QED BY <3>3, <3>4
  <2>2. ASSUME NEW i \in 1..(n - 1) PROVE o2[i][1] \in live'
    <3>1. PICK j \in 1..n : j # k /\ o2[i] = order[j]
      BY <1>15
    <3>2. order[j][1] \in live /\ order[j][1] # p
      BY <1>1, <1>2, <3>1
    <3> QED BY <1>4, <3>1, <3>2
  <2> QED BY <2>1, <2>2
<1> QED BY <1>6, <1>13, <1>14, <1>16, <1>17 DEF ListIs, IsList

(* A set of naturals that is not empty has a least element.                *)
LEMMA Least ==
    ASSUME NEW T \in SUBSET Nat, T # {}
    PROVE  \E m \in T : \A k \in T : m <= k
<1>1. PICK m \in T : \A y \in T : ~(<< y, m >> \in OpToRel(<, Nat))
  BY NatLessThanWellFounded, WFMin
<1>2. \A y \in T : ~(y < m)
  BY <1>1 DEF OpToRel
<1> QED BY <1>2

(* Where the walk of LIST_FOREACH is after i steps.                        *)
At(i) == IF i < Len(order) THEN order[i + 1][1] ELSE NULL

LEMMA WalkAt ==
    ASSUME TypeOK, ListIs
    PROVE  \A i \in 0..Len(order) : Walk(Len(order))[i] = At(i)
<1> DEFINE n == Len(order)
           w == Walk(n)
           f == [i \in 0..n |-> At(i)]
           Step(g) == [i \in 0..n |-> IF i = 0 THEN lh_first
                                      ELSE IF g[i - 1] = NULL THEN NULL
                                      ELSE next[g[i - 1]]]
<1>1. /\ lh_first = IF n = 0 THEN NULL ELSE order[1][1]
      /\ \A i \in 1..n : next[order[i][1]] = IF i = n THEN NULL ELSE order[i + 1][1]
  BY DEF ListIs, IsList
<1>2. n \in Nat /\ \A i \in 1..n : order[i][1] # NULL
  <2>1. order \in Seq(Structs \X Values)
    BY DEF TypeOK
  <2>2. n \in Nat /\ \A i \in 1..n : order[i] \in Structs \X Values
    BY <2>1, ElementOfSeq
  <2> QED BY <2>2, NullAssumption
<1>3. /\ At(0) = lh_first
      /\ \A i \in 1..n : At(i - 1) # NULL /\ At(i) = next[At(i - 1)]
  <2>1. At(0) = lh_first
    <3>1. At(0) = IF 0 < n THEN order[1][1] ELSE NULL
      BY DEF At
    <3> QED BY <1>1, <1>2, <3>1
  <2>2. ASSUME NEW i \in 1..n PROVE At(i - 1) # NULL /\ At(i) = next[At(i - 1)]
    <3>1. i - 1 < n /\ (i - 1) + 1 = i /\ (i < n <=> i # n)
      BY <1>2
    <3>2. At(i - 1) = order[i][1]
      BY <3>1 DEF At
    <3>3. At(i) = IF i = n THEN NULL ELSE order[i + 1][1]
      BY <3>1 DEF At
    <3> QED BY <1>1, <1>2, <3>2, <3>3
  <2> QED BY <2>1, <2>2
<1>4. f = Step(f)
  <2>1. ASSUME NEW i \in 0..n PROVE f[i] = Step(f)[i]
    <3>1. CASE i = 0
      BY <1>3, <3>1
    <3>2. CASE i # 0
      <4>1. i \in 1..n /\ i - 1 \in 0..n
        BY <1>2, <3>2
      <4>2. f[i] = At(i) /\ f[i - 1] = At(i - 1)
        BY <4>1
      <4>3. Step(f)[i] = IF f[i - 1] = NULL THEN NULL ELSE next[f[i - 1]]
        BY <3>2
      <4> QED BY <1>3, <4>1, <4>2, <4>3
    <3> QED BY <3>1, <3>2
  <2> QED BY <2>1
<1>5. w = Step(w)
  <2>1. w = CHOOSE g : g = Step(g)
    BY DEF Walk
  <2> HIDE DEF w, Step, f
  <2> QED BY <1>4, <2>1
<1>6. \A i \in 0..n :
         w[i] = IF i = 0 THEN lh_first
                ELSE IF w[i - 1] = NULL THEN NULL ELSE next[w[i - 1]]
  <2> HIDE DEF w
  <2> QED BY <1>5
<1> HIDE DEF w, f, Step, n
(* At the first place where the two differ they would agree.               *)
<1> DEFINE differ == {i \in 0..n : w[i] # At(i)}
<1>7. CASE differ = {}
  BY <1>7 DEF w, n
<1>8. CASE differ # {}
  <2>1. differ \in SUBSET Nat
    BY <1>2
  <2>2. PICK m \in differ : \A k \in differ : m <= k
    <3> HIDE DEF differ
    <3> QED BY <1>8, <2>1, Least
  <2>3. m \in 0..n /\ w[m] # At(m)
    BY <2>2
  <2>4. m # 0
    BY <1>3, <1>6, <2>3
  <2>5. m \in 1..n /\ m - 1 \in 0..n /\ ~(m <= m - 1)
    BY <1>2, <2>3, <2>4
  <2>6. w[m - 1] = At(m - 1)
    BY <2>2, <2>5
  <2>7. w[m] = next[At(m - 1)]
    BY <1>3, <1>6, <2>3, <2>4, <2>5, <2>6
  <2> QED BY <1>3, <2>3, <2>5, <2>7
<1> QED BY <1>7, <1>8

(* The list leads through the live structs in the order in which they were *)
(* made, whatever has been made and freed before: from each to the one     *)
(* made before it, back again, and from the last to NULL                   *)
(* (stableptr.c:6-20, queue.h:120-132).                                    *)
THEOREM ListStays == Spec => []ListIs
<1>1. Init => ListIs
  <2> SUFFICES ASSUME Init PROVE ListIs
    OBVIOUS
  <2>1. lh_first = NULL /\ live = {} /\ order = << >>
    BY DEF Init
  <2>2. Len(order) = 0
    BY <2>1
  <2>3. 1..Len(order) = {}
    BY <2>2
  <2> QED BY <2>1, <2>2, <2>3 DEF ListIs, IsList
<1>2. TypeOK /\ ListIs /\ [Next]_vars => ListIs'
  <2> SUFFICES ASSUME TypeOK, ListIs, [Next]_vars PROVE ListIs'
    OBVIOUS
  <2>1. ASSUME NEW p \in Structs, NEW v \in Values, c_newStablePtr(p, v)
        PROVE  ListIs'
    BY <2>1, NewHead
  <2>2. ASSUME NEW p \in Structs, c_freeStablePtr(p) PROVE ListIs'
    BY <2>2, Unlinked
  <2>3. CASE UNCHANGED listVars
    BY <2>3 DEF listVars, ListIs, IsList
  <2>4. ASSUME NEW n \in Requests, jhc_malloc(n) \/ OutOfMemory(n)
        PROVE  UNCHANGED listVars
    BY <2>4 DEF jhc_malloc, OutOfMemory
  <2>5. hs_init \/ Enter \/ Leave \/ hs_exit \/ jhc_exit \/ jhc_case_fell_off
          \/ UNCHANGED vars => UNCHANGED listVars
    BY DEF hs_init, Enter, Leave, hs_exit, jhc_exit, jhc_case_fell_off, vars
  <2> QED BY <2>1, <2>2, <2>3, <2>4, <2>5 DEF Next
<1> QED BY <1>1, <1>2, Typing, PTL DEF Spec

(* A walk of the list, as the collector makes it for its roots, ends and   *)
(* comes to every live struct once, the newest first, with the value it    *)
(* was made for, for any number of structs and however often their memory  *)
(* is used again (queue.h:134-137, stableptr.c:22-26).                     *)
THEOREM WalksTheList == Spec => []WalkIsList
<1>1. TypeOK /\ ListIs => WalkIsList
  <2> SUFFICES ASSUME TypeOK, ListIs PROVE WalkIsList
    OBVIOUS
  <2> DEFINE n == Len(order)
             w == Walk(n)
             f == [i \in 1..n |-> order[i][1]]
  <2>1. /\ \A i \in 1..n : contents[order[i][1]] = order[i][2]
        /\ \A i, j \in 1..n : order[i][1] = order[j][1] => i = j
        /\ live = {order[i][1] : i \in 1..n}
    BY DEF ListIs, IsList
  <2>2. n \in Nat /\ \A i \in 1..n : order[i] \in Structs \X Values
    <3>1. order \in Seq(Structs \X Values)
      BY DEF TypeOK
    <3> QED BY <3>1, ElementOfSeq
  <2>3. \A i \in 0..n : w[i] = At(i)
    BY WalkAt
  <2> HIDE DEF w
  <2>4. w[n] = NULL
    <3>1. n \in 0..n /\ ~(n < n)
      BY <2>2
    <3> QED BY <2>3, <3>1 DEF At
  <2>5. ASSUME NEW i \in 1..n
        PROVE  w[i - 1] # NULL /\ order[i] = << w[i - 1], contents[w[i - 1]] >>
    <3>1. i - 1 \in 0..n /\ i - 1 < n /\ (i - 1) + 1 = i
      BY <2>2
    <3>2. w[i - 1] = order[i][1]
      BY <2>3, <3>1 DEF At
    <3>3. order[i] \in Structs \X Values
      BY <2>2
    <3>4. order[i] = << order[i][1], order[i][2] >> /\ order[i][1] \in Structs
      BY <3>3
    <3> QED BY <2>1, <3>2, <3>4, NullAssumption
  <2>6. Cardinality(live) = n
    <3>1. f \in [1..n -> live]
      BY <2>1
    <3>2. \A i, j \in 1..n : f[i] = f[j] => i = j
      BY <2>1
    <3>3. \A q \in live : \E i \in 1..n : f[i] = q
      BY <2>1
    <3>4. ExistsBijection(1..n, live)
      <4> HIDE DEF f, n
      <4> QED BY <3>1, <3>2, <3>3
              DEF ExistsBijection, Bijection, Injection, Surjection, IsInjective
    <3>5. IsFiniteSet(1..n) /\ Cardinality(1..n) = n
      <4>1. 1 \in Int /\ n \in Int /\ (1 > n => n = 0) /\ n - 1 + 1 = n
        BY <2>2
      <4> QED BY <2>2, <4>1, FS_Interval
    <3> QED BY <3>4, <3>5, FS_Bijection
  <2> QED BY <2>1, <2>4, <2>5, <2>6 DEF WalkIsList, w
<1> QED BY <1>1, Typing, ListStays, PTL

-----------------------------------------------------------------------------
(* The start.                                                              *)

(* The run time is set up once, before any Haskell code, however deep a    *)
(* host nests hs_init (rts_support.c:62-91).                               *)
THEOREM OneStart == Spec => []SetUpOnce
<1> DEFINE Inv == SetUpOnce /\ (pc = "haskell" => hs_init_count > 0)
<1>1. Init => Inv
  BY DEF Init, SetUpOnce
<1>2. TypeOK /\ Inv /\ [Next]_vars => Inv'
  <2> SUFFICES ASSUME TypeOK, Inv, [Next]_vars PROVE Inv'
    OBVIOUS
  <2> USE DEF TypeOK, SetUpOnce
  <2>1. CASE hs_init
    BY <2>1 DEF hs_init
  <2>2. CASE Enter
    BY <2>2 DEF Enter
  <2>3. CASE Leave
    BY <2>3 DEF Leave
  <2>4. CASE hs_exit
    BY <2>4 DEF hs_exit
  <2>5. CASE jhc_exit \/ jhc_case_fell_off
    BY <2>5 DEF jhc_exit, jhc_case_fell_off
  <2>6. ASSUME NEW n \in Requests, OutOfMemory(n) PROVE Inv'
    BY <2>6 DEF OutOfMemory
  <2>7. CASE UNCHANGED processVars
    BY <2>7 DEF processVars
  <2>8. ASSUME NEW n \in Requests, jhc_malloc(n) PROVE UNCHANGED processVars
    BY <2>8 DEF jhc_malloc
  <2>9. ASSUME NEW p \in Structs, NEW v \in Values, c_newStablePtr(p, v)
        PROVE  UNCHANGED processVars
    BY <2>9 DEF c_newStablePtr
  <2>10. ASSUME NEW p \in Structs, c_freeStablePtr(p) PROVE UNCHANGED processVars
    BY <2>10 DEF c_freeStablePtr
  <2>11. CASE UNCHANGED vars
    BY <2>11 DEF vars, processVars
  <2> QED BY <2>1, <2>2, <2>3, <2>4, <2>5, <2>6, <2>7, <2>8, <2>9, <2>10, <2>11 DEF Next
<1> QED BY <1>1, <1>2, Typing, PTL DEF Spec

=============================================================================
