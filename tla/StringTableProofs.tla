------------------------- MODULE StringTableProofs --------------------------
(***************************************************************************)
(* For all strings that are admitted, all hashes and all sizes: through    *)
(* displaced entries and nested growth every atom keeps one place, its     *)
(* bytes are never overwritten, and the table implements the set of atoms  *)
(* of AtomSet, in which the strings whose length fits keep their atom.     *)
(***************************************************************************)
EXTENDS StringTable, SequenceTheorems, WellFoundedInduction, TLAPS

(* The pairs that have been returned, and the one of the call under way.   *)
Pairs == interned \union (IF wanted = << >> THEN {} ELSE {wanted})

EntryOf(p) == [atom |-> p[2], hashes |-> Hash[p[1]], len |-> LenByte(p[1])]

Frame == [ot : UNION {[0..n -> Entries] : n \in Nat}, i : Nat, x : Entries]

(* What is under way: a call has a string while it inserts, an insertion   *)
(* has an entry in hand, and so has the caller of every grow_table.        *)
Phases ==
    /\ frames \in Seq(Frame)
    /\ \A n \in DOMAIN frames : ATOM_VALID(frames[n].x.atom)
    /\ pc = "idle" => wanted = << >> /\ frames = << >>
    /\ pc \in {"insert", "grow", "reinsert"} => wanted \in Strings \X Nat
    /\ pc \in {"insert", "grow"} => ATOM_VALID(x.atom)
    /\ pc \in {"idle", "reinsert"} => ~ATOM_VALID(x.atom)
    /\ pc = "reinsert" => frames # << >>
    /\ pc = "insert" => loop < DepthLimit

(* The atoms: only the empty string's is zero, and the one that is being   *)
(* added is new, as is its string if the length fits.                      *)
PairsOK ==
    /\ Pairs \subseteq Strings \X Nat
    /\ \A p \in Pairs : p[1] = << >> <=> p[2] = 0
    /\ wanted # << >> =>
          \A p \in interned : /\ p[2] # wanted[2]
                              /\ LengthFits(wanted[1]) => p[1] # wanted[1]

(* The bytes of a pair are where its atom says, below everything that is   *)
(* still free.                                                             *)
StoredAt(p) ==
    LET c == CHUNK_INDEX(p[2])
        o == CHUNK_OFFSET(p[2])
        n == Len(p[1])
    IN /\ p[2] = MAKE_ATOM(c, o)
       /\ c <= current_chunk
       /\ o + n + 1 <= IF c = current_chunk THEN next_free_offset ELSE ChunkSize
       /\ chunks[c][o] = LenByte(p[1])
       /\ \A i \in 1..n : chunks[c][o + i] = p[1][i]

ChunksOK ==
    /\ \A p \in Pairs : StoredAt(p)
    /\ chunks[0][0] = 0
    /\ current_chunk = 0 => next_free_offset >= 1

(* Every entry is that of a pair, and in the table it is in one of the     *)
(* four buckets of its hashes.                                             *)
EntriesOK ==
    \A s \in Spots : ATOM_VALID(EntryAt(s).atom) =>
        \E p \in Pairs : EntryAt(s) = EntryOf(p)

InItsBucket ==
    \A b \in DOMAIN htable : ATOM_VALID(htable[b].atom) =>
        \E p \in 0..3 : b = Bucket(HASHSIZE, htable[b].hashes, p)

IInv == /\ TypeOK
        /\ Phases
        /\ PairsOK
        /\ ChunksOK
        /\ EntriesOK
        /\ InItsBucket
        /\ EveryAtomOnce

-----------------------------------------------------------------------------
(* Facts about entries, buckets and strings.                               *)

LEMMA BucketRange ==
    ASSUME NEW size \in Nat \ {0}, NEW hashes \in Nat \X Nat, NEW p \in 0..3
    PROVE  Bucket(size, hashes, p) \in 0..(2 * size - 1)
  <1>1. p \div 2 \in {0, 1} /\ p % 2 \in {0, 1}
    OBVIOUS
  <1>2. ASSUME NEW h \in Nat, NEW j \in {0, 1} PROVE (h + j) % size \in 0..(size - 1)
    OBVIOUS
  <1>3. hashes[p \div 2 + 1] \in Nat
    BY <1>1
  <1>4. (hashes[p \div 2 + 1] + (p % 2)) % size \in 0..(size - 1)
    BY <1>1, <1>2, <1>3
  <1>5. CASE p \div 2 = 0
    BY <1>4, <1>5 DEF Bucket
  <1>6. CASE p \div 2 = 1
    BY <1>4, <1>6 DEF Bucket
  <1> QED
    BY <1>1, <1>5, <1>6

LEMMA SizeFacts ==
    /\ NumChunks \in Nat /\ NumChunks >= 1 /\ NumChunks <= 256
    /\ MaxEntry \in Nat /\ MaxEntry >= 2 /\ MaxEntry <= 256
    /\ ChunkSize \in Nat /\ ChunkSize > MaxEntry /\ ChunkSize <= 16384
    /\ DepthLimit \in Nat /\ DepthLimit >= 1
  BY SizesAssumption

LEMMA StringFacts ==
    ASSUME NEW s \in Strings
    PROVE  /\ s \in Seq(0..255) /\ Len(s) \in Nat /\ Len(s) <= MaxEntry
           /\ Hash[s] \in Nat \X Nat
           /\ s = << >> <=> Len(s) = 0
  <1>1. s \in Seq(0..255) /\ Len(s) <= MaxEntry
    BY StringsAssumption DEF Admitted
  <1>2. Len(s) \in Nat /\ (s = << >> <=> Len(s) = 0)
    BY <1>1, EmptySeq
  <1>3. Hash[s] \in Nat \X Nat
    BY HashAssumption
  <1> QED
    BY <1>1, <1>2, <1>3

(* The length alone, and the byte that keeps it.                           *)
LEMMA LengthFacts ==
    ASSUME NEW s \in Strings
    PROVE  /\ Len(s) \in Nat /\ Len(s) <= MaxEntry
           /\ LenByte(s) \in Nat /\ LenByte(s) < MaxEntry /\ LenByte(s) < 256
           /\ LengthFits(s) <=> Len(s) < MaxEntry
           /\ LengthFits(s) => LenByte(s) = Len(s)
           /\ ~LengthFits(s) => LenByte(s) = 0 /\ Len(s) # 0
  <1>1. Len(s) \in Nat /\ Len(s) <= MaxEntry
    BY StringFacts
  <1>2. MaxEntry \in Nat /\ MaxEntry >= 2 /\ MaxEntry <= 256
    BY SizeFacts
  <1>3. \A n, k \in Nat : k >= 2 /\ n <= k =>
            /\ n % k \in Nat /\ n % k < k
            /\ n < k => n % k = n
            /\ ~(n < k) => n % k = 0 /\ n # 0
    OBVIOUS
  <1>4. \A n \in Nat : n < MaxEntry => n < 256
    BY <1>2
  <1>5. LengthFits(s) <=> Len(s) < MaxEntry
    BY DEF LengthFits
  <1> QED
    BY <1>1, <1>2, <1>3, <1>4, <1>5 DEF LenByte

(* MAKE_ATOM loses nothing of the place.                                   *)
LEMMA AtomFacts ==
    ASSUME NEW c \in 0..(NumChunks - 1), NEW o \in 0..(ChunkSize - 1)
    PROVE  /\ MAKE_ATOM(c, o) \in Nat
           /\ CHUNK_INDEX(MAKE_ATOM(c, o)) = c
           /\ CHUNK_OFFSET(MAKE_ATOM(c, o)) = o
           /\ MAKE_ATOM(c, o) = 0 <=> c = 0 /\ o = 0
  <1>1. c \in Nat /\ c < 256 /\ o \in Nat /\ o < 16384
    <2>1. NumChunks \in Nat /\ NumChunks <= 256
      BY SizeFacts
    <2>2. c \in Nat /\ c < 256
      BY <2>1
    <2>3. ChunkSize \in Nat /\ ChunkSize <= 16384
      BY SizeFacts
    <2>4. o \in Nat /\ o < 16384
      BY <2>3
    <2> QED
      BY <2>2, <2>4
  <1>2. c % 256 = c /\ o % 16384 = o
    BY <1>1
  <1>3. MAKE_ATOM(c, o) = c + 256 * o
    BY <1>2 DEF MAKE_ATOM
  <1>4. (c + 256 * o) % 256 = c /\ (c + 256 * o) \div 256 = o
    BY <1>1
  <1> QED
    <2>1. MAKE_ATOM(c, o) \in Nat /\ (MAKE_ATOM(c, o) = 0 <=> c = 0 /\ o = 0)
      BY <1>1, <1>3
    <2>2. CHUNK_INDEX(MAKE_ATOM(c, o)) = c
      BY <1>3, <1>4 DEF CHUNK_INDEX
    <2>3. CHUNK_OFFSET(MAKE_ATOM(c, o)) = o
      BY <1>2, <1>3, <1>4 DEF CHUNK_OFFSET
    <2> QED
      BY <2>1, <2>2, <2>3

(* Where add_string puts a string: in the memory it has.                   *)
LEMMA RoomForString ==
    ASSUME TypeOK, NEW s \in Strings, ~(NeedChunk /\ LastChunk)
    PROVE  /\ NewChunk \in 0..(NumChunks - 1) /\ NewOffset \in 0..(ChunkSize - 1)
           /\ NewOffset + Len(s) + 1 <= ChunkSize
           /\ current_chunk <= NewChunk
           /\ NewChunk = current_chunk => NewOffset = next_free_offset
  <1>1. /\ NumChunks \in Nat /\ MaxEntry \in Nat /\ ChunkSize \in Nat
        /\ NumChunks >= 1 /\ ChunkSize > MaxEntry
    BY SizeFacts
  <1>2. /\ current_chunk \in Nat /\ current_chunk <= NumChunks - 1
        /\ next_free_offset \in Nat /\ next_free_offset <= ChunkSize
    BY <1>1 DEF TypeOK
  <1>3. Len(s) \in Nat /\ Len(s) <= MaxEntry
    BY LengthFacts
  <1>4. CASE NeedChunk
    <2>1. NewChunk = current_chunk + 1 /\ NewOffset = 0
      BY <1>4 DEF NewChunk, NewOffset
    <2>2. current_chunk < NumChunks - 1
      BY <1>1, <1>2, <1>4 DEF LastChunk
    <2> QED
      BY <1>1, <1>2, <1>3, <2>1, <2>2
  <1>5. CASE ~NeedChunk
    <2>1. NewChunk = current_chunk /\ NewOffset = next_free_offset
      BY <1>5 DEF NewChunk, NewOffset
    <2>2. next_free_offset + 1 <= ChunkSize - MaxEntry
      BY <1>1, <1>2, <1>5 DEF NeedChunk
    <2> QED
      BY <1>1, <1>2, <1>3, <2>1, <2>2
  <1> QED
    BY <1>4, <1>5

LEMMA NoEntryType == NoEntry \in Entries /\ ~ATOM_VALID(NoEntry.atom)
  BY DEF NoEntry, Entries, ATOM_VALID

LEMMA TableType ==
    ASSUME NEW size \in Nat
    PROVE  Table(size) \in [0..(2 * size - 1) -> Entries]
  BY NoEntryType DEF Table

LEMMA StoredType ==
    ASSUME NEW memory \in [0..(ChunkSize - 1) -> 0..256], NEW s \in Strings, NEW o \in Nat
    PROVE  Stored(memory, s, o) \in [0..(ChunkSize - 1) -> 0..256]
  <1>1. ASSUME NEW q \in 0..(ChunkSize - 1)
        PROVE  (IF q = o THEN LenByte(s)
                ELSE IF q \in (o + 1)..(o + Len(s)) THEN s[q - o]
                ELSE memory[q]) \in 0..256
    <2>1. CASE q = o
      <3>1. \A n \in Nat : n < 256 => n \in 0..256
        OBVIOUS
      <3>2. LenByte(s) \in Nat /\ LenByte(s) < 256
        BY LengthFacts
      <3> QED
        BY <2>1, <3>1, <3>2, Zenon
    <2>2. CASE q # o /\ q \in (o + 1)..(o + Len(s))
      <3>1. q - o \in 1..Len(s)
        <4>1. Len(s) \in Nat
          BY LengthFacts
        <4> QED
          BY <2>2, <4>1
      <3>2. s[q - o] \in 0..255
        <4>1. s \in Seq(0..255) /\ q - o \in 1..Len(s)
          BY <3>1, StringFacts
        <4> QED
          BY <4>1, ElementOfSeq
      <3> QED
        BY <2>2, <3>2
    <2>3. CASE q # o /\ q \notin (o + 1)..(o + Len(s))
      BY <2>3
    <2> QED
      BY <2>1, <2>2, <2>3
  <1> QED
    BY <1>1 DEF Stored

(* The frame on top.                                                       *)
LEMMA TopFacts ==
    ASSUME Phases, frames # << >>
    PROVE  /\ Len(frames) \in Nat \ {0} /\ Len(frames) \in DOMAIN frames
           /\ Top = frames[Len(frames)] /\ Top \in Frame
           /\ Top.x \in Entries /\ ATOM_VALID(Top.x.atom)
           /\ DOMAIN Top.ot \subseteq Nat /\ \A b \in DOMAIN Top.ot : Top.ot[b] \in Entries
  <1>1. Len(frames) \in Nat \ {0} /\ Len(frames) \in DOMAIN frames
    BY DEF Phases
  <1>2. Top \in Frame /\ Top = frames[Len(frames)] /\ ATOM_VALID(Top.x.atom)
    BY <1>1 DEF Phases, Top
  <1>3. PICK n \in Nat : Top.ot \in [0..n -> Entries]
    BY <1>2 DEF Frame
  <1>4. Top.x \in Entries
    BY <1>2 DEF Frame
  <1> QED
    BY <1>1, <1>2, <1>3, <1>4

-----------------------------------------------------------------------------
(* Types and phases.                                                       *)

(* A call that adds nothing.                                               *)
Quiet == UNCHANGED <<tableVars, chunkVars, pc, insertVars, frames, wanted>>

LEMMA QuietTyping ==
    ASSUME TypeOK, Phases, Quiet
    PROVE  TypeOK' /\ Phases'
  BY DEF Quiet, TypeOK, Phases, tableVars, chunkVars, insertVars

LEMMA DeadTyping ==
    ASSUME TypeOK, Phases, NEW s \in Strings, pc = "idle", NoMoreChunks(s)
    PROVE  TypeOK' /\ Phases'
  BY DEF NoMoreChunks, TypeOK, Phases, tableVars, chunkVars, insertVars

LEMMA OverrunTyping ==
    ASSUME TypeOK, Phases, NEW s, Overrun(s)
    PROVE  TypeOK' /\ Phases'
  BY DEF Overrun, TypeOK, Phases, tableVars, chunkVars, insertVars

LEMMA NoTableTyping ==
    ASSUME TypeOK, Phases, NoTable
    PROVE  TypeOK' /\ Phases'
  BY DEF NoTable, TypeOK, Phases, tableVars, chunkVars, insertVars

(* hash_insert begins with an entry in hand.                               *)
LEMMA StartTyping ==
    ASSUME NEW e \in Entries, StartInsert(e)
    PROVE  /\ pc' = "insert" /\ x' = e /\ x' \in Entries /\ start' \in Nat
           /\ loop' = 0 /\ loop' \in 0..DepthLimit /\ loop' < DepthLimit /\ place' \in 0..3
  BY SizeFacts DEF StartInsert, Entries

LEMMA MissTyping ==
    ASSUME TypeOK, Phases, ChunksOK, NEW s \in Strings, pc = "idle", LookupMiss(s)
    PROVE  /\ TypeOK' /\ Phases'
           /\ frames = << >> /\ frames' = << >>
           /\ wanted' = <<s, NewAtom>> /\ x' = EntryOf(<<s, NewAtom>>)
           /\ NewAtom \in Nat
  <1> DEFINE e == EntryOf(<<s, NewAtom>>)
  <1>1. /\ s # << >> /\ ~(NeedChunk /\ LastChunk) /\ add_string(s)
        /\ wanted' = <<s, NewAtom>> /\ StartInsert(e)
        /\ UNCHANGED <<tableVars, frames, interned>>
    BY DEF LookupMiss, EntryOf
  <1>2. /\ NewChunk \in 0..(NumChunks - 1) /\ NewOffset \in 0..(ChunkSize - 1)
        /\ NewOffset + Len(s) + 1 <= ChunkSize
    BY <1>1, RoomForString
  <1>3. NewAtom \in Nat
    BY <1>2, AtomFacts DEF NewAtom
  <1>4. e \in Entries /\ e.atom = NewAtom
    <2>1. LenByte(s) \in 0..255
      <3>1. \A n \in Nat : n < 256 => n \in 0..255
        OBVIOUS
      <3>2. LenByte(s) \in Nat /\ LenByte(s) < 256
        BY LengthFacts
      <3> QED
        BY <3>1, <3>2, Zenon
    <2>2. Hash[s] \in Nat \X Nat
      BY StringFacts
    <2>3. e = [atom |-> NewAtom, hashes |-> Hash[s], len |-> LenByte(s)]
      BY DEF EntryOf
    <2>4. ASSUME NEW Bytes, NEW n \in Bytes
          PROVE  [atom |-> NewAtom, hashes |-> Hash[s], len |-> n]
                   \in [atom : Nat, hashes : Nat \X Nat, len : Bytes]
      BY <1>3, <2>2
    <2>5. e \in Entries
      <3>1. [atom |-> NewAtom, hashes |-> Hash[s], len |-> LenByte(s)] \in Entries
        BY <2>1, <2>4, Zenon DEF Entries
      <3> HIDE DEF e
      <3> QED
        BY <2>3, <3>1, Zenon
    <2>6. e.atom = NewAtom
      BY <2>3
    <2> QED
      BY <2>5, <2>6
  <1>5. chunks' \in [0..(NumChunks - 1) -> [0..(ChunkSize - 1) -> 0..256]]
    <2> DEFINE m == IF NeedChunk THEN Garbage ELSE chunks[NewChunk]
    <2>1. m \in [0..(ChunkSize - 1) -> 0..256]
      <3>1. Garbage \in [0..(ChunkSize - 1) -> 0..256]
        BY DEF Garbage
      <3>2. chunks[NewChunk] \in [0..(ChunkSize - 1) -> 0..256]
        BY <1>2 DEF TypeOK
      <3> QED
        BY <3>1, <3>2
    <2>2. chunks' = [chunks EXCEPT ![NewChunk] = Stored(m, s, NewOffset)]
      BY <1>1 DEF add_string
    <2> HIDE DEF m
    <2>3. Stored(m, s, NewOffset) \in [0..(ChunkSize - 1) -> 0..256]
      <3>1. NewOffset \in Nat
        BY <1>2
      <3> QED
        BY <2>1, <3>1, StoredType
    <2> QED
      BY <1>2, <2>2, <2>3 DEF TypeOK
  <1>6. current_chunk' = NewChunk /\ next_free_offset' = NewOffset + Len(s) + 1
    BY <1>1 DEF add_string
  <1>7. next_free_offset' \in 0..ChunkSize
    <2>1. NewOffset \in Nat /\ Len(s) \in Nat /\ ChunkSize \in Nat
      BY <1>2, LengthFacts, SizeFacts
    <2> QED
      BY <1>2, <1>6, <2>1
  <1>8. ATOM_VALID(NewAtom)
    <2>1. CASE NeedChunk
      <3>1. NewChunk # 0
        BY <2>1 DEF NewChunk, TypeOK
      <3> QED
        BY <1>2, <3>1, AtomFacts DEF NewAtom, ATOM_VALID
    <2>2. CASE ~NeedChunk
      <3>1. NewOffset = next_free_offset /\ NewChunk = current_chunk
        BY <2>2 DEF NewChunk, NewOffset
      <3> QED
        BY <1>2, <3>1, AtomFacts DEF NewAtom, ATOM_VALID, ChunksOK
    <2> QED
      BY <2>1, <2>2
  <1>9. TypeOK'
    <2>1. UNCHANGED <<htable, HASHSIZE>>
      BY <1>1 DEF tableVars
    <2>2. /\ pc' = "insert" /\ x' \in Entries /\ start' \in Nat /\ loop' \in 0..DepthLimit
          /\ place' \in 0..3
      BY <1>1, <1>4, StartTyping
    <2> QED
      BY <1>2, <1>5, <1>6, <1>7, <2>1, <2>2 DEF TypeOK
  <1>10. Phases'
    <2>1. /\ pc' = "insert" /\ x' = e /\ loop' < DepthLimit
      BY <1>1, <1>4, StartTyping
    <2> QED
      BY <1>1, <1>3, <1>4, <1>8, <2>1 DEF Phases
  <1> QED
    BY <1>1, <1>3, <1>4, <1>9, <1>10, StartTyping DEF Phases

LEMMA HereFacts ==
    ASSUME TypeOK
    PROVE  /\ Here \in DOMAIN htable /\ DOMAIN htable = 0..(2 * HASHSIZE - 1)
           /\ htable[Here] \in Entries
  <1>1. x.hashes \in Nat \X Nat
    BY DEF TypeOK, Entries
  <1>2. Here \in 0..(2 * HASHSIZE - 1)
    BY <1>1, BucketRange DEF Here, TypeOK
  <1> QED
    BY <1>2 DEF TypeOK

LEMMA PlaceTyping ==
    ASSUME TypeOK, Phases, Place
    PROVE  TypeOK' /\ Phases'
  <1>1. /\ pc = "insert" /\ htable' = [htable EXCEPT ![Here] = x] /\ x' = NoEntry
        /\ start' = 0 /\ loop' = 0 /\ place' = 0
        /\ UNCHANGED <<HASHSIZE, current_chunk, next_free_offset, chunks, frames>>
    BY DEF Place, chunkVars
  <1>2. \/ frames = << >> /\ pc' = "idle" /\ wanted' = << >>
        \/ frames # << >> /\ pc' = "reinsert" /\ wanted' = wanted
    BY DEF Place
  <1>3. TypeOK'
    <2>1. htable' \in [0..(2 * HASHSIZE - 1) -> Entries]
      BY <1>1, HereFacts DEF TypeOK
    <2>2. 0 \in 0..DepthLimit
      BY SizeFacts
    <2> QED
      BY <1>1, <1>2, <2>1, <2>2, NoEntryType DEF TypeOK
  <1>4. ~ATOM_VALID(x'.atom)
    BY <1>1, NoEntryType
  <1>5. Phases'
    <2>1. /\ frames' \in Seq(Frame)
          /\ \A n \in DOMAIN frames' : ATOM_VALID(frames'[n].x.atom)
      BY <1>1 DEF Phases
    <2>2. pc' = "idle" => wanted' = << >> /\ frames' = << >>
      BY <1>1, <1>2
    <2>3. pc' \in {"insert", "grow", "reinsert"} => wanted' \in Strings \X Nat
      BY <1>1, <1>2 DEF Phases
    <2>4. pc' \notin {"insert", "grow"} /\ (pc' = "reinsert" => frames' # << >>)
      BY <1>1, <1>2
    <2> QED
      BY <1>4, <2>1, <2>2, <2>3, <2>4 DEF Phases
  <1> QED
    BY <1>3, <1>5

LEMMA DisplaceTyping ==
    ASSUME TypeOK, Phases, Displace
    PROVE  TypeOK' /\ Phases'
  <1>1. /\ ATOM_VALID(htable[Here].atom) /\ x' = htable[Here]
        /\ htable' = [htable EXCEPT ![Here] = x]
        /\ pc = "insert" /\ pc' \in {"insert", "grow"} 
        /\ UNCHANGED <<HASHSIZE, current_chunk, next_free_offset, chunks,
                       start, frames, wanted, interned>>
    BY DEF Displace, chunkVars
  <1>2. /\ loop' \in 0..DepthLimit /\ place' \in 0..3
        /\ pc' = "insert" => loop' < DepthLimit
    <2>1. loop \in 0..DepthLimit /\ loop < DepthLimit /\ place \in 0..3 /\ DepthLimit \in Nat
      BY <1>1, SizeFacts DEF TypeOK, Phases
    <2>2. place' = (place + 1) % 4 /\ loop' = IF place = 3 THEN loop + 1 ELSE loop
      BY DEF Displace
    <2>3. pc' = "insert" => ~(place = 3 /\ loop + 1 = DepthLimit)
      BY DEF Displace, GivesUp
    <2>4. loop' \in 0..DepthLimit /\ place' \in 0..3
      BY <2>1, <2>2
    <2>5. pc' = "insert" => loop' < DepthLimit
      BY <2>1, <2>2, <2>3
    <2> QED
      BY <2>4, <2>5
  <1>3. TypeOK'
    <2>1. htable' \in [0..(2 * HASHSIZE - 1) -> Entries] /\ x' \in Entries
      BY <1>1, HereFacts DEF TypeOK
    <2> QED
      BY <1>1, <1>2, <2>1 DEF TypeOK
  <1>4. Phases'
    BY <1>1, <1>2 DEF Phases
  <1> QED
    BY <1>3, <1>4

LEMMA GrowTyping ==
    ASSUME TypeOK, Phases, grow_table
    PROVE  TypeOK' /\ Phases'
  <1> DEFINE f == [ot |-> htable, i |-> 0, x |-> x]
  <1>1. /\ pc = "grow" /\ frames' = Append(frames, f) /\ HASHSIZE' = 2 * HASHSIZE
        /\ htable' = Table(2 * HASHSIZE) /\ pc' = "reinsert" /\ x' = NoEntry
        /\ UNCHANGED <<chunkVars, start, loop, place, wanted, interned>>
    BY DEF grow_table
  <1>2. 2 * HASHSIZE \in Nat \ {0} /\ 2 * HASHSIZE - 1 \in Nat
    BY DEF TypeOK
  <1>3. TypeOK'
    <2>1. htable' \in [0..(2 * HASHSIZE' - 1) -> Entries]
      BY <1>1, <1>2, TableType
    <2> QED
      BY <1>1, <1>2, <2>1, NoEntryType DEF TypeOK, chunkVars
  <1>4. f \in Frame /\ ATOM_VALID(f.x.atom)
    <2>1. htable \in UNION {[0..n -> Entries] : n \in Nat}
      BY <1>2 DEF TypeOK
    <2> QED
      BY <1>1, <2>1 DEF Frame, TypeOK, Phases
  <1> HIDE DEF f
  <1>5. frames' \in Seq(Frame) /\ frames' # << >>
        /\ \A n \in DOMAIN frames' : ATOM_VALID(frames'[n].x.atom)
    <2>1. frames \in Seq(Frame) /\ \A n \in DOMAIN frames : ATOM_VALID(frames[n].x.atom)
      BY DEF Phases
    <2> QED
      BY <1>1, <1>4, <2>1
  <1>6. Phases'
    BY <1>1, <1>5, NoEntryType DEF Phases
  <1> QED
    BY <1>3, <1>6

LEMMA ReinsertTyping ==
    ASSUME TypeOK, Phases, Reinsert
    PROVE  TypeOK' /\ Phases'
  <1>1. /\ pc = "reinsert" /\ frames # << >>
        /\ UNCHANGED <<tableVars, chunkVars, wanted, interned>>
    BY DEF Reinsert, Phases
  <1>2. PICK i \in ToDo(Top) : /\ StartInsert(Top.ot[i])
                               /\ frames' = [frames EXCEPT ![Len(frames)].i = i + 1]
    BY DEF Reinsert
  <1>3. i \in Nat /\ Top.ot[i] \in Entries /\ ATOM_VALID(Top.ot[i].atom)
    BY <1>1, <1>2, TopFacts DEF ToDo
  <1>4. TypeOK'
    BY <1>1, <1>2, <1>3, StartTyping DEF TypeOK, tableVars, chunkVars
  <1>5. frames' = [frames EXCEPT ![Len(frames)] = [Top EXCEPT !.i = i + 1]]
    BY <1>2 DEF Top
  <1>6. [Top EXCEPT !.i = i + 1] \in Frame /\ [Top EXCEPT !.i = i + 1].x = Top.x
    BY <1>1, <1>3, TopFacts DEF Frame
  <1>7. frames' \in Seq(Frame) /\ DOMAIN frames' = DOMAIN frames
        /\ \A n \in DOMAIN frames' : ATOM_VALID(frames'[n].x.atom)
    <2> DEFINE g == [Top EXCEPT !.i = i + 1]
    <2>1. g \in Frame /\ ATOM_VALID(g.x.atom)
      BY <1>1, <1>6, TopFacts
    <2>2. frames' = [frames EXCEPT ![Len(frames)] = g]
      BY <1>5
    <2> HIDE DEF g
    <2>3. /\ frames \in Seq(Frame) /\ Len(frames) \in DOMAIN frames
          /\ \A n \in DOMAIN frames : ATOM_VALID(frames[n].x.atom)
      BY <1>1, TopFacts DEF Phases
    <2> QED
      BY <2>1, <2>2, <2>3
  <1>8. Phases'
    <2>1. /\ pc' = "insert" /\ ATOM_VALID(x'.atom) /\ loop' < DepthLimit
      BY <1>2, <1>3, StartTyping
    <2> QED
      BY <1>1, <1>7, <2>1 DEF Phases
  <1> QED
    BY <1>4, <1>8

LEMMA ResumeTyping ==
    ASSUME TypeOK, Phases, Resume
    PROVE  TypeOK' /\ Phases'
  <1>1. /\ pc = "reinsert" /\ frames # << >> /\ StartInsert(Top.x)
        /\ frames' = SubSeq(frames, 1, Len(frames) - 1)
        /\ UNCHANGED <<tableVars, chunkVars, wanted, interned>>
    BY DEF Resume, Phases
  <1>2. Top.x \in Entries /\ ATOM_VALID(Top.x.atom)
    BY <1>1, TopFacts
  <1>3. TypeOK'
    BY <1>1, <1>2, StartTyping DEF TypeOK, tableVars, chunkVars
  <1>4. frames' \in Seq(Frame) /\ \A n \in DOMAIN frames' : ATOM_VALID(frames'[n].x.atom)
    <2>1. /\ frames \in Seq(Frame) /\ Len(frames) \in Nat \ {0}
          /\ \A n \in DOMAIN frames : ATOM_VALID(frames[n].x.atom)
      BY <1>1, TopFacts DEF Phases
    <2> QED
      BY <1>1, <2>1
  <1>5. Phases'
    <2>1. /\ pc' = "insert" /\ ATOM_VALID(x'.atom) /\ loop' < DepthLimit
      BY <1>1, <1>2, StartTyping
    <2> QED
      BY <1>1, <1>4, <2>1 DEF Phases
  <1> QED
    BY <1>3, <1>5

-----------------------------------------------------------------------------
(* The places an entry can be in, as functions of the frames fr, the table *)
(* t and the entry in hand h.                                              *)

LevelIn(fr, t, h, n) == IF n <= Len(fr) THEN fr[n] ELSE [ot |-> t, i |-> 0, x |-> h]
SpotsIn(fr, t, h) == UNION {{n} \X Unread(LevelIn(fr, t, h, n)) : n \in 1..(Len(fr) + 1)}
At(fr, t, h, s) == IF s[2] = -1 THEN LevelIn(fr, t, h, s[1]).x
                   ELSE LevelIn(fr, t, h, s[1]).ot[s[2]]

(* Exactly one place holds the atom a.                                     *)
OnceIn(fr, t, h, a) ==
    \E s \in SpotsIn(fr, t, h) :
        \A u \in SpotsIn(fr, t, h) : At(fr, t, h, u).atom = a <=> u = s

(* What the places hold after a step they held before it, and no atom got  *)
(* lost or doubled.                                                        *)
Rearranged(fr, t, h, fr2, t2, h2) ==
    /\ \A u \in SpotsIn(fr2, t2, h2) :
          At(fr2, t2, h2, u).atom # 0 =>
             \E s \in SpotsIn(fr, t, h) : At(fr2, t2, h2, u) = At(fr, t, h, s)
    /\ \A a \in Nat \ {0} : OnceIn(fr, t, h, a) => OnceIn(fr2, t2, h2, a)

Tables == UNION {[0..n -> Entries] : n \in Nat}

LEMMA SpotFacts ==
    ASSUME NEW fr \in Seq(Frame), NEW t \in Tables, NEW h \in Entries
    PROVE  /\ Len(fr) \in Nat
           /\ \A n \in 1..Len(fr) : LevelIn(fr, t, h, n) = fr[n] /\ fr[n] \in Frame
           /\ \A n : n = Len(fr) + 1 =>
                        LevelIn(fr, t, h, n) = [ot |-> t, i |-> 0, x |-> h]
           /\ \A n \in 1..(Len(fr) + 1) :
                 /\ LevelIn(fr, t, h, n).i \in Nat /\ LevelIn(fr, t, h, n).x \in Entries
                 /\ DOMAIN LevelIn(fr, t, h, n).ot \subseteq Nat
                 /\ \A i \in DOMAIN LevelIn(fr, t, h, n).ot :
                       LevelIn(fr, t, h, n).ot[i] \in Entries
           /\ \A n, i : <<n, i>> \in SpotsIn(fr, t, h) <=>
                 /\ n \in 1..(Len(fr) + 1)
                 /\ \/ i = -1
                    \/ i \in DOMAIN LevelIn(fr, t, h, n).ot /\ i >= LevelIn(fr, t, h, n).i
           /\ \A s \in SpotsIn(fr, t, h) : s = <<s[1], s[2]>>
  <1>1. Len(fr) \in Nat /\ \A n \in 1..Len(fr) : fr[n] \in Frame
    OBVIOUS
  <1>2. \A n \in 1..Len(fr) : LevelIn(fr, t, h, n) = fr[n]
    BY <1>1 DEF LevelIn
  <1>3. \A n : n = Len(fr) + 1 => LevelIn(fr, t, h, n) = [ot |-> t, i |-> 0, x |-> h]
    BY <1>1 DEF LevelIn
  <1>4. ASSUME NEW g \in Frame
        PROVE  /\ g.i \in Nat /\ g.x \in Entries /\ DOMAIN g.ot \subseteq Nat
               /\ \A i \in DOMAIN g.ot : g.ot[i] \in Entries
    <2>1. PICK m \in Nat : g.ot \in [0..m -> Entries]
      BY DEF Frame
    <2> QED
      BY <2>1 DEF Frame
  <1>5. [ot |-> t, i |-> 0, x |-> h] \in Frame
    BY DEF Frame, Tables
  <1>6. \A n \in 1..(Len(fr) + 1) : LevelIn(fr, t, h, n) \in Frame
    BY <1>1, <1>2, <1>3, <1>5
  <1>7. \A n \in 1..(Len(fr) + 1) :
           /\ LevelIn(fr, t, h, n).i \in Nat /\ LevelIn(fr, t, h, n).x \in Entries
           /\ DOMAIN LevelIn(fr, t, h, n).ot \subseteq Nat
           /\ \A i \in DOMAIN LevelIn(fr, t, h, n).ot : LevelIn(fr, t, h, n).ot[i] \in Entries
    BY <1>4, <1>6
  <1>8. \A n, i : <<n, i>> \in SpotsIn(fr, t, h) <=>
                 /\ n \in 1..(Len(fr) + 1)
                 /\ \/ i = -1
                    \/ i \in DOMAIN LevelIn(fr, t, h, n).ot /\ i >= LevelIn(fr, t, h, n).i
    BY DEF SpotsIn, Unread
  <1>9. \A s \in SpotsIn(fr, t, h) : s = <<s[1], s[2]>>
    BY DEF SpotsIn
  <1> QED
    BY <1>1, <1>2, <1>3, <1>7, <1>8, <1>9

(* It is enough to say where every place that is not empty comes from, and *)
(* where it goes to.                                                       *)
Moves(fr, t, h, fr2, t2, h2, f, g) ==
    /\ \A u \in SpotsIn(fr2, t2, h2) : At(fr2, t2, h2, u).atom # 0 =>
          /\ f[u] \in SpotsIn(fr, t, h)
          /\ At(fr2, t2, h2, u) = At(fr, t, h, f[u])
          /\ g[f[u]] = u
    /\ \A s \in SpotsIn(fr, t, h) : At(fr, t, h, s).atom # 0 =>
          /\ g[s] \in SpotsIn(fr2, t2, h2)
          /\ At(fr2, t2, h2, g[s]) = At(fr, t, h, s)

LEMMA MovesRearrange ==
    ASSUME NEW fr, NEW t, NEW h, NEW fr2, NEW t2, NEW h2, NEW f, NEW g,
           Moves(fr, t, h, fr2, t2, h2, f, g)
    PROVE  Rearranged(fr, t, h, fr2, t2, h2)
  <1>1. ASSUME NEW a \in Nat \ {0}, OnceIn(fr, t, h, a)
        PROVE  OnceIn(fr2, t2, h2, a)
    <2>1. PICK s \in SpotsIn(fr, t, h) :
             \A u \in SpotsIn(fr, t, h) : At(fr, t, h, u).atom = a <=> u = s
      BY <1>1 DEF OnceIn
    <2>2. g[s] \in SpotsIn(fr2, t2, h2) /\ At(fr2, t2, h2, g[s]).atom = a
      BY <2>1 DEF Moves
    <2>3. ASSUME NEW u \in SpotsIn(fr2, t2, h2), At(fr2, t2, h2, u).atom = a
          PROVE  u = g[s]
      <3>1. f[u] \in SpotsIn(fr, t, h) /\ At(fr, t, h, f[u]).atom = a /\ g[f[u]] = u
        BY <2>3 DEF Moves
      <3> QED
        BY <2>1, <3>1
    <2> QED
      BY <2>2, <2>3 DEF OnceIn
  <1>2. ASSUME NEW u \in SpotsIn(fr2, t2, h2), At(fr2, t2, h2, u).atom # 0
        PROVE  \E s \in SpotsIn(fr, t, h) : At(fr2, t2, h2, u) = At(fr, t, h, s)
    BY <1>2 DEF Moves
  <1> QED
    BY <1>1, <1>2 DEF Rearranged

Places == Nat \X (Nat \union {-1})

LEMMA SpotsArePlaces ==
    ASSUME NEW fr \in Seq(Frame), NEW t \in Tables, NEW h \in Entries
    PROVE  SpotsIn(fr, t, h) \subseteq Places
  <1>1. ASSUME NEW s \in SpotsIn(fr, t, h) PROVE s \in Places
    <2>1. s = <<s[1], s[2]>>
      BY SpotFacts
    <2>2. s[1] \in 1..(Len(fr) + 1) /\ Len(fr) \in Nat
      BY <2>1, SpotFacts
    <2>3. s[2] = -1 \/ s[2] \in DOMAIN LevelIn(fr, t, h, s[1]).ot
      BY <2>1, SpotFacts
    <2>4. s[2] \in Nat \union {-1}
      BY <2>2, <2>3, SpotFacts
    <2>5. s[1] \in Nat
      BY <2>2
    <2> QED
      BY <2>1, <2>4, <2>5 DEF Places
  <1> QED
    BY <1>1

(* hash_insert swaps the entry in hand with that of a bucket.              *)
LEMMA Swapped ==
    ASSUME NEW fr \in Seq(Frame), NEW t \in Tables, NEW h \in Entries,
           NEW b \in DOMAIN t, NEW h2 \in Entries,
           h2 = t[b] \/ (t[b].atom = 0 /\ h2.atom = 0)
    PROVE  Rearranged(fr, t, h, fr, [t EXCEPT ![b] = h], h2)
  <1> DEFINE t2 == [t EXCEPT ![b] = h]
             L  == Len(fr) + 1
             f  == [u \in Places |-> IF u = <<L, -1>> THEN <<L, b>>
                                     ELSE IF u = <<L, b>> THEN <<L, -1>> ELSE u]
  <1>1. t2 \in Tables /\ DOMAIN t2 = DOMAIN t /\ b \in Nat
    BY DEF Tables
  <1>2. \A i \in DOMAIN t : t2[i] = IF i = b THEN h ELSE t[i]
    OBVIOUS
  <1> HIDE DEF t2
  <1>3. Len(fr) \in Nat
    BY SpotFacts
  <1>4. /\ LevelIn(fr, t, h, L) = [ot |-> t, i |-> 0, x |-> h]
        /\ LevelIn(fr, t2, h2, L) = [ot |-> t2, i |-> 0, x |-> h2]
    BY <1>1, SpotFacts
  <1>5. \A n \in 1..(Len(fr) + 1) : n # L => LevelIn(fr, t2, h2, n) = LevelIn(fr, t, h, n)
    BY <1>3 DEF LevelIn
  <1>6. ASSUME NEW n, NEW i
        PROVE  <<n, i>> \in SpotsIn(fr, t2, h2) <=> <<n, i>> \in SpotsIn(fr, t, h)
    <2>1. /\ <<n, i>> \in SpotsIn(fr, t, h) <=>
                 /\ n \in 1..(Len(fr) + 1)
                 /\ \/ i = -1
                    \/ i \in DOMAIN LevelIn(fr, t, h, n).ot /\ i >= LevelIn(fr, t, h, n).i
          /\ <<n, i>> \in SpotsIn(fr, t2, h2) <=>
                 /\ n \in 1..(Len(fr) + 1)
                 /\ \/ i = -1
                    \/ i \in DOMAIN LevelIn(fr, t2, h2, n).ot /\ i >= LevelIn(fr, t2, h2, n).i
      BY <1>1, SpotFacts
    <2> QED
      BY <1>1, <1>4, <1>5, <2>1
  <1>7. <<L, -1>> \in SpotsIn(fr, t, h) /\ <<L, b>> \in SpotsIn(fr, t, h)
    <2>1. L \in 1..(Len(fr) + 1) /\ b >= 0
      BY <1>1, <1>3
    <2> QED
      BY <1>4, <2>1, SpotFacts
  <1>8. /\ At(fr, t, h, <<L, -1>>) = h /\ At(fr, t2, h2, <<L, -1>>) = h2
        /\ At(fr, t, h, <<L, b>>) = t[b] /\ At(fr, t2, h2, <<L, b>>) = h
    BY <1>1, <1>2, <1>4 DEF At
  <1>9. ASSUME NEW s \in SpotsIn(fr, t, h), s # <<L, -1>>, s # <<L, b>>
        PROVE  At(fr, t2, h2, s) = At(fr, t, h, s)
    <2>1. /\ s = <<s[1], s[2]>> /\ s[1] \in 1..(Len(fr) + 1)
          /\ s[2] = -1 \/ s[2] \in DOMAIN LevelIn(fr, t, h, s[1]).ot
      BY SpotFacts
    <2>2. CASE s[1] # L
      BY <1>5, <2>1, <2>2 DEF At
    <2>3. CASE s[1] = L
      <3>1. s[2] \in DOMAIN t /\ s[2] # b /\ s[2] # -1
        BY <1>4, <1>9, <2>1, <2>3
      <3> QED
        BY <1>2, <1>4, <2>3, <3>1 DEF At
    <2> QED
      BY <2>2, <2>3
  <1>10. SpotsIn(fr, t2, h2) = SpotsIn(fr, t, h) /\ SpotsIn(fr, t, h) \subseteq Places
    <2>1. /\ \A s \in SpotsIn(fr, t, h) : s = <<s[1], s[2]>>
          /\ \A s \in SpotsIn(fr, t2, h2) : s = <<s[1], s[2]>>
      BY <1>1, SpotFacts
    <2>2. \A s \in SpotsIn(fr, t2, h2) : s \in SpotsIn(fr, t, h)
      BY <1>6, <2>1
    <2>3. \A s \in SpotsIn(fr, t, h) : s \in SpotsIn(fr, t2, h2)
      BY <1>6, <2>1
    <2>4. SpotsIn(fr, t, h) \subseteq Places
      BY SpotsArePlaces
    <2> QED
      BY <2>2, <2>3, <2>4
  <1>11. <<L, -1>> # <<L, b>>
    BY <1>1
  <1>12. \A s \in SpotsIn(fr, t, h) :
            f[s] = IF s = <<L, -1>> THEN <<L, b>> ELSE IF s = <<L, b>> THEN <<L, -1>> ELSE s
    BY <1>10
  <1> HIDE DEF f, L
  <1>13. \A s \in SpotsIn(fr, t, h) : f[s] \in SpotsIn(fr, t, h) /\ f[f[s]] = s
    BY <1>7, <1>11, <1>12
  <1>14. \A s \in SpotsIn(fr, t, h) : At(fr, t2, h2, s).atom # 0 =>
            At(fr, t2, h2, s) = At(fr, t, h, f[s])
    <2> SUFFICES ASSUME NEW s \in SpotsIn(fr, t, h), At(fr, t2, h2, s).atom # 0
                 PROVE  At(fr, t2, h2, s) = At(fr, t, h, f[s])
      OBVIOUS
    <2>1. CASE s = <<L, -1>>
      BY <1>8, <1>12, <2>1
    <2>2. CASE s = <<L, b>>
      BY <1>8, <1>11, <1>12, <2>2
    <2>3. CASE s # <<L, -1>> /\ s # <<L, b>>
      BY <1>9, <1>12, <2>3
    <2> QED
      BY <2>1, <2>2, <2>3
  <1>15. \A s \in SpotsIn(fr, t, h) : At(fr, t, h, s).atom # 0 =>
            At(fr, t2, h2, f[s]) = At(fr, t, h, s)
    BY <1>7, <1>8, <1>9, <1>11, <1>12
  <1>16. Moves(fr, t, h, fr, t2, h2, f, f)
    BY <1>10, <1>13, <1>14, <1>15 DEF Moves
  <1>17. Rearranged(fr, t, h, fr, t2, h2)
    BY <1>16, MovesRearrange
  <1> QED
    BY <1>17 DEF t2

(* The frame on top reads on: it comes to the entry at i, and the entries  *)
(* it skips hold no atom.                                                  *)
ReadsOn(fr, fr2, i) ==
    LET F == fr[Len(fr)]
    IN /\ i \in DOMAIN F.ot /\ i >= F.i
       /\ \A k \in DOMAIN F.ot : k >= F.i /\ F.ot[k].atom # 0 => i <= k
       /\ fr2 = [fr EXCEPT ![Len(fr)] = [F EXCEPT !.i = i + 1]]

LEMMA Taken ==
    ASSUME NEW fr \in Seq(Frame), NEW t \in Tables, NEW h \in Entries,
           fr # << >>, h.atom = 0,
           NEW fr2 \in Seq(Frame), NEW i \in Nat, ReadsOn(fr, fr2, i)
    PROVE  Rearranged(fr, t, h, fr2, t, fr[Len(fr)].ot[i])
  <1> DEFINE n  == Len(fr)
             F  == fr[n]
             h2 == F.ot[i]
             f  == [u \in Places |-> IF u = <<n + 1, -1>> THEN <<n, i>> ELSE u]
             g  == [u \in Places |-> IF u = <<n, i>> THEN <<n + 1, -1>> ELSE u]
  <1>0. /\ i \in DOMAIN F.ot /\ i >= F.i
        /\ \A k \in DOMAIN F.ot : k >= F.i /\ F.ot[k].atom # 0 => i <= k
        /\ fr2 = [fr EXCEPT ![n] = [F EXCEPT !.i = i + 1]]
    BY DEF ReadsOn
  <1>1. n \in Nat \ {0} /\ Len(fr2) = n
    BY <1>0
  <1>2. F \in Frame /\ F = LevelIn(fr, t, h, n) /\ h2 \in Entries
    BY <1>0, <1>1, SpotFacts
  <1>3. /\ fr2[n] = [F EXCEPT !.i = i + 1]
        /\ \A m \in 1..n : m # n => fr2[m] = fr[m]
    BY <1>0, <1>1
  <1> HIDE DEF h2, n
  <1>4. /\ LevelIn(fr, t, h, n) = F
        /\ LevelIn(fr2, t, h2, n).ot = F.ot /\ LevelIn(fr2, t, h2, n).x = F.x
        /\ LevelIn(fr2, t, h2, n).i = i + 1
        /\ LevelIn(fr, t, h, n + 1) = [ot |-> t, i |-> 0, x |-> h]
        /\ LevelIn(fr2, t, h2, n + 1) = [ot |-> t, i |-> 0, x |-> h2]
    <2>1. Len(fr) = n
      BY DEF n
    <2>2. LevelIn(fr2, t, h2, n) = fr2[n] /\ LevelIn(fr, t, h, n) = F
      BY <1>1, <2>1 DEF LevelIn
    <2>3. F.i \in Nat /\ DOMAIN F = {"ot", "i", "x"}
      BY <1>2 DEF Frame
    <2>4. fr2[n].ot = F.ot /\ fr2[n].x = F.x /\ fr2[n].i = i + 1
      BY <1>2, <1>3 DEF Frame
    <2>5. /\ LevelIn(fr, t, h, n + 1) = [ot |-> t, i |-> 0, x |-> h]
          /\ LevelIn(fr2, t, h2, n + 1) = [ot |-> t, i |-> 0, x |-> h2]
      BY <1>1, <2>1 DEF LevelIn
    <2> QED
      BY <2>2, <2>4, <2>5
  <1>5. \A m \in 1..(n + 1) : m # n /\ m # n + 1 => LevelIn(fr2, t, h2, m) = LevelIn(fr, t, h, m)
    <2>1. Len(fr) = n
      BY DEF n
    <2> QED
      BY <1>1, <1>3, <2>1 DEF LevelIn
  <1>60. DOMAIN F.ot \subseteq Nat
    <2>1. n \in 1..(Len(fr) + 1)
      BY <1>1 DEF n
    <2>2. DOMAIN LevelIn(fr, t, h, n).ot \subseteq Nat
      BY <2>1, SpotFacts
    <2> QED
      BY <1>4, <2>2
  <1>61. F.i \in Nat
    BY <1>2 DEF Frame
  <1> HIDE DEF F
  <1>6. i \in DOMAIN F.ot /\ i >= F.i
        /\ \A k \in DOMAIN F.ot : k >= F.i /\ F.ot[k].atom # 0 => i <= k
    BY <1>0 DEF F, n
  <1>7. \A m, k : <<m, k>> \in SpotsIn(fr, t, h) <=>
             /\ m \in 1..(n + 1)
             /\ \/ k = -1
                \/ k \in DOMAIN LevelIn(fr, t, h, m).ot /\ k >= LevelIn(fr, t, h, m).i
    BY SpotFacts DEF n
  <1>8. \A m, k : <<m, k>> \in SpotsIn(fr2, t, h2) <=>
             /\ m \in 1..(n + 1)
             /\ \/ k = -1
                \/ k \in DOMAIN LevelIn(fr2, t, h2, m).ot /\ k >= LevelIn(fr2, t, h2, m).i
    BY <1>1, <1>2, SpotFacts
  <1>41. /\ LevelIn(fr, t, h, n).ot = F.ot /\ LevelIn(fr, t, h, n).i = F.i
         /\ LevelIn(fr, t, h, n + 1).ot = t /\ LevelIn(fr, t, h, n + 1).i = 0
         /\ LevelIn(fr2, t, h2, n + 1).ot = t /\ LevelIn(fr2, t, h2, n + 1).i = 0
    BY <1>4
  <1>42. n \in 1..(n + 1) /\ n + 1 \in 1..(n + 1)
    BY <1>1
  <1>71. \A k : <<n, k>> \in SpotsIn(fr, t, h) <=> k = -1 \/ (k \in DOMAIN F.ot /\ k >= F.i)
    <2>1. ASSUME NEW k
          PROVE  <<n, k>> \in SpotsIn(fr, t, h) <=>
                    k = -1 \/ (k \in DOMAIN LevelIn(fr, t, h, n).ot
                                /\ k >= LevelIn(fr, t, h, n).i)
      BY <1>7, <1>42
    <2> QED
      BY <1>41, <2>1
  <1>81. \A k : <<n, k>> \in SpotsIn(fr2, t, h2) <=> k = -1 \/ (k \in DOMAIN F.ot /\ k >= i + 1)
    <2>1. ASSUME NEW k
          PROVE  <<n, k>> \in SpotsIn(fr2, t, h2) <=>
                    k = -1 \/ (k \in DOMAIN LevelIn(fr2, t, h2, n).ot
                                /\ k >= LevelIn(fr2, t, h2, n).i)
      BY <1>8, <1>42
    <2>2. LevelIn(fr2, t, h2, n).ot = F.ot /\ LevelIn(fr2, t, h2, n).i = i + 1
      BY <1>4
    <2> QED
      BY <2>1, <2>2
  <1>72. \A k : <<n + 1, k>> \in SpotsIn(fr, t, h) <=> <<n + 1, k>> \in SpotsIn(fr2, t, h2)
    <2>1. ASSUME NEW k
          PROVE  <<n + 1, k>> \in SpotsIn(fr, t, h) <=>
                    k = -1 \/ (k \in DOMAIN LevelIn(fr, t, h, n + 1).ot
                                /\ k >= LevelIn(fr, t, h, n + 1).i)
      BY <1>7, <1>42
    <2>2. ASSUME NEW k
          PROVE  <<n + 1, k>> \in SpotsIn(fr2, t, h2) <=>
                    k = -1 \/ (k \in DOMAIN LevelIn(fr2, t, h2, n + 1).ot
                                /\ k >= LevelIn(fr2, t, h2, n + 1).i)
      BY <1>8, <1>42
    <2> QED
      BY <1>41, <2>1, <2>2
  <1>9. /\ <<n, i>> \in SpotsIn(fr, t, h) /\ At(fr, t, h, <<n, i>>) = h2
        /\ <<n + 1, -1>> \in SpotsIn(fr2, t, h2) /\ At(fr2, t, h2, <<n + 1, -1>>) = h2
        /\ At(fr, t, h, <<n + 1, -1>>).atom = 0
    <2>1. n \in 1..(n + 1) /\ n + 1 \in 1..(n + 1)
      BY <1>1
    <2>2. <<n, i>> \in SpotsIn(fr, t, h) /\ <<n + 1, -1>> \in SpotsIn(fr2, t, h2)
      BY <1>4, <1>6, <1>7, <1>8, <2>1
    <2>3. At(fr, t, h, <<n, i>>) = h2
      BY <1>2, <1>4 DEF At, h2
    <2> QED
      BY <1>4, <2>2, <2>3 DEF At
  <1>10. ASSUME NEW m, NEW k, <<m, k>> \in SpotsIn(fr2, t, h2), <<m, k>> # <<n + 1, -1>>
         PROVE  /\ <<m, k>> \in SpotsIn(fr, t, h) /\ <<m, k>> # <<n, i>>
                /\ At(fr2, t, h2, <<m, k>>) = At(fr, t, h, <<m, k>>)
    <2>0. /\ m \in 1..(n + 1)
          /\ \/ k = -1
             \/ k \in DOMAIN LevelIn(fr2, t, h2, m).ot /\ k >= LevelIn(fr2, t, h2, m).i
      BY <1>8, <1>10
    <2>1. CASE m = n
      <3>1. k = -1 \/ (k \in DOMAIN F.ot /\ k >= i + 1)
        BY <1>10, <1>81, <2>1
      <3>2. k = -1 \/ (k \in DOMAIN F.ot /\ k >= F.i)
        <4>1. CASE k = -1
          BY <4>1
        <4>2. CASE k \in DOMAIN F.ot /\ k >= i + 1
          <5>1. i >= F.i /\ k \in Nat /\ F.i \in Nat
            BY <1>6, <1>60, <1>61, <4>2
          <5> QED
            BY <4>2, <5>1
        <4> QED
          BY <3>1, <4>1, <4>2
      <3>3. k # i
        BY <1>2, <3>1
      <3>4. <<m, k>> \in SpotsIn(fr, t, h)
        BY <1>71, <2>1, <3>2
      <3> QED
        BY <1>4, <2>1, <3>3, <3>4 DEF At
    <2>2. CASE m = n + 1
      <3>1. k # -1 /\ n + 1 # n
        BY <1>1, <1>10, <2>2
      <3>2. <<m, k>> \in SpotsIn(fr, t, h)
        BY <1>10, <1>72, <2>2
      <3> QED
        BY <1>4, <2>2, <3>1, <3>2 DEF At
    <2>3. CASE m # n /\ m # n + 1
      BY <1>5, <1>7, <2>0, <2>3 DEF At
    <2> QED
      BY <2>1, <2>2, <2>3
  <1>11. ASSUME NEW m, NEW k, <<m, k>> \in SpotsIn(fr, t, h),
                At(fr, t, h, <<m, k>>).atom # 0, <<m, k>> # <<n, i>>
         PROVE  /\ <<m, k>> \in SpotsIn(fr2, t, h2)
                /\ At(fr2, t, h2, <<m, k>>) = At(fr, t, h, <<m, k>>)
    <2>0. /\ m \in 1..(n + 1)
          /\ \/ k = -1
             \/ k \in DOMAIN LevelIn(fr, t, h, m).ot /\ k >= LevelIn(fr, t, h, m).i
          /\ <<m, k>> # <<n + 1, -1>>
      BY <1>7, <1>9, <1>11
    <2>1. CASE m = n
      <3>1. k = -1 \/ (k \in DOMAIN F.ot /\ k >= F.i)
        BY <1>11, <1>71, <2>1
      <3>2. CASE k = -1
        <4>1. <<m, k>> \in SpotsIn(fr2, t, h2)
          BY <1>81, <2>1, <3>2
        <4>2. LevelIn(fr2, t, h2, n).x = LevelIn(fr, t, h, n).x
          BY <1>4
        <4> QED
          BY <2>1, <3>2, <4>1, <4>2 DEF At
      <3>3. CASE k # -1
        <4>1. At(fr, t, h, <<m, k>>) = F.ot[k]
          BY <1>4, <2>1, <3>3 DEF At
        <4>2. i <= k /\ k # i /\ k \in Nat
          BY <1>6, <1>60, <1>11, <2>1, <3>1, <3>3, <4>1
        <4>3. k >= i + 1
          BY <1>2, <4>2
        <4>4. <<m, k>> \in SpotsIn(fr2, t, h2)
          BY <1>81, <2>1, <3>1, <3>3, <4>3
        <4> QED
          BY <1>4, <2>1, <3>3, <4>1, <4>4 DEF At
      <3> QED
        BY <3>2, <3>3
    <2>2. CASE m = n + 1
      <3>1. k # -1
        BY <2>0, <2>2
      <3>2. <<m, k>> \in SpotsIn(fr2, t, h2)
        BY <1>11, <1>72, <2>2
      <3> QED
        BY <1>4, <2>2, <3>1, <3>2 DEF At
    <2>3. CASE m # n /\ m # n + 1
      BY <1>5, <1>8, <2>0, <2>3 DEF At
    <2> QED
      BY <2>1, <2>2, <2>3
  <1>12. /\ SpotsIn(fr, t, h) \subseteq Places /\ SpotsIn(fr2, t, h2) \subseteq Places
         /\ \A u \in SpotsIn(fr, t, h) : u = <<u[1], u[2]>>
         /\ \A u \in SpotsIn(fr2, t, h2) : u = <<u[1], u[2]>>
    <2>1. SpotsIn(fr, t, h) \subseteq Places /\ SpotsIn(fr2, t, h2) \subseteq Places
      BY <1>2, SpotsArePlaces
    <2> QED
      BY <1>2, <2>1, SpotFacts
  <1>13. /\ \A u \in SpotsIn(fr2, t, h2) : f[u] = IF u = <<n + 1, -1>> THEN <<n, i>> ELSE u
         /\ \A u \in SpotsIn(fr, t, h) : g[u] = IF u = <<n, i>> THEN <<n + 1, -1>> ELSE u
    BY <1>12
  <1> HIDE DEF f, g
  <1>14. ASSUME NEW u \in SpotsIn(fr2, t, h2)
         PROVE  /\ f[u] \in SpotsIn(fr, t, h)
                /\ At(fr2, t, h2, u) = At(fr, t, h, f[u])
                /\ g[f[u]] = u
    <2>1. CASE u = <<n + 1, -1>>
      BY <1>9, <1>13, <2>1
    <2>2. CASE u # <<n + 1, -1>>
      <3>1. PICK m, k : u = <<m, k>>
        BY <1>12
      <3>2. /\ <<m, k>> \in SpotsIn(fr, t, h) /\ <<m, k>> # <<n, i>>
            /\ At(fr2, t, h2, <<m, k>>) = At(fr, t, h, <<m, k>>)
        BY <1>10, <2>2, <3>1
      <3> QED
        BY <1>13, <2>2, <3>1, <3>2
    <2> QED
      BY <2>1, <2>2
  <1>15. ASSUME NEW u \in SpotsIn(fr, t, h), At(fr, t, h, u).atom # 0
         PROVE  /\ g[u] \in SpotsIn(fr2, t, h2)
                /\ At(fr2, t, h2, g[u]) = At(fr, t, h, u)
    <2>1. CASE u = <<n, i>>
      BY <1>9, <1>13, <2>1
    <2>2. CASE u # <<n, i>>
      <3>1. PICK m, k : u = <<m, k>>
        BY <1>12
      <3>2. /\ <<m, k>> \in SpotsIn(fr2, t, h2)
            /\ At(fr2, t, h2, <<m, k>>) = At(fr, t, h, <<m, k>>)
        BY <1>11, <1>15, <2>2, <3>1
      <3> QED
        BY <1>13, <2>2, <3>1, <3>2
    <2> QED
      BY <2>1, <2>2
  <1>16. Rearranged(fr, t, h, fr2, t, h2)
    <2>1. Moves(fr, t, h, fr2, t, h2, f, g)
      BY <1>14, <1>15 DEF Moves
    <2> QED
      BY <2>1, MovesRearrange
  <1> QED
    BY <1>16 DEF h2, F, n

(* grow_table begins: the old table is the new frame's, and the new table  *)
(* is empty.                                                               *)
LEMMA Grown ==
    ASSUME NEW fr \in Seq(Frame), NEW t \in Tables, NEW h \in Entries,
           NEW t2 \in Tables, \A b \in DOMAIN t2 : t2[b].atom = 0,
           NEW h2 \in Entries, h2.atom = 0,
           NEW F \in Frame, F = [ot |-> t, i |-> 0, x |-> h]
    PROVE  Rearranged(fr, t, h, Append(fr, F), t2, h2)
  <1> DEFINE n   == Len(fr) + 1
             fr2 == Append(fr, F)
             f   == [u \in Places |-> u]
  <1>1. n \in Nat \ {0} /\ Len(fr2) = n /\ Len(fr) = n - 1 /\ fr2 \in Seq(Frame)
    OBVIOUS
  <1>2. fr2[n] = F /\ \A m \in 1..(n - 1) : fr2[m] = fr[m]
    BY <1>1
  <1> HIDE DEF n, fr2
  <1>3. \A m \in 1..n : LevelIn(fr2, t2, h2, m) = LevelIn(fr, t, h, m)
    BY <1>1, <1>2 DEF LevelIn
  <1>4. LevelIn(fr2, t2, h2, n + 1) = [ot |-> t2, i |-> 0, x |-> h2]
    BY <1>1, SpotFacts
  <1>5. \A m, k : <<m, k>> \in SpotsIn(fr, t, h) <=>
             /\ m \in 1..n
             /\ \/ k = -1
                \/ k \in DOMAIN LevelIn(fr, t, h, m).ot /\ k >= LevelIn(fr, t, h, m).i
    <2>1. Len(fr) + 1 = n
      BY <1>1
    <2> QED
      BY <2>1, SpotFacts
  <1>6. \A m, k : <<m, k>> \in SpotsIn(fr2, t2, h2) <=>
             /\ m \in 1..(n + 1)
             /\ \/ k = -1
                \/ k \in DOMAIN LevelIn(fr2, t2, h2, m).ot /\ k >= LevelIn(fr2, t2, h2, m).i
    BY <1>1, SpotFacts
  <1>7. ASSUME NEW m, NEW k, <<m, k>> \in SpotsIn(fr2, t2, h2),
               At(fr2, t2, h2, <<m, k>>).atom # 0
        PROVE  <<m, k>> \in SpotsIn(fr, t, h)
               /\ At(fr2, t2, h2, <<m, k>>) = At(fr, t, h, <<m, k>>)
    <2>1. /\ m \in 1..(n + 1)
          /\ \/ k = -1
             \/ k \in DOMAIN LevelIn(fr2, t2, h2, m).ot /\ k >= LevelIn(fr2, t2, h2, m).i
      BY <1>6, <1>7
    <2>2. m # n + 1
      <3>1. SUFFICES ASSUME m = n + 1 PROVE FALSE
        OBVIOUS
      <3>2. CASE k = -1
        <4>1. At(fr2, t2, h2, <<m, k>>) = h2
          BY <1>4, <3>1, <3>2 DEF At
        <4> QED
          BY <1>7, <4>1
      <3>3. CASE k # -1
        <4>1. k \in DOMAIN t2
          BY <1>4, <2>1, <3>1, <3>3
        <4>2. At(fr2, t2, h2, <<m, k>>) = t2[k]
          BY <1>4, <3>1, <3>3 DEF At
        <4> QED
          BY <1>7, <4>1, <4>2
      <3> QED
        BY <3>2, <3>3
    <2>3. m \in 1..n
      BY <1>1, <2>1, <2>2
    <2> QED
      BY <1>3, <1>5, <2>1, <2>3 DEF At
  <1>8. ASSUME NEW m, NEW k, <<m, k>> \in SpotsIn(fr, t, h)
        PROVE  <<m, k>> \in SpotsIn(fr2, t2, h2)
               /\ At(fr2, t2, h2, <<m, k>>) = At(fr, t, h, <<m, k>>)
    <2>1. m \in 1..n /\ m \in 1..(n + 1)
      BY <1>1, <1>5, <1>8
    <2> QED
      BY <1>3, <1>5, <1>6, <1>8, <2>1 DEF At
  <1>9. /\ SpotsIn(fr, t, h) \subseteq Places /\ SpotsIn(fr2, t2, h2) \subseteq Places
        /\ \A u \in SpotsIn(fr, t, h) : u = <<u[1], u[2]>>
        /\ \A u \in SpotsIn(fr2, t2, h2) : u = <<u[1], u[2]>>
    <2>1. SpotsIn(fr, t, h) \subseteq Places /\ SpotsIn(fr2, t2, h2) \subseteq Places
      BY <1>1, SpotsArePlaces
    <2> QED
      BY <1>1, <2>1, SpotFacts
  <1>10. /\ \A u \in SpotsIn(fr, t, h) : f[u] = u
         /\ \A u \in SpotsIn(fr2, t2, h2) : f[u] = u
    BY <1>9
  <1> HIDE DEF f
  <1>11. ASSUME NEW u \in SpotsIn(fr2, t2, h2), At(fr2, t2, h2, u).atom # 0
         PROVE  /\ f[u] \in SpotsIn(fr, t, h)
                /\ At(fr2, t2, h2, u) = At(fr, t, h, f[u])
                /\ f[f[u]] = u
    <2>1. PICK m, k : u = <<m, k>>
      BY <1>9
    <2>2. u \in SpotsIn(fr, t, h) /\ At(fr2, t2, h2, u) = At(fr, t, h, u)
      BY <1>7, <1>11, <2>1
    <2> QED
      BY <1>10, <2>2
  <1>12. ASSUME NEW u \in SpotsIn(fr, t, h), At(fr, t, h, u).atom # 0
         PROVE  /\ f[u] \in SpotsIn(fr2, t2, h2)
                /\ At(fr2, t2, h2, f[u]) = At(fr, t, h, u)
    <2>1. PICK m, k : u = <<m, k>>
      BY <1>9
    <2>2. u \in SpotsIn(fr2, t2, h2) /\ At(fr2, t2, h2, u) = At(fr, t, h, u)
      BY <1>8, <2>1
    <2> QED
      BY <1>10, <2>2
  <1>13. Rearranged(fr, t, h, fr2, t2, h2)
    <2>1. Moves(fr, t, h, fr2, t2, h2, f, f)
      BY <1>11, <1>12 DEF Moves
    <2> QED
      BY <2>1, MovesRearrange
  <1> QED
    BY <1>13 DEF fr2

LEMMA WithoutLast ==
    ASSUME NEW T, NEW q \in Seq(T), q # << >>
    PROVE  /\ Len(q) \in Nat \ {0} /\ Len(SubSeq(q, 1, Len(q) - 1)) = Len(q) - 1
           /\ SubSeq(q, 1, Len(q) - 1) \in Seq(T)
           /\ \A m \in 1..(Len(q) - 1) : SubSeq(q, 1, Len(q) - 1)[m] = q[m]
  <1> DEFINE n == Len(q)
  <1>1. n \in Nat \ {0} /\ DOMAIN q = 1..n
    OBVIOUS
  <1>2. \A m \in 1..(n - 1) : q[m] \in T
    BY <1>1, ElementOfSeq
  <1>3. SubSeq(q, 1, n - 1) = [m \in 1..(n - 1) |-> q[m]]
    BY <1>1
  <1> HIDE DEF n
  <1>4. SubSeq(q, 1, n - 1) \in Seq(T) /\ Len(SubSeq(q, 1, n - 1)) = n - 1
    BY <1>1, <1>2, <1>3
  <1> QED
    BY <1>1, <1>3, <1>4 DEF n

(* grow_table ends: all of the old table has been read, and the caller of  *)
(* the frame goes on with its entry.                                       *)
LEMMA GivenBack ==
    ASSUME NEW fr \in Seq(Frame), NEW t \in Tables, NEW h \in Entries,
           fr # << >>, h.atom = 0,
           \A k \in DOMAIN fr[Len(fr)].ot :
              k >= fr[Len(fr)].i => fr[Len(fr)].ot[k].atom = 0
    PROVE  Rearranged(fr, t, h, SubSeq(fr, 1, Len(fr) - 1), t, fr[Len(fr)].x)
  <1> DEFINE n   == Len(fr)
             F   == fr[n]
             h2  == F.x
             fr2 == SubSeq(fr, 1, n - 1)
             f   == [u \in Places |-> IF u[1] = n /\ u[2] # -1 THEN <<n + 1, u[2]>> ELSE u]
             g   == [u \in Places |-> IF u[1] = n + 1 THEN <<n, u[2]>> ELSE u]
  <1>1. /\ n \in Nat \ {0} /\ Len(fr2) = n - 1 /\ fr2 \in Seq(Frame)
        /\ \A m \in 1..(n - 1) : fr2[m] = fr[m]
    BY WithoutLast
  <1>2. F \in Frame /\ h2 \in Entries /\ LevelIn(fr, t, h, n) = F
    <2>1. n \in 1..Len(fr)
      BY <1>1
    <2>2. F \in Frame /\ LevelIn(fr, t, h, n) = F
      BY <2>1, SpotFacts
    <2> QED
      BY <2>2 DEF Frame
  <1>3. \A k \in DOMAIN F.ot : k >= F.i => F.ot[k].atom = 0
    OBVIOUS
  <1>4. \A m, k : <<m, k>> \in SpotsIn(fr, t, h) <=>
             /\ m \in 1..(n + 1)
             /\ \/ k = -1
                \/ k \in DOMAIN LevelIn(fr, t, h, m).ot /\ k >= LevelIn(fr, t, h, m).i
    BY SpotFacts
  <1>5. /\ LevelIn(fr, t, h, n + 1).ot = t /\ LevelIn(fr, t, h, n + 1).i = 0
        /\ LevelIn(fr, t, h, n + 1).x = h
    BY <1>1 DEF LevelIn
  <1>6. /\ LevelIn(fr2, t, h2, n).ot = t /\ LevelIn(fr2, t, h2, n).i = 0
        /\ LevelIn(fr2, t, h2, n).x = h2
    <2> HIDE DEF h2, fr2
    <2> QED
      BY <1>1 DEF LevelIn
  <1> HIDE DEF n, fr2
  <1>7. \A m, k : <<m, k>> \in SpotsIn(fr2, t, h2) <=>
             /\ m \in 1..n
             /\ \/ k = -1
                \/ k \in DOMAIN LevelIn(fr2, t, h2, m).ot /\ k >= LevelIn(fr2, t, h2, m).i
    <2>1. Len(fr2) + 1 = n
      BY <1>1
    <2> QED
      BY <1>1, <1>2, <2>1, SpotFacts
  <1>8. \A m \in 1..(n - 1) : LevelIn(fr2, t, h2, m) = LevelIn(fr, t, h, m)
    <2>1. \A m \in 1..(n - 1) : LevelIn(fr2, t, h2, m) = fr2[m]
      BY <1>1 DEF LevelIn
    <2>2. \A m \in 1..(n - 1) : LevelIn(fr, t, h, m) = fr[m]
      BY <1>1 DEF LevelIn, n
    <2> QED
      BY <1>1, <2>1, <2>2
  <1>9. h2 = LevelIn(fr, t, h, n).x
    BY <1>2
  <1> HIDE DEF F, h2
  <1>10. /\ n \in 1..n /\ n \in 1..(n + 1) /\ n + 1 \in 1..(n + 1) /\ n # n + 1
         /\ \A m \in 1..n : m = n \/ m \in 1..(n - 1)
         /\ \A m \in 1..(n + 1) : m = n + 1 \/ m = n \/ m \in 1..(n - 1)
         /\ \A m \in 1..(n - 1) : m \in 1..n /\ m \in 1..(n + 1) /\ m # n /\ m # n + 1
    BY <1>1
  <1>11. DOMAIN t \subseteq Nat
    BY DEF Tables
  <1>12. \A k : <<n, k>> \in SpotsIn(fr2, t, h2) <=> k = -1 \/ k \in DOMAIN t
    <2>1. \A k : <<n, k>> \in SpotsIn(fr2, t, h2) <=>
                   \/ k = -1
                   \/ k \in DOMAIN LevelIn(fr2, t, h2, n).ot
                      /\ k >= LevelIn(fr2, t, h2, n).i
      BY <1>7, <1>10
    <2>2. \A k \in DOMAIN t : k >= 0
      BY <1>11
    <2> QED
      BY <1>6, <2>1, <2>2
  <1>13. \A k : <<n + 1, k>> \in SpotsIn(fr, t, h) <=> k = -1 \/ k \in DOMAIN t
    <2>1. \A k : <<n + 1, k>> \in SpotsIn(fr, t, h) <=>
                   \/ k = -1
                   \/ k \in DOMAIN LevelIn(fr, t, h, n + 1).ot
                      /\ k >= LevelIn(fr, t, h, n + 1).i
      BY <1>4, <1>10
    <2>2. \A k \in DOMAIN t : k >= 0
      BY <1>11
    <2> QED
      BY <1>5, <2>1, <2>2
  <1>14. /\ <<n, -1>> \in SpotsIn(fr, t, h) /\ At(fr, t, h, <<n, -1>>) = h2
         /\ At(fr2, t, h2, <<n, -1>>) = h2
    BY <1>4, <1>6, <1>9, <1>10 DEF At
  <1>15. /\ At(fr, t, h, <<n + 1, -1>>).atom = 0
         /\ \A k \in DOMAIN t : /\ k # -1
                                /\ At(fr, t, h, <<n + 1, k>>) = t[k]
                                /\ At(fr2, t, h2, <<n, k>>) = t[k]
    <2>1. \A k \in DOMAIN t : k # -1
      BY <1>11
    <2> QED
      BY <1>5, <1>6, <2>1 DEF At
  <1>16. ASSUME NEW k, k # -1, <<n, k>> \in SpotsIn(fr, t, h)
         PROVE  At(fr, t, h, <<n, k>>).atom = 0
    <2>1. LevelIn(fr, t, h, n) = F
      BY <1>2
    <2>2. k \in DOMAIN F.ot /\ k >= F.i
      BY <1>4, <1>16, <2>1
    <2>3. At(fr, t, h, <<n, k>>) = F.ot[k]
      BY <1>16, <2>1 DEF At
    <2> QED
      BY <1>3, <2>2, <2>3
  <1>17. \A m \in 1..(n - 1) : \A k :
            /\ <<m, k>> \in SpotsIn(fr2, t, h2) <=> <<m, k>> \in SpotsIn(fr, t, h)
            /\ At(fr2, t, h2, <<m, k>>) = At(fr, t, h, <<m, k>>)
    BY <1>4, <1>7, <1>8, <1>10 DEF At
  <1>18. /\ SpotsIn(fr, t, h) \subseteq Places /\ SpotsIn(fr2, t, h2) \subseteq Places
         /\ \A u \in SpotsIn(fr, t, h) : u = <<u[1], u[2]>>
         /\ \A u \in SpotsIn(fr2, t, h2) : u = <<u[1], u[2]>>
    <2>1. SpotsIn(fr, t, h) \subseteq Places /\ SpotsIn(fr2, t, h2) \subseteq Places
      BY <1>1, <1>2, SpotsArePlaces
    <2> QED
      BY <1>1, <1>2, <2>1, SpotFacts
  <1>19. /\ \A u \in SpotsIn(fr2, t, h2) :
               f[u] = IF u[1] = n /\ u[2] # -1 THEN <<n + 1, u[2]>> ELSE u
         /\ \A u \in SpotsIn(fr, t, h) : g[u] = IF u[1] = n + 1 THEN <<n, u[2]>> ELSE u
    BY <1>18
  <1> HIDE DEF f, g
  <1>20. ASSUME NEW u \in SpotsIn(fr2, t, h2), At(fr2, t, h2, u).atom # 0
         PROVE  /\ f[u] \in SpotsIn(fr, t, h)
                /\ At(fr2, t, h2, u) = At(fr, t, h, f[u])
                /\ g[f[u]] = u
    <2>1. PICK m, k : u = <<m, k>>
      BY <1>18
    <2>2. m \in 1..n
      BY <1>7, <2>1
    <2>3. CASE m \in 1..(n - 1)
      <3>1. u \in SpotsIn(fr, t, h) /\ At(fr2, t, h2, u) = At(fr, t, h, u)
        BY <1>17, <2>1, <2>3
      <3>2. f[u] = u /\ g[u] = u
        BY <1>10, <1>19, <2>1, <2>3, <3>1
      <3> QED
        BY <3>1, <3>2
    <2>4. CASE m = n /\ k = -1
      <3>1. u \in SpotsIn(fr, t, h) /\ At(fr2, t, h2, u) = At(fr, t, h, u)
        BY <1>14, <2>1, <2>4
      <3>2. f[u] = u /\ g[u] = u
        BY <1>10, <1>19, <2>1, <2>4, <3>1
      <3> QED
        BY <3>1, <3>2
    <2>5. CASE m = n /\ k # -1
      <3>1. k \in DOMAIN t
        BY <1>12, <2>1, <2>5
      <3>2. f[u] = <<n + 1, k>>
        BY <1>19, <2>1, <2>5
      <3>3. f[u] \in SpotsIn(fr, t, h)
        BY <1>13, <3>1, <3>2
      <3>4. g[f[u]] = u
        BY <1>19, <2>1, <2>5, <3>2, <3>3
      <3> QED
        BY <1>15, <2>1, <2>5, <3>1, <3>2, <3>3, <3>4
    <2> QED
      BY <1>10, <2>2, <2>3, <2>4, <2>5
  <1>21. ASSUME NEW u \in SpotsIn(fr, t, h), At(fr, t, h, u).atom # 0
         PROVE  /\ g[u] \in SpotsIn(fr2, t, h2)
                /\ At(fr2, t, h2, g[u]) = At(fr, t, h, u)
    <2>1. PICK m, k : u = <<m, k>>
      BY <1>18
    <2>2. m \in 1..(n + 1)
      BY <1>4, <2>1
    <2>3. CASE m \in 1..(n - 1)
      <3>1. g[u] = u
        BY <1>10, <1>19, <2>1, <2>3
      <3> QED
        BY <1>17, <2>1, <2>3, <3>1
    <2>4. CASE m = n
      <3>1. k = -1
        BY <1>16, <1>21, <2>1, <2>4
      <3>2. g[u] = u
        BY <1>10, <1>19, <2>1, <2>4
      <3> QED
        BY <1>12, <1>14, <2>1, <2>4, <3>1, <3>2
    <2>5. CASE m = n + 1
      <3>1. k \in DOMAIN t
        BY <1>13, <1>15, <1>21, <2>1, <2>5
      <3>2. g[u] = <<n, k>>
        BY <1>19, <2>1, <2>5
      <3> QED
        BY <1>12, <1>15, <2>1, <2>5, <3>1, <3>2
    <2> QED
      BY <1>10, <2>2, <2>3, <2>4, <2>5
  <1>22. Rearranged(fr, t, h, fr2, t, h2)
    <2>1. Moves(fr, t, h, fr2, t, h2, f, g)
      BY <1>20, <1>21 DEF Moves
    <2> QED
      BY <2>1, MovesRearrange
  <1> QED
    BY <1>22 DEF h2, F, n, fr2

-----------------------------------------------------------------------------
(* The entries of a state, before and after a step.                        *)

LEMMA SpotsNow ==
    /\ EntriesOK <=> \A s \in SpotsIn(frames, htable, x) :
          At(frames, htable, x, s).atom # 0 =>
             \E p \in Pairs : At(frames, htable, x, s) = EntryOf(p)
    /\ EveryAtomOnce <=> \A a \in Added \ {0} : OnceIn(frames, htable, x, a)
  <1>1. Spots = SpotsIn(frames, htable, x)
    BY DEF Spots, SpotsIn, Level, LevelIn
  <1>2. \A s : EntryAt(s) = At(frames, htable, x, s)
    BY DEF EntryAt, At, Level, LevelIn
  <1>3. ASSUME NEW a
        PROVE  (\E s \in Spots : {u \in Spots : EntryAt(u).atom = a} = {s})
               <=> OnceIn(frames, htable, x, a)
    <2>1. ASSUME NEW s \in Spots
          PROVE  {u \in Spots : EntryAt(u).atom = a} = {s}
                 <=> \A u \in Spots : EntryAt(u).atom = a <=> u = s
      OBVIOUS
    <2> QED
      BY <1>1, <1>2, <2>1 DEF OnceIn
  <1>4. EveryAtomOnce <=> \A a \in Added \ {0} : OnceIn(frames, htable, x, a)
    BY <1>3 DEF EveryAtomOnce
  <1> QED
    BY <1>1, <1>2, <1>4 DEF EntriesOK, ATOM_VALID

LEMMA SpotsNext ==
    /\ EntriesOK' <=> \A s \in SpotsIn(frames', htable', x') :
          At(frames', htable', x', s).atom # 0 =>
             \E p \in Pairs' : At(frames', htable', x', s) = EntryOf(p)
    /\ EveryAtomOnce' <=> \A a \in Added' \ {0} : OnceIn(frames', htable', x', a)
  <1>1. Spots' = SpotsIn(frames', htable', x')
    BY DEF Spots, SpotsIn, Level, LevelIn
  <1>2. \A s : EntryAt(s)' = At(frames', htable', x', s)
    BY DEF EntryAt, At, Level, LevelIn
  <1>3. ASSUME NEW a
        PROVE  (\E s \in Spots' : {u \in Spots' : EntryAt(u)'.atom = a} = {s})
               <=> OnceIn(frames', htable', x', a)
    <2>1. ASSUME NEW s \in Spots'
          PROVE  {u \in Spots' : EntryAt(u)'.atom = a} = {s}
                 <=> \A u \in Spots' : EntryAt(u)'.atom = a <=> u = s
      OBVIOUS
    <2> QED
      BY <1>1, <1>2, <2>1 DEF OnceIn
  <1>4. EveryAtomOnce' <=> \A a \in Added' \ {0} : OnceIn(frames', htable', x', a)
    BY <1>3 DEF EveryAtomOnce
  <1> QED
    BY <1>1, <1>2, <1>4 DEF EntriesOK, ATOM_VALID

LEMMA AddedOfPairs ==
    /\ Added = {p[2] : p \in Pairs}
    /\ Added' = {p[2] : p \in Pairs'}
  BY DEF Added, Pairs

(* A step that only moves entries keeps them, and keeps every atom once.   *)
LEMMA MovedKeeps ==
    ASSUME PairsOK, EntriesOK, EveryAtomOnce, Pairs' = Pairs,
           Rearranged(frames, htable, x, frames', htable', x')
    PROVE  EntriesOK' /\ EveryAtomOnce'
  <1>1. \A a \in Added : a \in Nat
    BY AddedOfPairs DEF PairsOK
  <1>2. Added' = Added
    BY AddedOfPairs
  <1>3. EveryAtomOnce'
    <2>1. ASSUME NEW a \in Added \ {0} PROVE OnceIn(frames', htable', x', a)
      <3>1. OnceIn(frames, htable, x, a) /\ a \in Nat \ {0}
        BY <1>1, SpotsNow
      <3> QED
        BY <3>1 DEF Rearranged
    <2> QED
      BY <1>2, <2>1, SpotsNext
  <1>4. EntriesOK'
    <2>1. ASSUME NEW u \in SpotsIn(frames', htable', x'),
                 At(frames', htable', x', u).atom # 0
          PROVE  \E p \in Pairs : At(frames', htable', x', u) = EntryOf(p)
      <3>1. PICK s \in SpotsIn(frames, htable, x) :
               At(frames', htable', x', u) = At(frames, htable, x, s)
        BY <2>1 DEF Rearranged
      <3> QED
        BY <2>1, <3>1, SpotsNow
    <2> QED
      BY <2>1, SpotsNext
  <1> QED
    BY <1>3, <1>4

LEMMA StateFacts ==
    ASSUME TypeOK, Phases
    PROVE  frames \in Seq(Frame) /\ htable \in Tables /\ x \in Entries
  <1>1. 2 * HASHSIZE - 1 \in Nat
    BY DEF TypeOK
  <1> QED
    BY <1>1 DEF TypeOK, Phases, Tables

-----------------------------------------------------------------------------
(* What hash_insert and grow_table do with the entries.                    *)

LEMMA PlaceMoves ==
    ASSUME TypeOK, Phases, Place
    PROVE  Rearranged(frames, htable, x, frames', htable', x') /\ Pairs' = Pairs
  <1>1. /\ ~ATOM_VALID(htable[Here].atom) /\ htable' = [htable EXCEPT ![Here] = x]
        /\ x' = NoEntry /\ frames' = frames
    BY DEF Place
  <1>2. Rearranged(frames, htable, x, frames, [htable EXCEPT ![Here] = x], NoEntry)
    <2>1. htable[Here].atom = 0 /\ NoEntry.atom = 0
      BY <1>1, NoEntryType DEF ATOM_VALID
    <2> QED
      BY <2>1, StateFacts, HereFacts, NoEntryType, Swapped
  <1>3. Pairs' = Pairs
    <2>1. CASE frames = << >>
      <3>1. interned' = interned \union {<<wanted[1], wanted[2]>>} /\ wanted' = << >>
        BY <2>1 DEF Place, Returned
      <3>2. wanted \in Strings \X Nat
        BY DEF Place, Phases
      <3>3. wanted = <<wanted[1], wanted[2]>> /\ wanted # << >>
        BY <3>2
      <3> QED
        BY <3>1, <3>3 DEF Pairs
    <2>2. CASE frames # << >>
      BY <2>2 DEF Place, Pairs
    <2> QED
      BY <2>1, <2>2
  <1> QED
    BY <1>1, <1>2, <1>3

LEMMA DisplaceMoves ==
    ASSUME TypeOK, Phases, Displace
    PROVE  Rearranged(frames, htable, x, frames', htable', x') /\ Pairs' = Pairs
  <1>1. /\ htable' = [htable EXCEPT ![Here] = x] /\ x' = htable[Here] /\ frames' = frames
        /\ wanted' = wanted /\ interned' = interned
    BY DEF Displace
  <1>2. Rearranged(frames, htable, x, frames, [htable EXCEPT ![Here] = x], htable[Here])
    BY StateFacts, HereFacts, Swapped
  <1> QED
    BY <1>1, <1>2 DEF Pairs

LEMMA GrowMoves ==
    ASSUME TypeOK, Phases, grow_table
    PROVE  Rearranged(frames, htable, x, frames', htable', x') /\ Pairs' = Pairs
  <1> DEFINE F == [ot |-> htable, i |-> 0, x |-> x]
  <1>1. /\ frames' = Append(frames, F) /\ htable' = Table(2 * HASHSIZE) /\ x' = NoEntry
        /\ wanted' = wanted /\ interned' = interned
    BY DEF grow_table
  <1>2. F \in Frame
    BY StateFacts DEF Frame, Tables
  <1>3. Table(2 * HASHSIZE) \in Tables
    <2>1. 2 * HASHSIZE \in Nat /\ 2 * (2 * HASHSIZE) - 1 \in Nat
      BY DEF TypeOK
    <2> QED
      BY <2>1, TableType DEF Tables
  <1>4. \A b \in DOMAIN Table(2 * HASHSIZE) : Table(2 * HASHSIZE)[b].atom = 0
    BY NoEntryType DEF Table, ATOM_VALID
  <1>5. NoEntry \in Entries /\ NoEntry.atom = 0
    BY NoEntryType DEF ATOM_VALID
  <1>6. frames \in Seq(Frame) /\ htable \in Tables /\ x \in Entries
    BY StateFacts
  <1>7. Rearranged(frames, htable, x, Append(frames, F), Table(2 * HASHSIZE), NoEntry)
    BY <1>2, <1>3, <1>4, <1>5, <1>6, Grown
  <1> QED
    BY <1>1, <1>7 DEF Pairs

LEMMA ReinsertMoves ==
    ASSUME TypeOK, Phases, Reinsert
    PROVE  Rearranged(frames, htable, x, frames', htable', x') /\ Pairs' = Pairs
  <1>1. /\ pc = "reinsert" /\ frames # << >> /\ htable' = htable
        /\ wanted' = wanted /\ interned' = interned
    BY DEF Reinsert, Phases, tableVars
  <1>2. PICK i \in ToDo(Top) : /\ \A k \in ToDo(Top) : i <= k
                               /\ StartInsert(Top.ot[i])
                               /\ frames' = [frames EXCEPT ![Len(frames)].i = i + 1]
    BY DEF Reinsert
  <1>3. x' = frames[Len(frames)].ot[i] /\ i \in Nat
    BY <1>1, <1>2, TopFacts DEF StartInsert, ToDo, Top
  <1>4. x.atom = 0
    BY <1>1 DEF Phases, ATOM_VALID
  <1>5. frames' \in Seq(Frame)
    BY ReinsertTyping DEF Phases
  <1>6. ReadsOn(frames, frames', i)
    <2> DEFINE F == frames[Len(frames)]
    <2>1. i \in DOMAIN F.ot /\ i >= F.i
      BY <1>2 DEF ToDo, Top
    <2>2. \A k \in DOMAIN F.ot : k >= F.i /\ F.ot[k].atom # 0 => i <= k
      BY <1>2 DEF ToDo, Top, ATOM_VALID
    <2>3. frames' = [frames EXCEPT ![Len(frames)] = [F EXCEPT !.i = i + 1]]
      BY <1>2
    <2> QED
      BY <2>1, <2>2, <2>3 DEF ReadsOn
  <1>7. Rearranged(frames, htable, x, frames', htable, frames[Len(frames)].ot[i])
    BY <1>1, <1>3, <1>4, <1>5, <1>6, StateFacts, Taken
  <1> QED
    BY <1>1, <1>3, <1>7 DEF Pairs

LEMMA ResumeMoves ==
    ASSUME TypeOK, Phases, Resume
    PROVE  Rearranged(frames, htable, x, frames', htable', x') /\ Pairs' = Pairs
  <1>1. /\ pc = "reinsert" /\ frames # << >> /\ htable' = htable /\ ToDo(Top) = {}
        /\ wanted' = wanted /\ interned' = interned
        /\ x' = frames[Len(frames)].x /\ frames' = SubSeq(frames, 1, Len(frames) - 1)
    BY DEF Resume, Phases, tableVars, StartInsert, Top
  <1>2. x.atom = 0
    BY <1>1 DEF Phases, ATOM_VALID
  <1>3. \A k \in DOMAIN frames[Len(frames)].ot :
           k >= frames[Len(frames)].i => frames[Len(frames)].ot[k].atom = 0
    BY <1>1 DEF ToDo, Top, ATOM_VALID
  <1>4. Rearranged(frames, htable, x, SubSeq(frames, 1, Len(frames) - 1), htable,
                   frames[Len(frames)].x)
    BY <1>1, <1>2, <1>3, StateFacts, GivenBack
  <1> QED
    BY <1>1, <1>4 DEF Pairs

-----------------------------------------------------------------------------
(* The bytes of a string, and the calls that find or add one.              *)

LEMMA LengthOfStored ==
    ASSUME NEW p \in Strings \X Nat, StoredAt(p)
    PROVE  ATOM_LEN(p[2]) = LenByte(p[1])
  <1>1. p[2] \in Nat
    OBVIOUS
  <1>2. CHUNK_OFFSET(p[2]) + 0 = CHUNK_OFFSET(p[2])
    BY <1>1 DEF CHUNK_OFFSET
  <1> QED
    BY <1>2 DEF ATOM_LEN, ByteAt, StoredAt

LEMMA TextOfStored ==
    ASSUME NEW p \in Strings \X Nat, StoredAt(p)
    PROVE  /\ \A i \in 1..Len(p[1]) : ByteAt(p[2], i) = p[1][i]
           /\ LengthFits(p[1]) => TextOf(p[2]) = p[1]
  <1> DEFINE t == p[1]
             n == Len(t)
  <1>1. t \in Seq(0..255) /\ n \in Nat /\ t = [i \in 1..n |-> t[i]]
    <2>1. t \in Seq(0..255)
      BY StringFacts
    <2> QED
      BY <2>1
  <1>2. \A i \in 1..n : ByteAt(p[2], i) = t[i]
    BY DEF StoredAt, ByteAt
  <1>3. ASSUME LengthFits(t) PROVE TextOf(p[2]) = t
    <2>1. ATOM_LEN(p[2]) = n
      BY <1>3, LengthFacts, LengthOfStored
    <2> HIDE DEF n, t
    <2>2. TextOf(p[2]) = [i \in 1..n |-> t[i]]
      BY <1>2, <2>1 DEF TextOf
    <2> QED
      BY <1>1, <2>2
  <1> QED
    BY <1>2, <1>3

(* Between calls the entries are in the table, and each is that of a pair. *)
LEMMA IdleTable ==
    ASSUME TypeOK, Phases, EntriesOK, pc = "idle"
    PROVE  /\ frames = << >> /\ wanted = << >> /\ Pairs = interned
           /\ \A u \in SpotsIn(frames, htable, x) : At(frames, htable, x, u).atom # 0 =>
                 u[2] \in DOMAIN htable /\ At(frames, htable, x, u) = htable[u[2]]
           /\ \A b \in DOMAIN htable : ATOM_VALID(htable[b].atom) =>
                 \E p \in interned : htable[b] = EntryOf(p)
  <1>1. frames = << >> /\ wanted = << >> /\ Pairs = interned /\ x.atom = 0
    BY DEF Phases, Pairs, ATOM_VALID
  <1>2. /\ frames \in Seq(Frame) /\ htable \in Tables /\ x \in Entries /\ Len(frames) = 0
    BY <1>1, StateFacts
  <1>3. /\ LevelIn(frames, htable, x, 1).ot = htable /\ LevelIn(frames, htable, x, 1).i = 0
        /\ LevelIn(frames, htable, x, 1).x = x
    BY <1>2 DEF LevelIn
  <1>4. \A n, i : <<n, i>> \in SpotsIn(frames, htable, x) <=>
             /\ n \in 1..1
             /\ \/ i = -1
                \/ i \in DOMAIN LevelIn(frames, htable, x, n).ot
                   /\ i >= LevelIn(frames, htable, x, n).i
    <2>1. \A n, i : <<n, i>> \in SpotsIn(frames, htable, x) <=>
             /\ n \in 1..(Len(frames) + 1)
             /\ \/ i = -1
                \/ i \in DOMAIN LevelIn(frames, htable, x, n).ot
                   /\ i >= LevelIn(frames, htable, x, n).i
      BY <1>2, SpotFacts
    <2>2. 1..(Len(frames) + 1) = 1..1
      BY <1>2
    <2> QED
      BY <2>1, <2>2
  <1>5. \A u \in SpotsIn(frames, htable, x) : u = <<u[1], u[2]>>
    BY <1>2, SpotFacts
  <1>6. ASSUME NEW u \in SpotsIn(frames, htable, x), At(frames, htable, x, u).atom # 0
        PROVE  u[2] \in DOMAIN htable /\ At(frames, htable, x, u) = htable[u[2]]
    <2>1. /\ u[1] = 1
          /\ u[2] = -1 \/ u[2] \in DOMAIN LevelIn(frames, htable, x, u[1]).ot
      BY <1>4, <1>5
    <2>2. u[2] # -1
      BY <1>1, <1>3, <1>6, <2>1 DEF At
    <2> QED
      BY <1>3, <2>1, <2>2 DEF At
  <1>7. ASSUME NEW b \in DOMAIN htable, ATOM_VALID(htable[b].atom)
        PROVE  \E p \in interned : htable[b] = EntryOf(p)
    <2>1. b \in Nat /\ b # -1 /\ b >= 0
      BY <1>2 DEF Tables
    <2>2. <<1, b>> \in SpotsIn(frames, htable, x)
      BY <1>3, <1>4, <2>1
    <2>3. At(frames, htable, x, <<1, b>>) = htable[b]
      BY <1>3, <2>1 DEF At
    <2> QED
      BY <1>1, <1>7, <2>2, <2>3, SpotsNow DEF ATOM_VALID
  <1> QED
    BY <1>1, <1>6, <1>7

(* The entry that answers belongs to a pair that was returned before.      *)
LEMMA HitReturned ==
    ASSUME TypeOK, Phases, PairsOK, ChunksOK, EntriesOK, pc = "idle",
           NEW s \in Strings, s # << >>, NEW p \in Hits(s)
    PROVE  LengthFits(s) /\ <<s, htable[Bucket(HASHSIZE, Hash[s], p)].atom>> \in interned
  <1> DEFINE b == Bucket(HASHSIZE, Hash[s], p)
  <1>1. /\ p \in 0..3 /\ ATOM_VALID(htable[b].atom) /\ TextOf(htable[b].atom) = s
        /\ htable[b].len = Len(s)
    BY DEF Hits, Answers
  <1>2. b \in DOMAIN htable
    BY <1>1, StringFacts, BucketRange DEF TypeOK
  <1> HIDE DEF b
  <1>3. PICK q \in interned : htable[b] = EntryOf(q)
    BY <1>1, <1>2, IdleTable
  <1>4. q \in Pairs /\ q \in Strings \X Nat /\ StoredAt(q)
    BY <1>3 DEF Pairs, PairsOK, ChunksOK
  <1>5. htable[b].atom = q[2] /\ htable[b].len = LenByte(q[1])
    BY <1>3 DEF EntryOf
  <1>6. LengthFits(q[1]) /\ q[1] = s
    <2>1. LenByte(q[1]) # 0
      BY <1>1, <1>5, StringFacts
    <2>2. LengthFits(q[1])
      BY <1>4, <2>1, LengthFacts
    <2> QED
      BY <1>1, <1>4, <1>5, <2>2, TextOfStored
  <1>7. q = <<s, htable[b].atom>>
    BY <1>4, <1>5, <1>6
  <1> QED
    BY <1>3, <1>6, <1>7 DEF b

(* A string that nothing answers to has never been added, if its length    *)
(* fits.                                                                   *)
LEMMA MissIsNew ==
    ASSUME IInv, pc = "idle", NEW s \in Strings, s # << >>, Hits(s) = {}, LengthFits(s)
    PROVE  \A p \in interned : p[1] # s
  <1> SUFFICES ASSUME NEW p \in interned, p[1] = s PROVE FALSE
    OBVIOUS
  <1> USE DEF IInv
  <1>1. p \in Pairs /\ p \in Strings \X Nat /\ StoredAt(p) /\ p[2] # 0
    BY DEF Pairs, PairsOK, ChunksOK
  <1>2. PICK u \in SpotsIn(frames, htable, x) : At(frames, htable, x, u).atom = p[2]
    <2>1. p[2] \in Added \ {0}
      BY <1>1, AddedOfPairs
    <2> QED
      BY <2>1, SpotsNow DEF OnceIn
  <1>3. PICK b \in DOMAIN htable : htable[b].atom = p[2]
    BY <1>1, <1>2, IdleTable
  <1>4. PICK q \in interned : htable[b] = EntryOf(q)
    BY <1>1, <1>3, IdleTable DEF ATOM_VALID
  <1>5. q \in Strings \X Nat /\ StoredAt(q)
    BY <1>4 DEF Pairs, PairsOK, ChunksOK
  <1>6. q[2] = p[2] /\ q[1] = s
    <2>1. q[2] = p[2]
      BY <1>3, <1>4 DEF EntryOf
    <2>2. TextOf(p[2]) = s /\ LenByte(s) = Len(s) /\ Len(s) # 0
      BY <1>1, LengthFacts, StringFacts, TextOfStored
    <2>3. LenByte(q[1]) = LenByte(s)
      BY <1>1, <1>5, <2>1, LengthOfStored
    <2>4. LengthFits(q[1])
      BY <1>5, <2>2, <2>3, LengthFacts
    <2>5. TextOf(q[2]) = q[1]
      BY <1>5, <2>4, TextOfStored
    <2> QED
      BY <2>1, <2>2, <2>5
  <1>7. /\ ATOM_VALID(htable[b].atom) /\ htable[b].hashes = Hash[s] /\ htable[b].len = Len(s)
        /\ TextOf(htable[b].atom) = s
    <2>1. htable[b].hashes = Hash[s] /\ htable[b].len = LenByte(s) /\ LenByte(s) = Len(s)
      BY <1>4, <1>6, LengthFacts DEF EntryOf
    <2> QED
      BY <1>1, <1>3, <2>1, TextOfStored DEF ATOM_VALID
  <1>8. PICK k \in 0..3 : b = Bucket(HASHSIZE, Hash[s], k)
    BY <1>7 DEF InItsBucket
  <1>9. k \in Hits(s)
    BY <1>7, <1>8 DEF Hits, Answers
  <1> QED
    BY <1>9

(* What add_string makes room for is beyond the bytes of every pair.       *)
LEMMA NewAtomIsNew ==
    ASSUME TypeOK, PairsOK, ChunksOK, NEW s \in Strings, ~(NeedChunk /\ LastChunk),
           NEW p \in Pairs
    PROVE  p[2] # NewAtom
  <1> SUFFICES ASSUME p[2] = NewAtom PROVE FALSE
    OBVIOUS
  <1>1. NewChunk \in 0..(NumChunks - 1) /\ NewOffset \in 0..(ChunkSize - 1)
    BY RoomForString
  <1>2. CHUNK_INDEX(p[2]) = NewChunk /\ CHUNK_OFFSET(p[2]) = NewOffset
    BY <1>1, AtomFacts DEF NewAtom
  <1>3. /\ NewChunk <= current_chunk
        /\ NewOffset + Len(p[1]) + 1 <=
              IF NewChunk = current_chunk THEN next_free_offset ELSE ChunkSize
    BY <1>2 DEF ChunksOK, StoredAt
  <1>4. Len(p[1]) \in Nat
    BY LengthFacts DEF PairsOK
  <1>5. NewChunk = current_chunk /\ NewOffset = next_free_offset
    <2>1. current_chunk \in Nat
      BY DEF TypeOK
    <2> QED
      BY <1>3, <2>1 DEF NewChunk, NewOffset
  <1>6. NewOffset + Len(p[1]) + 1 <= NewOffset
    BY <1>3, <1>5
  <1> QED
    BY <1>1, <1>4, <1>6

LEMMA StoredBytes ==
    ASSUME NEW memory, NEW s \in Strings, NEW o \in Nat, o + Len(s) <= ChunkSize - 1
    PROVE  /\ Stored(memory, s, o)[o] = LenByte(s)
           /\ \A i \in 1..Len(s) : Stored(memory, s, o)[o + i] = s[i]
           /\ \A q \in 0..(o - 1) : Stored(memory, s, o)[q] = memory[q]
  <1> DEFINE n == Len(s)
             l == LenByte(s)
  <1>1. n \in Nat /\ ChunkSize \in Nat
    BY LengthFacts, SizeFacts
  <1>3. Stored(memory, s, o) =
          [q \in 0..(ChunkSize - 1) |->
             IF q = o THEN l ELSE IF q \in (o + 1)..(o + n) THEN s[q - o] ELSE memory[q]]
    BY DEF Stored
  <1>4. o + n <= ChunkSize - 1
    OBVIOUS
  <1> HIDE DEF n, l
  <1>5. Stored(memory, s, o)[o] = l
    BY <1>1, <1>3, <1>4
  <1>6. \A q \in 0..(o - 1) : Stored(memory, s, o)[q] = memory[q]
    BY <1>1, <1>3, <1>4
  <1>7. \A i \in 1..n : /\ o + i \in 0..(ChunkSize - 1) /\ o + i # o
                        /\ o + i \in (o + 1)..(o + n) /\ (o + i) - o = i
    BY <1>1, <1>4
  <1>8. \A i \in 1..n : Stored(memory, s, o)[o + i] = s[i]
    BY <1>3, <1>7
  <1> QED
    BY <1>5, <1>6, <1>8 DEF n, l

(* add_string leaves the bytes of every pair alone, and stores its own.    *)
LEMMA AddStores ==
    ASSUME TypeOK, PairsOK, ChunksOK, NEW s \in Strings, ~(NeedChunk /\ LastChunk),
           add_string(s), NEW a, a = NewAtom
    PROVE  /\ \A p \in Pairs : StoredAt(p)'
           /\ StoredAt(<<s, a>>)'
           /\ chunks'[0][0] = 0
           /\ current_chunk' = 0 => next_free_offset' >= 1
  <1> DEFINE m  == IF NeedChunk THEN Garbage ELSE chunks[NewChunk]
             nc == NewChunk
             no == NewOffset
             n  == Len(s)
             l  == LenByte(s)
             M  == Stored(m, s, no)
  <1>1. /\ nc \in 0..(NumChunks - 1) /\ no \in 0..(ChunkSize - 1) /\ no \in Nat
        /\ no + n <= ChunkSize - 1 /\ no + n + 1 <= ChunkSize /\ current_chunk <= nc
        /\ n \in Nat
    <2>1. Len(s) \in Nat /\ ChunkSize \in Nat
      BY LengthFacts, SizeFacts
    <2>2. /\ NewChunk \in 0..(NumChunks - 1) /\ NewOffset \in 0..(ChunkSize - 1)
          /\ NewOffset + Len(s) + 1 <= ChunkSize /\ current_chunk <= NewChunk
      BY RoomForString
    <2> QED
      BY <2>1, <2>2
  <1>2. /\ current_chunk' = nc /\ next_free_offset' = no + n + 1
        /\ chunks' = [chunks EXCEPT ![nc] = M]
    BY DEF add_string
  <1>3. /\ \/ nc = current_chunk + 1 /\ no = 0
           \/ nc = current_chunk /\ no = next_free_offset /\ m = chunks[nc]
        /\ current_chunk \in Nat /\ next_free_offset \in 0..ChunkSize
        /\ ChunkSize \in Nat
    BY SizeFacts DEF TypeOK, NewChunk, NewOffset
  <1>4. /\ M[no] = l /\ \A i \in 1..n : M[no + i] = s[i]
        /\ \A q \in 0..(no - 1) : M[q] = m[q]
    <2> HIDE DEF m, no
    <2>1. no \in Nat /\ no + Len(s) <= ChunkSize - 1
      BY <1>1
    <2>2. /\ Stored(m, s, no)[no] = LenByte(s)
          /\ \A i \in 1..Len(s) : Stored(m, s, no)[no + i] = s[i]
          /\ \A q \in 0..(no - 1) : Stored(m, s, no)[q] = m[q]
      BY <2>1, StoredBytes
    <2> QED
      BY <2>2
  <1>5. CHUNK_INDEX(a) = nc /\ CHUNK_OFFSET(a) = no /\ a = MAKE_ATOM(nc, no)
    BY <1>1, AtomFacts DEF NewAtom
  <1>6. DOMAIN chunks = 0..(NumChunks - 1)
    BY DEF TypeOK
  <1> HIDE DEF m, nc, no, n, l, M
  <1>7. chunks'[nc] = M /\ \A c \in 0..(NumChunks - 1) : c # nc => chunks'[c] = chunks[c]
    BY <1>1, <1>2, <1>6
  <1>8. ASSUME NEW p \in Pairs PROVE StoredAt(p)'
    <2> DEFINE c == CHUNK_INDEX(p[2])
               o == CHUNK_OFFSET(p[2])
               k == Len(p[1])
               d == LenByte(p[1])
    <2>1. /\ p[2] = MAKE_ATOM(c, o) /\ c <= current_chunk
          /\ o + k + 1 <= IF c = current_chunk THEN next_free_offset ELSE ChunkSize
          /\ chunks[c][o] = d
          /\ \A i \in 1..k : chunks[c][o + i] = p[1][i]
      BY DEF ChunksOK, StoredAt
    <2>2. p[2] \in Nat /\ k \in Nat
      BY LengthFacts DEF PairsOK
    <2>3. c \in Nat /\ o \in Nat
      <3>1. p[2] \in Nat
        BY <2>2
      <3> QED
        BY <3>1 DEF CHUNK_INDEX, CHUNK_OFFSET
    <2> HIDE DEF c, o, k, d
    <2>4. c <= nc /\ o + k + 1 <= IF c = nc THEN no + n + 1 ELSE ChunkSize
      BY <1>1, <1>3, <2>1, <2>2, <2>3
    <2>5. c \in 0..(NumChunks - 1)
      <3>1. NumChunks \in Nat
        BY SizeFacts
      <3>2. nc \in 0..(NumChunks - 1) /\ c <= nc
        BY <1>1, <2>4
      <3> QED
        BY <2>3, <3>1, <3>2
    <2>6. chunks'[c][o] = d /\ \A i \in 1..k : chunks'[c][o + i] = p[1][i]
      <3>1. CASE c # nc
        BY <1>7, <2>1, <2>5, <3>1
      <3>2. CASE c = nc
        <4>1. nc = current_chunk /\ no = next_free_offset /\ m = chunks[c]
          BY <1>1, <1>3, <2>1, <2>3, <3>2
        <4>2. o + k + 1 <= no
          BY <2>1, <3>2, <4>1
        <4>3. o \in 0..(no - 1) /\ \A i \in 1..k : o + i \in 0..(no - 1)
          BY <1>1, <2>2, <2>3, <4>2
        <4>4. M[o] = m[o] /\ \A i \in 1..k : M[o + i] = m[o + i]
          BY <1>4, <4>3
        <4> QED
          BY <1>7, <2>1, <3>2, <4>1, <4>4
      <3> QED
        BY <3>1, <3>2
    <2> QED
      BY <1>2, <2>1, <2>4, <2>6 DEF StoredAt, c, o, k, d
  <1>9. StoredAt(<<s, a>>)'
    <2>1. no + n + 1 <= IF nc = nc THEN no + n + 1 ELSE ChunkSize
      BY <1>1
    <2>2. chunks'[nc][no] = l /\ \A i \in 1..n : chunks'[nc][no + i] = s[i]
      BY <1>4, <1>7
    <2>3. nc <= nc
      BY <1>1
    <2> QED
      BY <1>2, <1>5, <2>1, <2>2, <2>3 DEF StoredAt, n, l
  <1>10. chunks'[0][0] = 0
    <2>0. chunks[0][0] = 0 /\ 0 \in 0..(NumChunks - 1)
      BY SizeFacts DEF ChunksOK
    <2>1. CASE nc # 0
      BY <1>7, <2>0, <2>1
    <2>2. CASE nc = 0
      <3>1. current_chunk = 0 /\ no = next_free_offset /\ m = chunks[0]
        BY <1>3, <2>2
      <3>2. no >= 1
        BY <3>1 DEF ChunksOK
      <3>3. M[0] = m[0]
        BY <1>1, <1>4, <3>2
      <3> QED
        BY <1>7, <2>0, <2>2, <3>1, <3>3
    <2> QED
      BY <2>1, <2>2
  <1>11. current_chunk' = 0 => next_free_offset' >= 1
    BY <1>1, <1>2
  <1> QED
    BY <1>8, <1>9, <1>10, <1>11

-----------------------------------------------------------------------------
(* Every step keeps the invariant.                                         *)

LEMMA InitInv == Init => IInv
  <1> SUFFICES ASSUME Init PROVE IInv
    OBVIOUS
  <1>1. /\ HASHSIZE = InitSize /\ htable = Table(InitSize) /\ current_chunk = 0
        /\ next_free_offset = 1 /\ pc = "idle" /\ x = NoEntry /\ start = 0 /\ loop = 0
        /\ place = 0 /\ frames = << >> /\ wanted = << >> /\ interned = {}
    BY DEF Init
  <1>2. chunks = [c \in 0..(NumChunks - 1) |->
                    IF c = 0 THEN [q \in 0..(ChunkSize - 1) |-> 0] ELSE Garbage]
    BY DEF Init
  <1>3. InitSize \in Nat \ {0}
    BY SizesAssumption
  <1>4. TypeOK
    <2>1. htable \in [0..(2 * HASHSIZE - 1) -> Entries]
      BY <1>1, <1>3, TableType
    <2>2. 0 \in 0..(NumChunks - 1) /\ 1 \in 0..ChunkSize /\ 0 \in 0..DepthLimit
      BY SizeFacts
    <2>3. chunks \in [0..(NumChunks - 1) -> [0..(ChunkSize - 1) -> 0..256]]
      <3>1. Garbage \in [0..(ChunkSize - 1) -> 0..256]
            /\ [q \in 0..(ChunkSize - 1) |-> 0] \in [0..(ChunkSize - 1) -> 0..256]
        BY DEF Garbage
      <3> QED
        BY <1>2, <3>1
    <2>4. HASHSIZE \in Nat \ {0} /\ htable \in [0..(2 * HASHSIZE - 1) -> Entries]
      BY <1>1, <1>3, <2>1
    <2>5. /\ current_chunk \in 0..(NumChunks - 1) /\ next_free_offset \in 0..ChunkSize
          /\ start \in Nat /\ loop \in 0..DepthLimit /\ place \in 0..3
      BY <1>1, <2>2
    <2>6. pc \in {"idle", "insert", "grow", "reinsert", "dead", "overrun"} /\ x \in Entries
      BY <1>1, NoEntryType
    <2> QED
      BY <2>3, <2>4, <2>5, <2>6 DEF TypeOK
  <1>5. Phases
    BY <1>1, NoEntryType DEF Phases
  <1>6. Pairs = {} /\ Added = {}
    BY <1>1 DEF Pairs, Added
  <1>7. PairsOK
    BY <1>1, <1>6 DEF PairsOK
  <1>8. ChunksOK
    <2>1. 0 \in 0..(NumChunks - 1) /\ 0 \in 0..(ChunkSize - 1)
      BY SizeFacts
    <2>2. chunks[0][0] = 0
      BY <1>2, <2>1
    <2> QED
      BY <1>1, <1>6, <2>2 DEF ChunksOK
  <1>9. \A b \in DOMAIN htable : ~ATOM_VALID(htable[b].atom)
    BY <1>1, NoEntryType DEF Table
  <1>10. EntriesOK
    <2>1. ASSUME NEW u \in SpotsIn(frames, htable, x), At(frames, htable, x, u).atom # 0
          PROVE  FALSE
      <3>1. /\ frames \in Seq(Frame) /\ htable \in Tables /\ x \in Entries
            /\ Len(frames) = 0
        BY <1>1, <1>4, <1>5, StateFacts
      <3>2. /\ u[1] \in 1..(Len(frames) + 1)
            /\ u[2] = -1 \/ u[2] \in DOMAIN LevelIn(frames, htable, x, u[1]).ot
        <4>1. u = <<u[1], u[2]>>
          BY <3>1, SpotFacts
        <4>2. <<u[1], u[2]>> \in SpotsIn(frames, htable, x)
          BY <4>1
        <4> QED
          BY <3>1, <4>2, SpotFacts
      <3>3. u[1] = 1
        BY <3>1, <3>2
      <3>4. LevelIn(frames, htable, x, 1).ot = htable /\ LevelIn(frames, htable, x, 1).x = x
        BY <3>1 DEF LevelIn
      <3>5. \/ At(frames, htable, x, u) = x
            \/ u[2] \in DOMAIN htable /\ At(frames, htable, x, u) = htable[u[2]]
        BY <3>2, <3>3, <3>4 DEF At
      <3> QED
        BY <1>1, <1>9, <2>1, <3>5, NoEntryType DEF ATOM_VALID
    <2> QED
      BY <2>1, SpotsNow
  <1>11. InItsBucket
    BY <1>9 DEF InItsBucket
  <1>12. EveryAtomOnce
    BY <1>6 DEF EveryAtomOnce
  <1> QED
    BY <1>4, <1>5, <1>7, <1>8, <1>10, <1>11, <1>12 DEF IInv

(* Pairs and bytes, in a step that leaves them alone.                      *)
LEMMA SamePairs ==
    ASSUME PairsOK, ChunksOK, Pairs' = Pairs, UNCHANGED chunkVars,
           wanted' = << >> \/ (wanted' = wanted /\ interned' = interned)
    PROVE  PairsOK' /\ ChunksOK'
  <1>1. ASSUME NEW p PROVE StoredAt(p)' <=> StoredAt(p)
    BY DEF StoredAt, chunkVars
  <1>2. ChunksOK'
    BY <1>1 DEF ChunksOK, chunkVars
  <1>3. PairsOK'
    BY DEF PairsOK
  <1> QED
    BY <1>2, <1>3

(* The entry in hand goes to one of its buckets.                           *)
LEMMA PutInItsBucket ==
    ASSUME TypeOK, InItsBucket, HASHSIZE' = HASHSIZE, htable' = [htable EXCEPT ![Here] = x]
    PROVE  InItsBucket'
  <1>1. ASSUME NEW b \in DOMAIN htable', ATOM_VALID(htable'[b].atom)
        PROVE  \E p \in 0..3 : b = Bucket(HASHSIZE', htable'[b].hashes, p)
    <2>1. b \in DOMAIN htable /\ (b # Here => htable'[b] = htable[b])
          /\ (b = Here => htable'[b] = x)
      BY HereFacts
    <2>2. CASE b = Here
      <3>1. place \in 0..3
        BY DEF TypeOK
      <3> QED
        BY <2>1, <2>2, <3>1 DEF Here
    <2>3. CASE b # Here
      BY <1>1, <2>1, <2>3 DEF InItsBucket
    <2> QED
      BY <2>2, <2>3
  <1> QED
    BY <1>1 DEF InItsBucket

LEMMA SameTable ==
    ASSUME InItsBucket, HASHSIZE' = HASHSIZE, htable' = htable
    PROVE  InItsBucket'
  BY DEF InItsBucket

(* The program stops, or goes on with what it has overwritten.             *)
Stops == UNCHANGED <<tableVars, chunkVars, insertVars, frames, wanted, interned>>

LEMMA StopsKeepsInv ==
    ASSUME IInv, Stops, TypeOK', Phases'
    PROVE  IInv'
  <1> USE DEF IInv
  <1>1. /\ UNCHANGED chunkVars /\ wanted' = wanted /\ HASHSIZE' = HASHSIZE
        /\ htable' = htable /\ frames' = frames /\ x' = x /\ interned' = interned
    BY DEF Stops, tableVars, insertVars
  <1>2. Pairs' = Pairs /\ Added' = Added
    BY <1>1 DEF Pairs, Added
  <1>3. EntriesOK' /\ EveryAtomOnce'
    BY <1>1, <1>2, SpotsNow, SpotsNext
  <1> QED
    BY <1>1, <1>2, <1>3, SamePairs, SameTable

LEMMA InsertingKeepsInv ==
    ASSUME IInv, Inserting
    PROVE  IInv'
  <1> USE DEF IInv
  <1>1. CASE Place
    <2>1. UNCHANGED chunkVars /\ (wanted' = << >> \/ (wanted' = wanted /\ interned' = interned))
      BY <1>1 DEF Place
    <2>2. HASHSIZE' = HASHSIZE /\ htable' = [htable EXCEPT ![Here] = x]
      BY <1>1 DEF Place
    <2> QED
      BY <1>1, <2>1, <2>2, PlaceTyping, PlaceMoves, MovedKeeps, SamePairs, PutInItsBucket
  <1>2. CASE Displace
    <2>1. UNCHANGED chunkVars /\ wanted' = wanted /\ interned' = interned
      BY <1>2 DEF Displace
    <2>2. HASHSIZE' = HASHSIZE /\ htable' = [htable EXCEPT ![Here] = x]
      BY <1>2 DEF Displace
    <2> QED
      BY <1>2, <2>1, <2>2, DisplaceTyping, DisplaceMoves, MovedKeeps, SamePairs, PutInItsBucket
  <1>3. CASE grow_table
    <2>1. UNCHANGED chunkVars /\ wanted' = wanted /\ interned' = interned
      BY <1>3 DEF grow_table
    <2>2. InItsBucket'
      <3>1. htable' = Table(2 * HASHSIZE)
        BY <1>3 DEF grow_table
      <3> QED
        BY <3>1, NoEntryType DEF InItsBucket, Table
    <2> QED
      BY <1>3, <2>1, <2>2, GrowTyping, GrowMoves, MovedKeeps, SamePairs
  <1>4. CASE Reinsert
    <2>1. /\ UNCHANGED chunkVars /\ wanted' = wanted /\ interned' = interned
          /\ HASHSIZE' = HASHSIZE /\ htable' = htable
      BY <1>4 DEF Reinsert, tableVars
    <2> QED
      BY <1>4, <2>1, ReinsertTyping, ReinsertMoves, MovedKeeps, SamePairs, SameTable
  <1>5. CASE Resume
    <2>1. /\ UNCHANGED chunkVars /\ wanted' = wanted /\ interned' = interned
          /\ HASHSIZE' = HASHSIZE /\ htable' = htable
      BY <1>5 DEF Resume, tableVars
    <2> QED
      BY <1>5, <2>1, ResumeTyping, ResumeMoves, MovedKeeps, SamePairs, SameTable
  <1>6. CASE NoTable
    <2>1. Stops
      BY <1>6 DEF NoTable, Stops
    <2> QED
      BY <1>6, <2>1, NoTableTyping, StopsKeepsInv
  <1> QED
    BY <1>1, <1>2, <1>3, <1>4, <1>5, <1>6 DEF Inserting

(* A call that answers at once with a pair that was returned before.       *)
LEMMA AgainKeepsInv ==
    ASSUME IInv, Quiet, interned' = interned
    PROVE  IInv'
  <1> USE DEF IInv
  <1>1. TypeOK' /\ Phases'
    BY QuietTyping
  <1>2. /\ UNCHANGED chunkVars /\ wanted' = wanted /\ HASHSIZE' = HASHSIZE
        /\ htable' = htable /\ frames' = frames /\ x' = x
    BY DEF Quiet, tableVars, insertVars
  <1>3. Pairs' = Pairs
    BY <1>2 DEF Pairs
  <1>4. Added' = Added
    BY <1>2 DEF Added
  <1>5. EntriesOK' /\ EveryAtomOnce'
    BY <1>2, <1>3, <1>4, SpotsNow, SpotsNext
  <1> QED
    BY <1>1, <1>2, <1>3, <1>5, SamePairs, SameTable

LEMMA EmptyKeepsInv ==
    ASSUME IInv, pc = "idle", NEW s \in Strings, LookupEmpty(s)
    PROVE  IInv'
  <1> USE DEF IInv
  <1> DEFINE e == << << >>, 0 >>
  <1>1. s = << >> /\ interned' = interned \union {e} /\ Quiet
    BY DEF LookupEmpty, Returned, Quiet
  <1>2. TypeOK' /\ Phases'
    BY <1>1, QuietTyping
  <1>3. /\ UNCHANGED chunkVars /\ wanted' = wanted /\ HASHSIZE' = HASHSIZE
        /\ htable' = htable /\ frames' = frames /\ x' = x
    BY <1>1 DEF Quiet, tableVars, insertVars
  <1>4. wanted = << >>
    BY DEF Phases
  <1>5. Pairs' = Pairs \union {e} /\ Pairs = interned
    BY <1>1, <1>3, <1>4 DEF Pairs
  <1>6. PairsOK'
    BY <1>1, <1>3, <1>4, <1>5 DEF PairsOK
  <1>7. ChunksOK'
    <2>1. ASSUME NEW p \in Pairs PROVE StoredAt(p)'
      BY <1>3 DEF ChunksOK, StoredAt, chunkVars
    <2>2. StoredAt(e)'
      <3>1. CHUNK_INDEX(0) = 0 /\ CHUNK_OFFSET(0) = 0 /\ MAKE_ATOM(0, 0) = 0
        BY DEF CHUNK_INDEX, CHUNK_OFFSET, MAKE_ATOM
      <3>2. chunks[0][0] = 0 /\ current_chunk \in Nat /\ ChunkSize >= 1
            /\ (current_chunk = 0 => next_free_offset >= 1)
        BY SizeFacts DEF ChunksOK, TypeOK
      <3>3. e[2] = 0 /\ e[1] = << >> /\ Len(e[1]) = 0 /\ LenByte(e[1]) = 0
        <4>1. \A k \in Nat : k >= 2 => 0 % k = 0
          OBVIOUS
        <4>2. Len(e[1]) = 0 /\ MaxEntry \in Nat /\ MaxEntry >= 2
          BY SizeFacts
        <4> QED
          BY <4>1, <4>2 DEF LenByte
      <3>4. 0 + 0 + 1 <= IF 0 = current_chunk THEN next_free_offset ELSE ChunkSize
        BY <3>2, SizeFacts DEF TypeOK
      <3>5. \A i \in 1..0 : FALSE
        OBVIOUS
      <3>6. 0 <= current_chunk
        BY <3>2
      <3> HIDE DEF e
      <3> QED
        BY <1>3, <3>1, <3>2, <3>3, <3>4, <3>5, <3>6 DEF StoredAt, chunkVars
    <2> QED
      BY <1>3, <1>5, <2>1, <2>2 DEF ChunksOK, chunkVars
  <1>8. Added' \ {0} = Added \ {0}
    BY <1>5, AddedOfPairs
  <1>9. EntriesOK' /\ EveryAtomOnce'
    BY <1>3, <1>5, <1>8, SpotsNow, SpotsNext
  <1> QED
    BY <1>2, <1>3, <1>6, <1>7, <1>9, SameTable

LEMMA HitReturns ==
    ASSUME IInv, pc = "idle", NEW s \in Strings, LookupHit(s)
    PROVE  Quiet /\ interned' = interned
  <1>1. /\ s # << >>
        /\ \E p \in Hits(s) : Returned(s, htable[Bucket(HASHSIZE, Hash[s], p)].atom)
    BY DEF LookupHit
  <1> PICK p \in Hits(s) : Returned(s, htable[Bucket(HASHSIZE, Hash[s], p)].atom)
    BY <1>1
  <1>2. <<s, htable[Bucket(HASHSIZE, Hash[s], p)].atom>> \in interned
    BY <1>1, HitReturned DEF IInv
  <1> QED
    BY <1>2 DEF LookupHit, Returned, Quiet

(* A new string: its entry is in hand, and nowhere else.                   *)
LEMMA MissKeepsInv ==
    ASSUME IInv, pc = "idle", NEW s \in Strings, LookupMiss(s)
    PROVE  IInv'
  <1> USE DEF IInv
  <1> SUFFICES ASSUME NEW a, a = NewAtom PROVE IInv'
    OBVIOUS
  <1> DEFINE w == <<s, a>>
  <1>1. /\ s # << >> /\ Hits(s) = {} /\ ~(NeedChunk /\ LastChunk) /\ add_string(s)
        /\ HASHSIZE' = HASHSIZE /\ htable' = htable /\ interned' = interned
    BY DEF LookupMiss, tableVars
  <1>2. /\ TypeOK' /\ Phases' /\ frames = << >> /\ frames' = << >>
        /\ wanted' = w /\ x' = EntryOf(w) /\ a \in Nat
    BY MissTyping
  <1>3. x'.atom = a /\ a # 0
    <2>1. x'.atom = a
      BY <1>2 DEF EntryOf
    <2>2. ATOM_VALID(x'.atom)
      BY <1>2 DEF Phases, LookupMiss, StartInsert
    <2> QED
      BY <2>1, <2>2 DEF ATOM_VALID
  <1>4. wanted = << >> /\ Pairs = interned /\ x.atom = 0
    BY IdleTable DEF Phases, ATOM_VALID
  <1>5. Pairs' = Pairs \union {w} /\ w # << >>
    BY <1>1, <1>2, <1>4 DEF Pairs
  <1>6. \A p \in Pairs : p[2] # a /\ (LengthFits(s) => p[1] # s)
    BY <1>1, <1>4, MissIsNew, NewAtomIsNew
  <1>7. PairsOK'
    <2>1. w \in Strings \X Nat
      BY <1>2
    <2>2. \A p \in Pairs' : p \in Strings \X Nat /\ (p[1] = << >> <=> p[2] = 0)
      BY <1>1, <1>3, <1>5, <2>1 DEF PairsOK
    <2>3. \A p \in interned' : /\ p[2] # wanted'[2]
                               /\ LengthFits(wanted'[1]) => p[1] # wanted'[1]
      BY <1>1, <1>2, <1>4, <1>6
    <2>4. LengthFits(wanted[1])' <=> LengthFits(wanted'[1])
      BY DEF LengthFits
    <2> QED
      BY <2>2, <2>3, <2>4 DEF PairsOK
  <1>8. ChunksOK'
    <2>1. /\ \A p \in Pairs : StoredAt(p)'
          /\ StoredAt(w)'
          /\ chunks'[0][0] = 0
          /\ current_chunk' = 0 => next_free_offset' >= 1
      BY <1>1, AddStores
    <2> QED
      BY <1>5, <2>1 DEF ChunksOK
  <1> HIDE DEF w
  <1>9. /\ SpotsIn(frames', htable', x') = SpotsIn(frames, htable, x)
        /\ <<1, -1>> \in SpotsIn(frames, htable, x)
        /\ At(frames, htable, x, <<1, -1>>) = x /\ At(frames', htable', x', <<1, -1>>) = x'
        /\ \A u \in SpotsIn(frames, htable, x) :
              u # <<1, -1>> => At(frames', htable', x', u) = At(frames, htable, x, u)
    <2>1. /\ frames' = frames /\ Len(frames) = 0 /\ frames \in Seq(Frame)
          /\ htable' = htable /\ htable \in Tables /\ x \in Entries /\ x' \in Entries
      BY <1>1, <1>2, StateFacts DEF TypeOK
    <2>2. \A n \in 1..(Len(frames) + 1) : n = 1
      BY <2>1
    <2>3. /\ LevelIn(frames, htable, x, 1).ot = htable
          /\ LevelIn(frames, htable, x, 1).i = 0
          /\ LevelIn(frames, htable, x, 1).x = x
          /\ LevelIn(frames, htable, x', 1).ot = htable
          /\ LevelIn(frames, htable, x', 1).i = 0
          /\ LevelIn(frames, htable, x', 1).x = x'
      BY <2>1 DEF LevelIn
    <2>4. /\ SpotsIn(frames, htable, x) =
               UNION {{n} \X Unread(LevelIn(frames, htable, x, n)) : n \in 1..(Len(frames) + 1)}
          /\ SpotsIn(frames, htable, x') =
               UNION {{n} \X Unread(LevelIn(frames, htable, x', n)) : n \in 1..(Len(frames) + 1)}
      BY DEF SpotsIn
    <2>5. \A n \in 1..(Len(frames) + 1) :
             Unread(LevelIn(frames, htable, x', n)) = Unread(LevelIn(frames, htable, x, n))
      BY <2>2, <2>3 DEF Unread
    <2>6. SpotsIn(frames, htable, x') = SpotsIn(frames, htable, x)
      BY <2>4, <2>5
    <2>7. <<1, -1>> \in SpotsIn(frames, htable, x)
      <3>1. 1 \in 1..(Len(frames) + 1)
        BY <2>1
      <3> QED
        BY <2>1, <3>1, SpotFacts
    <2>8. ASSUME NEW u \in SpotsIn(frames, htable, x), u # <<1, -1>>
          PROVE  At(frames, htable, x', u) = At(frames, htable, x, u)
      <3>1. u = <<u[1], u[2]>>
        BY <2>1, SpotFacts
      <3>2. <<u[1], u[2]>> \in SpotsIn(frames, htable, x)
        BY <3>1
      <3>3. u[1] \in 1..(Len(frames) + 1)
        BY <2>1, <3>2, SpotFacts
      <3>4. u[1] = 1 /\ u[2] # -1
        BY <2>2, <2>8, <3>1, <3>3
      <3> QED
        BY <2>3, <3>4 DEF At
    <2>9. /\ At(frames, htable, x, <<1, -1>>) = x
          /\ At(frames, htable, x', <<1, -1>>) = x'
      BY <2>3 DEF At
    <2> QED
      BY <2>1, <2>6, <2>7, <2>8, <2>9
  <1>10. EntriesOK'
    <2>1. ASSUME NEW u \in SpotsIn(frames', htable', x'), At(frames', htable', x', u).atom # 0
          PROVE  \E p \in Pairs' : At(frames', htable', x', u) = EntryOf(p)
      <3>1. CASE u = <<1, -1>>
        BY <1>2, <1>5, <1>9, <3>1
      <3>2. CASE u # <<1, -1>>
        BY <1>5, <1>9, <2>1, <3>2, SpotsNow
      <3> QED
        BY <3>1, <3>2
    <2> QED
      BY <2>1, SpotsNext
  <1>11. EveryAtomOnce'
    <2>1. ASSUME NEW u \in SpotsIn(frames, htable, x), At(frames, htable, x, u).atom # 0
          PROVE  At(frames, htable, x, u).atom # a
      <3>1. PICK p \in Pairs : At(frames, htable, x, u) = EntryOf(p)
        BY <2>1, SpotsNow
      <3> QED
        BY <1>6, <3>1 DEF EntryOf
    <2>2. ASSUME NEW b \in Added' \ {0} PROVE OnceIn(frames', htable', x', b)
      <3>1. CASE b = a
        <4>1. \A u \in SpotsIn(frames', htable', x') :
                 At(frames', htable', x', u).atom = a <=> u = <<1, -1>>
          BY <1>3, <1>9, <2>1
        <4> QED
          BY <1>9, <3>1, <4>1 DEF OnceIn
      <3>2. CASE b # a
        <4>1. b \in Added \ {0}
          BY <1>5, <2>2, <3>2, AddedOfPairs DEF w
        <4>2. PICK v \in SpotsIn(frames, htable, x) :
                 \A u \in SpotsIn(frames, htable, x) :
                    At(frames, htable, x, u).atom = b <=> u = v
          BY <4>1, SpotsNow DEF OnceIn
        <4>3. v # <<1, -1>>
          BY <1>4, <1>9, <4>1, <4>2
        <4>4. \A u \in SpotsIn(frames', htable', x') :
                 At(frames', htable', x', u).atom = b <=> u = v
          BY <1>3, <1>9, <3>2, <4>2, <4>3
        <4> QED
          BY <1>9, <4>4 DEF OnceIn
      <3> QED
        BY <3>1, <3>2
    <2> QED
      BY <2>2, SpotsNext
  <1>12. InItsBucket'
    BY <1>1, SameTable
  <1> QED
    BY <1>2, <1>7, <1>8, <1>10, <1>11, <1>12

LEMMA DeadKeepsInv ==
    ASSUME IInv, pc = "idle", NEW s \in Strings, NoMoreChunks(s)
    PROVE  IInv'
  <1>1. TypeOK' /\ Phases'
    BY DeadTyping DEF IInv
  <1>2. Stops
    BY DEF NoMoreChunks, Stops
  <1> QED
    BY <1>1, <1>2, StopsKeepsInv

LEMMA OverrunKeepsInv ==
    ASSUME IInv, NEW s, Overrun(s)
    PROVE  IInv'
  <1>1. TypeOK' /\ Phases'
    BY OverrunTyping DEF IInv
  <1>2. Stops
    BY DEF Overrun, Stops
  <1> QED
    BY <1>1, <1>2, StopsKeepsInv

(* What a call to stringtable_lookup does, atom_append's included.         *)
LEMMA LookupKeepsInv ==
    ASSUME IInv, NEW s \in Strings, stringtable_lookup(s)
    PROVE  IInv'
  <1>1. pc = "idle" /\ (LookupEmpty(s) \/ LookupHit(s) \/ LookupMiss(s) \/ NoMoreChunks(s))
    BY DEF stringtable_lookup
  <1>2. CASE LookupEmpty(s)
    BY <1>1, <1>2, EmptyKeepsInv
  <1>3. CASE LookupHit(s)
    BY <1>1, <1>3, HitReturns, AgainKeepsInv
  <1>4. CASE LookupMiss(s)
    BY <1>1, <1>4, MissKeepsInv
  <1>5. CASE NoMoreChunks(s)
    BY <1>1, <1>5, DeadKeepsInv
  <1> QED
    BY <1>1, <1>2, <1>3, <1>4, <1>5

(* atom_append is a lookup, gives back one of its arguments, or runs past  *)
(* its buffer.                                                             *)
LEMMA AppendCases ==
    ASSUME IInv, NEW p \in interned, NEW q \in interned, atom_append(p, q)
    PROVE  \/ Quiet /\ interned' = interned
           \/ \E s \in Strings : stringtable_lookup(s)
           \/ \E s : Overrun(s)
  <1>1. ASSUME NEW r \in interned, Unchanged(r) PROVE Quiet /\ interned' = interned
    <2>1. r = <<r[1], r[2]>>
      BY DEF IInv, PairsOK, Pairs
    <2> QED
      BY <1>1, <2>1 DEF Unchanged, Returned, Quiet
  <1> QED
    BY <1>1 DEF atom_append

LEMMA StutterKeepsInv ==
    ASSUME IInv, UNCHANGED vars
    PROVE  IInv'
  <1>1. Quiet /\ interned' = interned
    BY DEF vars, Quiet
  <1> QED
    BY <1>1, AgainKeepsInv

LEMMA NextKeepsInv == IInv /\ [Next]_vars => IInv'
  <1> SUFFICES ASSUME IInv, [Next]_vars PROVE IInv'
    OBVIOUS
  <1>1. CASE \E s \in Strings : stringtable_lookup(s)
    BY <1>1, LookupKeepsInv
  <1>2. CASE \E p, q \in interned : atom_append(p, q)
    BY <1>2, AppendCases, LookupKeepsInv, AgainKeepsInv, OverrunKeepsInv
  <1>3. CASE Inserting
    BY <1>3, InsertingKeepsInv
  <1>4. CASE UNCHANGED vars
    BY <1>4, StutterKeepsInv
  <1> QED
    BY <1>1, <1>2, <1>3, <1>4 DEF Next

-----------------------------------------------------------------------------
(* The theorems.                                                           *)

(* Reached states have the inductive invariant: what the calls, the swaps  *)
(* of hash_insert and the nested grow_tables have in hand belongs to       *)
(* strings that were stored, and lies where their lookup searches          *)
(* (StringTable_cbits.c:50-78, 82-218).                                    *)
THEOREM Invariance == Spec => []IInv
  <1>1. Init => IInv
    BY InitInv
  <1>2. IInv /\ [Next]_vars => IInv'
    BY NextKeepsInv
  <1> QED
    BY <1>1, <1>2, PTL DEF Spec

(* The variables have their types: no index leaves the table, no offset    *)
(* its chunk, whatever the hashes and however often the table grows        *)
(* (StringTable_cbits.c:42-48, 82-98).                                     *)
THEOREM Typing == Spec => []TypeOK
  <1>1. IInv => TypeOK
    BY DEF IInv
  <1> QED
    BY <1>1, Invariance, PTL

(* No atom is lost or doubled by displacement or by growth, nested to any  *)
(* depth (StringTable_cbits.c:164-177, 186-218).                           *)
THEOREM AtomsOnce == Spec => []EveryAtomOnce
  <1>1. IInv => EveryAtomOnce
    BY DEF IInv
  <1> QED
    BY <1>1, Invariance, PTL

(* No string is written over the bytes of another, and the longest one     *)
(* still ends in its chunk: what an atom says is what it said when it was  *)
(* returned, with the length if that fits (StringTable_cbits.c:50-78).     *)
THEOREM TextsKept == Spec => []TextKept
  <1>1. IInv => TextKept
    <2> SUFFICES ASSUME IInv, NEW p \in interned
                 PROVE  /\ \A i \in 1..Len(p[1]) : ByteAt(p[2], i) = p[1][i]
                        /\ LengthFits(p[1]) => TextOf(p[2]) = p[1]
      BY DEF TextKept
    <2>1. p \in Strings \X Nat /\ StoredAt(p)
      BY DEF IInv, PairsOK, ChunksOK, Pairs
    <2> QED
      BY <2>1, TextOfStored
  <1> QED
    BY <1>1, Invariance, PTL

(* The atom of a pair is a place in the chunks.                            *)
LEMMA PairIsAtom ==
    ASSUME IInv, NEW p \in Pairs
    PROVE  p[2] \in {MAKE_ATOM(c, o) : c \in 0..(NumChunks - 1), o \in 0..(ChunkSize - 1)}
  <1> DEFINE c == CHUNK_INDEX(p[2])
             o == CHUNK_OFFSET(p[2])
             k == Len(p[1])
  <1>1. /\ p[2] = MAKE_ATOM(c, o) /\ c <= current_chunk
        /\ o + k + 1 <= IF c = current_chunk THEN next_free_offset ELSE ChunkSize
    BY DEF IInv, ChunksOK, StoredAt
  <1>2. p[2] \in Nat /\ k \in Nat
    BY LengthFacts DEF IInv, PairsOK
  <1>3. c \in Nat /\ o \in Nat
    <2>1. p[2] \in Nat
      BY <1>2
    <2> QED
      BY <2>1 DEF CHUNK_INDEX, CHUNK_OFFSET
  <1>4. /\ current_chunk \in 0..(NumChunks - 1) /\ next_free_offset \in 0..ChunkSize
        /\ ChunkSize \in Nat /\ NumChunks \in Nat
    BY SizeFacts DEF IInv, TypeOK
  <1> HIDE DEF c, o, k
  <1>5. c \in 0..(NumChunks - 1) /\ o \in 0..(ChunkSize - 1)
    BY <1>1, <1>2, <1>3, <1>4
  <1> QED
    BY <1>1, <1>5

(* A pair that is returned for the first time is a step of AtomSet.        *)
LEMMA FreshImplements ==
    ASSUME NEW p \in Strings \X Nat,
           p[2] \in {MAKE_ATOM(c, o) : c \in 0..(NumChunks - 1), o \in 0..(ChunkSize - 1)},
           p[1] = << >> <=> p[2] = 0,
           \A q \in interned : q[2] # p[2] /\ (LengthFits(p[1]) => q[1] # p[1]),
           interned' = interned \union {<<p[1], p[2]>>}
    PROVE  Abstract!Next
  <1>1. Abstract!Fresh(p[1], p[2])
    BY DEF Abstract!Fresh
  <1> QED
    BY <1>1 DEF Abstract!Next

LEMMA LookupImplements ==
    ASSUME IInv, NEW s \in Strings, stringtable_lookup(s)
    PROVE  interned' = interned \/ Abstract!Next
  <1>1. pc = "idle" /\ (LookupEmpty(s) \/ LookupHit(s) \/ LookupMiss(s) \/ NoMoreChunks(s))
    BY DEF stringtable_lookup
  <1>2. CASE LookupEmpty(s)
    <2> DEFINE e == << << >>, 0 >>
    <2>1. s = << >> /\ interned' = interned \union {e}
      BY <1>2 DEF LookupEmpty, Returned
    <2>2. CASE e \in interned
      BY <2>1, <2>2
    <2>3. CASE e \notin interned
      <3>1. \A q \in interned : /\ q = <<q[1], q[2]>>
                                /\ q[1] = << >> <=> q[2] = 0
        BY DEF IInv, PairsOK, Pairs
      <3>2. \A q \in interned : q[1] # << >> /\ q[2] # 0
        BY <2>3, <3>1
      <3>3. 0 \in {MAKE_ATOM(c, o) : c \in 0..(NumChunks - 1), o \in 0..(ChunkSize - 1)}
        <4>1. MAKE_ATOM(0, 0) = 0
          BY DEF MAKE_ATOM
        <4>2. 0 \in 0..(NumChunks - 1) /\ 0 \in 0..(ChunkSize - 1)
          BY SizeFacts
        <4> QED
          BY <4>1, <4>2
      <3>4. e \in Strings \X Nat /\ e[1] = << >> /\ e[2] = 0 /\ e = <<e[1], e[2]>>
        BY <2>1
      <3> HIDE DEF e
      <3>5. Abstract!Next
        BY <2>1, <3>2, <3>3, <3>4, FreshImplements
      <3> QED
        BY <3>5
    <2> QED
      BY <2>2, <2>3
  <1>3. CASE LookupHit(s)
    BY <1>1, <1>3, HitReturns
  <1>4. CASE LookupMiss(s)
    BY <1>4 DEF LookupMiss
  <1>5. CASE NoMoreChunks(s)
    BY <1>5 DEF NoMoreChunks
  <1> QED
    BY <1>1, <1>2, <1>3, <1>4, <1>5

LEMMA PlaceImplements ==
    ASSUME IInv, Place
    PROVE  interned' = interned \/ Abstract!Next
  <1>1. CASE frames # << >>
    BY <1>1 DEF Place
  <1>2. CASE frames = << >>
    <2>1. interned' = interned \union {<<wanted[1], wanted[2]>>}
      BY <1>2 DEF Place, Returned
    <2>2. wanted \in Strings \X Nat
      BY DEF Place, IInv, Phases
    <2>3. wanted # << >>
      BY <2>2
    <2>4. wanted \in Pairs
      BY <2>3 DEF Pairs
    <2>5. /\ wanted[1] = << >> <=> wanted[2] = 0
          /\ \A q \in interned : /\ q[2] # wanted[2]
                                 /\ LengthFits(wanted[1]) => q[1] # wanted[1]
      BY <2>3, <2>4 DEF IInv, PairsOK
    <2>6. Abstract!Next
      BY <2>1, <2>2, <2>4, <2>5, PairIsAtom, FreshImplements
    <2> QED
      BY <2>6
  <1> QED
    BY <1>1, <1>2

LEMMA NextImplements ==
    ASSUME IInv, [Next]_vars
    PROVE  interned' = interned \/ Abstract!Next
  <1>1. CASE \E s \in Strings : stringtable_lookup(s)
    BY <1>1, LookupImplements
  <1>2. CASE \E p, q \in interned : atom_append(p, q)
    BY <1>2, AppendCases, LookupImplements DEF Overrun
  <1>3. CASE Inserting
    <2>1. CASE Place
      BY <2>1, PlaceImplements
    <2>2. CASE Displace \/ grow_table \/ NoTable \/ Reinsert \/ Resume
      BY <2>2 DEF Displace, grow_table, NoTable, Reinsert, Resume
    <2> QED
      BY <1>3, <2>1, <2>2 DEF Inserting
  <1>4. CASE UNCHANGED vars
    BY <1>4 DEF vars
  <1> QED
    BY <1>1, <1>2, <1>3, <1>4 DEF Next

(* The table implements AtomSet: whatever is displaced, grown or met again *)
(* half way, a string whose length fits in its byte has one atom for ever, *)
(* one that does not a new one at every lookup, and no two strings share   *)
(* one (StringTable_cbits.c:237-283).                                      *)
THEOREM Refinement == Spec => ImplementsAtomSet
  <1>1. Init => Abstract!Init
    BY DEF Init, Abstract!Init
  <1>2. IInv /\ [Next]_vars => [Abstract!Next]_interned
    BY NextImplements
  <1> QED
    BY <1>1, <1>2, Invariance, PTL DEF Spec, ImplementsAtomSet, Abstract!Spec

-----------------------------------------------------------------------------
(* The order of atoms.                                                     *)

OneAtom ==
    \A p, q \in interned :
        /\ p[2] = q[2] => p[1] = q[1]
        /\ p[1] = q[1] /\ LengthFits(p[1]) => p[2] = q[2]

(* Different strings have different atoms, and equal ones whose length     *)
(* fits in its byte equal atoms, which is why atoms may be compared        *)
(* instead of strings, but only up to 255 bytes                            *)
(* (StringTable_cbits.c:237-283).                                          *)
THEOREM OneAtomEach == Spec => []OneAtom
  <1>1. Init => OneAtom
    BY DEF Init, OneAtom
  <1>2. OneAtom /\ IInv /\ [Next]_vars => OneAtom'
    <2> SUFFICES ASSUME OneAtom, IInv, [Next]_vars PROVE OneAtom'
      OBVIOUS
    <2>1. CASE interned' = interned
      BY <2>1 DEF OneAtom
    <2>2. CASE Abstract!Next
      <3>1. CASE \E s \in Strings : Abstract!Again(s)
        BY <2>1, <3>1 DEF Abstract!Again
      <3>2. CASE \E s \in Strings : \E a : Abstract!Fresh(s, a)
        <4>1. PICK s, a :
                 /\ s \in Strings
                 /\ \A p \in interned : p[2] # a /\ (LengthFits(s) => p[1] # s)
                 /\ interned' = interned \union {<<s, a>>}
          BY <3>2 DEF Abstract!Fresh
        <4> QED
          BY <4>1 DEF OneAtom, LengthFits
      <3> QED
        BY <2>2, <3>1, <3>2 DEF Abstract!Next
    <2> QED
      BY <2>1, <2>2, NextImplements
  <1> QED
    BY <1>1, <1>2, Invariance, PTL DEF Spec

(* A set of numbers that is not empty has a least one.                     *)
LEMMA Least ==
    ASSUME NEW T \in SUBSET Nat, T # {}
    PROVE  \E m \in T : \A k \in T : m <= k
  <1>1. PICK m \in T : \A y \in T : ~(<<y, m>> \in OpToRel(<, Nat))
    BY NatLessThanWellFounded, WFMin
  <1>2. \A y \in T : ~(y < m)
    BY <1>1 DEF OpToRel
  <1> QED
    BY <1>2

(* memcmp finds the first byte where the two differ.                       *)
LEMMA MemcmpFacts ==
    ASSUME NEW s \in Seq(0..255), NEW t \in Seq(0..255), NEW n \in Nat,
           n <= Len(s), n <= Len(t)
    PROVE  \/ memcmp(s, t, n) = 0 /\ \A i \in 1..n : s[i] = t[i]
           \/ \E k \in 1..n : /\ s[k] # t[k] /\ \A i \in 1..(k - 1) : s[i] = t[i]
                              /\ memcmp(s, t, n) = s[k] - t[k]
  <1> DEFINE differ == {i \in 1..n : s[i] # t[i]}
             First(k) == \A m \in differ : k <= m
             k == CHOOSE i \in differ : First(i)
  <1>1. CASE differ = {}
    BY <1>1 DEF memcmp
  <1>2. CASE differ # {}
    <2>1. memcmp(s, t, n) = s[k] - t[k]
      BY <1>2 DEF memcmp
    <2>2. \E i \in differ : First(i)
      <3>1. differ \in SUBSET Nat
        OBVIOUS
      <3> HIDE DEF differ
      <3> QED
        BY <1>2, <3>1, Least
    <2>3. k \in differ /\ First(k)
      <3> HIDE DEF First
      <3> QED
        BY <2>2
    <2> HIDE DEF k
    <2>4. k \in 1..n /\ s[k] # t[k]
      BY <2>3
    <2>5. ASSUME NEW i \in 1..(k - 1) PROVE s[i] = t[i]
      <3>1. i \in 1..n /\ ~(k <= i)
        BY <2>4
      <3> QED
        BY <2>3, <3>1
    <2> QED
      BY <2>1, <2>4, <2>5
  <1> QED
    BY <1>1, <1>2

LEMMA ByteFacts ==
    ASSUME NEW a \in 0..255, NEW b \in 0..255
    PROVE  /\ a < b => a # b
           /\ a # b => a - b # 0
           /\ a - b < 0 <=> a < b
  OBVIOUS

(* What Before says, without SubSeq.                                       *)
LEMMA BeforeFacts ==
    ASSUME NEW s \in Seq(0..255), NEW t \in Seq(0..255)
    PROVE  Before(s, t) <=>
              \E n \in 0..Len(s) : /\ n < Len(t)
                                   /\ \A i \in 1..n : s[i] = t[i]
                                   /\ n < Len(s) => s[n + 1] < t[n + 1]
  <1>1. ASSUME NEW n \in 0..Len(s), n < Len(t)
        PROVE  SubSeq(s, 1, n) = SubSeq(t, 1, n) <=> \A i \in 1..n : s[i] = t[i]
    <2>1. n \in Nat /\ Len(s) \in Nat /\ Len(t) \in Nat
      OBVIOUS
    <2>2. SubSeq(s, 1, n) = [i \in 1..n |-> s[i]] /\ SubSeq(t, 1, n) = [i \in 1..n |-> t[i]]
      BY <1>1, <2>1
    <2> QED
      BY <2>2
  <1>2. \A n \in 0..Len(s) : n < Len(t) => n <= Len(t)
    OBVIOUS
  <1> QED
    BY <1>1, <1>2 DEF Before

(* The comparison of two strings, as lexigraphic_compare makes it.         *)
Compared(s, t) ==
    LET ret == memcmp(s, t, IF Len(s) < Len(t) THEN Len(s) ELSE Len(t))
    IN IF ret # 0 THEN ret ELSE Len(s) - Len(t)

LEMMA ComparedFacts ==
    ASSUME NEW s \in Seq(0..255), NEW t \in Seq(0..255)
    PROVE  /\ Compared(s, t) < 0 <=> Before(s, t)
           /\ Compared(s, t) = 0 <=> s = t
  <1> DEFINE ls == Len(s)
             lt == Len(t)
             n  == IF ls < lt THEN ls ELSE lt
             ret == memcmp(s, t, n)
  <1>1. /\ ls \in Nat /\ lt \in Nat /\ n \in Nat /\ n <= ls /\ n <= lt
        /\ n = ls \/ n = lt
    OBVIOUS
  <1>2. /\ \A i \in 1..ls : s[i] \in 0..255
        /\ \A i \in 1..lt : t[i] \in 0..255
    BY ElementOfSeq
  <1>3. Compared(s, t) = IF ret # 0 THEN ret ELSE ls - lt
    BY DEF Compared
  <1>4. \/ ret = 0 /\ \A i \in 1..n : s[i] = t[i]
        \/ \E k \in 1..n : /\ s[k] # t[k] /\ \A i \in 1..(k - 1) : s[i] = t[i]
                           /\ ret = s[k] - t[k]
    <2>1. n \in Nat /\ n <= Len(s) /\ n <= Len(t)
      BY <1>1
    <2> HIDE DEF n
    <2> QED
      BY <2>1, MemcmpFacts
  <1>5. Before(s, t) <=>
              \E j \in 0..ls : /\ j < lt
                               /\ \A i \in 1..j : s[i] = t[i]
                               /\ j < ls => s[j + 1] < t[j + 1]
    BY BeforeFacts
  <1>6. s = t <=> ls = lt /\ \A i \in 1..ls : s[i] = t[i]
    BY SeqEqual
  <1> HIDE DEF ls, lt, n, ret
  <1>7. CASE ret = 0 /\ \A i \in 1..n : s[i] = t[i]
    <2>1. Compared(s, t) = ls - lt
      BY <1>3, <1>7
    <2>2. Before(s, t) <=> ls < lt
      <3>1. ASSUME ls < lt PROVE Before(s, t)
        <4>1. ls \in 0..ls /\ n = ls /\ ~(ls < ls)
          BY <1>1, <3>1
        <4> QED
          BY <1>5, <1>7, <3>1, <4>1
      <3>2. ASSUME Before(s, t) PROVE ls < lt
        <4>1. PICK j \in 0..ls : j < lt /\ (j < ls => s[j + 1] < t[j + 1])
          BY <1>5, <3>2
        <4>2. CASE j < ls
          <5>1. j + 1 \in 1..n /\ j + 1 \in 1..ls
            BY <1>1, <4>1, <4>2
          <5>2. s[j + 1] = t[j + 1] /\ s[j + 1] \in 0..255 /\ t[j + 1] \in 0..255
            BY <1>2, <1>7, <5>1
          <5>3. s[j + 1] < t[j + 1]
            BY <4>1, <4>2
          <5> QED
            BY <5>2, <5>3, ByteFacts
        <4>3. CASE ~(j < ls)
          BY <1>1, <4>1, <4>3
        <4> QED
          BY <4>2, <4>3
      <3> QED
        BY <3>1, <3>2
    <2>3. s = t <=> ls = lt
      BY <1>1, <1>6, <1>7
    <2> QED
      BY <1>1, <2>1, <2>2, <2>3
  <1>8. CASE \E k \in 1..n : /\ s[k] # t[k] /\ \A i \in 1..(k - 1) : s[i] = t[i]
                             /\ ret = s[k] - t[k]
    <2>1. PICK k \in 1..n : /\ s[k] # t[k] /\ \A i \in 1..(k - 1) : s[i] = t[i]
                            /\ ret = s[k] - t[k]
      BY <1>8
    <2>2. k \in 1..ls /\ k \in 1..lt /\ k \in Nat
      BY <1>1
    <2>3. s[k] \in 0..255 /\ t[k] \in 0..255
      BY <1>2, <2>2
    <2>4. Compared(s, t) = s[k] - t[k] /\ Compared(s, t) # 0
      <3>1. s[k] - t[k] # 0
        BY <2>1, <2>3, ByteFacts
      <3> QED
        BY <1>3, <2>1, <3>1
    <2>5. s # t
      BY <2>1
    <2>6. Before(s, t) <=> s[k] < t[k]
      <3>1. ASSUME s[k] < t[k] PROVE Before(s, t)
        <4>1. k - 1 \in 0..ls /\ k - 1 < lt /\ (k - 1) + 1 = k
          BY <1>1, <2>2
        <4> QED
          BY <1>5, <2>1, <3>1, <4>1
      <3>2. ASSUME Before(s, t) PROVE s[k] < t[k]
        <4>1. PICK j \in 0..ls : /\ j < lt /\ \A i \in 1..j : s[i] = t[i]
                                 /\ j < ls => s[j + 1] < t[j + 1]
          BY <1>5, <3>2
        <4>2. ~(k <= j)
          <5>1. k <= j => k \in 1..j
            BY <2>2
          <5> QED
            BY <2>1, <4>1, <5>1
        <4>3. j < ls /\ j + 1 \in 1..ls /\ j + 1 \in 1..k
          BY <1>1, <2>2, <4>2
        <4>4. /\ s[j + 1] < t[j + 1] /\ s[j + 1] \in 0..255
              /\ t[j + 1] \in 0..255
          <5>1. j + 1 \in 1..lt
            BY <1>1, <4>1, <4>3
          <5> QED
            BY <1>2, <4>1, <4>3, <5>1
        <4>5. s[j + 1] # t[j + 1]
          BY <4>4, ByteFacts
        <4>6. j + 1 \notin 1..(k - 1)
          BY <2>1, <4>5
        <4>7. j + 1 = k
          BY <2>2, <4>3, <4>6
        <4> QED
          BY <4>4, <4>7
      <3> QED
        BY <3>1, <3>2
    <2>7. s[k] - t[k] < 0 <=> s[k] < t[k]
      BY <2>3, ByteFacts
    <2> QED
      BY <2>4, <2>5, <2>6, <2>7
  <1> QED
    BY <1>4, <1>7, <1>8

(* lexigraphic_compare orders atoms as their strings are ordered, for the  *)
(* strings whose length fits in its byte, whatever others the table holds  *)
(* (StringTable_cbits.c:285-292).                                          *)
THEOREM Ordering == Spec => []CompareOrders
  <1>1. IInv /\ OneAtom => CompareOrders
    <2> SUFFICES ASSUME IInv, OneAtom, NEW p \in interned, NEW q \in interned,
                        LengthFits(p[1]), LengthFits(q[1])
                 PROVE  /\ lexigraphic_compare(p[2], q[2]) < 0 <=> Before(p[1], q[1])
                        /\ lexigraphic_compare(p[2], q[2]) = 0 <=> p[2] = q[2]
      BY DEF CompareOrders
    <2>1. ASSUME NEW r \in interned, LengthFits(r[1])
          PROVE  /\ r[1] \in Seq(0..255) /\ TextOf(r[2]) = r[1]
                 /\ ATOM_LEN(r[2]) = Len(r[1])
      <3>1. r \in Strings \X Nat /\ StoredAt(r)
        BY DEF IInv, PairsOK, ChunksOK, Pairs
      <3>2. ATOM_LEN(r[2]) = Len(r[1])
        BY <2>1, <3>1, LengthFacts, LengthOfStored
      <3> QED
        BY <2>1, <3>1, <3>2, TextOfStored, StringFacts
    <2>2. lexigraphic_compare(p[2], q[2]) = Compared(p[1], q[1])
      BY <2>1 DEF lexigraphic_compare, Compared
    <2>3. p[1] \in Seq(0..255) /\ q[1] \in Seq(0..255)
      BY <2>1
    <2>4. /\ Compared(p[1], q[1]) < 0 <=> Before(p[1], q[1])
          /\ Compared(p[1], q[1]) = 0 <=> p[1] = q[1]
      BY <2>3, ComparedFacts
    <2>5. p[1] = q[1] <=> p[2] = q[2]
      BY DEF OneAtom
    <2> QED
      BY <2>2, <2>4, <2>5
  <1> QED
    BY <1>1, Invariance, OneAtomEach, PTL

=============================================================================
