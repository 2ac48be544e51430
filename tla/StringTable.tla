---------------------------- MODULE StringTable -----------------------------
(***************************************************************************)
(* The atom table of src/src/StringTable/StringTable_cbits.c: the bytes of *)
(* the strings in chunks that are never freed, found again through a       *)
(* cuckoo hash table of two halves and two buckets per hash.  One action   *)
(* is one call that ends at once, one bucket tried by hash_insert, one     *)
(* growth of the table, or one entry taken from the old table.             *)
(*                                                                         *)
(* hash_insert and grow_table call each other: frames holds, for every     *)
(* grow_table that is under way, its old table, the place it has come to   *)
(* and the entry its caller still has in hand.                             *)
(***************************************************************************)
EXTENDS Integers, Sequences, FiniteSets

CONSTANTS
    Strings,        \* the strings that are asked for, as sequences of bytes
    Hash,           \* the two hashes of each: hashlittle with seeds 0 and 1
    InitSize,       \* 1 << INIT_SIZE
    MaxSize,        \* the HASHSIZE calloc has no memory to double: a bound
    DepthLimit,     \* DEPTH_LIMIT
    MaxEntry,       \* MAX_ENTRY_SIZE; 2^8 lengths fit in a byte, as many
    ChunkSize,      \* CHUNK_SIZE
    NumChunks       \* NUM_CHUNKS

(* What toAtomIO passes on.  The asserts of stringtable_lookup ask for     *)
(* less, but NDEBUG removes them.                                          *)
Admitted(s) == Len(s) <= MaxEntry

ASSUME StringsAssumption == \A s \in Strings : s \in Seq(0..255) /\ Admitted(s)
ASSUME HashAssumption == Hash \in [Strings -> Nat \X Nat]

(* An index of a chunk and an offset in it fit into an atom, and the       *)
(* longest string with its byte of length into a chunk.                    *)
ASSUME SizesAssumption ==
    /\ InitSize \in Nat \ {0}
    /\ DepthLimit \in Nat \ {0}
    /\ NumChunks \in 1..256
    /\ MaxSize \in Nat
    /\ MaxEntry \in 2..256
    /\ ChunkSize \in (MaxEntry + 1)..16384

VARIABLES
    htable, HASHSIZE,                   \* the buckets, and how many a half has
    current_chunk, next_free_offset,
    chunks,                             \* the bytes, chunk by chunk
    pc,                                 \* "idle", "insert", "grow", "reinsert",
                                        \* "dead", "overrun"
    x, start, loop, place,              \* the locals of hash_insert: place is 2 * i + j
    frames,
    wanted,                             \* the call under way: its string and atom
    interned                            \* history: the pairs of string and atom returned

tableVars == <<htable, HASHSIZE>>
chunkVars == <<current_chunk, next_free_offset, chunks>>
insertVars == <<x, start, loop, place>>
vars == <<tableVars, chunkVars, pc, insertVars, frames, wanted, interned>>

-----------------------------------------------------------------------------
(* Entries and buckets.                                                    *)

NoEntry == [atom |-> 0, hashes |-> <<0, 0>>, len |-> 0]
ATOM_VALID(a) == a # 0
Table(size) == [b \in 0..(2 * size - 1) |-> NoEntry]

(* The length in a byte: that of the longest string becomes 0.             *)
LenByte(s)    == Len(s) % MaxEntry
LengthFits(s) == Len(s) < MaxEntry

CHUNK_INDEX(a)  == a % 256
CHUNK_OFFSET(a) == (a \div 256) % 16384
MAKE_ATOM(ci, co) == (ci % 256) + 256 * (co % 16384)

ByteAt(a, i) == chunks[CHUNK_INDEX(a)][CHUNK_OFFSET(a) + i]
ATOM_LEN(a)  == ByteAt(a, 0)
TextOf(a)    == [i \in 1..ATOM_LEN(a) |-> ByteAt(a, i)]

(* HASH_INDEX(i, h + j), with place = 2 * i + j.                           *)
Bucket(size, hashes, p) ==
    LET i == p \div 2
        j == p % 2
    IN (i * size) + ((hashes[i + 1] + j) % size)

(* A faulty variant: the length is not compared, only the bytes of s.       *)
AnswersPrefix(e, s, p) ==
    /\ ATOM_VALID(e.atom)
    /\ \A i \in 1..Len(s) : i > e.len \/ TextOf(e.atom)[i] = s[i]

(* The entries that answer to s, in the buckets of its two hashes.         *)
Answers(e, s, p) ==
    /\ ATOM_VALID(e.atom)
    /\ e.hashes[p \div 2 + 1] = Hash[s][p \div 2 + 1]
    /\ e.len = Len(s)
    /\ TextOf(e.atom) = s

Hits(s) == {p \in 0..3 : Answers(htable[Bucket(HASHSIZE, Hash[s], p)], s, p)}

-----------------------------------------------------------------------------
(* stringtable_lookup                                                      *)

(* The call for s ends with atom a.  A string whose length does not fit    *)
(* has no hits, and gets another atom every time.                          *)
Returned(s, a) == interned' = interned \union {<< s, a >>}

LookupEmpty(s) ==
    /\ s = << >>
    /\ Returned(s, 0)
    /\ UNCHANGED <<tableVars, chunkVars, pc, insertVars, frames, wanted>>

LookupHit(s) ==
    /\ s # << >>
    /\ \E p \in Hits(s) :
         /\ \A q \in Hits(s) : p <= q
         /\ Returned(s, htable[Bucket(HASHSIZE, Hash[s], p)].atom)
    /\ UNCHANGED <<tableVars, chunkVars, pc, insertVars, frames, wanted>>

(* add_string: where the string goes, a new chunk if it might not fit.     *)
(* A faulty variant: the byte of the length is not counted.                *)
NeedChunkLate == next_free_offset > ChunkSize - MaxEntry

NeedChunk == next_free_offset + 1 > ChunkSize - MaxEntry
LastChunk == current_chunk >= NumChunks - 1

Stored(memory, s, offset) ==
    [q \in 0..(ChunkSize - 1) |->
        IF q = offset THEN LenByte(s)
        ELSE IF q \in (offset + 1)..(offset + Len(s)) THEN s[q - offset]
        ELSE memory[q]]

(* What malloc returns holds anything; no byte has this value.             *)
Garbage == [q \in 0..(ChunkSize - 1) |-> 256]

NewChunk  == IF NeedChunk THEN current_chunk + 1 ELSE current_chunk
NewOffset == IF NeedChunk THEN 0 ELSE next_free_offset
NewAtom   == MAKE_ATOM(NewChunk, NewOffset)

(* A faulty variant: the byte of the length is forgotten.                  *)
add_stringNoLength(s) ==
    /\ current_chunk' = NewChunk
    /\ chunks' = [chunks EXCEPT ![NewChunk] =
                    Stored(IF NeedChunk THEN Garbage ELSE chunks[NewChunk], s, NewOffset)]
    /\ next_free_offset' = NewOffset + Len(s)

add_string(s) ==
    /\ current_chunk' = NewChunk
    /\ chunks' = [chunks EXCEPT ![NewChunk] =
                    Stored(IF NeedChunk THEN Garbage ELSE chunks[NewChunk], s, NewOffset)]
    /\ next_free_offset' = NewOffset + Len(s) + 1

(* A call of hash_insert with entry e.                                     *)
StartInsert(e) ==
    /\ pc' = "insert"
    /\ x' = e
    /\ start' = e.atom
    /\ loop' = 0
    /\ place' = 0

LookupMiss(s) ==
    /\ s # << >>
    /\ Hits(s) = {}
    /\ ~(NeedChunk /\ LastChunk)
    /\ add_string(s)
    /\ wanted' = << s, NewAtom >>
    /\ StartInsert([atom |-> NewAtom, hashes |-> Hash[s], len |-> LenByte(s)])
    /\ UNCHANGED <<tableVars, frames, interned>>

(* dieif: all chunks are in use, or malloc has no memory for another.      *)
NoMoreChunks(s) ==
    /\ s # << >>
    /\ Hits(s) = {}
    /\ NeedChunk
    /\ pc' = "dead"
    /\ UNCHANGED <<tableVars, chunkVars, insertVars, frames, wanted, interned>>

stringtable_lookup(s) ==
    /\ pc = "idle"
    /\ LookupEmpty(s) \/ LookupHit(s) \/ LookupMiss(s) \/ NoMoreChunks(s)

(* atom_append on two atoms that some call has returned: the other one if  *)
(* one is empty, or the lookup of their bytes one after the other.  It does*)
(* not test that they fit in buf: past its end nothing more is said.       *)
Unchanged(p) ==
    /\ Returned(p[1], p[2])
    /\ UNCHANGED <<tableVars, chunkVars, pc, insertVars, frames, wanted>>

Overrun(s) ==
    /\ Len(s) > MaxEntry
    /\ pc' = "overrun"
    /\ UNCHANGED <<tableVars, chunkVars, insertVars, frames, wanted, interned>>

(* Strings also bounds what is made by appending.                          *)
atom_append(p, q) ==
    LET s == TextOf(p[2]) \o TextOf(q[2])
    IN /\ pc = "idle"
       /\ \/ p[2] = 0 /\ Unchanged(q)
          \/ p[2] # 0 /\ q[2] = 0 /\ Unchanged(p)
          \/ p[2] # 0 /\ q[2] # 0 /\ s \in Strings /\ stringtable_lookup(s)
          \/ p[2] # 0 /\ q[2] # 0 /\ Overrun(s)

-----------------------------------------------------------------------------
(* hash_insert and grow_table                                              *)

Here == Bucket(HASHSIZE, x.hashes, place)

(* An empty bucket takes the entry, and the call returns: to the caller of *)
(* stringtable_lookup, or to the grow_table on top.                        *)
Place ==
    /\ pc = "insert"
    /\ ~ATOM_VALID(htable[Here].atom)
    /\ htable' = [htable EXCEPT ![Here] = x]
    /\ IF frames = << >>
       THEN pc' = "idle" /\ Returned(wanted[1], wanted[2]) /\ wanted' = << >>
       ELSE pc' = "reinsert" /\ UNCHANGED <<interned, wanted>>
    /\ x' = NoEntry
    /\ start' = 0 /\ loop' = 0 /\ place' = 0
    /\ UNCHANGED <<HASHSIZE, chunkVars, frames>>

(* After the fourth bucket: round again, unless the first entry has come   *)
(* back or DEPTH_LIMIT is reached.                                         *)
GivesUp(e) == e.atom = start \/ loop + 1 = DepthLimit

(* A faulty variant: the rounds are not counted.                           *)
DisplaceUncounted ==
    /\ pc = "insert"
    /\ ATOM_VALID(htable[Here].atom)
    /\ htable' = [htable EXCEPT ![Here] = x]
    /\ x' = htable[Here]
    /\ place' = (place + 1) % 4
    /\ pc' = IF place = 3 /\ GivesUp(htable[Here]) THEN "grow" ELSE "insert"
    /\ UNCHANGED <<HASHSIZE, chunkVars, start, loop, frames, wanted, interned>>

(* A full bucket takes the entry and gives up its own.                     *)
Displace ==
    /\ pc = "insert"
    /\ ATOM_VALID(htable[Here].atom)
    /\ htable' = [htable EXCEPT ![Here] = x]
    /\ x' = htable[Here]
    /\ place' = (place + 1) % 4
    /\ loop' = IF place = 3 THEN loop + 1 ELSE loop
    /\ pc' = IF place = 3 /\ GivesUp(htable[Here]) THEN "grow" ELSE "insert"
    /\ UNCHANGED <<HASHSIZE, chunkVars, start, frames, wanted, interned>>

(* A faulty variant: the entry in hand is forgotten, the first put in      *)
(* once more.                                                              *)
grow_tableFirst ==
    /\ pc = "grow"
    /\ HASHSIZE < MaxSize
    /\ frames' = Append(frames, [ot |-> htable, i |-> 0, x |-> [x EXCEPT !.atom = start]])
    /\ HASHSIZE' = 2 * HASHSIZE
    /\ htable' = Table(2 * HASHSIZE)
    /\ pc' = "reinsert"
    /\ x' = NoEntry
    /\ UNCHANGED <<chunkVars, start, loop, place, wanted, interned>>

grow_table ==
    /\ pc = "grow"
    /\ HASHSIZE < MaxSize
    /\ frames' = Append(frames, [ot |-> htable, i |-> 0, x |-> x])
    /\ HASHSIZE' = 2 * HASHSIZE
    /\ htable' = Table(2 * HASHSIZE)
    /\ pc' = "reinsert"
    /\ x' = NoEntry
    /\ UNCHANGED <<chunkVars, start, loop, place, wanted, interned>>

(* calloc finds no memory, and the first bucket is looked for at address 0.*)
NoTable ==
    /\ pc = "grow"
    /\ HASHSIZE >= MaxSize
    /\ pc' = "dead"
    /\ UNCHANGED <<tableVars, chunkVars, insertVars, frames, wanted, interned>>

Top == frames[Len(frames)]
ToDo(f) == {i \in DOMAIN f.ot : i >= f.i /\ ATOM_VALID(f.ot[i].atom)}

(* The next valid entry of the old table.                                  *)
Reinsert ==
    /\ pc = "reinsert"
    /\ \E i \in ToDo(Top) :
         /\ \A k \in ToDo(Top) : i <= k
         /\ StartInsert(Top.ot[i])
         /\ frames' = [frames EXCEPT ![Len(frames)].i = i + 1]
    /\ UNCHANGED <<tableVars, chunkVars, wanted, interned>>

(* grow_table frees the old table and returns; its caller goes on with the *)
(* entry it had in hand.                                                   *)
Resume ==
    /\ pc = "reinsert"
    /\ ToDo(Top) = {}
    /\ StartInsert(Top.x)
    /\ frames' = SubSeq(frames, 1, Len(frames) - 1)
    /\ UNCHANGED <<tableVars, chunkVars, wanted, interned>>

-----------------------------------------------------------------------------

Init ==
    /\ HASHSIZE = InitSize
    /\ htable = Table(InitSize)
    /\ current_chunk = 0
    /\ next_free_offset = 1
    /\ chunks = [c \in 0..(NumChunks - 1) |->
                    IF c = 0 THEN [q \in 0..(ChunkSize - 1) |-> 0] ELSE Garbage]
    /\ pc = "idle"
    /\ x = NoEntry /\ start = 0 /\ loop = 0 /\ place = 0
    /\ frames = << >>
    /\ wanted = << >>
    /\ interned = {}

Inserting == Place \/ Displace \/ grow_table \/ NoTable \/ Reinsert \/ Resume

Next == \/ \E s \in Strings : stringtable_lookup(s)
        \/ \E p, q \in interned : atom_append(p, q)
        \/ Inserting

(* The caller waits for the call to return; no call need ever be made.     *)
Spec == Init /\ [][Next]_vars /\ WF_vars(Inserting)

-----------------------------------------------------------------------------
(* What holds.                                                             *)

(* The variables have their types (StringTable_cbits.c:42-48, 82-98).      *)
Entries == [atom : Nat, hashes : Nat \X Nat, len : 0..255]
TypeOK ==
    /\ HASHSIZE \in Nat \ {0} /\ htable \in [0..(2 * HASHSIZE - 1) -> Entries]
    /\ current_chunk \in 0..(NumChunks - 1)
    /\ next_free_offset \in 0..ChunkSize
    /\ chunks \in [0..(NumChunks - 1) -> [0..(ChunkSize - 1) -> 0..256]]
    /\ pc \in {"idle", "insert", "grow", "reinsert", "dead", "overrun"}
    /\ x \in Entries /\ start \in Nat /\ loop \in 0..DepthLimit /\ place \in 0..3

(* Where an entry can be: in the table and in hand, and, for every frame,  *)
(* in the part of the old table still to be read and in its caller's hand. *)
Level(n) == IF n <= Len(frames) THEN frames[n] ELSE [ot |-> htable, i |-> 0, x |-> x]
Unread(f) == {-1} \union {i \in DOMAIN f.ot : i >= f.i}
Spots == UNION {{n} \X Unread(Level(n)) : n \in 1..(Len(frames) + 1)}
EntryAt(s) == IF s[2] = -1 THEN Level(s[1]).x ELSE Level(s[1]).ot[s[2]]

Added == {p[2] : p \in interned} \union (IF wanted = << >> THEN {} ELSE {wanted[2]})

(* No entry is lost or doubled while hash_insert swaps it from bucket to   *)
(* bucket and grow_table, itself called from the midst of an insertion and *)
(* nested to any depth, moves it to another table: each is in the table,   *)
(* in hand, in a frame's hand or in the part of a frame's old table still  *)
(* to be read, and only once (StringTable_cbits.c:164-177, 186-218).       *)
EveryAtomOnce ==
    \A a \in Added \ {0} :
        LET holds == {s \in Spots : EntryAt(s).atom = a}
        IN \E s \in Spots : holds = {s}

(* An atom's bytes stay what they were when it was made: no later string   *)
(* is written over them and none runs out of its chunk, the longest at the *)
(* very end of one included; and with its length, unless it does not fit   *)
(* (StringTable_cbits.c:50-78).                                            *)
TextKept ==
    \A p \in interned :
        /\ \A i \in 1..Len(p[1]) : ByteAt(p[2], i) = p[1][i]
        /\ LengthFits(p[1]) => TextOf(p[2]) = p[1]

(* memcmp, for what it says of the order.                                  *)
memcmp(s, t, n) ==
    LET differ == {i \in 1..n : s[i] # t[i]}
    IN IF differ = {} THEN 0
       ELSE LET i == CHOOSE k \in differ : \A m \in differ : k <= m
            IN s[i] - t[i]

(* A faulty variant: the lengths decide first.                             *)
lexigraphic_compareShortFirst(a, b) ==
    LET xl  == ATOM_LEN(a)
        yl  == ATOM_LEN(b)
    IN IF xl # yl THEN xl - yl ELSE memcmp(TextOf(a), TextOf(b), xl)

lexigraphic_compare(a, b) ==
    LET xl  == ATOM_LEN(a)
        yl  == ATOM_LEN(b)
        ret == memcmp(TextOf(a), TextOf(b), IF xl < yl THEN xl ELSE yl)
    IN IF ret # 0 THEN ret ELSE xl - yl

(* s comes before t: it is a proper prefix, or smaller where they part.    *)
Before(s, t) ==
    \E n \in 0..Len(s) :
        /\ n <= Len(t)
        /\ SubSeq(s, 1, n) = SubSeq(t, 1, n)
        /\ n < Len(t)
        /\ n < Len(s) => s[n + 1] < t[n + 1]

(* lexigraphic_compare orders atoms as their strings are ordered, the      *)
(* empty one and prefixes included, and equal means the same atom, among   *)
(* the strings whose length fits; the others compare as empty              *)
(* (StringTable_cbits.c:285-292).                                          *)
CompareOrders ==
    pc = "idle" => \A p, q \in {r \in interned : LengthFits(r[1])} :
        /\ lexigraphic_compare(p[2], q[2]) < 0 <=> Before(p[1], q[1])
        /\ lexigraphic_compare(p[2], q[2]) = 0 <=> p[2] = q[2]

(* The table implements the set of atoms.                                  *)
Abstract == INSTANCE AtomSet WITH
    Atoms <- {MAKE_ATOM(c, o) : c \in 0..(NumChunks - 1), o \in 0..(ChunkSize - 1)},
    Kept  <- {s \in Strings : LengthFits(s)}

(* Every call returns the atom its string has always had, or a new one     *)
(* that no other call has returned; always a new one for a string whose    *)
(* length does not fit, and only for such a one a second time              *)
(* (StringTable_cbits.c:237-283).                                          *)
ImplementsAtomSet == Abstract!Spec

AtomsOf(s) ==
    {a \in Added : << s, a >> \in interned \union {wanted}}

(* Every insertion ends with its atom, through cycles of displaced entries,*)
(* the depth limit and nested growth.  The fifth entry of one string would *)
(* not: its hashes lead all five to four buckets, however often the table  *)
(* is grown (StringTable_cbits.c:193, 212-217).                            *)
InsertEnds ==
    (pc = "insert") ~>
        (pc = "idle" \/ \E s \in Strings : Cardinality(AtomsOf(s)) > 4)

=============================================================================
