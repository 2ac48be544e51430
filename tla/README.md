# A verification development for the jhc run time

jhc is a whole-program optimising compiler from Haskell to C. This directory
models the part of it in which state, order and memory matter most: the run-time
system that every compiled program carries (`rts/rts`), together with the way
the emitted C code uses it (`src/C/FromGrin2.hs`), and the C code inside the
compiler that the rest of it trusts blindly: the table of atoms and the hash
functions (`src/StringTable`, `src/cbits`). TLC checks the models on small
instances; TLAPS proves their safety properties, and that they implement their
abstract specifications, for every instance.
Paths below are relative to the root of the jhc sources.

## 1. Inventory

| Component | State | Operations | What makes it correct |
|---|---|---|---|
| Tracing collector, `rts/rts/gc_jgc.c:27-203` | gc stack, `root_stack`, stable pointers, used bits, grey stack, nodes and their words | allocate, evaluate, update, record a root, mark, drop redirections, sweep | nothing reachable is reclaimed; stale words are never followed; the grey stack has room for what is pushed; exactly the reachable entries stay |
| Compiled code, `FromGrin2.hs` | values in frames | `gc_frame0`, `s_alloc`, loads, stores, `eval`, `update`, `gc_add_root` | pushes what it needs before it allocates, evaluates or calls a compiled function (a safe foreign call does not count for `isAllocing`, `Grin/Devolve.hs:121-131`) |
| Slab allocator, `gc_jgc.c:303-653` | caches, partial, full and free lists, megablocks, used bits, `num_free`, `next_free`, `block_used`, `block_threshold` | `s_alloc`, `get_free_block`, `find_cache`, `clear_used_bits`, `s_set_used_bit`, `s_cleanup_blocks` | no two live entries overlap; no block is lost; counts match bits |
| Monoliths and foreign pointers, `gc_jgc.c:260-301, 415-438, 674-715` | `monolithic_blocks`, finalizer arrays | allocate, add a finalizer, mark, sweep, run finalizers | freed at most once and only when dead; finalizers run once, in order, when the memory goes; what is not a pointer into the heap is not followed (it is, see 5) |
| Foreign calls and exports, `FromGrin2.hs:204-218, 567-580, 709-713` | `saved_gc`, frames | call C, call back, collect from C | frames of suspended functions survive |
| Stable pointers, `rts/rts/stableptr.c`, `rts/sys/queue.h` | a doubly linked list | new, free, deref, and the collector's walk | the links agree, whatever is freed; a walk comes to every struct once; the collector pushes no more structs than there is room for |
| Start and end of a process, `rts/rts/rts_support.c`, `main` | `hs_init_count` | `hs_init`, `hs_exit`, entry, exit, errors | set up once, before Haskell code runs |
| Allocation without collection, `rts/rts/gc_none.c` | current chunk, `mem_offset` | `jhc_malloc` | allocations do not overlap and stay in their chunk |
| Atom table, `src/StringTable` | chunks of bytes, cuckoo hash table | look up, insert, grow, concatenate, compare | one atom per string whose length fits in a byte, forever; bytes kept; insertions end |
| Hashes and digests, `src/cbits`, `src/Support/MD5.hs` | `md5_state_s` | hash a key, append, finish | depend on the bytes of the key or message and on nothing else |
| Fixed-point solver, `src/Fixer` | pending and current values, actions, todo set | add rule, propagate, find the fixed point | the least solution, whatever the order |
| Union-find and solver, `src/Util/UnionFind*.hs`, `UnionSolve.hs` | parent links, weights | find, union, solve | agrees with the unions made |
| Separate compilation, `src/Ho` | maps of sources, `.ho` files and hashes | find sources, validate, compile | never uses a stale `.ho` file |
| Front end, E, Grin, C printer, driver | syntax trees | pure passes | translation correctness |

The first five interact through shared memory in one thread: compiled code calls
`s_alloc`, which may call `get_free_block`, which may call `gc_perform_gc`,
which marks (setting used bits in the slab and in monoliths), sweeps (moving
blocks between lists, calling finalizers) and returns to an allocation in
progress. C code entered through a safe call may call an exported function or
`hs_perform_gc`; both learn the top of the gc stack from the global `saved_gc`.
The next three are the rest of the run time. The atom table belongs to the
compiler: Haskell code calls it through `Atom.hsc`, it calls `hashlittle`, and
names, types and the keys of most maps are atoms; MD5 names the cached `.ho`
files.

What is hard here is not concurrency but *reentrancy and protocol*: a collection
may come at any allocation; a thunk's memory has a second life as a redirection
whose other words are stale; a count kept in one function is trusted in another;
a global set by one call is used by another, later, through C. Nothing persists
and nothing runs in parallel, so crashes, lost messages and data races do not
occur. `hazards` in `PROJECT.json` lists each of these at its line.

## 2. Modules

| Module | Models |
|---|---|
| `Collector` | mutator and tracing collector |
| `LazyHeap` | abstract: the heap a lazy program may assume |
| `MCCollector` | instance for TLC |
| `CollectorProofs`, `CollectorHeapProofs` | theorems: safety; exactness and the refinement of `LazyHeap` |
| `Slab` | the allocator below the collector |
| `EntryPool` | abstract: what `s_alloc` promises |
| `MCSlab`, `SlabProofs` | instances for TLC and the real geometry; theorems |
| `Monolith`, `MCMonolith` | large arrays, foreign pointers, finalizers |
| `MonolithProofs` | theorems |
| `ForeignCalls` | the gc stack and `saved_gc` across C |
| `ForeignDynamic` | the same with calls that do not store `saved_gc` |
| `ForeignCallsProofs` | theorems |
| `StringTable` | the atom table: chunks, `hash_insert`, `grow_table` |
| `AtomSet` | abstract: one atom for each string |
| `MCStringTable`, `StringTableProofs` | instance with real strings and hashes; theorems |
| `Word32`, `Word32Bits`, `Lookup3` | 32-bit words and their bits; the hash functions |
| `Md5`, `Md5Stream` | MD5 of a block; its streaming interface |
| `Md5Messages`, `Md5MessagesProofs` | messages in pieces, as `MD5.hs` reads them; theorems |
| `Digests`, `MCDigests` | keys in memory beside messages; known hashes and digests; instance for TLC |
| `Runtime`, `RuntimeProofs` | start and end, `gc_none.c`, stable pointers; theorems |

Definitions that a comment calls *a faulty variant* are not part of a specification: each is a
plausible mistake in one place of the code, kept beside the definition it
varies, with which a property is shown to fail.

### Collector

An entry is a node of the heap; a smart pointer is a record of its tag and its
pointer part. `kind` says what an entry was filled with. A thunk that has been
evaluated becomes an `ind`: `Update` writes its value over its first word, as
`update()` does, and leaves the others as they were. `gcStack` is the array from
`gc_stack_base` to `gc`, `rootStack` is `root_stack`, `cafHead` the heads of the
static thunks, which lie in `[nh_start, nh_end]` and are no entries.

The mutator knows only what is in its frames: every action takes its operands
from `gcStack` and pushes what it obtains. This is stronger than what a frame
is in C (values also live in C variables between two calls that may collect),
but any sequence of C steps between two such calls is a sequence of these
actions. `DropSlot` removes any slot, which stands for returns as well as for
frames built anew by the next function.

The collector is one action per loop step: `StartGC`, `MarkRoot` (over
`root_stack`), `RootsDone`, `MarkStable` (over the stable pointers),
`StablesDone`, `MarkSlot` (over the gc stack, where a redirection keeps its own
entry but only its value is traced), `SlotsDone`, `PopGrey` and `ScanWord` (the
loops of `gc_mark_deeper`, including the removal of redirections from fields) and
`Sweep`. `greySize` is the memory of the grey stack, changed by `stack_check`
only; the push in `gc_add_grey` does not look at it, and an unsigned difference
in `stack_check` takes a stack that ran over for one with room (`Checked`).
`SavingMallocHeap` is the build option `_JHC_JGC_SAVING_MALLOC_HEAP`.

A stable pointer is a struct from `malloc`, and the collector greys the struct
itself (`gc_jgc.c:146-147`). What `s_set_used_bit` takes for its block, its used
bit and its number of pointers is whatever the C heap holds there, so that is a
choice: the bit is set (`MarkStable` pushes nothing), the struct is pushed
(`greyForeign`) and its words, `ForeignWords` at most, are followed to other
places of C memory (`ScanForeign`), or the program ends (`Trap`), as it also may
once the stack has run over. There is no `stack_check` for these pushes: they
have the slack that the check for `root_stack` left. `StablesFit` says when that
is enough, and `GreyFits` that the stack then has room for every push. The grey
stack is a sequence of entries and a set of places, whose order does not matter.

`StoreField` is the branch of `Overwrite` at `FromGrin2.hs:611-614`. The other
one (608-610), for a node named by a global, is never taken: the only
`Overwrite`s of globals would be those of `initCafs`, which `Grin/FromE.hs:206-207`
has commented out in favour of `Return []`, and `doUpdate` (666-668) overwrites
variables that a `let` has just bound.

`LazyHeap` has no redirections: evaluating a thunk replaces it by its value
everywhere at once, and objects disappear only if unreachable. The refinement
mapping in `Collector` reads every redirection as its value; mutator actions map
to those of `LazyHeap`, all marking steps to stuttering, the sweep to `Reclaim`.

### Slab

One action per path through `s_alloc` and `get_free_block`: from the first
partial block, from a free block, from a carved block, and the allocation that
collects first. SLISTs are sequences with the head first. A block's used bits
are the set of places whose bit is set, those past `num_entries` included, since
`clear_block_used_bits` sets them on purpose. Marking is abstracted to any set
of calls of `s_set_used_bit` on entries handed out (which of them, is
`Collector`'s business). The sweep goes block by block.

`EntryPool` is the promise: the entry returned overlaps nothing handed out and
not reclaimed. `Overlap` takes two entries of different caches in one block as
overlapping, since they cut it differently.

### Monolith

Blocks allocated one by one, with the list links as the code treats them:
`KeepMonolith` takes the next block from the link that `SLIST_INSERT_HEAD` has
just overwritten. `SizeByte` is what `s_set_used_bit` divides by: `u.pi.size`
shares its byte with the second byte of `u.m.num_ptrs`. Division by zero either
traps (`Trap`, the outcome on x86) or yields 0. The trace is `Collector`'s with
the grey stack as a set. All words of a monolith are scanned as smart pointers,
whatever the block holds: elements of an array, raw memory
(`MallocForeignPtr`), or the C address of a foreign pointer with NULL, or the
array of finalizers, behind it. `WordsOf` says what these words may be: `Null`,
which has the tag of a pointer, and `Outside`, any word with that tag which
leads out of the heap. `Visit` greys them; at `Null` the process ends, and at
memory that is no block (`Stray`; also that of a freed block) it ends or finds a
bit set, nothing, or any words at all (`Found`). `AllocEmpty` is the array of no
elements, which is NULL and sits in a frame.

### ForeignCalls

What is active is a stack of frames, calls of C and exported functions, each
with its `gc`. `SafeCall` stores `saved_gc`; `Callback` starts an export there;
`ForeignCollects` scans up to it. Marking is one step: what is in the scanned
slots survives. `ForeignDynamic` adds the calls emitted without the store.

### StringTable

A string is a sequence of bytes, a chunk a function from offsets to bytes; what
`malloc` returns holds the value 256, which is no byte, so that anything read
before it was written would be noticed. Atoms are the code's numbers
(`MAKE_ATOM`). `stringtable_lookup` is one action up to its return or its call
of `hash_insert`; from there each bucket that is tried is one action (`Place`,
`Displace`), and so is each growth and each entry taken from the old table
(`grow_table`, `Reinsert`, `Resume`). `hash_insert` and `grow_table` call each
other, so `frames` is their call stack: the old table of each growth, the index
it has come to, and the entry its caller holds. `place` is the code's
`2 * i + j`. `NoMoreChunks` is `dieif`, for either of its reasons. The mutexes
make calls serial: one is under way at a time. The code keeps
`hsize` and uses only `HASHSIZE`, which is `1 << hsize`; the model keeps `HASHSIZE`,
which a growth doubles, and `InitSize` is `1 << INIT_SIZE`. Beyond `MaxSize` there
is no memory for another table: `calloc` returns NULL, nobody looks, and the
process ends at address 0 (`NoTable`).

The asserts of `StringTable_cbits.c` are no guards, since line 7 of the file sets
`NDEBUG`. What is looked up is what `toAtomIO` admits (`Admitted`: up to
`MAX_ENTRY_SIZE` = 256 bytes), and a length is stored in a byte, so that 256
becomes 0 (`LenByte`); `LengthFits` are the shorter strings. The bytes of the
longest ones are stored like all others, but no lookup finds them: `Answers`
compares the length asked for with the one stored. `atom_append` makes strings of
the instance, or runs over its buffer when the two are too long together
(`Overrun`), after which nothing is said.

`AtomSet` knows the pairs of string and atom returned so far; a string in `Kept`
gets the atom it has, any other a new one. `Kept` are the strings whose length
fits. The refinement maps an insertion to stuttering until it returns.

### Hashes and digests

TLC's integers have 32 bits and a sign, so `Word32` holds a word as two halves;
`Word32Bits` adds what needs the bits, so that the streaming interface does without them.
`Lookup3` separates `hashlittle`, `hashbig` and `hashword` (`Absorbed`: groups,
mixing, the last group) from how they read: by masked words (`Masked`), by half
words (`Halves`) or by bytes (`SingleBytes`), as the address, the byte order and
the build choose (`LittleAt`, `BigAt`): a key is first read into words, and the
words are then added and mixed. `hashlittle2` and `hashword2` are copies in the
source, and are transcribed on their own: with their own choice of path
(`Path2`), loops (`Block2`, `Loops2`) and switch (`Switch2`: `Masks2`,
`FallThrough2`, ...). All they share with the others is `mix`, `final` and the
meaning of a load, so that a slip in one copy alone makes them differ, which is
what `SameFunctions` is about. Memory is a function from addresses to bytes, so a read
past the key is a read of what `Surround` changes. `Md5` computes `md5_process`
as it is written; `Md5Stream` has the compression (`Process`) and the range of
a count (`CountLimit`) as parameters. `Digests` instantiates it with `md5_process` for
the digests of RFC 1321. `Md5Messages` is `md5lazyIO`: `Piece` is one `md5_append`,
`Finish` is `md5_finish`, and `Restart` is the next message, in new memory that holds
`Garbage`. `MCDigests` takes `Chain` for the compression, which collects the
blocks: the digest is then the padded message itself and can be compared with what
it should be, which two MD5 values would only suggest. Keys and messages share
nothing, and in `DigestsNext` one rests at its start while the other moves.

### Runtime

`pc` says whether C or Haskell code runs, or how the process ended. `standalone`
tells `main` of `jhc_rts.c` from a host that calls `hs_init` and `hs_exit` as it
likes. `next` and `prev` are the fields of every struct, also of those freed,
since `malloc` may give the same address again; `prev` is the address of a link
(`ListHead`, `NextOf`), as in `queue.h`. `order` is a history variable: the
live structs with their values, the newest in front, from which `Forgotten` takes
the one that is freed. The list
serves both the collector and this configuration; the allocator is that of
`_JHC_GC_NONE`.

## 3. Runs

| Run | Instance | What it shows |
|---|---|---|
| `collector` | 3 one-pointer entries, 1 CAF, 3 slots or 2 and a stable pointer, slack of 1, drained at the end | soundness of every pointer that may be followed, no stale scan, room on the grey stack while stable pointers fit in the slack, exactness of marking |
| `collector_heap` | 2 two-pointer entries, 1 CAF, 2 slots or 1 and a stable pointer, drained after each root | refinement of `LazyHeap`; collections end, or the program does |
| `slab` | caches of 2 and 4 entries, 3 bits per unit, 2 blocks, threshold 2 | counts, bits and entries agree; refinement of `EntryPool`; the allocation that collects gets its block |
| `slab_blocks` | two caches of 2 entries, 3 blocks | list discipline, `block_used`, trusted free blocks |
| `slab_best` | one cache of 4 entries, 3 blocks | violation, see 6 |
| `monolith` | 2 monoliths, 1 node, counts 200 and 300, raw memory of 300 words, 2 finalizers | list discipline, finalizers, what is held is not freed, termination |
| `monolith_lost` | 2 arrays of 300, 1 node | violation, see 6 |
| `foreign_calls` | 3 entries, 4 slots, nesting 6 | frames survive; `saved_gc` is high enough |
| `foreign_dynamic` | the same | violation, see 6 |
| `string_table` | 7 strings, `InitSize` 4 (`INIT_SIZE` 2), `MaxSize` 32, `DEPTH_LIMIT` 3, `MAX_ENTRY_SIZE` 3, 2 chunks of 12 bytes | no entry lost or doubled; bytes kept; order; refinement of `AtomSet`; insertions end, but for the fifth of one string |
| `digests` | keys of 0 to 26 bytes at 4 addresses in 6 builds; messages up to 260 bytes in pieces of 1 to 130 | hashes of the key only; the documented equalities; the state and the padded message exactly; the known values |
| `runtime` | 3 structs, 2 values, requests of 1, 9 and 32 bytes in 2 chunks of 32, `hs_init` nested twice | allocations apart; list walkable and links in agreement; set up once |

**Bounds.** `collector`: three entries hold a redirection, its value and a third
entry that reuses memory the stale words point to, which is the smallest case in
which a stale scan or a forgotten root is visible; three slots let a program
hold all of them while updating one. `StackGrow` is 1, not 1024: little enough
that a missing `stack_check` shows, and just enough for one stable pointer once a
CAF has been evaluated, so that `StablesFit` both holds and fails. One place is
enough for that; it counts as one of the `MaxStack` slots, and `ForeignWords = {2}`
asks for more room than one entry does. `collector_heap` has
entries of two words so that one can be redirected while the other is being
scanned. `slab`: one cache has one unit of bits and the other two, so the search
wraps around and `used[0] = 1` does and does not hit the unit with the excess
bits; two blocks change owners; the threshold is reached and doubled.
`slab_blocks` has a third block so that `best` is exchanged while blocks are on
both lists, and equal `num_entries`, the case in which a block's bits are reused
as they are. `monolith`: two blocks suffice to overwrite a link; 200 and 300
words lie on the two sides of the byte that is divided by. `foreign_calls`: six
activations are frame, call, export, frame, call, export, after which the nested
case repeats. `MaxStack`, `MaxBlocks`, `MaxFinalizers`, `MaxSlots` and `MaxCalls`
bound what the code leaves to memory. Node symmetry is used for invariants only,
never with liveness. `string_table`: the strings were chosen by their real
hashes (checked against `Lookup3` by an `ASSUME`) so that insertions displace,
reach the depth limit or meet their first entry again, and grow the table, in
some orders while another growth is under way, before any string has five
entries. "lkl", put together from "l" and "kl", is as long as `MaxEntry`, so its
length does not fit and it can be entered again and again; with `MaxSize = 32` the
table runs out of memory after three doublings. Strings fill one chunk to its
last byte, the second, and run out of chunks. `digests`: 26 bytes are two full
groups and a rest, so every length of the last group occurs first, second and
third; four addresses are all alignments; the pieces lie at, before and behind 56 and 64 bytes; with
`CountLimit = 1024` the low counter wraps after 128 bytes instead of 512 MB.
`runtime`: three structs are a first, a middle and a last; 1 and 9 bytes leave
a rest of every kind and 32 fill a chunk exactly. `MaxInits` and `MaxChunks`
bound what the code does not.

`CHECK_DEADLOCK FALSE` is said for `Collector` and `Monolith` (after a trap the
program has ended), `StringTable` (no chunks, no memory for a table, or a buffer
overrun), `Runtime` (the process may end) and `Digests` (a key has been seen at
every length and address).

**Fairness.** `Collector` and `Monolith` assume `WF(Collect)` and `Slab` assumes
`WF(Sweeping)`: the collector is a C function that returns to nobody until it is
done, if the program does not end below it. The mutator is never fair: a program
may stop allocating. In `Slab` the
start of the sweep is part of the fair actions, because marking ends
(`CollectionEnds` of `Collector`). `StringTable` assumes `WF(Inserting)`: a call
of `hash_insert` runs until it returns; nobody need ever make one. `ForeignCalls`
and `Runtime` state no liveness.

## 4. Proofs

`CollectorProofs`, for every heap, set of CAFs, size of entries, length of the
gc stack, slack, and both build modes, from the assumptions named in `Collector`
(nodes and CAFs are distinct, sizes are naturals):

- `Typing`: `[]TypeOK`
- `Safety`: `[]NoDangling`
- `StaleUnscanned`: `[]NeverScansStale`
- `GreyStackFits`: `[]GreyFits`

The invariant `IInv` adds to these what marking needs. *Tricolour*: grey entries
and the one being scanned have their bit set (`GreyUsed`); a black entry's words
are `Traced`, that is, they are no redirections and point to entries whose bit
is set (`BlackTraced`, and `CurTraced` for the words already passed). Roots and
slots passed are marked (`RootsMarked`, `SlotsMarked`). `IndMarked`: a
redirection that keeps its bit has a marked value; without it the sweep could
keep a redirection kept by a slot and reclaim what it redirects to. `Room` says
by how much the grey stack must exceed its length at each point between two
`stack_check`s, for the pushes that may come before the next one; it differs for
the two build modes, and holds where the stable pointers fit in the slack
(`StablesFit`, which no step of a collection changes). Each step lemma handles one
of these groups for all actions; when marking ends there are no grey entries,
every marked entry is black, and `SweepStep` concludes that what stays points
only to what stays.

`CollectorHeapProofs` extends it, from the same assumptions:

- `ExactMarking`: `[]MarksExactly`. One direction is `NoDangling`'s argument: what
  is marked when the roots are done is closed under edges, and `Reachable` is the
  least closed set. The other is `OnlyReachable`: no bit is set before its entry
  is known to be reachable. Writing a short-circuited field (`ScanWord`) changes
  no edge, since edges are read through redirections (`ReachableKept`), so the
  set does not move while it is marked. No induction along paths is needed:
  `Reachable` is defined by closure.
- `HeapRefinement`: `Spec => ImplementsLazyHeap`, one lemma per action. Updating a
  thunk is where the two heaps differ most: here one entry changes, there every
  pointer to it.

Both need `AtomsBare`, that an entry without pointers holds none: `gc_add_grey`
never pushes an atom, while edges and objects are read off the words of every entry.

`ForeignCallsProofs`, for any number of entries, slots and nested activations:

- `Typing`: `[]TypeOK`
- `FramesSurvive`: `[]FramesKept`
- `SavedCoversFrames`: `[]SavedAboveFrames`

Here `IInv` says that `gc` never falls from an activation to one it started
(`Nested`), that a frame is strictly above what started before it (`OwnSlot`),
and that `saved_gc` is at least the `gc` of *every* waiting call
(`SavedAboveCalls`): it may have been raised by calls nested deeper, and nothing
lowers it again, which is exactly what holds the argument together and what
the calls of `ForeignDynamic` break.

`SlabProofs`, for any set of caches, any number of blocks and any threshold, from
`GeometryAssumption` (see 5):

- `Typing`: `[]TypeOK`, in which `num_free` and `block_used` are naturals
- `CountsFree`, `BitsTell`: `[]FreeCountExact`, `[]BitsAreEntries`
- `ListsSorted`, `BlockOnce`: `[]ListsMatchCounts`, `[]EveryBlockOnce`
- `FreeListClean`, `CountsBlocks`: `[]FreeBlocksClean`, `[]BlockUsedExact`
- `FreshAlways`: `[]FreshEntry`
- `Refinement`: `Spec => ImplementsEntryPool`

Two of these are stated *between* collections only; `IInv` says what holds in the
middle of one. `Current` is the set of entries whose bits are to be set: those handed out
until `clear_used_bits`, those marked from then on. `BlockSound` ties the bits, the
count and `next_free` of a block to it. The bits past `num_entries` need care:
`clear_block_used_bits` sets them so that they are never found, the first
allocation from a block that was just initialised writes `used[0] = 1` over them, and
they come back with the next collection. `BlockSound` therefore lets them be
clear only in a block of one unit while the program runs, and `FoundFacts` shows
that `bitset_find_free` still finds an entry: of a unit that has both, the entry
comes first. `Sorting` says which caches `s_cleanup_blocks` has already sorted
(`Waiting` are the others), and `Shape` and `Owned` that the two lists of each
cache, the free list, the blocks still to be sorted and `best` share no block. In
the refinement every step but an allocation and the end of the sweep is a stutter.

`MonolithProofs`, for any monoliths, nodes and counts:

- `Typing`: `[]TypeOK`
- `NeverFreedTwice`: `[]ListedOnce`
- `Finalization`: `[]FinalizersRunOnFree`
- `RootsSurvive`: `Spec => RootsKept`, an action property

The code is wrong here (see 6.2) and the proofs show what is still right. The
first block that is kept ends the walk of the old list, since its link has been
overwritten; so the new list is empty as long as the old one is walked
(`OneList`), and no block can be met twice. For `RootsSurvive` it is enough that
`s_set_used_bit` finds a bit set or sets it: roots are in `used` or `grey` from
`clear_used_bits` to the end of the trace (`RootsMarked`), even those with a bit
left from an earlier collection. Whatever is found in memory that is no block, what
is greyed are `Words` (`FoundWords`), and no block of the list is touched.

`StringTableProofs`, for all strings `toAtomIO` admits (`StringsAssumption`), those of
`MaxEntry` bytes included, all hashes, every depth limit, initial size, bound of the
table, number and size of chunks. `SizesAssumption` says that chunk index and offset
fit into the bit fields of an atom and the longest entry into a chunk, as the
constants of the code do:

- `Typing`, `AtomsOnce`, `TextsKept`: `[]TypeOK`, `[]EveryAtomOnce`, `[]TextKept`
- `OneAtomEach`: two strings are equal if their atoms are, and only then if their
  length fits; equal strings of `MaxEntry` bytes have different atoms
- `Ordering`: `[]CompareOrders`, for the strings whose length fits
- `Refinement`: `Spec => ImplementsAtomSet`, where such strings keep their atom and the
  others get a new one at every lookup

`EveryAtomOnce` counts an atom wherever it can be while entries move: in the table,
in the hand of `hash_insert`, and, for every `grow_table` under way, in what it has
not yet taken from the old table and in the hand of its caller (`Spots`). `IInv`
adds that every entry in one of these spots is that of a string stored so far with
its hashes and the byte of its length (`EntriesOK`), and that those in the current
table are in one of the four buckets of their hashes (`InItsBucket`), which is where
the next lookup searches: without it a miss would not mean that the string is new,
and it would get a second atom. `StoredAt` says that the bytes of an atom end below
`next_free_offset`, or lie in a chunk that is closed. `memcmp` and the comparison of
sequences speak of the first place where two strings differ, which is there by a
lemma on least elements (`Least`, from the well-foundedness of the naturals), not by
induction.

`RuntimeProofs`, for every size of words and chunks (a chunk being whole words),
every set of requests that fit into a chunk, and any number of stable pointers:

- `Typing`: `[]TypeOK`, in which `mem_offset <= ChunkSize` is what the unsigned
  subtraction of `gc_none.c:60` needs. `AlignFits` says that an aligned request
  still fits into an empty chunk; it rests on the fact that between two
  multiples of the word there is a whole word (`NextMultiple`).
- `Disjointness`: `[]AllocsDisjoint`, from `BehindOffset`: everything handed out
  of the current chunk ends before `mem_offset`, and no later chunk is in use.
- `LinksStay`: `[]LinksAgree`, inductive with the types: each operation changes
  links around one struct only, so no induction along the list is needed.
- `ListStays`, `WalksTheList`: `[]WalkIsList`. `LinksAgree` alone allows a ring
  beside the list, so the invariant here is `ListIs`: `order` names the structs in
  the order of the links, forwards and backwards. `NewHead` and `Unlinked` show
  that `LIST_INSERT_HEAD` and `LIST_REMOVE` keep it. The walk is a recursive
  function; that it exists is shown by giving it (`At`), and that it is no other by
  looking at the first place where it would differ (`WalkAt`).
- `OneStart`: `[]SetUpOnce`, with the fact that Haskell code runs only while
  `hs_init_count` is positive.

`Md5MessagesProofs`, for every message of any length, every cut of it into pieces,
every compression of a block, whatever the new state held, and every `CountLimit` that is
a multiple of the 512 bits of a block (`CountAssumption`), of which 2^32 is one:

- `StateDependsOnMessage`: `[]StateOfMessage`
- `DigestDependsOnMessage`: `[]DigestOfMessage`
- `Appended`: `md5_append` takes the state of a message and a piece to that of
  the two together. This is the lemma both rest on; `Finished` uses it twice, for the
  padding and for the length.

The invariant is `Represents`: the counters hold the length, the registers are those
after all full blocks, and the buffer begins with the rest. It fixes only the bytes in
use, as `md5_append` leaves stale ones behind them. The registers are a recursive
function of the number of blocks. That the function exists is shown by giving it as
the limit of finite ones (`UptoExists`, `CompressedSteps`); that equal blocks give equal
registers, by induction (`SameBlocks`). `SetInduction` states induction with a set in the
place of a predicate, from the well-foundedness of the naturals. `CountAdds` shows
that two words with a carry count bits as one wide number would, and `LowCount`
that the low word alone tells how full the buffer is, however often it has wrapped.

Only model-checked: all liveness (`CollectionEnds` of `Collector`, `Slab` and
`Monolith`, and `InsertEnds`), which is beyond the prover; and `HashOfKeyOnly` and
`SameFunctions` of `Digests`, with the known values there, which compute with the
operators of `Bitwise`, which the prover cannot take. The three runs that show a
violation have nothing to prove.

## 5. Limits of the models

- `Alloc` fills an entry before anything else is allocated. Arrays allocated
  with an unknown value (`FromGrin2.hs:622`) are not modelled.
- In `Collector` raw words carry the tag of a value. `Monolith` has words that only
  look like pointers; that they are scanned (`gc_jgc.c:299`) is a fault of the code
  which its properties allow for: a collection may end the process, or keep what is
  garbage. What else is in the memory that a stray word leads to, and is written
  there, is not modelled.
- `Slab` assumes that a block has at least two entries and that `num_entries`
  is no multiple of the unit (`GeometryAssumption`), and so do its theorems.
  `RealGeometry` in `MCSlab` computes with the formula of `new_cache` that this
  is so for every size up to 169 words on 64 bit. Both can fail: the first for
  nodes of 170 words and more, the second on 32 bit for size 30, and then
  `bitset_find_free` or `num_free` misbehaves.
- A scan by `hs_perform_gc` with a `saved_gc` left high by a nested call also
  reads slots whose frames are gone. `FramesKept` is not affected; what such a
  slot points to may have been reclaimed.
- The collector never looks at the contents of a stable pointer as a root
  (`gc_jgc.c:147`), so a node held by one alone is reclaimed. The stable pointers of
  `Collector` hold values without a node (`NewStable`), of which nothing is lost. The
  words it follows from a struct lead to C memory or to what is marked already, not to
  an entry that is garbage, and what the bits it sets there overwrite is not
  modelled, but for the end of the program. Where `StablesFit` fails the grey stack
  runs over: the model lets the program end or go on as if the words lay elsewhere.
- `Runtime` takes requests that are neither empty nor larger than a chunk:
  `gc_none.c` tests for neither, and a larger one makes `mem_offset` exceed the
  chunk, after which the unsigned difference at line 60 is huge. It leaves out
  `_JHC_DEBUG` and `_JHC_PROFILE`, and the other users of the list.
- In `StringTable` a string of 256 bytes has, as in the code, no atom of its own: each
  lookup makes another one, which compares as the empty string, and the fifth
  insertion of one such string never ends, or ends the process when memory does
  (`InsertEnds` names this case). `StringTable_cbits.c:56` and `:74` would refuse it
  if the asserts were compiled. After `Overrun` nothing is said of `atom_append`.
- `Md5Messages` takes the length of a piece as it is: `MD5.hs` would turn one of
  2^31 bytes into a negative `CInt`. `Digests` leaves out the statistical tests
  `driver1` and `driver2` of `lookup3.c`.
- Not modelled: the option `_JHC_JGC_NAIVEGC`, profiling (counters nothing else
  reads), and `region.c` and `slub.c`, which no build uses (`slub.c` is commented
  out at `Grin/Main.hs:119`).
- Compiler passes are pure functions over large syntax trees; their correctness
  is a statement about programs and is out of TLC's reach.

## 6. Where code and documentation disagree

1. `slab_best`: the comment at `gc_jgc.c:441-447` says the block with the fewest
   free spots percolates to the front. After the exchange at 475-477
   `free_best` is taken from the demoted block, so with blocks of 3, 1 and 2
   free entries the one with 2 ends in front.
2. `monolith_lost`: `s_cleanup_blocks` loses all live monoliths but one
   (`gc_jgc.c:422-423`). Their used bit is never cleared again
   (`clear_used_bits`, 584-598, walks the list), so `s_set_used_bit` reports
   that they need no scan (600-602) and what only they point to is reclaimed. A
   dead foreign pointer behind a live monolith is for the same reason never
   finalized. What the program holds itself is still not freed under it, which
   `RootsKept` checks.
3. `foreign_dynamic`: calls through a function pointer (`FromGrin2.hs:709-713`)
   and calls with several results (567-574) do not store `saved_gc`, which
   `gc_jgc.h:48` requires to be set properly;
   `regress/tests/3_io/ExportImport.hs:17` makes such a call to an export.

## 7. Plan

Every safety property and refinement of a passing run is proved, but for the two of
`Digests`. Next, in this order:

1. A composition of `Collector` with `Slab`, in which an entry of the one is an entry
   of the other.
2. `Collector` extended by uninitialised arrays.
3. `Fixer` (rules, actions, nested `findFixpoint`) against the least solution;
   `UnionFind`, with `UnionSolve` on top, against the partition the unions make;
   `HoBuild`, the validity of cached `.ho` files while sources change.
