----------------------------- MODULE EntryPool -----------------------------
(***************************************************************************)
(* What s_alloc promises: the memory it returns overlaps nothing that was  *)
(* handed out before and has not been reclaimed since; and memory is       *)
(* reclaimed only by a collection, which may take any part of it (the part *)
(* module Collector shows to be unreachable).                              *)
(*                                                                         *)
(* An entry is a place in a block together with the cache it was cut for,  *)
(* because caches of different sizes cut the same block differently.       *)
(***************************************************************************)
CONSTANTS Entries, Overlap(_, _)

VARIABLE held       \* the entries handed out and not reclaimed

Init == held = {}

Reclaim == held' \subseteq held

(* A collection run by s_alloc ends together with the allocation, so other *)
(* entries may be reclaimed in the same step.                              *)
HandOut(e) ==
    /\ e \in held'
    /\ held' \ {e} \subseteq held
    /\ \A h \in held' \ {e} : ~Overlap(h, e)

Next == Reclaim \/ \E e \in Entries \ held : HandOut(e)

Spec == Init /\ [][Next]_held

=============================================================================
