---------------------------- MODULE ForeignCalls ----------------------------
(***************************************************************************)
(* The gc stack across the foreign function interface.  Compiled functions *)
(* get the top of the gc stack as an argument, gc; C code in between does  *)
(* not pass it on, so it is kept in the global saved_gc: a call of a named *)
(* safe import stores it there (FromGrin2.hs), and a foreign export and    *)
(* hs_perform_gc take it from there.                                       *)
(*                                                                         *)
(* One thread runs, so what is active is a stack of frames (gc_frame0),    *)
(* foreign calls and exported functions.  Module ForeignDynamic adds the   *)
(* calls that do not store saved_gc.                                       *)
(***************************************************************************)
EXTENDS Naturals, Sequences

CONSTANTS
    Entries,        \* entries of the collected heap
    NoEntry,        \* what a slot holds that was never written
    MaxSlots,       \* bound: slots of the gc stack
    MaxCalls        \* bound: calls and frames active at once

ASSUME BoundsAssumption == MaxSlots \in Nat /\ MaxCalls \in Nat
ASSUME EntriesAssumption == NoEntry \notin Entries

VARIABLES
    active,         \* what is active, the oldest first
    slot,           \* gc_stack_base[]
    saved,          \* saved_gc, as a number of slots
    live            \* the entries that are allocated

vars == <<active, slot, saved, live>>

Frame(e, top)  == [act |-> "frame", gc |-> top, holds |-> e]
Call(top)      == [act |-> "call", gc |-> top, holds |-> NoEntry]
Export(top)    == [act |-> "export", gc |-> top, holds |-> NoEntry]

Init ==
    /\ active = << >>
    /\ slot = [i \in 1 .. MaxSlots |-> NoEntry]
    /\ saved = 0
    /\ live = {}

(* The gc of the innermost activation, which is the running one.           *)
Gc == IF active = << >> THEN 0 ELSE active[Len(active)].gc

InC == active # << >> /\ active[Len(active)].act = "call"

Enter(a) == Len(active) < MaxCalls /\ active' = Append(active, a)
Leave    == active' = SubSeq(active, 1, Len(active) - 1)

Frames == {k \in DOMAIN active : active[k].act = "frame"}
Held   == {active[k].holds : k \in Frames}

-----------------------------------------------------------------------------
(* Compiled code.                                                          *)

(* gc_frame0: a value, just allocated or at hand, goes into a new slot.    *)
PushFrame(e) ==
    /\ ~InC
    /\ e \in Held \/ e \notin live
    /\ Gc < MaxSlots
    /\ Enter(Frame(e, Gc + 1))
    /\ slot' = [slot EXCEPT ![Gc + 1] = e]
    /\ live' = live \cup {e}
    /\ UNCHANGED saved

PopFrame ==
    /\ active # << >> /\ active[Len(active)].act = "frame"
    /\ Leave
    /\ UNCHANGED <<slot, saved, live>>

(* Only the entries in slots below gc survive (module Collector).          *)
Scanned(top) == {slot[i] : i \in 1 .. top}

HaskellCollects ==
    /\ ~InC
    /\ live' = live \cap Scanned(Gc)
    /\ UNCHANGED <<active, slot, saved>>

-----------------------------------------------------------------------------
(* Foreign calls.                                                          *)

(* Faulty variants: the newest slot is not counted, or one too many.       *)
SavedAtCallLower  == IF Gc = 0 THEN 0 ELSE Gc - 1
SavedAtCallHigher == Gc + 1

(* saved_gc = gc before the call of a named function.                      *)
SavedAtCall == Gc

SafeCall ==
    /\ ~InC
    /\ Enter(Call(Gc))
    /\ saved' = SavedAtCall
    /\ UNCHANGED <<slot, live>>

CallReturns ==
    /\ InC
    /\ Leave
    /\ UNCHANGED <<slot, saved, live>>

(* C calls a foreign export, whose wrapper passes saved_gc.                *)
Callback ==
    /\ InC
    /\ Enter(Export(saved))
    /\ UNCHANGED <<slot, saved, live>>

ExportReturns ==
    /\ active # << >> /\ active[Len(active)].act = "export"
    /\ Leave
    /\ UNCHANGED <<slot, saved, live>>

(* C calls hs_perform_gc, or allocates with gc_new_foreignptr.             *)
ForeignCollects ==
    /\ InC
    /\ live' = live \cap Scanned(saved)
    /\ UNCHANGED <<active, slot, saved>>

Next ==
    \/ \E e \in Entries : PushFrame(e)
    \/ PopFrame \/ HaskellCollects
    \/ SafeCall \/ CallReturns
    \/ Callback \/ ExportReturns \/ ForeignCollects

Spec == Init /\ [][Next]_vars

-----------------------------------------------------------------------------
(* Properties.                                                             *)

(* The stack of activations and the gc stack are well formed; gc never     *)
(* points past the slots there are.                                        *)
TypeOK ==
    /\ active \in Seq([act : {"frame", "call", "export"}, gc : 0 .. MaxSlots,
                       holds : Entries \cup {NoEntry}])
    /\ slot \in [1 .. MaxSlots -> Entries \cup {NoEntry}]
    /\ saved \in 0 .. MaxSlots
    /\ live \subseteq Entries

(* Whatever runs in between, a frame that is still active holds in its     *)
(* slot what its function put there, and that entry was not reclaimed: a   *)
(* function that gets control back finds its values alive.                 *)
FramesKept ==
    \A k \in Frames : /\ slot[active[k].gc] = active[k].holds
                      /\ active[k].holds \in live

(* While C runs, saved_gc is above every active frame: an export starts    *)
(* its frames, and a collection its scan, no lower than that.              *)
SavedAboveFrames == InC => \A k \in Frames : active[k].gc <= saved

=============================================================================
