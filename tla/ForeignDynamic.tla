--------------------------- MODULE ForeignDynamic ---------------------------
(***************************************************************************)
(* ForeignCalls with the calls for which FromGrin2.hs emits no store of    *)
(* saved_gc: those through a function pointer (a foreign import "dynamic") *)
(* and those of a function with more than one result.                      *)
(***************************************************************************)
EXTENDS ForeignCalls

DynamicCall ==
    /\ ~InC
    /\ Enter(Call(Gc))
    /\ UNCHANGED <<slot, saved, live>>

DynamicNext == Next \/ DynamicCall

DynamicSpec == Init /\ [][DynamicNext]_vars

=============================================================================
