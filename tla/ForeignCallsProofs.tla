------------------------- MODULE ForeignCallsProofs -------------------------
(***************************************************************************)
(* For every number of slots, entries and nested calls: if each foreign    *)
(* call stores saved_gc, functions that get control back find their values *)
(* in their slots and alive.                                               *)
(***************************************************************************)
EXTENDS ForeignCalls, SequenceTheorems, TLAPS

Activation == [act : {"frame", "call", "export"}, gc : 0 .. MaxSlots,
               holds : Entries \cup {NoEntry}]

(* gc never falls from an activation to one it started.                    *)
Nested ==
    \A j, k \in DOMAIN active : j <= k => active[j].gc <= active[k].gc

(* A frame has its slot to itself: it is above all that started earlier.   *)
OwnSlot ==
    \A j, k \in DOMAIN active :
        j < k /\ active[k].act = "frame" => active[j].gc < active[k].gc

FrameSlots == \A k \in Frames : active[k].gc >= 1

(* saved_gc may be higher than where a waiting call left it, never lower.  *)
SavedAboveCalls ==
    \A k \in DOMAIN active : active[k].act = "call" => active[k].gc <= saved

IInv == TypeOK /\ Nested /\ OwnSlot /\ FrameSlots /\ SavedAboveCalls /\ FramesKept

-----------------------------------------------------------------------------
(* The stack of activations as a sequence.                                 *)
LEMMA ActiveFacts ==
    ASSUME TypeOK
    PROVE  /\ active \in Seq(Activation) /\ Len(active) \in Nat
           /\ DOMAIN active = 1 .. Len(active)
           /\ \A k \in DOMAIN active : active[k] \in Activation /\ active[k].gc \in 0 .. MaxSlots
           /\ active # << >> => Len(active) \in DOMAIN active
  <1>1. active \in Seq(Activation)
    BY DEF TypeOK, Activation
  <1>2. /\ Len(active) \in Nat /\ DOMAIN active = 1 .. Len(active)
        /\ active \in [1 .. Len(active) -> Activation]
    BY <1>1, LenProperties
  <1>3. active # << >> => Len(active) \in Nat \ {0}
    BY <1>1, EmptySeq
  <1>4. \A a \in Activation : a.gc \in 0 .. MaxSlots
    BY DEF Activation
  <1> QED
    BY <1>1, <1>2, <1>3, <1>4

(* The running activation is the last one, and the highest.                *)
LEMMA GcFacts ==
    ASSUME TypeOK
    PROVE  /\ Gc \in 0 .. MaxSlots
           /\ Nested => \A k \in DOMAIN active : active[k].gc <= Gc
  <1>1. CASE active = << >>
    BY <1>1, BoundsAssumption DEF Gc
  <1>2. CASE active # << >>
    BY <1>2, ActiveFacts DEF Gc, Nested
  <1> QED
    BY <1>1, <1>2

(* What a new activation must be for the stack to stay as it should be.    *)
LEMMA EnterStep ==
    ASSUME IInv, NEW a \in Activation, Enter(a),
           Gc <= a.gc, a.act = "frame" => Gc < a.gc,
           a.act = "call" => a.gc <= saved',
           saved' \in 0 .. MaxSlots, saved <= saved' \/ Gc <= saved'
    PROVE  /\ active' \in Seq(Activation)
           /\ (Nested /\ OwnSlot /\ FrameSlots /\ SavedAboveCalls)'
           /\ \A k \in Frames' : \/ k \in Frames /\ active'[k] = active[k]
                                 \/ active'[k] = a /\ a.act = "frame"
  <1>1. active \in Seq(Activation) /\ Len(active) \in Nat
    BY ActiveFacts DEF IInv
  <1>2. /\ active' \in Seq(Activation)
        /\ DOMAIN active' = 1 .. Len(active) + 1
        /\ \A k \in 1 .. Len(active) : active'[k] = active[k]
        /\ active'[Len(active) + 1] = a
    BY <1>1 DEF Enter
  <1>3. /\ DOMAIN active = 1 .. Len(active)
        /\ \A k \in 1 .. Len(active) : active[k] \in Activation /\ active[k].gc <= Gc
    BY ActiveFacts, GcFacts DEF IInv
  <1>4. Gc \in Nat /\ a.gc \in Nat /\ saved \in Nat
        /\ \A k \in 1 .. Len(active) : active[k].gc \in Nat
    BY <1>3, GcFacts DEF IInv, TypeOK, Activation
  <1>5. Nested'
    BY <1>1, <1>2, <1>3, <1>4 DEF IInv, Nested
  <1>6. OwnSlot'
    BY <1>1, <1>2, <1>3, <1>4 DEF IInv, OwnSlot
  <1>7. FrameSlots'
    BY <1>1, <1>2, <1>3, <1>4 DEF IInv, FrameSlots, Frames
  <1>8. SavedAboveCalls'
    BY <1>1, <1>2, <1>3, <1>4 DEF IInv, SavedAboveCalls
  <1>9. ASSUME NEW k \in Frames'
        PROVE  \/ k \in Frames /\ active'[k] = active[k]
               \/ active'[k] = a /\ a.act = "frame"
    <2>1. k \in 1 .. Len(active) + 1 /\ active'[k].act = "frame"
      BY <1>2 DEF Frames
    <2>2. k \in 1 .. Len(active) \/ k = Len(active) + 1
      BY <1>1, <2>1
    <2>3. CASE k \in 1 .. Len(active)
      BY <1>2, <1>3, <2>1, <2>3 DEF Frames
    <2>4. CASE k = Len(active) + 1
      BY <1>2, <2>1, <2>4
    <2> QED
      BY <2>2, <2>3, <2>4
  <1> QED
    BY <1>2, <1>5, <1>6, <1>7, <1>8, <1>9

(* An activation that ends takes nothing with it.                          *)
LEMMA LeaveStep ==
    ASSUME IInv, active # << >>, Leave, UNCHANGED <<slot, saved, live>>
    PROVE  IInv'
  <1>1. /\ active \in Seq(Activation) /\ Len(active) \in Nat \ {0}
        /\ DOMAIN active = 1 .. Len(active)
        /\ \A k \in 1 .. Len(active) : active[k] \in Activation
    BY ActiveFacts DEF IInv
  <1>2. /\ active' \in Seq(Activation)
        /\ DOMAIN active' = 1 .. Len(active) - 1
        /\ \A k \in 1 .. Len(active) - 1 : active'[k] = active[k]
    <2>1. /\ SubSeq(active, 1, Len(active) - 1) \in Seq(Activation)
          /\ Len(SubSeq(active, 1, Len(active) - 1)) = Len(active) - 1
          /\ \A k \in 1 .. Len(active) - 1 :
                SubSeq(active, 1, Len(active) - 1)[k] = active[k]
      BY <1>1, SubSeqProperties
    <2> QED
      BY <1>1, <2>1, LenProperties DEF Leave
  <1>3. TypeOK'
    BY <1>2 DEF IInv, TypeOK, Activation
  <1> QED
    BY <1>1, <1>2, <1>3 DEF IInv, Nested, OwnSlot, FrameSlots, SavedAboveCalls,
                            FramesKept, Frames

(* A collection that scans at least the slots of the active frames.        *)
LEMMA CollectStep ==
    ASSUME IInv, NEW top \in Nat, \A k \in Frames : active[k].gc <= top,
           live' = live \cap Scanned(top), UNCHANGED <<active, slot, saved>>
    PROVE  IInv'
  <1>1. TypeOK'
    BY DEF IInv, TypeOK
  <1>2. FramesKept'
    <2> SUFFICES ASSUME NEW k \in Frames
                 PROVE  slot[active[k].gc] = active[k].holds /\ active[k].holds \in live'
      BY DEF FramesKept, Frames
    <2>1. active[k].gc \in 1 .. top
      BY ActiveFacts DEF IInv, FrameSlots, Frames
    <2>2. slot[active[k].gc] = active[k].holds /\ active[k].holds \in live
      BY DEF IInv, FramesKept
    <2> QED
      BY <2>1, <2>2 DEF Scanned
  <1> QED
    BY <1>1, <1>2 DEF IInv, Nested, OwnSlot, FrameSlots, SavedAboveCalls, Frames

-----------------------------------------------------------------------------
LEMMA InitIInv == Init => IInv
  BY BoundsAssumption DEF Init, IInv, TypeOK, Nested, OwnSlot, FrameSlots,
                          SavedAboveCalls, FramesKept, Frames

LEMMA NextIInv == IInv /\ [Next]_vars => IInv'
  <1> SUFFICES ASSUME IInv, [Next]_vars PROVE IInv'
    OBVIOUS
  <1>0. /\ Gc \in 0 .. MaxSlots /\ saved \in 0 .. MaxSlots
        /\ \A k \in DOMAIN active : active[k].gc \in 0 .. MaxSlots /\ active[k].gc <= Gc
    BY ActiveFacts, GcFacts DEF IInv, TypeOK
  <1>1. ASSUME NEW e \in Entries, PushFrame(e) PROVE IInv'
    <2>1. Frame(e, Gc + 1) \in Activation /\ Gc + 1 \in 1 .. MaxSlots
      BY <1>0, <1>1, BoundsAssumption DEF PushFrame, Frame, Activation
    <2>2. /\ active' \in Seq(Activation)
          /\ (Nested /\ OwnSlot /\ FrameSlots /\ SavedAboveCalls)'
          /\ \A k \in Frames' : \/ k \in Frames /\ active'[k] = active[k]
                                \/ active'[k] = Frame(e, Gc + 1)
      BY <1>0, <1>1, <2>1, EnterStep DEF PushFrame, Frame
    <2>3. TypeOK'
      BY <1>1, <2>1, <2>2 DEF PushFrame, IInv, TypeOK, Activation
    <2>4. FramesKept'
      <3> SUFFICES ASSUME NEW k \in Frames'
                   PROVE  slot'[active'[k].gc] = active'[k].holds /\ active'[k].holds \in live'
        BY DEF FramesKept
      <3>1. CASE active'[k] = Frame(e, Gc + 1)
        BY <1>1, <2>1, <3>1 DEF PushFrame, Frame, IInv, TypeOK
      <3>2. CASE k \in Frames /\ active'[k] = active[k]
        <4>1. active[k].gc < Gc + 1
          BY <1>0, <3>2 DEF Frames
        <4> QED
          BY <1>0, <1>1, <2>1, <3>2, <4>1 DEF PushFrame, IInv, FramesKept, TypeOK, Frames
      <3> QED
        BY <2>2, <3>1, <3>2
    <2> QED
      BY <2>2, <2>3, <2>4 DEF IInv
  <1>2. CASE PopFrame \/ CallReturns \/ ExportReturns
    BY <1>2, LeaveStep DEF PopFrame, CallReturns, ExportReturns, InC
  <1>3. CASE HaskellCollects
    BY <1>0, <1>3, CollectStep DEF HaskellCollects, Frames
  <1>4. CASE SafeCall
    <2>1. Call(Gc) \in Activation
      BY <1>0 DEF Call, Activation
    <2>2. /\ active' \in Seq(Activation)
          /\ (Nested /\ OwnSlot /\ FrameSlots /\ SavedAboveCalls)'
          /\ \A k \in Frames' : k \in Frames /\ active'[k] = active[k]
      BY <1>0, <1>4, <2>1, EnterStep DEF SafeCall, SavedAtCall, Call
    <2> QED
      BY <1>0, <1>4, <2>2 DEF SafeCall, SavedAtCall, IInv, TypeOK, Activation, FramesKept
  <1>5. CASE Callback
    <2>1. Export(saved) \in Activation /\ Gc <= saved
      BY <1>0, <1>5 DEF Callback, InC, Export, Activation, IInv, TypeOK, SavedAboveCalls, Gc
    <2>2. /\ active' \in Seq(Activation)
          /\ (Nested /\ OwnSlot /\ FrameSlots /\ SavedAboveCalls)'
          /\ \A k \in Frames' : k \in Frames /\ active'[k] = active[k]
      BY <1>0, <1>5, <2>1, EnterStep DEF Callback, Export
    <2> QED
      BY <1>5, <2>2 DEF Callback, IInv, TypeOK, Activation, FramesKept
  <1>6. CASE ForeignCollects
    <2>1. Gc <= saved
      BY <1>6 DEF ForeignCollects, InC, IInv, TypeOK, SavedAboveCalls, Gc
    <2>2. \A k \in Frames : active[k].gc <= saved
      BY <1>0, <2>1 DEF Frames
    <2> QED
      BY <1>0, <1>6, <2>2, CollectStep DEF ForeignCollects
  <1>7. CASE UNCHANGED vars
    BY <1>7 DEF vars, IInv, TypeOK, Nested, OwnSlot, FrameSlots, SavedAboveCalls,
                FramesKept, Frames
  <1> QED
    BY <1>1, <1>2, <1>3, <1>4, <1>5, <1>6, <1>7 DEF Next

LEMMA Invariant == Spec => []IInv
  BY InitIInv, NextIInv, PTL DEF Spec

(* gc and saved_gc are always the top of slots gc_frame0 has made room     *)
(* for: no nesting of calls and exports raises either by itself.           *)
THEOREM Typing == Spec => []TypeOK
  BY Invariant, PTL DEF IInv

(* A function that gets control back, after any nesting of calls, exports  *)
(* and collections, finds its values in its slots and alive.               *)
THEOREM FramesSurvive == Spec => []FramesKept
  BY Invariant, PTL DEF IInv

(* While C runs, saved_gc is above every active frame.                     *)
THEOREM SavedCoversFrames == Spec => []SavedAboveFrames
  <1>1. IInv => SavedAboveFrames
    <2> SUFFICES ASSUME IInv, InC, NEW k \in Frames PROVE active[k].gc <= saved
      BY DEF SavedAboveFrames
    <2>1. Gc <= saved
      BY ActiveFacts DEF InC, IInv, SavedAboveCalls, Gc
    <2>2. active[k].gc <= Gc /\ active[k].gc \in Nat /\ Gc \in Nat /\ saved \in Nat
      BY ActiveFacts, GcFacts DEF IInv, TypeOK, Frames
    <2> QED
      BY <2>1, <2>2
  <1> QED
    BY <1>1, Invariant, PTL

=============================================================================
