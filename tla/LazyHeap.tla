------------------------------ MODULE LazyHeap ------------------------------
(***************************************************************************)
(* What a compiled jhc program may assume of its heap: that of a lazy      *)
(* language with a garbage collector nobody notices.                       *)
(*                                                                         *)
(* Nothing is ever redirected here.  When a thunk has been evaluated, its  *)
(* value takes its place everywhere at once and the thunk is gone; and an  *)
(* object disappears only when the program has no way left to reach it.    *)
(* Collector implements this heap with redirections that are followed, and *)
(* removed, step by step (the refinement is stated in module Collector).   *)
(***************************************************************************)
EXTENDS Naturals, Sequences

CONSTANTS Nodes, Cafs, NoNode, MaxPtrs, MaxStack

Raw     == [tag |-> "value", to |-> NoNode]
Code    == [tag |-> "func",  to |-> NoNode]
Whnf(n) == [tag |-> "whnf", to |-> n]
Lazy(n) == [tag |-> "lazy", to |-> n]

Ptrs == 1 .. MaxPtrs
NoFields == [p \in Ptrs |-> Raw]

VARIABLES
    obj,        \* what each node is: free, atom, con or thunk
    field,      \* the words of a con or a thunk
    caf,        \* the value of each CAF, or Code
    stack       \* the values the program holds

hvars == <<obj, field, caf, stack>>

Init ==
    /\ obj = [n \in Nodes |-> "free"]
    /\ field = [n \in Nodes |-> NoFields]
    /\ caf = [c \in Cafs |-> Code]
    /\ stack = << >>

Slots == DOMAIN stack
Evaluated(v) == v.tag \in {"value", "whnf"}

Push(v) == Len(stack) < MaxStack /\ stack' = Append(stack, v)

Drop(s) ==
    /\ stack' = [t \in 1 .. Len(stack) - 1 |->
                    IF t < s THEN stack[t] ELSE stack[t + 1]]
    /\ UNCHANGED <<obj, field, caf>>

New(n, k, f) ==
    /\ obj[n] = "free"
    /\ \A p \in Ptrs : f[p] = Raw \/ \E s \in Slots : f[p] = stack[s]
    /\ Push(IF k = "thunk" THEN Lazy(n) ELSE Whnf(n))
    /\ obj' = [obj EXCEPT ![n] = k]
    /\ field' = [field EXCEPT ![n] = f]
    /\ UNCHANGED caf

Load(s, p) ==
    /\ stack[s].to \in Nodes
    /\ obj[stack[s].to] \in {"con", "thunk"}
    /\ Push(field[stack[s].to][p])
    /\ UNCHANGED <<obj, field, caf>>

Store(s, p, t) ==
    /\ stack[s].to \in Nodes
    /\ obj[stack[s].to] \in {"con", "thunk"}
    /\ field' = [field EXCEPT ![stack[s].to][p] = stack[t]]
    /\ UNCHANGED <<obj, caf, stack>>

(* A value with no object behind it, such as a constant.                   *)
Constant == Push(Raw) /\ UNCHANGED <<obj, field, caf>>

(* Asking for the value of what is already a value.                        *)
Copy(s) == Push(stack[s]) /\ UNCHANGED <<obj, field, caf>>

(* The static name of a CAF means its value once it has one.               *)
Name(c) ==
    /\ Push(IF caf[c] = Code THEN Lazy(c) ELSE caf[c])
    /\ UNCHANGED <<obj, field, caf>>

(* v takes the place of the thunk x everywhere.                            *)
Subst(x, v, w) == IF w = Lazy(x) THEN v ELSE w

(* The thunk x has been evaluated to v.                                    *)
Become(x, v) ==
    /\ Evaluated(v)
    /\ stack' = [s \in Slots |-> Subst(x, v, stack[s])]
    /\ field' = [n \in Nodes |->
                    IF n = x THEN NoFields
                    ELSE [p \in Ptrs |-> Subst(x, v, field[n][p])]]

EvalThunk(x, v) ==
    /\ x \in Nodes
    /\ obj[x] = "thunk"
    /\ Become(x, v)
    /\ obj' = [obj EXCEPT ![x] = "free"]
    /\ UNCHANGED caf

EvalCaf(c, v) ==
    /\ caf[c] = Code
    /\ Become(c, v)
    /\ caf' = [caf EXCEPT ![c] = v]
    /\ UNCHANGED obj

(* Objects are reclaimed: what is kept is closed under the words of what   *)
(* is kept, and holds everything the program names.                        *)
Reclaim ==
    \E keep \in SUBSET {n \in Nodes : obj[n] # "free"} :
        /\ \A s \in Slots : stack[s].to \in Nodes => stack[s].to \in keep
        /\ \A c \in Cafs : caf[c].to \in Nodes => caf[c].to \in keep
        /\ \A n \in keep, p \in Ptrs :
              field[n][p].to \in Nodes => field[n][p].to \in keep
        /\ obj' = [n \in Nodes |-> IF n \in keep THEN obj[n] ELSE "free"]
        /\ field' = [n \in Nodes |-> IF n \in keep THEN field[n] ELSE NoFields]
        /\ UNCHANGED <<caf, stack>>

Next ==
    \/ Constant
    \/ \E s \in Slots : Drop(s) \/ Copy(s)
    \/ \E n \in Nodes, k \in {"atom", "con", "thunk"},
          f \in [Ptrs -> {Raw} \cup {stack[s] : s \in Slots}] : New(n, k, f)
    \/ \E s \in Slots, p \in Ptrs : Load(s, p)
    \/ \E s, t \in Slots, p \in Ptrs : Store(s, p, t)
    \/ \E c \in Cafs : Name(c)
    \/ \E s, t \in Slots : EvalThunk(stack[s].to, stack[t])
    \/ \E c \in Cafs, t \in Slots : EvalCaf(c, stack[t])
    \/ Reclaim

Spec == Init /\ [][Next]_hvars

=============================================================================
