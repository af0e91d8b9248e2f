----------------------------- MODULE CacheStore -----------------------------
(***************************************************************************)
(* What the tensor cache of an rpc-server promises its clients: a tensor   *)
(* that was stored whole stays whole, and a lookup answers with the tensor *)
(* it was asked for or with nothing.  A tensor may also be kept cut off at *)
(* its end; a later set_tensor replaces it.                                *)
(***************************************************************************)
CONSTANTS Tensor, Miss

VARIABLES
    kept,      \* tensor -> "none", "cut" or "whole"
    answer     \* what the last lookup returned: Miss, or <<tensor, form>>

Init == kept = [t \in Tensor |-> "none"] /\ answer = Miss
Store(t) == kept' = [kept EXCEPT ![t] = "whole"] /\ UNCHANGED answer
Cut(t) == kept[t] # "whole" /\ kept' = [kept EXCEPT ![t] = "cut"] /\ UNCHANGED answer
Drop(t) == kept[t] = "cut" /\ kept' = [kept EXCEPT ![t] = "none"] /\ UNCHANGED answer
Lookup(t) ==
    /\ answer' = IF kept[t] = "none" THEN Miss ELSE <<t, kept[t]>>
    /\ UNCHANGED kept

Next == \E t \in Tensor : Store(t) \/ Cut(t) \/ Drop(t) \/ Lookup(t)
Spec == Init /\ [][Next]_<<kept, answer>>
=============================================================================
