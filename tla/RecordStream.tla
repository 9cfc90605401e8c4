----------------------------- MODULE RecordStream -----------------------------
(***************************************************************************)
(* What a runner relies on when it polls its transformed stream: the items *)
(* the source handed over come out one by one in the source's order, a     *)
(* record where the transform succeeded and an error where it or the       *)
(* source failed; the end comes out last, when every item has; and after   *)
(* the end, or once the runner has dropped the stream, nothing does.       *)
(***************************************************************************)
EXTENDS Integers, Sequences

VARIABLES
    handed,   \* items the source has handed over, numbered from 1
    out,      \* the numbers of the items that came out, in that order
    status    \* "open", "ended" or "dropped"

vars == <<handed, out, status>>

Init ==
    /\ handed = 0
    /\ out = << >>
    /\ status = "open"

HandOver ==
    /\ status = "open"
    /\ handed' = handed + 1
    /\ UNCHANGED <<out, status>>

ComeOut ==
    /\ status = "open"
    /\ Len(out) < handed
    /\ out' = Append(out, Len(out) + 1)
    /\ UNCHANGED <<handed, status>>

End ==
    /\ status = "open"
    /\ Len(out) = handed
    /\ status' = "ended"
    /\ UNCHANGED <<handed, out>>

Drop ==
    /\ status = "open"
    /\ status' = "dropped"
    /\ UNCHANGED <<handed, out>>

Next == HandOver \/ ComeOut \/ End \/ Drop

Spec == Init /\ [][Next]_vars
===============================================================================
