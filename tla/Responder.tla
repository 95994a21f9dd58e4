------------------------------- MODULE Responder -------------------------------
(***************************************************************************)
(* What the loops of both programs promise, whatever the stack does with a *)
(* frame: frames are taken one after another, and before the next is taken *)
(* the last is answered once, or given up.  An answer that goes out is one *)
(* to the frame in hand, not to an earlier one and not a second one.       *)
(***************************************************************************)
EXTENDS Sequences

CONSTANT Answers(_, _)      \* whether the second frame answers the first

VARIABLES
    taken, delivered,       \* the frames taken, and the answers that went out
    pending                 \* whether the last frame taken is still in hand

vars == <<taken, delivered, pending>>

Init == taken = <<>> /\ delivered = <<>> /\ pending = FALSE

Take ==
    /\ ~pending /\ pending' = TRUE
    /\ taken' # <<>> /\ taken' = Append(taken, taken'[Len(taken')])
    /\ UNCHANGED delivered

Deliver ==
    /\ pending /\ pending' = FALSE
    /\ delivered' # <<>> /\ delivered' = Append(delivered, delivered'[Len(delivered')])
    /\ Answers(taken[Len(taken)], delivered'[Len(delivered')])
    /\ UNCHANGED taken

\* No answer is due, or it is lost on its way out.
GiveUp ==
    /\ pending /\ pending' = FALSE
    /\ UNCHANGED <<taken, delivered>>

Next == Take \/ Deliver \/ GiveUp

Spec == Init /\ [][Next]_vars
================================================================================
