------------------------------ MODULE EchoService ------------------------------
(***************************************************************************)
(* What a client may expect of the TCP port, without segments, sequence    *)
(* numbers or a link: it writes payloads, each comes back once and in the  *)
(* order of writing, and the session closes after the last has come back.  *)
(* A client that starts anew has written nothing and gets nothing that it  *)
(* did not write itself.                                                   *)
(***************************************************************************)
EXTENDS Naturals, Sequences

CONSTANT Payloads

VARIABLES written, echoed, closed

vars == <<written, echoed, closed>>

Init == written = <<>> /\ echoed = <<>> /\ closed = FALSE

Write ==
    /\ ~closed
    /\ \E payload \in Payloads : written' = Append(written, payload)
    /\ UNCHANGED <<echoed, closed>>

Echo ==
    /\ ~closed /\ Len(echoed) < Len(written)
    /\ echoed' = Append(echoed, written[Len(echoed) + 1])
    /\ UNCHANGED <<written, closed>>

Close ==
    /\ ~closed /\ echoed = written
    /\ closed' = TRUE
    /\ UNCHANGED <<written, echoed>>

StartAnew == written' = <<>> /\ echoed' = <<>> /\ closed' = FALSE

Next == Write \/ Echo \/ Close \/ StartAnew

Spec == Init /\ [][Next]_vars
================================================================================
