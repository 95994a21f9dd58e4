------------------------------- MODULE TcpServer -------------------------------
(***************************************************************************)
(* What the stack promises on its TCP port, without frames, parsers or     *)
(* wire arithmetic: the automaton of docs/guide.md, section 6, and the     *)
(* stretch of the outgoing sequence space that goes out with each of its   *)
(* edges.  Offsets count from the SYN (offset 0): "next" is the first one  *)
(* not yet spoken for, and "said" what the last step sent.  One connection *)
(* in a lifetime; SYN and FIN take one offset each, an echo takes as many  *)
(* as it has bytes; no offset is skipped and none is sent twice.           *)
(***************************************************************************)
EXTENDS Integers

CONSTANT Mod                \* the sequence space: 2^32 in the code

VARIABLES phase, next, said

vars == <<phase, next, said>>

Nothing == [kind |-> "nothing", at |-> 0, len |-> 0]

Init ==
    /\ phase = "LISTEN"
    /\ next = 0
    /\ said = Nothing

Quiet == said' = Nothing /\ UNCHANGED next

Say(kind, n) ==
    /\ said' = [kind |-> kind, at |-> next, len |-> n]
    /\ next' = (next + n) % Mod

Accept ==
    /\ phase = "LISTEN" /\ phase' = "SYN_RECEIVED"
    /\ Say("SYN", 1)

Confirm ==
    /\ phase = "SYN_RECEIVED" /\ phase' = "ESTABLISHED"
    /\ Quiet

\* The length is whatever the step sends, as long as it sends something.
Echo ==
    /\ phase = "ESTABLISHED" /\ UNCHANGED phase
    /\ said'.len \in Nat /\ said'.len > 0
    /\ Say("DATA", said'.len)

Close ==
    /\ phase = "ESTABLISHED" /\ phase' = "LAST_ACK"
    /\ Say("FIN", 1)

Finish ==
    /\ phase = "LAST_ACK" /\ phase' = "CLOSED"
    /\ Quiet

\* A frame that is not for the connection, or that its phase has no use for.
Ignore == UNCHANGED phase /\ Quiet

Next == Accept \/ Confirm \/ Echo \/ Close \/ Finish \/ Ignore

Spec == Init /\ [][Next]_vars
================================================================================
