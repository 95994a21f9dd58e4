----------------------------- MODULE MCTcpSession -----------------------------
(***************************************************************************)
(* TcpSession with a script of four chunks, and sequence numbers that     *)
(* wrap around in the middle of it on both sides.                          *)
(***************************************************************************)
EXTENDS TcpSession

CONSTANTS mac, peer_mac, bcast, zero_mac, ip, peer_ip, zero_ip,
          p_listen, p_peer, p_zero, p_closed, d1, d2, d3, no_data

MCMacs == {mac, peer_mac, bcast, zero_mac}
MCIps == {ip, peer_ip, zero_ip}
MCPorts == {p_listen, p_peer, p_zero, p_closed}
MCData == {d1, d2, d3, no_data}
MCChunks == <<d1, d2, d3, d1>>
MCLenOf == (d1 :> 1) @@ (d2 :> 2) @@ (d3 :> 1) @@ (no_data :> 0)
MCPeerIsses == {5, 13}

Reliable == [window |-> 3, lost_requests |-> 0, lost_replies |-> 0, doubled |-> 0,
             repeated |-> 0, swapped |-> 0, restarts |-> 0]
OneByOne == [Reliable EXCEPT !.window = 1]

MCLinks ==
    {Reliable,
     [Reliable EXCEPT !.doubled = 1],
     [OneByOne EXCEPT !.lost_requests = 2, !.lost_replies = 1],
     [OneByOne EXCEPT !.lost_requests = 1, !.doubled = 2, !.swapped = 1],
     [OneByOne EXCEPT !.lost_requests = 1, !.doubled = 1, !.swapped = 1, !.restarts = 1],
     [OneByOne EXCEPT !.lost_requests = 1, !.doubled = 1, !.repeated = 2]}

PipelinedLoss == {[Reliable EXCEPT !.window = 2, !.lost_requests = 1]}
LostReply == {[OneByOne EXCEPT !.lost_replies = 1]}
================================================================================
