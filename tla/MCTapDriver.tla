------------------------------ MODULE MCTapDriver ------------------------------
(***************************************************************************)
(* TapDriver with the traffic of tools/gcs_make_sample.py.                 *)
(***************************************************************************)
EXTENDS TapDriver, GcsSample, TLC

CONSTANTS mac, peer_mac, bcast, zero_mac, ip, peer_ip, zero_ip,
          p_listen, p_peer, p_zero, p_closed, d_ping, d1, no_data

MCMacs == {mac, peer_mac, bcast, zero_mac}
MCIps == {ip, peer_ip, zero_ip}
MCPorts == {p_listen, p_peer, p_zero, p_closed}
MCData == {d_ping, d1, no_data}
MCLenOf == (d_ping :> 8) @@ (d1 :> 3) @@ (no_data :> 0)
MCTraffic == sample(p_peer, p_listen, p_closed, 6, Iss, d_ping, d1)
================================================================================
