------------------------------- MODULE MCReplay -------------------------------
(***************************************************************************)
(* Replay of the sample capture, of every capture made of up to four       *)
(* frames of a session and a longest possible echo request, of those with  *)
(* a record at the end, or before the end, that the reader cannot use, and *)
(* of files that are no captures.  Seconds have three microseconds, a      *)
(* field of a stamp holds sixteen values, and the stamps of some captures  *)
(* run past their second, up to the last of these.                         *)
(***************************************************************************)
EXTENDS Replay, GcsSample, TLC

CONSTANTS mac, peer_mac, bcast, zero_mac, ip, peer_ip, zero_ip,
          p_listen, p_peer, p_zero, d_long, d1, no_data, p_closed

MCMacs == {mac, peer_mac, bcast, zero_mac}
MCIps == {ip, peer_ip, zero_ip}
MCPorts == {p_listen, p_peer, p_zero, p_closed}
MCData == {d_long, d1, no_data}
MCLenOf == (d_long :> 1472) @@ (d1 :> 3) @@ (no_data :> 0)

Sample == capture(sample(p_peer, p_listen, p_closed, 6, Iss, d_long, d1))
Record(i) == Sample.records[i]

Good == UNION {[1..n -> {Record(i) : i \in {2, 4, 6, 7}}] : n \in 0..4}

Oversize == [Record(4) EXCEPT !.incl = GCS_STACK_FRAME_CAP + 1]
Empty == [Record(4) EXCEPT !.incl = 0]
Cut == [Record(4) EXCEPT !.whole = FALSE]
Tails == {<<>>, <<Empty>>, <<Cut>>, <<Oversize, Record(4)>>}

\* A frame every two microseconds.
Stamped(records) ==
    [i \in 1..Len(records) |->
       [records[i] EXCEPT !.ts_sec = (2 * i) \div UsecPerSec,
                          !.ts_usec = (2 * i) % UsecPerSec]]

\* Stamps out of range, the fourth of them the last that fits the field.
Unchecked(records) ==
    [i \in 1..Len(records) |->
       [records[i] EXCEPT !.ts_sec = 0, !.ts_usec = StampMod - 5 + i]]

MCCaptures ==
    {Sample} \cup
    {[header |-> "native", records |-> Unchecked(good)] : good \in Good} \cup
    {[header |-> "native", records |-> Stamped(good \o tail)] : good \in Good, tail \in Tails} \cup
    {[header |-> header, records |-> <<>>] : header \in {"missing", "short", "foreign"}}
================================================================================
