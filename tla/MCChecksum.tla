------------------------------ MODULE MCChecksum ------------------------------
(***************************************************************************)
(* Checksum with bytes of two bits: every message of four and of five      *)
(* bytes, and the longest ones all of whose bytes are the largest.         *)
(***************************************************************************)
EXTENDS Checksum

Short == {m \in UNION {[1..n -> ByteValue] : n \in 4..5} : m[3] = 0 /\ m[4] = 0}
Longest ==
    {[k \in 1..n |-> IF k \in {3, 4} THEN 0 ELSE Byte - 1] : n \in (Word - 2)..(Word - 1)}

MCMessages == Short \cup Longest
MCAddresses == {<<>>, <<0, 0, 0, 0>>, <<9, 6, 0, 3>>, <<15, 15, 15, 15>>}
===============================================================================
