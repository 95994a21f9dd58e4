------------------------------- MODULE Checksum -------------------------------
(***************************************************************************)
(* The checksum of RFC 1071 (src/gcs_checksum.c), step by step: the loop   *)
(* of gcs_checksum_accum over 16-bit words, its odd tail, and the folding  *)
(* of gcs_checksum_finish; run once by a writer, which puts the result in  *)
(* the field it left zero, and once by a reader, after the message crossed *)
(* the link, where one byte of it may change.  A message is an IPv4 header *)
(* or an ICMP message (no pseudo-header, the sum starts from 0) or a TCP   *)
(* segment (the addresses go into the seed).                               *)
(***************************************************************************)
EXTENDS Integers, Sequences

CONSTANTS
    Byte,                   \* 2^8 in the code
    FieldAt,                \* where the checksum is: 2 (ICMP), 10 (IPv4), 16 (TCP)
    Messages,               \* the messages written, their field zero
    Addresses,              \* the words of src and dst; <<>> without pseudo-header
    Protocol                \* GCS_IP_PROTO_TCP

Word == Byte * Byte         \* what uint16_t counts to
AccMod == Word * Word       \* what uint32_t counts to
ByteValue == 0..(Byte - 1)
WordValue == 0..(Word - 1)

\* An IPv4 datagram has at most 65535 bytes; the field lies on a word boundary.
ASSUME ChecksumAssumption ==
    /\ Byte \in Nat /\ Byte >= 4
    /\ FieldAt \in Nat /\ FieldAt % 2 = 0
    /\ Protocol \in WordValue
    /\ \A m \in Messages :
         /\ m \in Seq(ByteValue) /\ Len(m) \in (FieldAt + 2)..(Word - 1)
         /\ m[FieldAt + 1] = 0 /\ m[FieldAt + 2] = 0
    /\ \A a \in Addresses : a = <<>> \/ a \in [1..4 -> WordValue]

VARIABLES
    data, addrs,            \* the message, and the words of its two addresses
    side,                   \* "write", or "read" once it has crossed the link
    pc, i, sum,             \* gcs_checksum_accum: "accum", "fold" or "return"
    altered,                \* whether the link changed a byte
    accepted                \* the reader's verdict

vars == <<data, addrs, side, pc, i, sum, altered, accepted>>

gcs_pseudo_header_sum(a, len) ==
    IF a = <<>> THEN 0 ELSE a[1] + a[2] + a[3] + a[4] + Protocol + len

Init ==
    /\ data \in Messages /\ addrs \in Addresses
    /\ side = "write" /\ pc = "accum"
    /\ i = 0 /\ sum = gcs_pseudo_header_sum(addrs, Len(data))
    /\ altered = FALSE /\ accepted = FALSE
-----------------------------------------------------------------------------
\* The word at offset k; an odd tail is filled up with a zero byte on the right.
WordAt(bytes, k) ==
    bytes[k + 1] * Byte + (IF k + 2 <= Len(bytes) THEN bytes[k + 2] ELSE 0)

\* Mutant of AccumWord: the accumulator is as wide as a word.
AccumWordNarrow ==
    /\ pc = "accum" /\ i + 1 < Len(data)
    /\ sum' = (sum + WordAt(data, i)) % Word
    /\ i' = i + 2
    /\ UNCHANGED <<data, addrs, side, pc, altered, accepted>>

AccumWord ==
    /\ pc = "accum" /\ i + 1 < Len(data)
    /\ sum' = (sum + WordAt(data, i)) % AccMod
    /\ i' = i + 2
    /\ UNCHANGED <<data, addrs, side, pc, altered, accepted>>

\* Mutant of AccumTail: the odd byte is forgotten.
AccumTailForgotten ==
    /\ pc = "accum" /\ i + 1 >= Len(data)
    /\ pc' = "fold"
    /\ UNCHANGED <<data, addrs, side, sum, i, altered, accepted>>

AccumTail ==
    /\ pc = "accum" /\ i + 1 >= Len(data)
    /\ sum' = IF i < Len(data) THEN (sum + WordAt(data, i)) % AccMod ELSE sum
    /\ pc' = "fold"
    /\ UNCHANGED <<data, addrs, side, i, altered, accepted>>

\* Mutants of Fold: one fold is taken for enough; and the shift of the carries is missing.
FoldOnce ==
    /\ pc = "fold" /\ sum \div Word # 0
    /\ sum' = ((sum % Word) + (sum \div Word)) % Word
    /\ UNCHANGED <<data, addrs, side, pc, i, altered, accepted>>

FoldWithoutShift ==
    /\ pc = "fold" /\ sum \div Word # 0
    /\ sum' = (sum % Word) + Word * (sum \div Word)
    /\ UNCHANGED <<data, addrs, side, pc, i, altered, accepted>>

Fold ==
    /\ pc = "fold" /\ sum \div Word # 0
    /\ sum' = (sum % Word) + (sum \div Word)
    /\ UNCHANGED <<data, addrs, side, pc, i, altered, accepted>>

\* What gcs_checksum_finish returns once the loop is over: ~sum in 16 bits.
Complement == Word - 1 - sum

Finished == pc = "fold" /\ sum \div Word = 0

\* The writer stores the result big end first; the message is ready to go.
Insert ==
    /\ side = "write" /\ Finished
    /\ data' = [data EXCEPT ![FieldAt + 1] = Complement \div Byte,
                            ![FieldAt + 2] = Complement % Byte]
    /\ pc' = "return"
    /\ UNCHANGED <<addrs, side, i, sum, altered, accepted>>

\* The link delivers the message with at most one byte of it, or of the addresses it
\* came with, changed, and the reader starts its sum.
Deliver ==
    /\ side = "write" /\ pc = "return"
    /\ \/ UNCHANGED <<data, addrs, altered>>
       \/ /\ \E k \in 1..Len(data), b \in ByteValue :
               b # data[k] /\ data' = [data EXCEPT ![k] = b]
          /\ altered' = TRUE /\ UNCHANGED addrs
       \/ /\ addrs # <<>>
          /\ \E k \in 1..4, b \in ByteValue :
               \/ /\ b # addrs[k] % Byte
                  /\ addrs' = [addrs EXCEPT ![k] = (@ \div Byte) * Byte + b]
               \/ /\ b # addrs[k] \div Byte
                  /\ addrs' = [addrs EXCEPT ![k] = (b * Byte) + (@ % Byte)]
          /\ altered' = TRUE /\ UNCHANGED data
    /\ side' = "read" /\ pc' = "accum"
    /\ i' = 0 /\ sum' = gcs_pseudo_header_sum(addrs', Len(data))
    /\ UNCHANGED accepted

\* gcs_ipv4_checksum_valid, gcs_tcp_checksum_valid, gcs_icmp_parse_echo.
Verify ==
    /\ side = "read" /\ Finished
    /\ accepted' = (Complement = 0)
    /\ pc' = "return"
    /\ UNCHANGED <<data, addrs, side, i, sum, altered>>

Done == side = "read" /\ pc = "return" /\ UNCHANGED vars

Next ==
    \/ AccumWord \/ AccumTail \/ Fold
    \/ Insert \/ Deliver \/ Verify \/ Done

Spec == Init /\ [][Next]_vars /\ WF_vars(Next)
-----------------------------------------------------------------------------
(***************************************************************************)
(* Properties.                                                             *)
(***************************************************************************)
\* The sum of the first k words of a message without any machine arithmetic.
WordSum(bytes, k) ==
    LET first[j \in Nat] ==
            IF j = 0 THEN 0 ELSE first[j - 1] + WordAt(bytes, 2 * (j - 1))
    IN  first[k]

\* The sum of the seed and of the words that begin before offset n.
Total(n) == gcs_pseudo_header_sum(addrs, Len(data)) + WordSum(data, (n + 1) \div 2)

\* The 32-bit accumulator holds the exact sum to the end of the loop: no carry is
\* lost before the folding, at any length an IPv4 datagram can have.
AccumExact == pc = "accum" => sum = Total(i)

\* The reader's verdict is that of ones' complement arithmetic: the words sum up to
\* a multiple of 2^16 - 1, and are not all zero.
VerdictIsOnesComplement ==
    side = "read" /\ pc = "return" =>
        (accepted <=> Total(Len(data)) # 0 /\ Total(Len(data)) % (Word - 1) = 0)

\* What the writers produce the readers accept; with one byte changed, be it the odd
\* last one, one of the field itself or of the addresses, they refuse it.
OneByteDetected ==
    side = "read" /\ pc = "return" => (accepted <=> ~altered)

\* The folding loop ends, so that both ends return.
Returns == <>(side = "read" /\ pc = "return")
===============================================================================
