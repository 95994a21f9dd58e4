------------------------------- MODULE Addresses -------------------------------
(***************************************************************************)
(* Addresses as text (src/gcs_types.c): sscanf reads them, snprintf writes *)
(* them.  A text is a sequence of characters, and a character the digit it *)
(* is in base 16, a separator, or any other.  Blanks, signs and the prefix *)
(* 0x, which sscanf takes before a number, do not occur.  A MAC address is *)
(* an array of octets, an IPv4 address a word that four of them are packed *)
(* into.                                                                   *)
(***************************************************************************)
EXTENDS Naturals, Sequences, SequencesExt

CONSTANT OctetMod           \* 2^8 in the code, what one octet holds

ASSUME OctetAssumption == OctetMod \in 16..256

\* v << 8, 16 or 24 is v times so much, and v >> 8, 16 or 24 is v divided by it; an
\* unsigned int, which sscanf fills, and a gcs_ipv4_t hold four octets.
Shift8 == OctetMod
Shift16 == OctetMod * OctetMod
Shift24 == (OctetMod * OctetMod) * OctetMod
UintMod == ((OctetMod * OctetMod) * OctetMod) * OctetMod

Dot == 16
Colon == 17
Other == 18

GCS_MAC_LEN == 6
-----------------------------------------------------------------------------
(***************************************************************************)
(* Reading.                                                                *)
(***************************************************************************)
\* The end of the run of digits that starts at p, and the number it writes.
RunEnd(text, p, base) ==
    CHOOSE e \in p..(Len(text) + 1) :
        /\ \A k \in p..(e - 1) : text[k] < base
        /\ e <= Len(text) => text[e] >= base

NumberAt(text, p, base) ==
    LET e == RunEnd(text, p, base)
        value[k \in p..e] ==
          IF k = p THEN 0 ELSE (value[k - 1] * base + text[k - 1]) % UintMod
    IN  value[e]

\* The n numbers sscanf reads with a separator between them, or nothing; what follows
\* the last of them is not looked at.
Scan(text, sep, base, n) ==
    LET found(p) == p > 0 /\ RunEnd(text, p, base) > p
        start[k \in 1..n] ==
          IF k = 1 THEN 1
          ELSE LET p == start[k - 1]
                   e == RunEnd(text, p, base)
               IN  IF found(p) /\ e <= Len(text) /\ text[e] = sep THEN e + 1 ELSE 0
    IN  IF found(start[n]) THEN [k \in 1..n |-> NumberAt(text, start[k], base)] ELSE <<>>

\* Numbers that are octets, or nothing.
Octets(numbers) ==
    IF numbers # <<>> /\ \A k \in 1..Len(numbers) : numbers[k] < OctetMod
    THEN numbers ELSE <<>>

gcs_mac_parse(text) == Octets(Scan(text, Colon, 16, GCS_MAC_LEN))

\* Mutant of Packed: the second octet is shifted as far as the third.
PackedLow(o) == (o[1] * Shift24 + o[2] * Shift8 + o[3] * Shift8 + o[4]) % UintMod

\* a << 24 | b << 16 | c << 8 | d: octets shifted apart have no bit in common, so | adds
\* them up.
Packed(o) == (o[1] * Shift24 + o[2] * Shift16 + o[3] * Shift8 + o[4]) % UintMod

\* The address, or nothing.
gcs_ipv4_parse(text) ==
    LET o == Octets(Scan(text, Dot, 10, 4)) IN IF o = <<>> THEN <<>> ELSE <<Packed(o)>>

\* atoi, and the cast of its result to uint16_t.
port_parse(text) == NumberAt(text, 1, 10) % 65536
-----------------------------------------------------------------------------
(***************************************************************************)
(* Writing.                                                                *)
(***************************************************************************)
Decimal(n) ==
    (IF n >= 100 THEN <<n \div 100>> ELSE <<>>)
      \o (IF n >= 10 THEN <<(n \div 10) % 10>> ELSE <<>>) \o <<n % 10>>

Hex(n) == <<n \div 16, n % 16>>

\* What snprintf leaves in a buffer of so many bytes, less the final zero.
Fit(text, cap) == SubSeq(text, 1, IF Len(text) < cap THEN Len(text) ELSE cap - 1)

gcs_mac_format(mac, cap) ==
    Fit(Hex(mac[1]) \o <<Colon>> \o Hex(mac[2]) \o <<Colon>> \o Hex(mac[3]) \o <<Colon>>
          \o Hex(mac[4]) \o <<Colon>> \o Hex(mac[5]) \o <<Colon>> \o Hex(mac[6]), cap)

\* (ip >> n) & 0xFF, four times.
gcs_ipv4_format(ip, cap) ==
    Fit(Decimal((ip \div Shift24) % OctetMod) \o <<Dot>>
          \o Decimal((ip \div Shift16) % OctetMod) \o <<Dot>>
          \o Decimal((ip \div Shift8) % OctetMod) \o <<Dot>> \o Decimal(ip % OctetMod), cap)

\* The octets of a word as they leave in a frame: the casts to uint8_t keep the lowest.
gcs_wr32be(v) ==
    <<(v \div Shift24) % OctetMod, (v \div Shift16) % OctetMod, (v \div Shift8) % OctetMod,
      v % OctetMod>>

\* The buffers of gcs_stack.c: char sip [16], smac [18].
SIP_CAP == 16
SMAC_CAP == 18
================================================================================
