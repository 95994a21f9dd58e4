------------------------------ MODULE GcsSample ------------------------------
(***************************************************************************)
(* The frames of tools/gcs_make_sample.py: what a client on the link sends *)
(* to the stack, addresses and paddings as the script writes them.         *)
(***************************************************************************)
EXTENDS GcsFrames, Sequences

CONSTANTS
    CLIENT_MAC, STACK_MAC, CLIENT_IP, STACK_IP,
    ZERO_MAC,               \* b'\x00' * 6, the target nobody knows yet
    LenOf                   \* the length of each payload

\* eth(): Ethernet demands 60 bytes without the FCS.
Padded(n) == IF n < 60 THEN 60 ELSE n

\* The stack looks at no identification, so all are 0.
ipv4(proto, n) ==
    [version |-> 4, ihl |-> 20, total_len |-> 20 + n, id |-> 0, sum_ok |-> TRUE,
     protocol |-> proto, src |-> CLIENT_IP, dst |-> STACK_IP]

arp_request ==
    [len |-> Padded(42), dst |-> Broadcast, src |-> CLIENT_MAC, ethertype |-> "ARP",
     arp |-> [hw_type |-> "ethernet", proto_type |-> "IPv4", hw_len |-> 6,
              proto_len |-> 4, opcode |-> "request", sender_mac |-> CLIENT_MAC,
              sender_ip |-> CLIENT_IP, target_mac |-> ZERO_MAC,
              target_ip |-> STACK_IP]]

icmp_echo(data) ==
    [len |-> Padded(42 + LenOf[data]), dst |-> STACK_MAC, src |-> CLIENT_MAC,
     ethertype |-> "IPv4", ip |-> ipv4("ICMP", 8 + LenOf[data]),
     icmp |-> [type |-> "echo_request", code |-> 0, sum_ok |-> TRUE, data |-> data]]

tcp(sport, dport, seq, ack, flags, data) ==
    [len |-> Padded(54 + LenOf[data]), dst |-> STACK_MAC, src |-> CLIENT_MAC,
     ethertype |-> "IPv4", ip |-> ipv4("TCP", 20 + LenOf[data]),
     tcp |-> [src_port |-> sport, dst_port |-> dport, seq |-> seq, ack |-> ack,
              data_offset |-> 20, flags |-> flags, sum_ok |-> TRUE, data |-> data]]

\* main(): ARP, two echo requests and a session that does not wait for the echo.
sample(sport, dport, closed_port, iss, stack_iss, ping, payload) ==
    LET at(k) == ToSeq(iss + 1 + k)
        ack == ToSeq(stack_iss + 1)
    IN  << arp_request, icmp_echo(ping), icmp_echo(ping),
           tcp(sport, dport, iss, 0, {"SYN"}, NoData),
           tcp(sport, dport, at(0), ack, {"ACK"}, NoData),
           tcp(sport, dport, at(0), ack, {"PSH", "ACK"}, payload),
           tcp(sport, dport, at(LenOf[payload]), ack, {"FIN", "ACK"}, NoData),
           tcp(sport, closed_port, ToSeq(iss + 2), 0, {"SYN"}, NoData) >>

\* main(): the file, in the byte order of the machine, a frame a second.
capture(frames) ==
    [header |-> "native",
     records |-> [i \in 1..Len(frames) |->
                    [incl |-> frames[i].len, whole |-> TRUE, ts_sec |-> i - 1,
                     ts_usec |-> 0, frame |-> frames[i]]]]
================================================================================
