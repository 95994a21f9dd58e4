------------------------------- MODULE MCStartup -------------------------------
(***************************************************************************)
(* Startup with up to three groups on a command line, and addresses made   *)
(* of the smallest and the greatest octets and of ones that are too great. *)
(* An octet has seven bits, so that a word of four fits TLC's integers.    *)
(***************************************************************************)
EXTENDS Startup, TLC

\* An address as the log prints it, and one that a user types.
Logged(octets) == Value(gcs_ipv4_format(Packed(octets), SIP_CAP), octets)
Typed(o) ==
    Value(Decimal(o[1]) \o <<Dot>> \o Decimal(o[2]) \o <<Dot>> \o Decimal(o[3])
            \o <<Dot>> \o Decimal(o[4]), o)
MacWord(octets) == Value(gcs_mac_format(octets, SMAC_CAP), octets)
Port(n) == Value(Decimal(n), <<n>>)
Word == Value(<<Other>>, <<>>)

MCDefault ==
    [opt \in {"--in", "--out"} |-> NoWord] @@ ("--dev" :> Word)
      @@ ("--ip" :> Typed(<<10, 0, 0, 2>>)) @@ ("--mac" :> MacWord(<<10, 0, 0, 0, 0, 2>>))
      @@ ("--port" :> Value(<<8, 0, 8, 0>>, <<8080>>))

\* Octets at the boundaries and beyond, in each place; one number is no address.
IpWords ==
    {Logged(o) : o \in {<<127, 127, 127, 127>>, <<7, 99, 100, 0>>}}
      \cup {Typed(o) : o \in {<<127, 1, 0, 100>>, <<10, 0, 128, 2>>, <<128, 0, 0, 1>>,
                              <<0, 0, 0, 128>>}} \cup {Value(<<9>>, <<9>>)}
MacWords ==
    {MacWord([k \in 1..6 |-> 127]), MacWord(<<0, 7, 10, 99, 100, 127>>),
     Value(<<1, Colon, 2, Colon, 3, Colon, 4, Colon, 5>>, <<1, 2, 3, 4, 5>>),
     Value(<<1, 0, 0>> \o MacWord(<<0, 0, 0, 0, 0, 1>>).text, <<65536, 0, 0, 0, 0, 1>>)}

Groups ==
    {<<Option("--ip"), w>> : w \in IpWords} \cup {<<Option("--mac"), w>> : w \in MacWords}
      \cup {<<Option(name), v>> : name \in {"--in", "--out", "--dev"},
                                  v \in {Word, Option("--ip"), Option("--quiet")}}
      \cup {<<Option("--ip"), Option("--mac")>>, <<Option("--port"), Port(0)>>,
            <<Option("--port"), Port(255)>>, <<Option("--quiet")>>, <<Word>>}
Dangling == {<<Option(name)>> : name \in OptionNames}
In == <<Option("--in"), Word>>

Lists == UNION {[1..n -> Groups] : n \in 0..2}
MCGroupLists ==
    Lists \cup {<<In>> \o list : list \in Lists}
      \cup {<<In, g, d>> : g \in Groups, d \in Dangling} \cup {<<d>> : d \in Dangling}
================================================================================
