-------------------------------- MODULE Startup --------------------------------
(***************************************************************************)
(* The command lines of both programs (app/gcs_replay.c, app/gcs_tapd.c),  *)
(* from the first argument to gcs_stack_init.  The user gives groups of    *)
(* words: an option with its value, a flag, or a word that is neither; a   *)
(* value may look like an option, and an option may come last and lack its *)
(* value.  The program sees the words in one row and has to find the       *)
(* groups again.                                                           *)
(***************************************************************************)
EXTENDS Addresses

CONSTANTS
    GroupLists,             \* the command lines, as their users mean them
    Default                 \* the word each option has when nobody gives it

VARIABLES
    program, groups,        \* which program is run, and with what
    i,                      \* the index of the loop over argv
    setting,                \* in_path, out_path, ifname, ip_str, mac_str, port
    pc, mac, ip, port       \* where main is, and what it passes to the stack

vars == <<program, groups, i, setting, pc, mac, ip, port>>

\* A word: the option it is, if any, its text, and the numbers it was printed from.
Option(name) == [opt |-> name, text |-> <<Other>>, numbers |-> <<>>]
Value(text, numbers) == [opt |-> "none", text |-> text, numbers |-> numbers]
NoWord == Option("null")
Words == [opt: STRING, text: Seq(Nat), numbers: Seq(Nat)]

OptionNames == {"--in", "--out", "--dev", "--ip", "--mac", "--port"}

\* A group of two is an option and its value, which is there; an option on its own
\* has no word after it.
ASSUME StartupAssumption ==
    /\ DOMAIN Default = OptionNames /\ Default["--in"] = NoWord
    /\ \A list \in GroupLists :
         /\ list \in Seq(Seq(Words))
         /\ \A k \in 1..Len(list) :
              \/ /\ Len(list[k]) = 2
                 /\ list[k][1].opt \in OptionNames /\ list[k][2] # NoWord
              \/ /\ Len(list[k]) = 1
                 /\ list[k][1].opt \in OptionNames => k = Len(list)

\* The options that take a value.
Options ==
    IF program = "GCS.Replay" THEN {"--in", "--out", "--ip", "--mac", "--port"}
    ELSE {"--dev", "--ip", "--mac", "--port"}

argv == FlattenSeq(groups)
word == argv[i]

Init ==
    /\ program \in {"GCS.Replay", "GCS.Tapd"} /\ groups \in GroupLists
    /\ i = 1 /\ setting = Default
    /\ pc = "options" /\ mac = <<>> /\ ip = 0 /\ port = 0
-----------------------------------------------------------------------------
AtOption == pc = "options" /\ i <= Len(argv)

HasValue == word.opt \in Options /\ i < Len(argv)

\* Mutant of TakeValue: the loop comes back to the value.
TakeValueTwice ==
    /\ AtOption /\ HasValue
    /\ setting' = [setting EXCEPT ![word.opt] = argv[i + 1]]
    /\ i' = i + 1
    /\ UNCHANGED <<program, groups, pc, mac, ip, port>>

TakeValue ==
    /\ AtOption /\ HasValue
    /\ setting' = [setting EXCEPT ![word.opt] = argv[i + 1]]
    /\ i' = i + 2
    /\ UNCHANGED <<program, groups, pc, mac, ip, port>>

IsQuiet == program = "GCS.Replay" /\ word.opt = "--quiet"

TakeQuiet ==
    /\ AtOption /\ IsQuiet
    /\ i' = i + 1
    /\ UNCHANGED <<program, groups, setting, pc, mac, ip, port>>

\* Mutant of TakeOther: the replay, too, passes over what it does not know.
TakeOtherIgnores ==
    /\ AtOption /\ ~HasValue /\ ~IsQuiet
    /\ i' = i + 1
    /\ UNCHANGED <<program, groups, setting, pc, mac, ip, port>>

\* A word that is no option, or an option that lacks its value: the replay prints
\* its usage and exits with 2, the driver passes over it.
TakeOther ==
    /\ AtOption /\ ~HasValue /\ ~IsQuiet
    /\ IF program = "GCS.Replay" THEN pc' = "usage" /\ UNCHANGED i
       ELSE i' = i + 1 /\ UNCHANGED pc
    /\ UNCHANGED <<program, groups, setting, mac, ip, port>>

EndOptions ==
    /\ pc = "options" /\ i > Len(argv)
    /\ pc' = IF program = "GCS.Replay" /\ setting["--in"] = NoWord THEN "usage"
             ELSE "addresses"
    /\ UNCHANGED <<program, groups, i, setting, mac, ip, port>>

\* An address that cannot be parsed ends either program with 2.
ParseAddresses ==
    LET m == gcs_mac_parse(setting["--mac"].text)
        a == gcs_ipv4_parse(setting["--ip"].text)
    IN  /\ pc = "addresses"
        /\ IF m = <<>> \/ a = <<>>
           THEN pc' = "refused" /\ UNCHANGED <<mac, ip, port>>
           ELSE /\ pc' = "started" /\ mac' = m /\ ip' = a[1]
                /\ port' = port_parse(setting["--port"].text)
        /\ UNCHANGED <<program, groups, i, setting>>

Next == TakeValue \/ TakeQuiet \/ TakeOther \/ EndOptions \/ ParseAddresses

Spec == Init /\ [][Next]_vars
-----------------------------------------------------------------------------
(***************************************************************************)
(* Properties.                                                             *)
(***************************************************************************)
Parsed == pc \in {"addresses", "started", "refused"}

GroupsFor(opt) == {k \in 1..Len(groups) : Len(groups[k]) = 2 /\ groups[k][1].opt = opt}

\* No option of the other program, which has a value here and none for this one.
OwnOptions == \A k \in 1..Len(groups) : Len(groups[k]) = 2 => groups[k][1].opt \in Options

\* A program that gets past its options has found the groups its user meant: each
\* setting is the value that was last given for it, also where values look like
\* options, and the driver is not led astray by words it does not know.
SettingsAsGiven ==
    Parsed /\ OwnOptions =>
      \A opt \in Options :
        setting[opt] =
          IF GroupsFor(opt) = {} THEN Default[opt]
          ELSE groups[CHOOSE k \in GroupsFor(opt) : \A j \in GroupsFor(opt) : j <= k][2]

Malformed ==
    \/ GroupsFor("--in") = {}
    \/ \E k \in 1..Len(groups) : groups[k][1].opt \notin Options \cup {"--quiet"}
    \/ \E k \in 1..Len(groups) : Len(groups[k]) = 1 /\ groups[k][1].opt # "--quiet"

\* The replay prints its usage for a command line without a capture or with a word it
\* cannot place, for no other, and never starts with one.
UsageIfMalformed ==
    /\ pc = "usage" => program = "GCS.Replay" /\ Malformed
    /\ Parsed /\ program = "GCS.Replay" => ~Malformed

Accepted(numbers, n) == Len(numbers) = n /\ \A k \in 1..n : numbers[k] < OctetMod

\* An address that the stack's log or a user printed is read back as the same one, and
\* the program starts with it if and only if each of its numbers is an octet. None reaches
\* into the next one where they are packed into a word: the octets the stack will send as
\* its own are those printed. The log's buffers hold the longest address.
AddressesAsPrinted ==
    LET mac_numbers == setting["--mac"].numbers
        ip_numbers == setting["--ip"].numbers
        accepted == Accepted(mac_numbers, GCS_MAC_LEN) /\ Accepted(ip_numbers, 4)
    IN  /\ pc = "started" =>
             /\ accepted /\ mac = mac_numbers /\ gcs_wr32be(ip) = ip_numbers
             /\ <<port>> = setting["--port"].numbers
        /\ pc = "refused" => ~accepted
================================================================================
