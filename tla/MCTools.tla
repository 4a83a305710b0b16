------------------------------ MODULE MCTools ------------------------------
(***************************************************************************)
(* Module Tools for TLC: addresses of two bits with networks of one and of *)
(* no bits, one of them not written with its first address; two slots of   *)
(* one register; words of three bits, in which the low word rolls over     *)
(* twice; and cages of all kinds with the modules that fit them.           *)
(***************************************************************************)
EXTENDS Tools, TLC

MCAddr == ("a1" :> 1) @@ ("a2" :> 2)
MCNet == ("a2/1" :> [addr |-> 2, bits |-> 1]) @@ ("a1/1" :> [addr |-> 1, bits |-> 1])
         @@ ("a0/0" :> [addr |-> 0, bits |-> 0])
\* 65537 is 1 in 16 bits or in 8.
MCNum == ("1" :> 1) @@ ("65537" :> 65537)
MCVocabulary == {"allow", "drop", "vlan", "src", "dst", "host", "net", "port", "type"}
                \cup Proto \cup DOMAIN Addr \cup DOMAIN Net \cup DOMAIN Num
\* The tag 4097 is VLAN 1 with a priority.
MCFrames == [tci : {-1, 0, 1, 4097}, ethertype : {"ip", "arp"}, ihl : {5, 6},
             protocol : {"tcp", "icmp", "igmp"}, saddr : 1 .. 2, daddr : {0, 2},
             sport : 0 .. 1, dport : 0 .. 1, icmp_type : 0 .. 1]
MCTexts == {<<"allow">>, <<"drop", "vlan">>, <<"drop", "junk">>}

MCInterfaces == {<<>>, <<"p0">>, <<"p0", "other", "p1">>, <<"other", "p0", "p1">>}
MCCages == [ff : {"sfp", "qsfp", "qsfpdd", "unknown"}, nports : {2}, num_ports : {2, 4, 8, 16}]
MCModules == [type : {"sfp"}, len : {256, 512}, copper : BOOLEAN]
             \cup [type : {"qsfp", "qsfpdd"}, len : {256, 640}, copper : BOOLEAN]

Symmetry == Permutations(Procs)
=============================================================================
