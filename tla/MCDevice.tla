------------------------------ MODULE MCDevice ------------------------------
(***************************************************************************)
(* Module Device for TLC: one name that fits the structure and one that is *)
(* cut, a device that has every region, one port.  Filter expressions are  *)
(* all those of one or two phrases, alone or with "or" between them, with  *)
(* a tail that may be wrong or incomplete.  65616 is a port that does not  *)
(* fit: 80 is what is left of it.                                          *)
(***************************************************************************)
EXTENDS Device, TLC

MCCut == [n \in Names |-> IF n = "exanic0" THEN n ELSE "exanic-name-cut"]
MCUsers == Callers \cup RxIds \cup TxIds \cup Losses
MCOffers == {Optional}
MCContested == Ports \X {0}
MCDefault == {[port |-> p, buffer_number |-> 0] : p \in Ports}

MCAddress == [w \in {"A"} |-> 10]
MCNumber == [w \in {"80", "65616"} |-> IF w = "80" THEN 80 ELSE 65616]

Phrases == {<<"host", "A">>, <<"dst", "A">>, <<"src", "A">>, <<"port", "80">>,
            <<"dport", "80">>, <<"sport", "80">>, <<"port", "65616">>, <<"tcp">>}
Tails == {<<>>, <<"udp">>, <<"host">>, <<"or">>, <<"src", "80">>}

MCLines == {p \o q \o t : p \in Phrases \cup {<<>>, <<"or">>}, q \in Phrases \cup {<<>>}, t \in Tails}
           \cup {p \o <<"or">> \o q \o t : p, q \in Phrases, t \in Tails}

\* Each field is the one a word names, or another.
MCPackets == [src_addr : {10, 11}, dst_addr : {10, 11}, src_port : {80, 81},
              dst_port : {80, 81}, protocol : {6, 17}]

Symmetry == Permutations(Ids) \cup Permutations(Callers) \cup Permutations(RxIds)
=============================================================================
