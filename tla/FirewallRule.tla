---------------------------- MODULE FirewallRule ----------------------------
(***************************************************************************)
(* The parser of firewall rules, libs/exanic/filter/parser.c: words in,    *)
(* out a pattern and a mask over the first bytes of a frame, and whether   *)
(* the rule drops.                                                         *)
(*                                                                         *)
(* The bytes are kept as the fields they belong to.  Addresses are W bits  *)
(* wide instead of 32.  The card matches a frame "iff the result of        *)
(* applying the mask ... yields the pattern" (pcie_if.h).                  *)
(***************************************************************************)
EXTENDS Integers, Sequences, SequencesExt

CONSTANTS
    W,          \* width of an address
    Addr,       \* addresses by word
    Net,        \* networks by word: [addr, bits]
    Num         \* ports, ICMP types and VLAN identifiers by word: what strtol makes of it

Fields == {"tci", "ethertype", "ihl", "protocol", "saddr", "daddr", "sport", "dport",
           "icmp_type"}

AllOnes == 2 ^ W - 1

\* 0xFFFFFFFF << (32 - bits).  For 0 bits the shift is by the width, which is
\* undefined: the mask is 0, or on some machines all ones.
Netmask(bits, zero) ==
    IF bits = 0 THEN zero ELSE 2 ^ W - 2 ^ (W - bits)

-----------------------------------------------------------------------------
(* The words after "allow" or "drop"                                       *)

Proto == {"tcp", "udp", "icmp", "igmp", "arp", "ip"}

\* No word of the grammar is an address, a network or a number.
Keywords == Proto \cup {"allow", "drop", "vlan", "src", "dst", "host", "net", "port", "type"}
ASSUME RuleAssumption ==
    /\ W \in Nat \ {0}
    /\ Addr \in [DOMAIN Addr -> Nat] /\ Num \in [DOMAIN Num -> Int]
    /\ Net \in [DOMAIN Net -> [addr : Nat, bits : 0 .. W]]
    /\ Keywords \cap (DOMAIN Addr \cup DOMAIN Net \cup DOMAIN Num) = {}

\* What has been read: the place in the grammar, the rule so far.  A mask of 0
\* compares nothing of a field.
Begun == [at |-> "action", drop |-> FALSE, vlan |-> FALSE, proto |-> "any", dir |-> "",
          pattern |-> [f \in Fields |-> 0], mask |-> [f \in Fields |-> 0]]

Set(s, f, p, m) == [s EXCEPT !.pattern[f] = p, !.mask[f] = m]
Bad(s) == [s EXCEPT !.at = "bad"]

\* The field that "dst" or "src" names.
Address(s) == IF s.dir = "src" THEN "saddr" ELSE "daddr"
Port(s)    == IF s.dir = "src" THEN "sport" ELSE "dport"

\* Mutant: a second address or port takes the place of the first.
SetAgain(s, f, p, m) == [Set(s, f, p, m) EXCEPT !.at = "clause"]

\* A repeated address or port is told by its mask.
SetOnce(s, f, p, m) ==
    IF s.mask[f] # 0 THEN Bad(s) ELSE [Set(s, f, p, m) EXCEPT !.at = "clause"]

Clause(s, w) ==
    IF w \in {"dst", "src"} THEN [s EXCEPT !.at = "dir", !.dir = w]
    ELSE IF w = "type" THEN (IF s.proto = "icmp" THEN [s EXCEPT !.at = "type"] ELSE Bad(s))
    ELSE Bad(s)

\* The protocol is optional; without one, what follows is about IP.
Protocol(s, w) ==
    IF w \in Proto THEN [s EXCEPT !.proto = w, !.at = "clause"]
                   ELSE Clause([s EXCEPT !.proto = "ip"], w)

\* Target addresses of ARP do not fit in the pattern.
Kind(s, w) ==
    IF w = "port" /\ s.proto \in {"tcp", "udp"} THEN [s EXCEPT !.at = "port"]
    ELSE IF w \in {"host", "net"} /\ ~(s.dir = "dst" /\ s.proto = "arp")
    THEN [s EXCEPT !.at = w]
    ELSE Bad(s)

\* strtol's number in a variable of 16 or 8 bits: the rest of it is lost.
UInt16(n) == n % 2 ^ 16
UInt8(n)  == n % 2 ^ 8

\* Only a word that begins with a digit is an identifier.
Identifiers == {w \in DOMAIN Num : Num[w] >= 0}

VlanId(s, w) ==
    IF w \in Identifiers THEN [Set(s, "tci", UInt16(Num[w]), AllOnes) EXCEPT !.at = "protocol"]
                         ELSE Protocol(s, w)

\* A type may be given again.
TypeCode(s, w) ==
    IF w \in DOMAIN Num THEN [Set(s, "icmp_type", UInt8(Num[w]), AllOnes) EXCEPT !.at = "clause"]
                        ELSE Bad(s)

Token(s, w, zero) ==
    CASE s.at = "action" -> IF w \in {"allow", "drop"}
                            THEN [s EXCEPT !.at = "vlan", !.drop = (w = "drop")] ELSE Bad(s)
      [] s.at = "vlan"   -> IF w = "vlan" THEN [s EXCEPT !.at = "id", !.vlan = TRUE]
                                          ELSE Protocol(s, w)
      [] s.at = "id"     -> VlanId(s, w)
      [] s.at = "protocol" -> Protocol(s, w)
      [] s.at = "clause" -> Clause(s, w)
      [] s.at = "dir"    -> Kind(s, w)
      [] s.at = "port"   -> IF w \in DOMAIN Num
                            THEN SetOnce(s, Port(s), UInt16(Num[w]), AllOnes) ELSE Bad(s)
      [] s.at = "host"   -> IF w \in DOMAIN Addr
                            THEN SetOnce(s, Address(s), Addr[w], AllOnes) ELSE Bad(s)
      [] s.at = "net"    -> IF w \in DOMAIN Net
                            THEN SetOnce(s, Address(s), Net[w].addr, Netmask(Net[w].bits, zero))
                            ELSE Bad(s)
      [] s.at = "type"   -> TypeCode(s, w)
      [] s.at = "bad"    -> s

\* The headers that the protocol asks for; IGMP comes with IP options.
Headers(s) ==
    LET arp == Set(s, "ethertype", "arp", AllOnes)
        ip  == Set(s, "ethertype", "ip", AllOnes)
    IN  CASE s.proto = "any"  -> s
          [] s.proto = "arp"  -> arp
          [] s.proto = "ip"   -> Set(ip, "ihl", 5, AllOnes)
          [] s.proto = "igmp" -> Set(ip, "protocol", "igmp", AllOnes)
          [] OTHER -> Set(Set(ip, "ihl", 5, AllOnes), "protocol", s.proto, AllOnes)

\* The rule, if the words may end here.
Finished(s) ==
    [ok      |-> s.at \in {"vlan", "id", "protocol", "clause"},
     drop    |-> s.drop, vlan |-> s.vlan,
     pattern |-> Headers(s).pattern, mask |-> Headers(s).mask]

\* exanic_parse_filter_string, with the mask that a shift by the width gives.
Parse(words, zero) ==
    Finished(FoldLeft(LAMBDA s, w : Token(s, w, zero), Begun, words))

-----------------------------------------------------------------------------
(* The card                                                                *)

\* A frame is a record of Fields; its tci is -1 if it has no VLAN tag.
Masked(v, m) == IF m = AllOnes THEN v ELSE v - (v % (AllOnes + 1 - m))

\* The other headers are where a rule with or without "vlan" looks for them only
\* in a frame with or without a tag.
Matches(rule, frame) ==
    /\ rule.vlan => frame.tci # -1
    /\ \A f \in Fields : rule.mask[f] # 0 =>
          /\ rule.vlan = (frame.tci # -1)
          /\ Masked(frame[f], rule.mask[f]) = rule.pattern[f]
    /\ \A f \in Fields : rule.mask[f] = 0 => rule.pattern[f] = 0

-----------------------------------------------------------------------------
(* What a rule says, read off its words                                    *)

\* Condition i: a type, or a direction with its kind and value.
Holds(words, i, frame) ==
    LET value == words[i + 2]
        addr  == IF words[i] = "src" THEN frame.saddr ELSE frame.daddr
        port  == IF words[i] = "src" THEN frame.sport ELSE frame.dport
    IN  IF words[i] = "type" THEN frame.icmp_type = Num[words[i + 1]]
        ELSE CASE words[i + 1] = "host" -> addr = Addr[value]
               [] words[i + 1] = "port" -> port = Num[value]
               [] words[i + 1] = "net"  ->
                    addr \in Net[value].addr .. Net[value].addr + 2 ^ (W - Net[value].bits) - 1

In(w, words) == \E i \in 1 .. Len(words) : words[i] = w

\* A VLAN identifier is the low 12 bits of the tag; above them is the priority.
Means(words, frame) ==
    LET protos == {w \in Proto : In(w, words)}
        conditions == {i \in 1 .. Len(words) : words[i] \in {"src", "dst", "type"}}
        ip == protos \ {"arp"} # {} \/ (protos = {} /\ conditions # {})
    IN  /\ In("vlan", words) => frame.tci # -1
        /\ (ip \/ protos # {}) /\ ~In("vlan", words) => frame.tci = -1
        /\ Len(words) > 2 /\ words[2] = "vlan" /\ words[3] \in Identifiers =>
              frame.tci % 2 ^ 12 = Num[words[3]]
        /\ "arp" \in protos => frame.ethertype = "arp"
        /\ ip => frame.ethertype = "ip"
        /\ \A w \in protos \cap {"tcp", "udp", "icmp", "igmp"} : frame.protocol = w
        /\ \A i \in conditions : Holds(words, i, frame)

\* Networks of at least one bit, written with their first address; numbers that
\* fit what they are about; no two types.
Limit == [port |-> 2 ^ 16, type |-> 2 ^ 8, vlan |-> 2 ^ 12]
Proper(words) ==
    /\ \A i \in 1 .. Len(words) : words[i] \in DOMAIN Net =>
          Net[words[i]].bits > 0 /\ Net[words[i]].addr % (2 ^ (W - Net[words[i]].bits)) = 0
    /\ \A i \in 2 .. Len(words) :
          words[i - 1] \in DOMAIN Limit /\ words[i] \in DOMAIN Num =>
              Num[words[i]] >= 0 /\ Num[words[i]] < Limit[words[i - 1]]
    /\ \A i, j \in 2 .. Len(words) :
          words[i - 1] = "type" /\ words[j - 1] = "type" => words[i] = words[j]

\* No priority in the tag, no options in the IP header.
Plain(frame) == frame.tci < 2 ^ 12 /\ frame.ihl = 5
=============================================================================
