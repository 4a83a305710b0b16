-------------------------------- MODULE Tools --------------------------------
(***************************************************************************)
(* Programs that use the parts of the library beside the rings, each with  *)
(* its own state:                                                          *)
(*                                                                         *)
(*   "firewall"  two processes that set and clear firewall filters         *)
(*   "rule"      the parser of firewall rules, word by word                *)
(*   "time"      a reader of timestamps                                    *)
(*   "query"     one call that asks the kernel                             *)
(***************************************************************************)
EXTENDS Firewall, HwTime, Queries

CONSTANTS
    Vocabulary, \* words of rules
    MaxWords,   \* bound: words in a rule
    Frames      \* frames that rules are tried on

ASSUME ToolsAssumption ==
    Frames \subseteq [tci : -1 .. 2 ^ 16 - 1, ethertype : STRING, ihl : Nat, protocol : STRING,
                      saddr : Nat, daddr : Nat, sport : Nat, dport : Nat, icmp_type : Nat]

VARIABLES
    program,    \* which of them this is
    words,      \* rule: the words read
    rule,       \* rule: where the parser is
    shifted     \* rule: what the shift by the width of a word gave

toolVars == <<firewallVars, timeVars, queryVars, program, words, rule, shifted>>

Reset == /\ words = <<>> /\ rule = Begun /\ shifted = 0
NoTime == now = 0 /\ stamped = 0 /\ hw_time = 0 /\ caps_hi = FALSE /\ tick_hz = 0
          /\ reading = Unread /\ cycles = 0
NoQuery == /\ query = "none" /\ steps = <<>> /\ held = {} /\ outcome = "none" /\ rest = <<>>
           /\ table = <<>> /\ table_size = 0 /\ cage = "none" /\ port = 0 /\ module = "none"
           /\ bytes = <<>>

Init ==
    /\ FirewallInit
    /\ \/ program = "firewall" /\ Reset /\ NoTime /\ NoQuery
       \/ program = "rule" /\ words = <<>> /\ rule = Begun /\ shifted \in {0, AllOnes}
          /\ NoTime /\ NoQuery
       \/ program = "time" /\ TimeInit /\ Reset /\ NoQuery
       \/ program = "query" /\ QueryInit /\ Reset /\ NoTime

\* The next word of the text, until one does not fit.
ReadWord ==
    /\ rule.at # "bad" /\ Len(words) < MaxWords
    /\ \E w \in Vocabulary : words' = Append(words, w) /\ rule' = Token(rule, w, shifted)
    /\ UNCHANGED shifted

Next ==
    \/ /\ program = "firewall" /\ FirewallNext
       /\ UNCHANGED <<timeVars, queryVars, program, words, rule, shifted>>
    \/ /\ program = "rule" /\ ReadWord
       /\ UNCHANGED <<firewallVars, timeVars, queryVars, program>>
    \/ /\ program = "time" /\ TimeNext
       /\ UNCHANGED <<firewallVars, queryVars, program, words, rule, shifted>>
    \/ /\ program = "query" /\ QueryNext
       /\ UNCHANGED <<firewallVars, timeVars, program, words, rule, shifted>>

Spec == Init /\ [][Next]_toolVars

-----------------------------------------------------------------------------
\* A rule that the parser accepts lets through no frame but those that its words
\* describe, and of these every plain one: in any order of the clauses, with or
\* without a protocol or a VLAN.  The words are proper ones: of a number the parser
\* keeps 16 bits for a port or a VLAN and 8 for a type without a word ("port 65616"
\* is port 80, "type 256" type 0), a network of 0 bits is undefined, one that is not
\* written with its first address matches nothing, and a second type replaces the
\* first.  The frames missed are those whose tag has a priority, for a rule with a
\* VLAN identifier, and those with IP options, for a rule about IP but "igmp".
RuleMeans ==
    Finished(rule).ok /\ Proper(words) =>
        \A f \in Frames : /\ Matches(Finished(rule), f) => Means(words, f)
                          /\ Means(words, f) /\ Plain(f) => Matches(Finished(rule), f)
=============================================================================
