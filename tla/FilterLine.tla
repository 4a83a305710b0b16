----------------------------- MODULE FilterLine -----------------------------
(***************************************************************************)
(* The filter expression of the capture program's command line, as         *)
(* parse_one_filter in src/src/main.c reads it: words, one clause at a     *)
(* time, into the flow steering filters that apply_filters installs.       *)
(*                                                                         *)
(* Address and Number give the words that inet_aton and strtoul take, and  *)
(* the number that each makes of a word.  Zero is the 0 that makes a field *)
(* of a filter a wildcard.                                                 *)
(***************************************************************************)
EXTENDS Integers, Sequences

CONSTANTS Address, Number

Protocols == {"tcp", "udp"}
Keywords  == {"host", "dst", "src", "port", "dport", "sport"}
Code      == [tcp |-> 6, udp |-> 17]

\* inet_aton and strtoul take none of the words of the language.
ASSUME FilterLineAssumption ==
    /\ Address \in [DOMAIN Address -> Nat] /\ Number \in [DOMAIN Number -> Nat]
    /\ (DOMAIN Address \cup DOMAIN Number) \cap (Keywords \cup Protocols \cup {"or"}) = {}

\* The words that keyword k takes as its argument, and what they say.
Reader(k)     == IF k \in {"host", "dst", "src"} THEN Address ELSE Number
Argument(k)   == DOMAIN Reader(k)
Written(k, w) == Reader(k)[w]

\* What is kept of it: of strtoul's number, the 16 bits that htons takes, without
\* a look at the rest.  (Filters and packets are both in network order.)
Stored(k, w) == IF k \in {"host", "dst", "src"} THEN Written(k, w) ELSE Written(k, w) % 65536

\* What may not have come before keyword k in a clause, itself among it.
Conflicts(k) ==
    CASE k = "host"             -> {"host", "dst", "src", "dport", "sport"}
      [] k \in {"dst", "src"}   -> {k, "host", "port"}
      [] k = "port"             -> {"port", "dst", "src", "dport", "sport"}
      [] k \in {"dport", "sport"} -> {k, "host", "port"}

Zero == 0
Wildcard == [src_addr |-> Zero, dst_addr |-> Zero, src_port |-> Zero, dst_port |-> Zero,
             protocol |-> Zero]

\* exanic_ip_filter_t with the argument w of keyword k filled in.
Filled(f, k, w) ==
    CASE k \in {"host", "dst"}   -> [f EXCEPT !.dst_addr = Stored(k, w)]
      [] k = "src"               -> [f EXCEPT !.src_addr = Stored(k, w)]
      [] k \in {"port", "dport"} -> [f EXCEPT !.dst_port = Stored(k, w)]
      [] k = "sport"             -> [f EXCEPT !.src_port = Stored(k, w)]

\* A clause being read: the words seen, the keyword whose argument comes next,
\* the filter so far, how it ended, and how many words were taken.
Begun == [seen |-> {}, await |-> "none", filter |-> Wildcard, end |-> "no", taken |-> 0]

Word(s, w) ==
    IF s.end # "no" THEN s
    ELSE IF s.await # "none" /\ w \in Argument(s.await)
    THEN [s EXCEPT !.seen = @ \cup {s.await}, !.await = "none", !.taken = @ + 1,
                   !.filter = Filled(@, s.await, w)]
    ELSE IF s.await = "none" /\ w \in Keywords /\ Conflicts(w) \cap s.seen = {}
    THEN [s EXCEPT !.await = w, !.taken = @ + 1]
    ELSE IF s.await = "none" /\ w \in Protocols /\ Protocols \cap s.seen = {}
    THEN [s EXCEPT !.seen = @ \cup {w}, !.taken = @ + 1, !.filter.protocol = Code[w]]
    ELSE IF s.await = "none" /\ w = "or"
    THEN [s EXCEPT !.end = "or", !.taken = @ + 1]
    ELSE [s EXCEPT !.end = "bad"]

\* The clause after each number of words.
Reading(argv) ==
    LET read[n \in 0 .. Len(argv)] ==
            IF n = 0 THEN Begun ELSE Word(read[n - 1], argv[n])
    IN  read

\* parse_one_filter: whether a filter was read, the filter, whether its reverse
\* is to be installed too, and what is left of the words.
ParseOneFilter(argv) ==
    LET s == Reading(argv)[Len(argv)] IN
    [ok     |-> s.end = "or" \/ (s.end = "no" /\ s.await = "none"),
     filter |-> s.filter,
     bidir  |-> {"host", "port"} \cap s.seen # {},
     rest   |-> SubSeq(argv, s.taken + 1, Len(argv))]

\* The reverse filter of apply_filters.
Reversed(f) == [f EXCEPT !.src_addr = f.dst_addr, !.dst_addr = Zero,
                         !.src_port = f.dst_port, !.dst_port = Zero]

\* The card: a filter's fields that are not wildcards are a packet's.
Matches(f, packet) == \A i \in DOMAIN f : f[i] \in {Zero, packet[i]}

-----------------------------------------------------------------------------
(* What a line means: the usage text of main.c.                            *)

\* The words between the "or"s that end at or enclose position i.
Ors(line) == {i \in 1 .. Len(line) : line[i] = "or"}
Clauses(line) ==
    {c \in ({0} \cup Ors(line)) \X (Ors(line) \cup {Len(line) + 1}) :
        /\ c[1] < c[2] /\ ~\E k \in Ors(line) : c[1] < k /\ k < c[2]
        /\ c[1] = Len(line) => line = <<>>}

\* A clause whose last word is a keyword without its argument.
Unfinished(line, c) == c[2] = Len(line) + 1 /\ line # <<>> /\ line[Len(line)] \in Keywords

\* The packet satisfies the condition: "to/from" for host and port.
Sends(k, w, p) ==
    /\ w \in Argument(k)
    /\ Written(k, w) = CASE k \in {"host", "dst"}   -> p.dst_addr
                         [] k = "src"               -> p.src_addr
                         [] k \in {"port", "dport"} -> p.dst_port
                         [] k = "sport"             -> p.src_port

Turned(p) == [p EXCEPT !.src_addr = p.dst_addr, !.dst_addr = p.src_addr,
                       !.src_port = p.dst_port, !.dst_port = p.src_port]

Says(line, c, p) ==
    \A i \in c[1] + 1 .. c[2] - 1 :
        /\ line[i] \in Keywords => Sends(line[i], line[i + 1], p)
        /\ line[i] \in Protocols => p.protocol = Code[line[i]]

\* Addresses and ports that a filter can hold: no port beyond 16 bits, and none of
\* them the wildcard.
Fits(k, w) == Written(k, w) # Zero /\ Stored(k, w) = Written(k, w)
Proper(line) ==
    \A i \in 1 .. Len(line) - 1 :
        line[i] \in Keywords /\ line[i + 1] \in Argument(line[i]) => Fits(line[i], line[i + 1])

BothWays(line, c) == \E i \in c[1] + 1 .. c[2] - 1 : line[i] \in {"host", "port"}

Described(line, packet) ==
    \E c \in Clauses(line) :
        /\ ~Unfinished(line, c)
        /\ Says(line, c, packet) \/ (BothWays(line, c) /\ Says(line, c, Turned(packet)))
=============================================================================
