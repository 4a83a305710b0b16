------------------------------ MODULE Firewall ------------------------------
(***************************************************************************)
(* Firewall filters: libs/exanic/firewall.c with filter/rules.c.           *)
(*                                                                         *)
(* A rule is kept twice: parsed, in a slot of the card, and as text in a   *)
(* file of /dev/shm/exanic.  Processes configure the same card without a   *)
(* lock.  The control bytes of four slots share a register, which is read, *)
(* modified and written; a slot is turned off while its filter is loaded,  *)
(* here in two halves.  Any call of the system may fail and a process may  *)
(* be killed at any point.                                                 *)
(***************************************************************************)
EXTENDS FirewallRule

CONSTANTS
    Procs,      \* processes that configure the card
    NumFilters, \* REG_FIREWALL_NUM_FILTERS
    Texts,      \* rules that they are given
    MaxCalls    \* bound: calls

NoFile == <<"no file">>     \* no text of a rule
ASSUME FirewallAssumption ==
    NumFilters \in Nat \ {0} /\ MaxCalls \in Nat /\ NoFile \notin Texts

VARIABLES
    state,      \* REG_FIREWALL_STATE
    control,    \* control byte of each slot: a set of flags
    filters,    \* the rules whose pattern and mask the halves of each slot hold
    file,       \* the text in each slot's file, or NoFile
    dir,        \* the directory of the files exists
    call,       \* what each process is doing
    sure,       \* history: slots whose last call succeeded, by itself
    disturbed,  \* history: slots that another's call has interfered with
    calls       \* history: calls made

firewallVars == <<state, control, filters, file, dir, call, sure, disturbed, calls>>

Slots == 0 .. NumFilters - 1
SharedRegister(slot) == {s \in Slots : s \div 4 = slot \div 4}

Torn   == <<"part of a rule">>
Zero   == <<>>              \* the rule of a cleared slot

Control(rule) == IF rule = Zero THEN {}
                 ELSE IF Parse(rule, 0).drop THEN {"enable"} ELSE {"enable", "allow"}

Idle == [at |-> "idle", op |-> "none", slot |-> 0, rule |-> Zero, word |-> <<>>,
         linked |-> TRUE, todo |-> {}, alone |-> TRUE]
Busy(p) == call[p].at # "idle"
Concerned(c) == IF c.op = "clear all" THEN Slots ELSE {c.slot}

FirewallInit ==
    /\ state = "disable"
    /\ control = [s \in Slots |-> {}]
    /\ filters = [s \in Slots |-> <<Zero, Zero>>]
    /\ file = [s \in Slots |-> NoFile]
    /\ dir = FALSE
    /\ call = [p \in Procs |-> Idle]
    /\ sure = Slots /\ disturbed = {} /\ calls = 0

-----------------------------------------------------------------------------
Card  == <<state, control, filters>>
Files == <<file, dir>>
Goto(p, at) == call' = [call EXCEPT ![p].at = at]
Same == UNCHANGED <<sure, disturbed, calls>>

\* The call of p returns, or p is killed.
Return(p, ok) ==
    /\ call' = [call EXCEPT ![p] = Idle]
    /\ sure' = IF ok /\ call[p].alone THEN sure \cup Concerned(call[p]) ELSE sure
    /\ UNCHANGED <<disturbed, calls>>

Failed(p) == Return(p, FALSE) /\ UNCHANGED <<Card, Files>>
Killed(p) == Busy(p) /\ Failed(p)

\* Mutant: clearing all forgets the card.
EntryFiles(op) == CASE op = "set" -> "mkdir" [] op = "clear" -> "unlink" [] op = "clear all" -> "opendir"
Entry(op) == CASE op = "set" -> "mkdir" [] op = "clear" -> "unlink" [] op = "clear all" -> "off"

\* check_firewall, check_filter_slot and, for a rule, the parser; the handle h
\* may be that of a card that is no firewall.
Accepted(h, op, slot, rule) ==
    /\ h = "firewall"
    /\ op # "clear all" => slot \in Slots
    /\ op = "set" => Parse(rule, 0).ok

Begin(p, h, op, slot, rule) ==
    LET c == [Idle EXCEPT !.at = Entry(op), !.op = op,
                          !.rule = IF op = "set" THEN rule ELSE Zero,
                          !.slot = IF op = "clear all" THEN 0 ELSE slot]
        met == {q \in Procs \ {p} : Busy(q) /\ Concerned(call[q]) \cap Concerned(c) # {}}
    IN  /\ ~Busy(p) /\ calls < MaxCalls
        /\ calls' = calls + 1
        /\ UNCHANGED <<Card, Files>>
        /\ IF Accepted(h, op, slot, rule)
           THEN /\ call' = [q \in Procs |->
                              IF q = p THEN [c EXCEPT !.alone = met = {}]
                              ELSE IF q \in met THEN [call[q] EXCEPT !.alone = FALSE] ELSE call[q]]
                /\ sure' = sure \ Concerned(c)
                /\ disturbed' = disturbed
                       \cup UNION {Concerned(call[q]) \cap Concerned(c) : q \in met}
           ELSE UNCHANGED <<call, sure, disturbed>>

SetState(h, s) ==
    /\ h = "firewall"
    /\ state' = s
    /\ UNCHANGED <<control, filters, Files, call, sure, disturbed, calls>>

-----------------------------------------------------------------------------
(* The files                                                               *)

MakeDir(p) ==
    /\ call[p].at = "mkdir"
    /\ \/ dir' = TRUE /\ Goto(p, "open") /\ UNCHANGED <<Card, file>> /\ Same
       \/ Failed(p)

Open(p) ==
    LET s == call[p].slot IN
    /\ call[p].at = "open"
    /\ \/ /\ dir
          /\ file' = [file EXCEPT ![s] = Zero]
          /\ call' = [call EXCEPT ![p].at = "write", ![p].linked = TRUE]
          /\ UNCHANGED <<Card, dir>> /\ Same
       \/ Failed(p)

\* The file p has open gets the text c, unless it was deleted meanwhile.
Put(p, c) == file' = IF call[p].linked THEN [file EXCEPT ![call[p].slot] = c] ELSE file

\* Part of the text or all the rest of it.  The text of another writer may be mixed in.
Write(p) ==
    /\ call[p].at \in {"write", "rest"}
    /\ \/ /\ call[p].at = "write"
          /\ Put(p, Torn) /\ Goto(p, "rest")
          /\ UNCHANGED <<Card, dir>> /\ Same
       \/ /\ \E text \in {call[p].rule} \cup IF call[p].alone THEN {} ELSE {Torn} : Put(p, text)
          /\ Goto(p, "off")
          /\ UNCHANGED <<Card, dir>> /\ Same
       \/ Failed(p)

\* Those that have the file of a slot open write to it no more.
Unlinked(s) == [q \in Procs |-> IF call[q].at \in {"write", "rest"} /\ call[q].slot = s
                                THEN [call[q] EXCEPT !.linked = FALSE] ELSE call[q]]

Unlink(p) ==
    /\ call[p].at = "unlink"
    /\ \/ /\ file' = [file EXCEPT ![call[p].slot] = NoFile]
          /\ call' = [Unlinked(call[p].slot) EXCEPT ![p].at = "off"]
          /\ UNCHANGED <<Card, dir>> /\ Same
       \/ Failed(p)

OpenDir(p) ==
    /\ call[p].at = "opendir"
    /\ \/ /\ dir
          /\ call' = [call EXCEPT ![p].at = "readdir", ![p].todo = {s \in Slots : file[s] # NoFile}]
          /\ UNCHANGED <<Card, Files>> /\ Same
       \/ ~dir /\ Return(p, TRUE) /\ UNCHANGED <<Card, Files>>
       \/ Failed(p)

\* In the order of the directory; a file made meanwhile is not read.
UnlinkNext(p) ==
    /\ call[p].at = "readdir"
    /\ \/ \E s \in call[p].todo :
             /\ file' = [file EXCEPT ![s] = NoFile]
             /\ call' = [Unlinked(s) EXCEPT ![p].todo = @ \ {s}]
             /\ UNCHANGED <<Card, dir>> /\ Same
       \/ call[p].todo = {} /\ Goto(p, "rmdir") /\ UNCHANGED <<Card, Files>> /\ Same
       \/ call[p].todo # {} /\ Failed(p)

RemoveDir(p) ==
    /\ call[p].at = "rmdir"
    /\ \/ /\ \A s \in Slots : file[s] = NoFile
          /\ dir' = FALSE
          /\ Return(p, TRUE)
          /\ UNCHANGED <<Card, file>>
       \/ Failed(p)

-----------------------------------------------------------------------------
(* exanic_set_firewall_filter_raw                                          *)

ReadControl(p) ==
    /\ call[p].at \in {"off", "on"}
    /\ call' = [call EXCEPT ![p].at = IF @ = "off" THEN "turn off" ELSE "turn on",
                            ![p].word = [s \in SharedRegister(call[p].slot) |-> control[s]]]
    /\ UNCHANGED <<Card, Files>> /\ Same

\* The register as it was read, with the slot's own byte as given.
Stored(p, byte) == [s \in Slots |-> IF s = call[p].slot THEN byte
                                    ELSE IF s \in DOMAIN call[p].word THEN call[p].word[s]
                                    ELSE control[s]]
Hit(p) == {s \in DOMAIN call[p].word \ {call[p].slot} : call[p].word[s] # control[s]}
Alone(p) == \A q \in Procs \ {p} : Busy(q) => call[p].slot \notin Concerned(call[q])

\* Mutant: control bytes are given their value before the filter is loaded.
TurnOffGiven(p) ==
    /\ call[p].at = "turn off"
    /\ control' = Stored(p, Control(call[p].rule))
    /\ disturbed' = (IF Alone(p) THEN disturbed \ {call[p].slot} ELSE disturbed) \cup Hit(p)
    /\ Goto(p, "half")
    /\ UNCHANGED <<state, filters, Files, sure, calls>>

TurnOff(p) ==
    /\ call[p].at = "turn off"
    /\ control' = Stored(p, {})
    /\ disturbed' = (IF Alone(p) THEN disturbed \ {call[p].slot} ELSE disturbed) \cup Hit(p)
    /\ Goto(p, "half")
    /\ UNCHANGED <<state, filters, Files, sure, calls>>

LoadHalf(p) ==
    /\ call[p].at \in {"half", "full"}
    /\ filters' = [filters EXCEPT ![call[p].slot][IF call[p].at = "half" THEN 1 ELSE 2] =
                                                                    call[p].rule]
    /\ Goto(p, IF call[p].at = "half" THEN "full" ELSE "on")
    /\ UNCHANGED <<state, control, Files>> /\ Same

\* Clearing all goes on with the next slot, then to the files.
TurnOn(p) ==
    LET c == call[p] IN
    /\ c.at = "turn on"
    /\ control' = Stored(p, c.word[c.slot] \cup Control(c.rule))
    /\ IF c.op = "clear all"
       THEN /\ call' = IF c.slot + 1 \in Slots
                       THEN [call EXCEPT ![p].at = "off", ![p].slot = c.slot + 1]
                       ELSE [call EXCEPT ![p].at = "opendir"]
            /\ UNCHANGED sure
       ELSE /\ call' = [call EXCEPT ![p] = Idle]
            /\ sure' = IF c.alone THEN sure \cup Concerned(c) ELSE sure
    /\ disturbed' = disturbed \cup Hit(p)
    /\ UNCHANGED <<state, filters, Files, calls>>

-----------------------------------------------------------------------------
FirewallNext ==
    \/ \E s \in {"disable", "enable"} : SetState("firewall", s)
    \/ \E p \in Procs :
        \/ \E h \in {"firewall", "nic"}, op \in {"set", "clear", "clear all"},
              slot \in -1 .. NumFilters, rule \in Texts :
              (op # "set" => rule = <<"allow">>) /\ Begin(p, h, op, slot, rule)
        \/ MakeDir(p) \/ Open(p) \/ Write(p) \/ Unlink(p)
        \/ OpenDir(p) \/ UnlinkNext(p) \/ RemoveDir(p)
        \/ ReadControl(p) \/ TurnOff(p) \/ LoadHalf(p) \/ TurnOn(p)
        \/ Killed(p)

-----------------------------------------------------------------------------
\* exanic_get_filter_string: no file reads as the empty string.
FilterString(slot) == IF file[slot] = NoFile THEN Zero ELSE file[slot]

\* The rule that exanic_get_firewall_filter returns is the one the card applies,
\* once the last call on the slot has returned 0 and as long as no other call
\* meets it: on the same slot, or storing a stale byte of the shared register.
CardFollowsRules ==
    \A s \in sure \ disturbed :
        /\ control[s] = Control(FilterString(s))
        /\ filters[s] = <<FilterString(s), FilterString(s)>>

\* No frame meets a filter of which half is one rule's and half another's, not
\* when a process is killed while it loads it either, unless another call has
\* turned the slot on.
NeverHalfLoaded ==
    \A s \in Slots : "enable" \in control[s] => filters[s][1] = filters[s][2] \/ s \in disturbed
=============================================================================
