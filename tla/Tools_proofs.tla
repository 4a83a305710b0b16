----------------------------- MODULE Tools_proofs -----------------------------
(***************************************************************************)
(* Proofs about parts of Tools.  Firewall, for every number of processes,  *)
(* slots and rules: the card never applies a filter of two halves, and     *)
(* once the calls are over it applies the rules of the files.  HwTime, for *)
(* every width of a word and every clock: stamps are completed to the time *)
(* at which they were made, and converted without overflow.  Queries, for  *)
(* every list of interfaces, cage and module: no call leaks, and the       *)
(* values of a transceiver come from the right bytes.  FirewallRule, for   *)
(* every vocabulary and frame: a rule matches what its words describe.     *)
(***************************************************************************)
EXTENDS Tools, FiniteSetTheorems, TLAPS

\* What the records of the model hold.
Flags == {"enable", "allow"}
Rules == Texts \cup {Zero}
Register == UNION {[S -> SUBSET Flags] : S \in SUBSET Slots}
Points == {"idle", "mkdir", "open", "write", "rest", "unlink", "off", "turn off", "half",
           "full", "on", "turn on", "opendir", "readdir", "rmdir"}
Ops == {"none", "set", "clear", "clear all"}
Calls == [at : Points, op : Ops, slot : Slots, rule : Rules, word : {<<>>} \cup Register,
          linked : BOOLEAN, todo : SUBSET Slots, alone : BOOLEAN]

\* Where a process is while its slot is turned off and being loaded.
Loads == {"half", "full", "on", "turn on"}

\* The card and the calls are of the types of the model.
Typed ==
    /\ control \in [Slots -> SUBSET Flags]
    /\ filters \in [Slots -> [1 .. 2 -> Rules]]
    /\ call \in [Procs -> Calls]

\* A register about to be stored has been read.
WordRead ==
    \A p \in Procs : call[p].at \in {"turn off", "turn on"} =>
        call[p].word \in [SharedRegister(call[p].slot) -> SUBSET Flags]

\* Slots that two calls are concerned with at once are known to be disturbed.
MeetingsSeen ==
    \A p, q \in Procs : p # q /\ Busy(p) /\ Busy(q) =>
        Concerned(call[p]) \cap Concerned(call[q]) \subseteq disturbed

\* A slot being loaded is off, and holds as much of the rule as has been loaded.
OffWhileLoaded ==
    \A p \in Procs : call[p].at \in Loads /\ call[p].slot \notin disturbed =>
        /\ "enable" \notin control[call[p].slot]
        /\ call[p].at # "half" => filters[call[p].slot][1] = call[p].rule
        /\ call[p].at \in {"on", "turn on"} => filters[call[p].slot][2] = call[p].rule

\* The invariant that the steps keep.
FirewallInv == Typed /\ WordRead /\ MeetingsSeen /\ OffWhileLoaded /\ NeverHalfLoaded

-----------------------------------------------------------------------------
\* The register is one of slots.
LEMMA SharedSlots ==
    ASSUME NEW s \in Slots
    PROVE  SharedRegister(s) \subseteq Slots /\ s \in SharedRegister(s)
BY DEF SharedRegister

\* A slot is not before itself.
LEMMA SlotsBefore == \A i \in Slots : \A s \in Slots : i < s => i # s
BY FirewallAssumption DEF Slots

\* A process with no call is concerned with slot 0 of a card that has slots.
LEMMA IdleCall == Idle \in Calls /\ 0 \in Slots
<1>1. 0 \in Slots
    BY FirewallAssumption DEF Slots
<1>2. Idle.word \in {<<>>} \cup Register
    BY DEF Idle
<1> QED BY <1>1, <1>2 DEF Idle, Calls, Rules, Points, Ops

\* A process is concerned with the slot it is at, and with slots only.
LEMMA OwnSlot ==
    ASSUME NEW c \in Calls
    PROVE  c.slot \in Concerned(c) /\ Concerned(c) \subseteq Slots
BY DEF Calls, Concerned

\* The card has no filters to begin with.
LEMMA InitInv == FirewallInit => FirewallInv
<1> SUFFICES ASSUME FirewallInit PROVE FirewallInv
    OBVIOUS
<1>1. Typed
    BY IdleCall DEF FirewallInit, Typed, Rules
<1>2. WordRead /\ MeetingsSeen /\ OffWhileLoaded
    BY DEF FirewallInit, WordRead, MeetingsSeen, OffWhileLoaded, Busy, Idle, Loads
<1>3. NeverHalfLoaded
    BY DEF FirewallInit, NeverHalfLoaded
<1> QED BY <1>1, <1>2, <1>3 DEF FirewallInv

-----------------------------------------------------------------------------
(* Steps that leave the card alone                                         *)

\* A call that ends or goes on to something other than the card's registers.
GoesOn(q) ==
    call'[q].at # "idle" =>
        /\ Busy(q)
        /\ call'[q].op = call[q].op /\ call'[q].slot = call[q].slot
        /\ call'[q].rule = call[q].rule /\ call'[q].word = call[q].word
        /\ call'[q].at = call[q].at \/ call'[q].at \notin Loads \cup {"turn off"}

\* Steps with the files keep the invariant.
LEMMA QuietStep ==
    ASSUME FirewallInv, call' \in [Procs -> Calls], UNCHANGED <<control, filters, disturbed>>,
           \A q \in Procs : GoesOn(q)
    PROVE  FirewallInv'
<1> USE DEF FirewallInv
<1>1. Typed'
    BY DEF Typed
<1>2. WordRead'
    BY ZenonT(60) DEF WordRead, GoesOn, Loads, SharedRegister, Slots
<1>3. MeetingsSeen'
    <2> SUFFICES ASSUME NEW p \in Procs, NEW q \in Procs, p # q, Busy(p)', Busy(q)'
                 PROVE  (Concerned(call[p]) \cap Concerned(call[q]) \subseteq disturbed)'
        BY DEF MeetingsSeen
    <2>1. Busy(p) /\ Busy(q) /\ Concerned(call[p])' = Concerned(call[p])
                             /\ Concerned(call[q])' = Concerned(call[q])
        BY DEF GoesOn, Busy, Concerned, Slots
    <2> QED BY <2>1 DEF MeetingsSeen
<1>4. OffWhileLoaded'
    BY DEF OffWhileLoaded, GoesOn, Loads
<1>5. NeverHalfLoaded'
    BY DEF NeverHalfLoaded, Slots
<1> QED BY <1>1, <1>2, <1>3, <1>4, <1>5

\* A call that returns, or whose process is killed, leaves the card as it is.
LEMMA Returned ==
    ASSUME FirewallInv, NEW p \in Procs, NEW ok \in BOOLEAN, Return(p, ok),
           UNCHANGED <<control, filters>>
    PROVE  FirewallInv'
<1>1. call' \in [Procs -> Calls]
    BY IdleCall DEF FirewallInv, Typed, Return
<1>2. ASSUME NEW q \in Procs PROVE GoesOn(q)
    BY DEF FirewallInv, Typed, Return, GoesOn, Idle, Busy
<1> QED BY <1>1, <1>2, QuietStep DEF Return

\* The record c is that of a call that goes on from d, to no place where it is the
\* card's registers that matter.
Onward(c, d) ==
    /\ c \in Calls
    /\ c.at \in Points \ (Loads \cup {"turn off"})
    /\ c.op = d.op /\ c.slot = d.slot /\ c.rule = d.rule /\ c.word = d.word

\* A call that goes on, and may have closed the others' files.
LEMMA GoneOn ==
    ASSUME FirewallInv, NEW p \in Procs, Busy(p),
           call' \in [Procs -> Calls], Onward(call'[p], call[p]),
           \A q \in Procs \ {p} : \/ call'[q] = call[q]
                                  \/ call'[q] = [call[q] EXCEPT !.linked = FALSE],
           UNCHANGED control, UNCHANGED filters, UNCHANGED disturbed
    PROVE  FirewallInv'
<1>1. GoesOn(p)
    BY DEF GoesOn, Onward
<1>2. ASSUME NEW q \in Procs \ {p} PROVE GoesOn(q)
    <2>1. CASE call'[q] = call[q]
        BY <2>1 DEF GoesOn, Busy
    <2>2. CASE call'[q] = [call[q] EXCEPT !.linked = FALSE]
        <3>1. call[q] \in Calls
            BY DEF FirewallInv, Typed
        <3> QED BY <2>2, <3>1 DEF GoesOn, Busy, Calls
    <2> QED BY <2>1, <2>2
<1> QED BY <1>1, <1>2, QuietStep

\* The same, when the others' records are as they were.
LEMMA WentTo ==
    ASSUME FirewallInv, NEW p \in Procs, Busy(p), NEW c, Onward(c, call[p]),
           call' = [call EXCEPT ![p] = c],
           UNCHANGED control, UNCHANGED filters, UNCHANGED disturbed
    PROVE  FirewallInv'
<1>1. call' \in [Procs -> Calls] /\ call'[p] = c
    BY DEF FirewallInv, Typed, Onward
<1> QED BY <1>1, GoneOn DEF FirewallInv, Typed

\* A call that goes to another place, and no more.
LEMMA Gone ==
    ASSUME FirewallInv, NEW p \in Procs, NEW at \in Points \ (Loads \cup {"turn off"}), Busy(p),
           Goto(p, at), UNCHANGED control, UNCHANGED filters, UNCHANGED disturbed
    PROVE  FirewallInv'
<1> DEFINE c == [call[p] EXCEPT !.at = at]
<1>1. call[p] \in Calls
    BY DEF FirewallInv, Typed
<1>2. Onward(c, call[p])
    BY <1>1 DEF Onward, Calls
<1>3. call' = [call EXCEPT ![p] = c]
    BY DEF Goto, FirewallInv, Typed
<1> HIDE DEF c
<1> QED BY <1>2, <1>3, WentTo

\* Deleting a file leaves every process a call.
LEMMA UnlinkedType ==
    ASSUME Typed, NEW s \in Slots
    PROVE  Unlinked(s) \in [Procs -> Calls]
<1> SUFFICES ASSUME NEW q \in Procs PROVE Unlinked(s)[q] \in Calls
    BY DEF Unlinked
<1>1. call[q] \in Calls /\ [call[q] EXCEPT !.linked = FALSE] \in Calls
    BY DEF Typed, Calls
<1> QED BY <1>1 DEF Unlinked

\* A file is deleted by a process that has none open.
LEMMA Unlinking ==
    ASSUME FirewallInv, NEW p \in Procs, NEW s \in Slots, Busy(p),
           call[p].at \notin {"write", "rest"}, NEW c, Onward(c, call[p]),
           call' = [Unlinked(s) EXCEPT ![p] = c],
           UNCHANGED control, UNCHANGED filters, UNCHANGED disturbed
    PROVE  FirewallInv'
<1>1. call' \in [Procs -> Calls] /\ call'[p] = c
    BY UnlinkedType DEF FirewallInv, Onward
<1>2. \A q \in Procs \ {p} : call'[q] = Unlinked(s)[q]
    BY UnlinkedType DEF FirewallInv
<1>3. \A q \in Procs \ {p} : \/ call'[q] = call[q]
                             \/ call'[q] = [call[q] EXCEPT !.linked = FALSE]
    BY <1>2 DEF Unlinked
<1> QED BY <1>1, <1>3, GoneOn

\* The steps with the files.
LEMMA FileSteps ==
    ASSUME FirewallInv, NEW p \in Procs,
           \/ MakeDir(p) \/ Open(p) \/ Write(p) \/ Unlink(p)
           \/ OpenDir(p) \/ UnlinkNext(p) \/ RemoveDir(p) \/ Killed(p)
    PROVE  FirewallInv'
<1> USE DEF Card, Files, Same
<1>0. call[p] \in Calls /\ call[p].slot \in Slots
    BY DEF FirewallInv, Typed, Calls
<1>1. CASE Failed(p)
    BY <1>1, Returned DEF Failed
<1>2. CASE MakeDir(p) /\ ~Failed(p)
    BY <1>2, Gone DEF MakeDir, Points, Loads, Busy
<1>3. CASE Open(p) /\ ~Failed(p)
    <2> DEFINE c == [call[p] EXCEPT !.at = "write", !.linked = TRUE]
    <2>1. Onward(c, call[p])
        BY <1>0 DEF Onward, Calls, Points, Loads
    <2>2. call' = [call EXCEPT ![p] = c]
        BY <1>3 DEF Open, FirewallInv, Typed
    <2>3. Busy(p) /\ UNCHANGED control /\ UNCHANGED filters /\ UNCHANGED disturbed
        BY <1>3 DEF Open, Busy
    <2> HIDE DEF c
    <2> QED BY <2>1, <2>2, <2>3, WentTo
<1>4. CASE Write(p) /\ ~Failed(p)
    BY <1>4, Gone DEF Write, Points, Loads, Busy
<1>5. CASE Unlink(p) /\ ~Failed(p)
    <2> DEFINE c == [call[p] EXCEPT !.at = "off"]
    <2>1. Onward(c, call[p])
        BY <1>0 DEF Onward, Calls, Points, Loads
    <2>2. call' = [Unlinked(call[p].slot) EXCEPT ![p].at = "off"] /\ call[p].at = "unlink"
        BY <1>5 DEF Unlink
    <2>3. call' = [Unlinked(call[p].slot) EXCEPT ![p] = c]
        BY <2>2 DEF Unlinked
    <2>4. Busy(p) /\ UNCHANGED control /\ UNCHANGED filters /\ UNCHANGED disturbed
        BY <1>5 DEF Unlink, Busy
    <2> HIDE DEF c
    <2> QED BY <1>0, <2>1, <2>2, <2>3, <2>4, Unlinking
<1>6. CASE OpenDir(p) /\ ~Failed(p)
    <2>1. CASE Return(p, TRUE)
        BY <1>6, <2>1, Returned DEF OpenDir
    <2>2. CASE ~Return(p, TRUE)
        <3> DEFINE c == [call[p] EXCEPT !.at = "readdir", !.todo = {s \in Slots : file[s] # NoFile}]
        <3>1. Onward(c, call[p])
            BY <1>0 DEF Onward, Calls, Points, Loads
        <3>2. call' = [call EXCEPT ![p] = c]
            BY <1>6, <2>2 DEF OpenDir, FirewallInv, Typed
        <3>3. Busy(p) /\ UNCHANGED control /\ UNCHANGED filters /\ UNCHANGED disturbed
            BY <1>6, <2>2 DEF OpenDir, Busy
        <3> HIDE DEF c
        <3> QED BY <3>1, <3>2, <3>3, WentTo
    <2> QED BY <2>1, <2>2
<1>7. CASE UnlinkNext(p) /\ ~Failed(p)
    <2>1. CASE Goto(p, "rmdir")
        BY <1>7, <2>1, Gone DEF UnlinkNext, Points, Loads, Busy
    <2>2. CASE ~Goto(p, "rmdir")
        <3>1. PICK s \in call[p].todo : call' = [Unlinked(s) EXCEPT ![p].todo = @ \ {s}]
            BY <1>7, <2>2 DEF UnlinkNext
        <3> DEFINE c == [call[p] EXCEPT !.todo = @ \ {s}]
        <3>2. call[p].at = "readdir" /\ Busy(p) /\ s \in Slots
                /\ UNCHANGED control /\ UNCHANGED filters /\ UNCHANGED disturbed
            BY <1>0, <1>7, <2>2 DEF UnlinkNext, Busy, Calls
        <3>3. Onward(c, call[p])
            BY <1>0, <3>2 DEF Onward, Calls, Points, Loads
        <3>4. call' = [Unlinked(s) EXCEPT ![p] = c]
            BY <3>1, <3>2 DEF Unlinked
        <3> HIDE DEF c
        <3> QED BY <3>2, <3>3, <3>4, Unlinking
    <2> QED BY <2>1, <2>2
<1>8. CASE RemoveDir(p) /\ ~Failed(p)
    BY <1>8, Returned DEF RemoveDir
<1> QED BY <1>1, <1>2, <1>3, <1>4, <1>5, <1>6, <1>7, <1>8 DEF Killed

\* A call begins: those that it meets are marked.
LEMMA BeginStep ==
    ASSUME FirewallInv, NEW p \in Procs, NEW h, NEW op \in Ops \ {"none"},
           NEW slot \in -1 .. NumFilters, NEW text \in Texts, Begin(p, h, op, slot, text)
    PROVE  FirewallInv'
<1> USE DEF Card, Files
<1>0. call \in [Procs -> Calls] /\ control' = control /\ filters' = filters /\ ~Busy(p)
    BY DEF Begin, FirewallInv, Typed
<1>1. CASE ~Accepted(h, op, slot, text)
    <2>1. call' = call /\ disturbed' = disturbed
        BY <1>1 DEF Begin
    <2> QED BY <1>0, <2>1, QuietStep DEF GoesOn, Busy
<1>2. CASE Accepted(h, op, slot, text)
    <2> DEFINE c == [Idle EXCEPT !.at = Entry(op), !.op = op,
                                 !.rule = IF op = "set" THEN text ELSE Zero,
                                 !.slot = IF op = "clear all" THEN 0 ELSE slot]
               met == {q \in Procs \ {p} : Busy(q) /\ Concerned(call[q]) \cap Concerned(c) # {}}
    <2>1. /\ call' = [q \in Procs |->
                        IF q = p THEN [c EXCEPT !.alone = met = {}]
                        ELSE IF q \in met THEN [call[q] EXCEPT !.alone = FALSE] ELSE call[q]]
          /\ disturbed' = disturbed
                 \cup UNION {Concerned(call[q]) \cap Concerned(c) : q \in met}
        BY <1>2 DEF Begin
    <2>2. c \in Calls /\ c.at \in {"mkdir", "unlink", "off"} /\ c.at = Entry(op)
        <3>1. op # "clear all" => slot \in Slots
            BY <1>2 DEF Accepted
        <3>2. Entry(op) \in {"mkdir", "unlink", "off"}
            BY DEF Entry, Ops
        <3>3. (IF op = "set" THEN text ELSE Zero) \in Rules
            BY DEF Rules
        <3> QED BY <3>1, <3>2, <3>3, IdleCall DEF Calls, Points, Idle
    <2>3. /\ call'[p] \in Calls /\ call'[p].at \in {"mkdir", "unlink", "off"}
          /\ Concerned(call'[p]) = Concerned(c)
        <3>1. call'[p] = [c EXCEPT !.alone = (met = {})]
            BY <2>1
        <3> HIDE DEF c, met
        <3>2. (met = {}) \in BOOLEAN
            OBVIOUS
        <3> QED BY <2>2, <3>1, <3>2 DEF Calls, Concerned
    <2>4. \A q \in Procs \ {p} :
             /\ call'[q] \in Calls
             /\ call'[q].at = call[q].at /\ call'[q].op = call[q].op
             /\ call'[q].slot = call[q].slot /\ call'[q].rule = call[q].rule
             /\ call'[q].word = call[q].word
        BY <1>0, <2>1 DEF Calls
    <2>5. \A q \in Procs \ {p} :
             Busy(q) => Concerned(call[q]) \cap Concerned(c) \subseteq disturbed'
        BY <2>1
    <2>6. disturbed \subseteq disturbed'
        BY <2>1
    <2> HIDE DEF c, met
    <2>7. Typed'
        BY <1>0, <2>1, <2>3, <2>4 DEF FirewallInv, Typed
    <2>8. WordRead'
        <3> SUFFICES ASSUME NEW q \in Procs, call'[q].at \in {"turn off", "turn on"}
                     PROVE  call'[q].word \in [SharedRegister(call'[q].slot) -> SUBSET Flags]
            BY DEF WordRead, SharedRegister, Slots
        <3>1. q # p
            BY <2>3
        <3> QED BY <2>4, <3>1 DEF FirewallInv, WordRead
    <2>9. MeetingsSeen'
        <3> SUFFICES ASSUME NEW q \in Procs, NEW r \in Procs, q # r, Busy(q)', Busy(r)'
                     PROVE  (Concerned(call[q]) \cap Concerned(call[r]) \subseteq disturbed)'
            BY DEF MeetingsSeen
        <3>1. ASSUME NEW t \in Procs \ {p}, Busy(t)'
              PROVE  Busy(t) /\ Concerned(call[t])' = Concerned(call[t])
            BY <2>4, <3>1 DEF Busy, Concerned, Slots
        <3>2. Concerned(call[p])' = Concerned(c)
            BY <2>3 DEF Concerned, Slots
        <3>3. CASE q # p /\ r # p
            BY <2>6, <3>1, <3>3 DEF FirewallInv, MeetingsSeen
        <3>4. CASE q = p
            BY <2>5, <3>1, <3>2, <3>4
        <3>5. CASE r = p
            BY <2>5, <3>1, <3>2, <3>5
        <3> QED BY <3>3, <3>4, <3>5
    <2>10. OffWhileLoaded'
        <3> SUFFICES ASSUME NEW q \in Procs, call'[q].at \in Loads, call'[q].slot \notin disturbed'
                     PROVE  /\ "enable" \notin control'[call'[q].slot]
                            /\ call'[q].at # "half" =>
                                   filters'[call'[q].slot][1] = call'[q].rule
                            /\ call'[q].at \in {"on", "turn on"} =>
                                   filters'[call'[q].slot][2] = call'[q].rule
            BY DEF OffWhileLoaded
        <3>1. q # p
            BY <2>3 DEF Loads
        <3> QED BY <1>0, <2>4, <2>6, <3>1 DEF FirewallInv, OffWhileLoaded
    <2>11. NeverHalfLoaded'
        BY <1>0, <2>6 DEF FirewallInv, NeverHalfLoaded, Slots
    <2> QED BY <2>7, <2>8, <2>9, <2>10, <2>11 DEF FirewallInv
<1> QED BY <1>1, <1>2

-----------------------------------------------------------------------------
(* Steps with the card                                                     *)

\* A register stored changes its own slot, and those whose byte was stale.
LEMMA StoredBytes ==
    ASSUME FirewallInv, NEW p \in Procs, call[p].at \in {"turn off", "turn on"},
           NEW byte \in SUBSET Flags
    PROVE  /\ Stored(p, byte) \in [Slots -> SUBSET Flags]
           /\ Stored(p, byte)[call[p].slot] = byte
           /\ \A s \in Slots \ {call[p].slot} :
                 Stored(p, byte)[s] = control[s] \/ s \in Hit(p)
<1>1. call[p].slot \in Slots /\ call[p].word \in [SharedRegister(call[p].slot) -> SUBSET Flags]
    BY DEF FirewallInv, Typed, Calls, WordRead
<1>2. SharedRegister(call[p].slot) \subseteq Slots
    BY <1>1, SharedSlots
<1>3. control \in [Slots -> SUBSET Flags]
    BY DEF FirewallInv, Typed
<1> QED BY <1>1, <1>2, <1>3 DEF Stored, Hit

\* What a slot is set to.
LEMMA ControlType == \A text : Control(text) \in SUBSET Flags
BY DEF Control, Flags

\* A step of p with the card, after which p is at another place of the same call
\* or in none, keeps what is known of meetings, unless p alone had met on its slot.
LEMMA MeetingsKept ==
    ASSUME FirewallInv, NEW p \in Procs, Busy(p),
           \A q \in Procs \ {p} : call'[q] = call[q],
           Busy(p)' => Concerned(call[p])' = Concerned(call[p]),
           disturbed \subseteq disturbed' \/ /\ Alone(p)
                                             /\ disturbed \ {call[p].slot} \subseteq disturbed'
    PROVE  MeetingsSeen'
<1> SUFFICES ASSUME NEW q \in Procs, NEW r \in Procs, q # r, Busy(q)', Busy(r)'
             PROVE  (Concerned(call[q]) \cap Concerned(call[r]) \subseteq disturbed)'
    BY DEF MeetingsSeen
<1>1. Busy(q) /\ Busy(r) /\ Concerned(call[q])' = Concerned(call[q])
                         /\ Concerned(call[r])' = Concerned(call[r])
    BY DEF Busy, Concerned, Slots
<1>2. Concerned(call[q]) \cap Concerned(call[r]) \subseteq disturbed
    BY <1>1 DEF FirewallInv, MeetingsSeen
<1>3. Alone(p) => call[p].slot \notin Concerned(call[q]) \cap Concerned(call[r])
    BY <1>1 DEF Alone
<1> QED BY <1>1, <1>2, <1>3

\* The register is read.
LEMMA ReadControlStep ==
    ASSUME FirewallInv, NEW p \in Procs, ReadControl(p)
    PROVE  FirewallInv'
<1> USE DEF Card, Files, Same
<1> DEFINE c == call'[p]
           read == [s \in SharedRegister(call[p].slot) |-> control[s]]
<1>1. call \in [Procs -> Calls] /\ call[p] \in Calls /\ call[p].slot \in Slots
        /\ control \in [Slots -> SUBSET Flags]
    BY DEF FirewallInv, Typed, Calls
<1>2. read \in [SharedRegister(call[p].slot) -> SUBSET Flags] /\ read \in Register
    BY <1>1, SharedSlots DEF Register
<1>3. PICK at \in {"turn off", "turn on"} :
          /\ call' = [call EXCEPT ![p] = [call[p] EXCEPT !.at = at, !.word = read]]
          /\ at = "turn on" => call[p].at = "on"
    BY <1>1 DEF ReadControl
<1>4. [call[p] EXCEPT !.at = at, !.word = read] \in Calls
    BY <1>1, <1>2 DEF Calls, Points
<1>5. call' \in [Procs -> Calls] /\ \A q \in Procs \ {p} : call'[q] = call[q]
    BY <1>1, <1>3, <1>4
<1>6. /\ c.at = at /\ c.op = call[p].op /\ c.slot = call[p].slot /\ c.rule = call[p].rule
      /\ c.word = read
    BY <1>1, <1>3, <1>4 DEF Calls
<1>7. control' = control /\ filters' = filters /\ disturbed' = disturbed /\ Busy(p)
    BY DEF ReadControl, Busy
<1>8. Typed'
    BY <1>5, <1>7 DEF FirewallInv, Typed
<1>9. WordRead'
    <2> SUFFICES ASSUME NEW q \in Procs, call'[q].at \in {"turn off", "turn on"}
                 PROVE  call'[q].word \in [SharedRegister(call'[q].slot) -> SUBSET Flags]
        BY DEF WordRead, SharedRegister, Slots
    <2> QED BY <1>2, <1>5, <1>6 DEF FirewallInv, WordRead
<1>10. MeetingsSeen'
    <2>1. Concerned(call[p])' = Concerned(call[p])
        BY <1>6 DEF Concerned, Slots
    <2> QED BY <1>5, <1>7, <2>1, MeetingsKept
<1>11. OffWhileLoaded'
    <2> SUFFICES ASSUME NEW q \in Procs, call'[q].at \in Loads, call'[q].slot \notin disturbed'
                 PROVE  /\ "enable" \notin control'[call'[q].slot]
                        /\ call'[q].at # "half" => filters'[call'[q].slot][1] = call'[q].rule
                        /\ call'[q].at \in {"on", "turn on"} =>
                               filters'[call'[q].slot][2] = call'[q].rule
        BY DEF OffWhileLoaded
    <2>1. CASE q # p
        BY <1>5, <1>7, <2>1 DEF FirewallInv, OffWhileLoaded
    <2>2. CASE q = p
        <3>1. call[p].at = "on"
            BY <1>3, <1>6, <2>2 DEF Loads
        <3> QED BY <1>6, <1>7, <2>2, <3>1 DEF FirewallInv, OffWhileLoaded, Loads
    <2> QED BY <2>1, <2>2
<1>12. NeverHalfLoaded'
    BY <1>7 DEF FirewallInv, NeverHalfLoaded, Slots
<1> QED BY <1>8, <1>9, <1>10, <1>11, <1>12 DEF FirewallInv

\* What is asked of a slot being loaded, one call at a time.
LoadedSoFar(q) ==
    call[q].at \in Loads /\ call[q].slot \notin disturbed =>
        /\ "enable" \notin control[call[q].slot]
        /\ call[q].at # "half" => filters[call[q].slot][1] = call[q].rule
        /\ call[q].at \in {"on", "turn on"} => filters[call[q].slot][2] = call[q].rule

\* Two calls at the same slot have met there.
LEMMA SameSlot ==
    ASSUME FirewallInv, NEW p \in Procs, NEW q \in Procs \ {p}, Busy(p), Busy(q),
           call[p].slot = call[q].slot
    PROVE  call[p].slot \in disturbed /\ ~Alone(p)
<1>1. call[p].slot \in Concerned(call[p]) /\ call[p].slot \in Concerned(call[q])
    BY OwnSlot DEF FirewallInv, Typed
<1> QED BY <1>1 DEF FirewallInv, MeetingsSeen, Alone

\* The slot is turned off.
LEMMA TurnOffStep ==
    ASSUME FirewallInv, NEW p \in Procs, TurnOff(p)
    PROVE  FirewallInv'
<1> USE DEF Files
<1> DEFINE s == call[p].slot
<1>1. call \in [Procs -> Calls] /\ call[p] \in Calls /\ s \in Slots /\ Busy(p)
        /\ call[p].at = "turn off" /\ control \in [Slots -> SUBSET Flags]
    BY DEF FirewallInv, Typed, Calls, TurnOff, Busy
<1>2. [call[p] EXCEPT !.at = "half"] \in Calls
        /\ call' = [call EXCEPT ![p] = [call[p] EXCEPT !.at = "half"]]
    BY <1>1 DEF TurnOff, Goto, Calls, Points
<1>3. call' \in [Procs -> Calls] /\ \A q \in Procs \ {p} : call'[q] = call[q]
    BY <1>1, <1>2
<1>4. call'[p].at = "half" /\ call'[p].op = call[p].op /\ call'[p].slot = s
    BY <1>1, <1>2 DEF Calls
<1>5. /\ control' \in [Slots -> SUBSET Flags] /\ control'[s] = {}
      /\ \A t \in Slots \ {s} : control'[t] = control[t] \/ t \in disturbed'
      /\ filters' = filters
    BY <1>1, StoredBytes DEF TurnOff
<1>6. disturbed \ {s} \subseteq disturbed' /\ (Alone(p) \/ disturbed \subseteq disturbed')
    BY DEF TurnOff
<1>7. Typed'
    BY <1>3, <1>5 DEF FirewallInv, Typed
<1>8. WordRead'
    <2> SUFFICES ASSUME NEW q \in Procs, call'[q].at \in {"turn off", "turn on"}
                 PROVE  call'[q].word \in [SharedRegister(call'[q].slot) -> SUBSET Flags]
        BY DEF WordRead, SharedRegister, Slots
    <2> QED BY <1>3, <1>4 DEF FirewallInv, WordRead
<1>9. MeetingsSeen'
    <2>1. Concerned(call[p])' = Concerned(call[p])
        BY <1>4 DEF Concerned, Slots
    <2> QED BY <1>1, <1>3, <1>6, <2>1, MeetingsKept
<1>10. ASSUME NEW q \in Procs PROVE LoadedSoFar(q)'
    <2>1. CASE q = p
        BY <1>4, <1>5, <2>1 DEF LoadedSoFar
    <2>2. CASE q # p /\ call[q].at \in Loads /\ call[q].slot = s
        <3>1. s \in disturbed'
            BY <1>1, <1>6, <2>2, SameSlot DEF Busy, Loads
        <3> QED BY <1>3, <2>2, <3>1 DEF LoadedSoFar
    <2>3. CASE q # p /\ (call[q].at \in Loads => call[q].slot # s)
        <3>1. call[q].slot \in Slots /\ call'[q] = call[q]
            BY <1>1, <1>3, <2>3 DEF Calls
        <3> QED BY <1>5, <1>6, <2>3, <3>1 DEF LoadedSoFar, FirewallInv, OffWhileLoaded
    <2> QED BY <2>1, <2>2, <2>3
<1>11. NeverHalfLoaded'
    <2> SUFFICES ASSUME NEW t \in Slots, "enable" \in control'[t]
                 PROVE  filters'[t][1] = filters'[t][2] \/ t \in disturbed'
        BY DEF NeverHalfLoaded, Slots
    <2>1. t # s
        BY <1>5
    <2> QED BY <1>5, <1>6, <2>1 DEF FirewallInv, NeverHalfLoaded
<1> QED BY <1>7, <1>8, <1>9, <1>10, <1>11 DEF FirewallInv, OffWhileLoaded, LoadedSoFar

\* Half of the filter is loaded.
LEMMA LoadHalfStep ==
    ASSUME FirewallInv, NEW p \in Procs, LoadHalf(p)
    PROVE  FirewallInv'
<1> USE DEF Files, Same
<1> DEFINE s == call[p].slot
           half == IF call[p].at = "half" THEN 1 ELSE 2
<1>1. call \in [Procs -> Calls] /\ call[p] \in Calls /\ s \in Slots /\ call[p].rule \in Rules
        /\ Busy(p) /\ call[p].at \in {"half", "full"}
        /\ filters \in [Slots -> [1 .. 2 -> Rules]]
    BY DEF FirewallInv, Typed, Calls, LoadHalf, Busy
<1> DEFINE at == IF call[p].at = "half" THEN "full" ELSE "on"
<1>2. [call[p] EXCEPT !.at = at] \in Calls
        /\ call' = [call EXCEPT ![p] = [call[p] EXCEPT !.at = at]]
    BY <1>1 DEF LoadHalf, Goto, Calls, Points
<1>3. call' \in [Procs -> Calls] /\ \A q \in Procs \ {p} : call'[q] = call[q]
    BY <1>1, <1>2
<1>4. call'[p].at = at /\ call'[p].op = call[p].op /\ call'[p].slot = s
        /\ call'[p].rule = call[p].rule
    BY <1>1, <1>2 DEF Calls
<1>5. /\ filters' \in [Slots -> [1 .. 2 -> Rules]]
      /\ filters'[s][half] = call[p].rule
      /\ \A i \in 1 .. 2 : i # half => filters'[s][i] = filters[s][i]
      /\ \A t \in Slots \ {s} : filters'[t] = filters[t]
      /\ control' = control /\ disturbed' = disturbed
    BY <1>1 DEF LoadHalf
<1>6. s \notin disturbed => /\ "enable" \notin control[s]
                            /\ call[p].at = "full" => filters[s][1] = call[p].rule
    <2>1. LoadedSoFar(p)
        BY DEF FirewallInv, OffWhileLoaded, LoadedSoFar
    <2> QED BY <1>1, <2>1 DEF LoadedSoFar, Loads
<1>7. Typed'
    BY <1>3, <1>5 DEF FirewallInv, Typed
<1>8. WordRead'
    <2> SUFFICES ASSUME NEW q \in Procs, call'[q].at \in {"turn off", "turn on"}
                 PROVE  call'[q].word \in [SharedRegister(call'[q].slot) -> SUBSET Flags]
        BY DEF WordRead, SharedRegister, Slots
    <2> QED BY <1>3, <1>4 DEF FirewallInv, WordRead
<1>9. MeetingsSeen'
    <2>1. Concerned(call[p])' = Concerned(call[p])
        BY <1>4 DEF Concerned, Slots
    <2> QED BY <1>1, <1>3, <1>5, <2>1, MeetingsKept
<1>10. ASSUME NEW q \in Procs PROVE LoadedSoFar(q)'
    <2>1. CASE q = p
        <3> SUFFICES ASSUME s \notin disturbed'
                     PROVE  /\ "enable" \notin control'[s]
                            /\ filters'[s][1] = call[p].rule
                            /\ at = "on" => filters'[s][2] = call[p].rule
            BY <1>4, <2>1 DEF LoadedSoFar
        <3>1. "enable" \notin control'[s]
            BY <1>5, <1>6
        <3>2. CASE call[p].at = "half"
            BY <1>5, <3>1, <3>2
        <3>3. CASE call[p].at = "full"
            BY <1>5, <1>6, <3>1, <3>3
        <3> QED BY <1>1, <3>2, <3>3
    <2>2. CASE q # p /\ call[q].at \in Loads /\ call[q].slot = s
        <3>1. s \in disturbed'
            BY <1>1, <1>5, <2>2, SameSlot DEF Busy, Loads
        <3> QED BY <1>3, <2>2, <3>1 DEF LoadedSoFar
    <2>3. CASE q # p /\ (call[q].at \in Loads => call[q].slot # s)
        <3>1. call[q].slot \in Slots /\ call'[q] = call[q]
            BY <1>1, <1>3, <2>3 DEF Calls
        <3>2. LoadedSoFar(q)
            BY DEF FirewallInv, OffWhileLoaded, LoadedSoFar
        <3>3. call[q].at \in Loads => filters'[call[q].slot] = filters[call[q].slot]
            BY <1>5, <2>3, <3>1
        <3> QED BY <1>5, <3>1, <3>2, <3>3 DEF LoadedSoFar
    <2> QED BY <2>1, <2>2, <2>3
<1>11. NeverHalfLoaded'
    <2> SUFFICES ASSUME NEW t \in Slots, "enable" \in control'[t]
                 PROVE  filters'[t][1] = filters'[t][2] \/ t \in disturbed'
        BY DEF NeverHalfLoaded, Slots
    <2> QED BY <1>5, <1>6 DEF FirewallInv, NeverHalfLoaded
<1> QED BY <1>7, <1>8, <1>9, <1>10, <1>11 DEF FirewallInv, OffWhileLoaded, LoadedSoFar

\* The slot is turned on, with both halves loaded.
LEMMA TurnOnStep ==
    ASSUME FirewallInv, NEW p \in Procs, TurnOn(p)
    PROVE  FirewallInv'
<1> USE DEF Files
<1> DEFINE s == call[p].slot
<1>1. call \in [Procs -> Calls] /\ call[p] \in Calls /\ s \in Slots /\ Busy(p)
        /\ call[p].at = "turn on" /\ control \in [Slots -> SUBSET Flags]
    BY DEF FirewallInv, Typed, Calls, TurnOn, Busy
<1>2. /\ call' \in [Procs -> Calls]
      /\ \A q \in Procs \ {p} : call'[q] = call[q]
      /\ call'[p].at \in {"off", "opendir", "idle"}
      /\ call'[p].at # "idle" => call[p].op = "clear all" /\ call'[p].op = "clear all"
    <2>1. CASE call[p].op # "clear all"
        <3>1. call' = [call EXCEPT ![p] = Idle]
            BY <2>1 DEF TurnOn
        <3> QED BY <1>1, <3>1, IdleCall DEF Idle
    <2>2. CASE call[p].op = "clear all" /\ s + 1 \in Slots
        <3> DEFINE c == [call[p] EXCEPT !.at = "off", !.slot = s + 1]
        <3>1. c \in Calls /\ c.at = "off" /\ c.op = "clear all"
            BY <1>1, <2>2 DEF Calls, Points
        <3>2. call' = [call EXCEPT ![p] = c]
            BY <1>1, <2>2 DEF TurnOn
        <3> HIDE DEF c
        <3> QED BY <1>1, <2>2, <3>1, <3>2
    <2>3. CASE call[p].op = "clear all" /\ s + 1 \notin Slots
        <3> DEFINE c == [call[p] EXCEPT !.at = "opendir"]
        <3>1. c \in Calls /\ c.at = "opendir" /\ c.op = "clear all"
            BY <1>1, <2>3 DEF Calls, Points
        <3>2. call' = [call EXCEPT ![p] = c]
            BY <1>1, <2>3 DEF TurnOn
        <3> HIDE DEF c
        <3> QED BY <1>1, <2>3, <3>1, <3>2
    <2> QED BY <2>1, <2>2, <2>3
<1>3. /\ control' \in [Slots -> SUBSET Flags]
      /\ \A t \in Slots \ {s} : control'[t] = control[t] \/ t \in disturbed'
      /\ filters' = filters /\ disturbed \subseteq disturbed'
    <2> DEFINE byte == call[p].word[s] \cup Control(call[p].rule)
    <2>1. call[p].word[s] \in SUBSET Flags
        BY <1>1, SharedSlots DEF FirewallInv, WordRead
    <2>2. byte \in SUBSET Flags
        BY <2>1, ControlType
    <2>3. control' = Stored(p, byte) /\ disturbed' = disturbed \cup Hit(p) /\ filters' = filters
        BY DEF TurnOn
    <2> HIDE DEF byte
    <2> QED BY <1>1, <2>2, <2>3, StoredBytes
<1>4. s \in disturbed' \/ filters'[s][1] = filters'[s][2]
    <2>1. LoadedSoFar(p)
        BY DEF FirewallInv, OffWhileLoaded, LoadedSoFar
    <2> QED BY <1>1, <1>3, <2>1 DEF LoadedSoFar, Loads
<1>5. Typed'
    BY <1>2, <1>3 DEF FirewallInv, Typed
<1>6. WordRead'
    <2> SUFFICES ASSUME NEW q \in Procs, call'[q].at \in {"turn off", "turn on"}
                 PROVE  call'[q].word \in [SharedRegister(call'[q].slot) -> SUBSET Flags]
        BY DEF WordRead, SharedRegister, Slots
    <2> QED BY <1>2 DEF FirewallInv, WordRead
<1>7. MeetingsSeen'
    <2>1. Busy(p)' => Concerned(call[p])' = Concerned(call[p])
        BY <1>2 DEF Concerned, Slots, Busy
    <2> QED BY <1>1, <1>2, <1>3, <2>1, MeetingsKept
<1>8. ASSUME NEW q \in Procs PROVE LoadedSoFar(q)'
    <2>1. CASE q = p
        BY <1>2, <2>1 DEF LoadedSoFar, Loads
    <2>2. CASE q # p /\ call[q].at \in Loads /\ call[q].slot = s
        <3>1. s \in disturbed'
            BY <1>1, <1>3, <2>2, SameSlot DEF Busy, Loads
        <3> QED BY <1>2, <2>2, <3>1 DEF LoadedSoFar
    <2>3. CASE q # p /\ (call[q].at \in Loads => call[q].slot # s)
        <3>1. call[q].slot \in Slots /\ call'[q] = call[q]
            BY <1>1, <1>2, <2>3 DEF Calls
        <3> QED BY <1>3, <2>3, <3>1 DEF LoadedSoFar, FirewallInv, OffWhileLoaded
    <2> QED BY <2>1, <2>2, <2>3
<1>9. NeverHalfLoaded'
    <2> SUFFICES ASSUME NEW t \in Slots, "enable" \in control'[t]
                 PROVE  filters'[t][1] = filters'[t][2] \/ t \in disturbed'
        BY DEF NeverHalfLoaded, Slots
    <2>1. CASE t = s
        BY <1>4, <2>1
    <2>2. CASE t # s
        BY <1>3, <2>2 DEF FirewallInv, NeverHalfLoaded
    <2> QED BY <2>1, <2>2
<1> QED BY <1>5, <1>6, <1>7, <1>8, <1>9 DEF FirewallInv, OffWhileLoaded, LoadedSoFar

-----------------------------------------------------------------------------
\* A step of the processes that configure the card.
LEMMA FirewallStep == FirewallInv /\ FirewallNext => FirewallInv'
<1> SUFFICES ASSUME FirewallInv, FirewallNext PROVE FirewallInv'
    OBVIOUS
<1>1. ASSUME NEW s \in {"disable", "enable"}, SetState("firewall", s) PROVE FirewallInv'
    <2>1. call' = call /\ UNCHANGED <<control, filters, disturbed>>
        BY <1>1 DEF SetState
    <2>2. call' \in [Procs -> Calls]
        BY <2>1 DEF FirewallInv, Typed
    <2> QED BY <2>1, <2>2, QuietStep DEF GoesOn, Busy
<1>2. ASSUME NEW p \in Procs, NEW h \in {"firewall", "nic"},
             NEW op \in {"set", "clear", "clear all"},
             NEW slot \in -1 .. NumFilters, NEW text \in Texts, Begin(p, h, op, slot, text)
      PROVE  FirewallInv'
    BY <1>2, BeginStep DEF Ops
<1>3. ASSUME NEW p \in Procs,
             \/ MakeDir(p) \/ Open(p) \/ Write(p) \/ Unlink(p)
             \/ OpenDir(p) \/ UnlinkNext(p) \/ RemoveDir(p)
             \/ ReadControl(p) \/ TurnOff(p) \/ LoadHalf(p) \/ TurnOn(p) \/ Killed(p)
      PROVE  FirewallInv'
    BY <1>3, FileSteps, ReadControlStep, TurnOffStep, LoadHalfStep, TurnOnStep
<1> QED BY <1>1, <1>2, <1>3 DEF FirewallNext

\* The other programs do not touch the firewall.
LEMMA ToolStep == FirewallInv /\ [Next]_toolVars => FirewallInv'
<1> SUFFICES ASSUME FirewallInv, [Next]_toolVars PROVE FirewallInv'
    OBVIOUS
<1>1. CASE UNCHANGED firewallVars
    <2>1. call' = call /\ UNCHANGED <<control, filters, disturbed>>
        BY <1>1 DEF firewallVars
    <2>2. call' \in [Procs -> Calls]
        BY <2>1 DEF FirewallInv, Typed
    <2> QED BY <2>1, <2>2, QuietStep DEF GoesOn, Busy
<1>2. CASE FirewallNext
    BY <1>2, FirewallStep
<1> QED BY <1>1, <1>2 DEF Next, toolVars

\* The card never applies a filter of two halves (exanic_set_firewall_filter_raw turns
\* the slot off first), however many processes set and clear filters of however many
\* slots, and wherever they are killed: unless another's call has turned the slot on.
THEOREM NeverHalfLoadedHolds == Spec => []NeverHalfLoaded
<1>1. Init => FirewallInv
    BY InitInv DEF Init
<1>2. FirewallInv /\ [Next]_toolVars => FirewallInv'
    BY ToolStep
<1>3. FirewallInv => NeverHalfLoaded
    BY DEF FirewallInv
<1> QED BY <1>1, <1>2, <1>3, PTL DEF Spec

-----------------------------------------------------------------------------
(* The card and the files                                                  *)

\* What FilterString makes of a file.
Text(f) == IF f = NoFile THEN Zero ELSE f

\* The history and the files.
FilesTyped ==
    /\ file \in [Slots -> Texts \cup {NoFile, Torn, Zero}]
    /\ dir \in BOOLEAN
    /\ sure \subseteq Slots

\* Where a call is goes with what it is for.
OpFits(c) ==
    /\ c.at = "idle" => c.op = "none"
    /\ c.at \in {"mkdir", "open", "write", "rest"} => c.op = "set"
    /\ c.at = "unlink" => c.op = "clear"
    /\ c.at \in {"opendir", "readdir", "rmdir"} => c.op = "clear all"
    /\ c.op = "set" => c.rule \in Texts
    /\ c.op # "set" => c.rule = Zero

\* A call that has met no other shares no slot with one.
AloneApart ==
    \A p, q \in Procs : p # q /\ Busy(p) /\ Busy(q) /\ call[p].alone =>
        Concerned(call[p]) \cap Concerned(call[q]) = {}

\* A slot of which the last call has succeeded is not one that a call is at.
SureFree == \A p \in Procs : Busy(p) => Concerned(call[p]) \cap sure = {}

\* A file that can be written to exists, and its directory.
FilesThere ==
    /\ ~dir => \A s \in Slots : file[s] = NoFile
    /\ \A p \in Procs : call[p].at \in {"write", "rest"} /\ call[p].linked =>
           file[call[p].slot] # NoFile

\* How far a call c has come with the control bytes ctl, the filters flt and the
\* files fl, of slots not in dist: the file has its rule before the card has; the slot
\* is off until it is turned on; clearing all has cleared the slots before its own.
Progress(c, ctl, flt, fl, dist) ==
    /\ c.at \in {"write", "rest"} /\ c.alone => c.linked
    /\ c.at \in {"off", "turn off"} \cup Loads /\ c.op # "clear all" /\ c.alone =>
           Text(fl[c.slot]) = c.rule
    /\ c.at \in Loads /\ c.slot \notin dist => ctl[c.slot] = {}
    /\ c.at = "turn on" /\ c.slot \notin dist => c.word[c.slot] = {}
    /\ c.op = "clear all" =>
           \A i \in Slots \ dist :
               i < c.slot \/ c.at \in {"opendir", "readdir", "rmdir"} =>
                   ctl[i] = {} /\ flt[i][1] = Zero /\ flt[i][2] = Zero

\* Card and file of a slot agree: both halves of the filter hold the file's rule.
Agrees(i, ctl, flt, fl) ==
    ctl[i] = Control(Text(fl[i])) /\ flt[i][1] = Text(fl[i]) /\ flt[i][2] = Text(fl[i])

\* The invariant that the steps keep besides FirewallInv.
CardInv ==
    /\ FilesTyped /\ AloneApart /\ SureFree /\ FilesThere
    /\ \A p \in Procs : /\ OpFits(call[p])
                        /\ Progress(call[p], control, filters, file, disturbed)
    /\ \A i \in sure \ disturbed : Agrees(i, control, filters, file)

\* A step of p disturbs the slots of others only as the history tells, and takes from
\* the disturbed slots at most its own, when no other call is at it.
Elsewhere(p) ==
    \A i \in Slots \ Concerned(call[p]) :
        /\ file'[i] = file[i]
        /\ i \notin disturbed' => /\ i \notin disturbed
                                  /\ control'[i] = control[i] /\ filters'[i] = filters[i]
Wider(p) ==
    disturbed \subseteq disturbed' \/ (Alone(p) /\ disturbed \ {call[p].slot} \subseteq disturbed')

\* All it does to other calls is to unlink a file of its own that they write to.
Apart(p) ==
    \A q \in Procs \ {p} :
        \/ call'[q] = call[q]
        \/ call'[q] = [call[q] EXCEPT !.linked = FALSE] /\ call[q].slot \in Concerned(call[p])

\* Between calls nothing is asked.
LEMMA IdleProgress ==
    ASSUME NEW c, OpFits(c), c.at = "idle",
           NEW ctl, NEW flt, NEW fl, NEW dist
    PROVE  Progress(c, ctl, flt, fl, dist)
BY DEF OpFits, Progress, Loads

\* The other call, before and after.
LEMMA SameCall ==
    ASSUME FirewallInv, NEW p \in Procs, Apart(p), NEW q \in Procs \ {p}
    PROVE  /\ call[q] \in Calls
           /\ call'[q].at = call[q].at /\ call'[q].op = call[q].op
           /\ call'[q].slot = call[q].slot /\ call'[q].rule = call[q].rule
           /\ call'[q].word = call[q].word /\ call'[q].alone = call[q].alone
           /\ call'[q].linked = call[q].linked
                  \/ (~call'[q].linked /\ call[q].slot \in Concerned(call[p]))
<1>1. call[q] \in Calls
    BY DEF FirewallInv, Typed
<1>2. CASE call'[q] = call[q]
    BY <1>1, <1>2
<1>3. CASE call'[q] = [call[q] EXCEPT !.linked = FALSE] /\ call[q].slot \in Concerned(call[p])
    BY <1>1, <1>3 DEF Calls
<1> QED BY <1>2, <1>3 DEF Apart

\* So the other calls are as far as they were.
LEMMA OthersProgress ==
    ASSUME FirewallInv, CardInv, NEW p \in Procs, Busy(p), Elsewhere(p), Apart(p), Wider(p),
           NEW q \in Procs \ {p}
    PROVE  Progress(call'[q], control', filters', file', disturbed')
<1> DEFINE c == call[q]
           d == call'[q]
<1>1. /\ c \in Calls
      /\ d.at = c.at /\ d.op = c.op /\ d.slot = c.slot /\ d.rule = c.rule
      /\ d.word = c.word /\ d.alone = c.alone
      /\ d.linked = c.linked \/ (~d.linked /\ c.slot \in Concerned(call[p]))
    BY SameCall
<1>2. OpFits(c) /\ Progress(c, control, filters, file, disturbed)
    BY DEF CardInv
<1>3. CASE ~Busy(q)
    <2>1. d.at = "idle" /\ OpFits(d)
        BY <1>1, <1>2, <1>3 DEF OpFits, Busy
    <2> QED BY <2>1, IdleProgress
<1>4. CASE Busy(q)
    <2>1. c.slot \in Concerned(c) /\ Concerned(c) \subseteq Slots
        BY <1>1, OwnSlot
    <2>2. ASSUME NEW i \in Concerned(c), i \notin disturbed'
          PROVE  i \notin disturbed /\ control'[i] = control[i] /\ filters'[i] = filters[i]
        <3>1. i \notin Concerned(call[p])
            <4> SUFFICES ASSUME i \in Concerned(call[p]) PROVE FALSE
                OBVIOUS
            <4>1. i \in disturbed
                BY <1>4 DEF FirewallInv, MeetingsSeen
            <4>2. ~(Alone(p) /\ i = call[p].slot)
                BY <1>4, <2>2 DEF Alone
            <4> QED BY <2>2, <4>1, <4>2 DEF Wider
        <3> QED BY <2>1, <2>2, <3>1 DEF Elsewhere
    <2>3. ASSUME c.alone
          PROVE  d.linked = c.linked /\ file'[c.slot] = file[c.slot]
        <3>1. c.slot \notin Concerned(call[p])
            BY <1>4, <2>1, <2>3 DEF CardInv, AloneApart
        <3> QED BY <1>1, <2>1, <3>1 DEF Elsewhere
    <2>4. ASSUME c.op = "clear all"
          PROVE  \A i \in Slots \ disturbed' :
                     i \notin disturbed /\ control'[i] = control[i] /\ filters'[i] = filters[i]
        BY <2>2, <2>4 DEF Concerned
    <2> HIDE DEF c, d
    <2>5. d.at \in {"write", "rest"} /\ d.alone => d.linked
        BY <1>1, <1>2, <2>3 DEF Progress
    <2>6. d.at \in {"off", "turn off"} \cup Loads /\ d.op # "clear all" /\ d.alone =>
              Text(file'[d.slot]) = d.rule
        BY <1>1, <1>2, <2>3 DEF Progress
    <2>7. d.at \in Loads /\ d.slot \notin disturbed' => control'[d.slot] = {}
        BY <1>1, <1>2, <2>1, <2>2 DEF Progress
    <2>8. d.at = "turn on" /\ d.slot \notin disturbed' => d.word[d.slot] = {}
        BY <1>1, <1>2, <2>1, <2>2 DEF Progress
    <2>9. d.op = "clear all" =>
              \A i \in Slots \ disturbed' :
                  i < d.slot \/ d.at \in {"opendir", "readdir", "rmdir"} =>
                      control'[i] = {} /\ filters'[i][1] = Zero /\ filters'[i][2] = Zero
        BY ZenonT(60), <1>1, <1>2, <2>4 DEF Progress
    <2> QED BY <2>5, <2>6, <2>7, <2>8, <2>9 DEF Progress, d
<1> QED BY <1>3, <1>4

\* What p may say of its own slots when it returns, and of its call when it does not.
Own(p) ==
    /\ call'[p] \in Calls
    /\ OpFits(call'[p]) /\ Progress(call'[p], control', filters', file', disturbed')
    /\ call'[p].at # "idle" => /\ Concerned(call'[p]) = Concerned(call[p])
                               /\ call'[p].alone = call[p].alone /\ sure' = sure
    /\ call'[p].at = "idle" => sure' \in {sure, IF call[p].alone THEN sure \cup Concerned(call[p])
                                                                 ELSE sure}
    /\ \A i \in sure' \ disturbed' :
           i \in Concerned(call[p]) => Agrees(i, control', filters', file')

\* A step of p that keeps to what it may do keeps the invariant.
LEMMA OwnStep ==
    ASSUME FirewallInv, CardInv, NEW p \in Procs, Busy(p), Elsewhere(p), Apart(p), Wider(p),
           Own(p), FilesTyped', FilesThere'
    PROVE  CardInv'
<1>1. \A q \in Procs : call[q] \in Calls
    BY DEF FirewallInv, Typed
<1>2. ASSUME NEW q \in Procs \ {p}
      PROVE  /\ Busy(q)' <=> Busy(q)
             /\ Concerned(call'[q]) = Concerned(call[q])
             /\ call'[q].alone = call[q].alone
    BY <1>2, SameCall DEF Busy, Concerned
<1>3. Busy(p)' => /\ Concerned(call'[p]) = Concerned(call[p])
                  /\ call'[p].alone = call[p].alone /\ sure' = sure
    BY DEF Own, Busy
<1>4. AloneApart'
    <2> SUFFICES ASSUME NEW q \in Procs, NEW r \in Procs, q # r, Busy(q)', Busy(r)',
                        call'[q].alone
                 PROVE  Concerned(call'[q]) \cap Concerned(call'[r]) = {}
        BY DEF AloneApart, Concerned, Slots
    <2>1. Busy(q) /\ Concerned(call'[q]) = Concerned(call[q]) /\ call[q].alone
        BY <1>2, <1>3
    <2>2. Busy(r) /\ Concerned(call'[r]) = Concerned(call[r])
        BY <1>2, <1>3
    <2> QED BY <2>1, <2>2 DEF CardInv, AloneApart
<1>5. SureFree'
    <2> SUFFICES ASSUME NEW q \in Procs, Busy(q)'
                 PROVE  Concerned(call'[q]) \cap sure' = {}
        BY DEF SureFree, Concerned, Slots
    <2>1. Busy(q) /\ Concerned(call'[q]) = Concerned(call[q])
        BY <1>2, <1>3
    <2>2. CASE sure' = sure
        BY <2>1, <2>2 DEF CardInv, SureFree
    <2>3. CASE sure' # sure
        <3>1. ~Busy(p)' /\ call[p].alone /\ sure' = sure \cup Concerned(call[p])
            BY <1>3, <2>3 DEF Own, Busy
        <3>2. q # p
            BY <3>1
        <3>3. Concerned(call[q]) \cap Concerned(call[p]) = {}
            BY <2>1, <3>1, <3>2 DEF CardInv, AloneApart
        <3> QED BY <2>1, <3>1, <3>3 DEF CardInv, SureFree
    <2> QED BY <2>2, <2>3
<1>6. ASSUME NEW q \in Procs
      PROVE  OpFits(call'[q]) /\ Progress(call'[q], control', filters', file', disturbed')
    <2>1. CASE q = p
        BY <2>1 DEF Own
    <2>2. CASE q # p
        <3>1. OpFits(call'[q])
            <4>1. /\ call'[q].at = call[q].at /\ call'[q].op = call[q].op
                  /\ call'[q].rule = call[q].rule
                BY <2>2, SameCall
            <4>2. OpFits(call[q])
                BY DEF CardInv
            <4> QED BY <4>1, <4>2 DEF OpFits
        <3> QED BY <2>2, <3>1, OthersProgress
    <2> QED BY <2>1, <2>2
<1>7. ASSUME NEW i \in sure' \ disturbed'
      PROVE  Agrees(i, control', filters', file')
    <2>1. CASE i \in Concerned(call[p])
        BY <1>7, <2>1 DEF Own
    <2>2. CASE i \notin Concerned(call[p])
        <3>1. i \in sure /\ i \in Slots
            BY <1>7, <2>2 DEF Own, CardInv, FilesTyped
        <3>2. /\ file'[i] = file[i] /\ i \notin disturbed
              /\ control'[i] = control[i] /\ filters'[i] = filters[i]
            BY <1>7, <2>2, <3>1 DEF Elsewhere
        <3>3. Agrees(i, control, filters, file)
            BY <3>1, <3>2 DEF CardInv
        <3> QED BY <3>2, <3>3 DEF Agrees
    <2> QED BY <2>1, <2>2
<1> QED BY <1>4, <1>5, <1>6, <1>7 DEF CardInv

\* The card has no rules and no files to begin with.
LEMMA CardInit == FirewallInit => CardInv
<1> SUFFICES ASSUME FirewallInit PROVE CardInv
    OBVIOUS
<1>1. /\ Idle.at = "idle" /\ Idle.op = "none" /\ Idle.rule = Zero
      /\ \A p \in Procs : call[p] = Idle
    BY DEF FirewallInit, Idle
<1>2. FilesTyped
    BY DEF FirewallInit, FilesTyped
<1>3. AloneApart /\ SureFree
    BY <1>1 DEF AloneApart, SureFree, Busy
<1>4. FilesThere
    BY <1>1 DEF FirewallInit, FilesThere
<1>5. OpFits(Idle)
    BY <1>1 DEF OpFits
<1>6. \A p \in Procs : Progress(call[p], control, filters, file, disturbed)
    BY <1>1, <1>5, IdleProgress
<1>7. ASSUME NEW i \in sure \ disturbed PROVE Agrees(i, control, filters, file)
    <2>1. /\ i \in Slots /\ control[i] = {} /\ file[i] = NoFile
          /\ filters[i][1] = Zero /\ filters[i][2] = Zero
        BY DEF FirewallInit
    <2>2. Text(NoFile) = Zero /\ Control(Zero) = {}
        BY DEF Text, Control
    <2> QED BY <2>1, <2>2 DEF Agrees
<1> QED BY <1>1, <1>2, <1>3, <1>4, <1>5, <1>6, <1>7 DEF CardInv

\* A step that leaves the card and the calls alone.
LEMMA CardLeft ==
    ASSUME CardInv, UNCHANGED <<control, filters, file, dir, call, sure, disturbed>>
    PROVE  CardInv'
<1>1. FilesTyped' /\ FilesThere'
    BY DEF CardInv, FilesTyped, FilesThere, Slots
<1>2. AloneApart' /\ SureFree'
    BY DEF CardInv, AloneApart, SureFree, Busy, Concerned, Slots
<1>3. ASSUME NEW p \in Procs
      PROVE  OpFits(call'[p]) /\ Progress(call'[p], control', filters', file', disturbed')
    BY DEF CardInv
<1>4. ASSUME NEW i \in sure' \ disturbed' PROVE Agrees(i, control', filters', file')
    BY DEF CardInv
<1> QED BY <1>1, <1>2, <1>3, <1>4 DEF CardInv

\* A call begins with all to do, and is alone if it meets no other.
LEMMA BeginCard ==
    ASSUME FirewallInv, CardInv, NEW p \in Procs, NEW h, NEW op \in Ops \ {"none"},
           NEW slot \in -1 .. NumFilters, NEW text \in Texts, Begin(p, h, op, slot, text)
    PROVE  CardInv'
<1> USE DEF Card, Files
<1>0. /\ call \in [Procs -> Calls] /\ control' = control /\ filters' = filters /\ ~Busy(p)
      /\ file' = file /\ dir' = dir
    BY DEF Begin, FirewallInv, Typed
<1>1. CASE ~Accepted(h, op, slot, text)
    <2>1. call' = call /\ disturbed' = disturbed /\ sure' = sure
        BY <1>1 DEF Begin
    <2> QED BY <1>0, <2>1, CardLeft
<1>2. CASE Accepted(h, op, slot, text)
    <2> DEFINE c == [Idle EXCEPT !.at = Entry(op), !.op = op,
                                 !.rule = IF op = "set" THEN text ELSE Zero,
                                 !.slot = IF op = "clear all" THEN 0 ELSE slot]
               met == {q \in Procs \ {p} : Busy(q) /\ Concerned(call[q]) \cap Concerned(c) # {}}
               d == call'[p]
    <2>1. /\ call' = [q \in Procs |->
                        IF q = p THEN [c EXCEPT !.alone = met = {}]
                        ELSE IF q \in met THEN [call[q] EXCEPT !.alone = FALSE] ELSE call[q]]
          /\ disturbed' = disturbed
                 \cup UNION {Concerned(call[q]) \cap Concerned(c) : q \in met}
          /\ sure' = sure \ Concerned(c)
        BY <1>2 DEF Begin
    <2>2. /\ d.at = Entry(op) /\ d.op = op /\ d.rule = (IF op = "set" THEN text ELSE Zero)
          /\ d.slot = (IF op = "clear all" THEN 0 ELSE slot)
          /\ d.alone => met = {}
          /\ Concerned(d) = Concerned(c)
        BY <2>1 DEF Concerned, Idle
    <2>3. \A q \in met : call'[q] = [call[q] EXCEPT !.alone = FALSE] /\ call[q] \in Calls
        BY <1>0, <2>1
    <2>4. \A q \in Procs \ {p} : q \notin met => call'[q] = call[q]
        BY <2>1
    <2>5. \A q \in Procs \ {p} :
             /\ call'[q].at = call[q].at /\ call'[q].op = call[q].op
             /\ call'[q].slot = call[q].slot /\ call'[q].rule = call[q].rule
             /\ call'[q].word = call[q].word /\ call'[q].linked = call[q].linked
             /\ call'[q].alone => call[q].alone /\ q \notin met
        <3> SUFFICES ASSUME NEW q \in Procs \ {p}
                     PROVE  /\ call'[q].at = call[q].at /\ call'[q].op = call[q].op
                            /\ call'[q].slot = call[q].slot /\ call'[q].rule = call[q].rule
                            /\ call'[q].word = call[q].word /\ call'[q].linked = call[q].linked
                            /\ call'[q].alone => call[q].alone /\ q \notin met
            OBVIOUS
        <3>1. CASE q \in met
            BY <2>3, <3>1 DEF Calls
        <3>2. CASE q \notin met
            BY <2>4, <3>2
        <3> QED BY <3>1, <3>2
    <2>6. disturbed \subseteq disturbed'
        BY <2>1
    <2>7. \A q \in Procs \ {p} :
             Busy(q) /\ q \notin met => Concerned(call[q]) \cap Concerned(c) = {}
        OBVIOUS
    <2>8. sure' \cap Concerned(c) = {} /\ sure' \subseteq sure
        BY <2>1
    <2> HIDE DEF c, met, d
    <2>9. FilesTyped'
        BY <1>0, <2>8 DEF CardInv, FilesTyped, Slots
    <2>10. OpFits(d) /\ Progress(d, control', filters', file', disturbed')
        <3>1. d.at \in {"mkdir", "unlink", "off"} /\ (op = "set" => d.at = "mkdir")
                  /\ (op = "clear" => d.at = "unlink") /\ (op = "clear all" => d.at = "off")
            BY <2>2 DEF Entry, Ops
        <3>2. OpFits(d)
            BY <2>2, <3>1 DEF OpFits, Ops
        <3>3. ASSUME op = "clear all", NEW i \in Slots PROVE ~(i < d.slot)
            <4>1. d.slot = 0
                BY <2>2, <3>3
            <4>2. i \in Int /\ i >= 0
                BY FirewallAssumption DEF Slots
            <4> QED BY <4>1, <4>2
        <3>4. Progress(d, control', filters', file', disturbed')
            BY <2>2, <3>1, <3>3 DEF Progress, Loads, Ops
        <3> QED BY <3>2, <3>4
    <2>11. FilesThere'
        <3>1. ~dir' => \A s \in Slots : file'[s] = NoFile
            BY <1>0 DEF CardInv, FilesThere
        <3>2. ASSUME NEW q \in Procs, call'[q].at \in {"write", "rest"}, call'[q].linked
              PROVE  file'[call'[q].slot] # NoFile
            <4>1. q # p
                BY <2>2, <3>2 DEF Entry, Ops, d
            <4> QED BY <1>0, <2>5, <3>2, <4>1 DEF CardInv, FilesThere
        <3> QED BY <3>1, <3>2 DEF FilesThere, Slots
    <2>12. ASSUME NEW q \in Procs \ {p}
           PROVE  /\ Busy(q)' <=> Busy(q)
                  /\ Concerned(call'[q]) = Concerned(call[q])
        BY <2>5 DEF Busy, Concerned
    <2>13. AloneApart'
        <3> SUFFICES ASSUME NEW q \in Procs, NEW r \in Procs, q # r, Busy(q)', Busy(r)',
                            call'[q].alone
                     PROVE  Concerned(call'[q]) \cap Concerned(call'[r]) = {}
            BY DEF AloneApart, Concerned, Slots
        <3>1. CASE q # p /\ r # p
            BY <2>5, <2>12, <3>1 DEF CardInv, AloneApart
        <3>2. CASE q = p
            <4>1. r \notin met /\ Busy(r) /\ Concerned(call'[r]) = Concerned(call[r])
                BY <2>2, <2>12, <3>2 DEF d
            <4> QED BY <2>2, <2>7, <3>2, <4>1 DEF d
        <3>3. CASE r = p
            <4>1. q \notin met /\ Busy(q) /\ Concerned(call'[q]) = Concerned(call[q])
                BY <2>5, <2>12, <3>3
            <4> QED BY <2>2, <2>7, <3>3, <4>1 DEF d
        <3> QED BY <3>1, <3>2, <3>3
    <2>14. SureFree'
        <3> SUFFICES ASSUME NEW q \in Procs, Busy(q)'
                     PROVE  Concerned(call'[q]) \cap sure' = {}
            BY DEF SureFree, Concerned, Slots
        <3>1. CASE q = p
            BY <2>2, <2>8, <3>1 DEF d
        <3>2. CASE q # p
            BY <2>8, <2>12, <3>2 DEF CardInv, SureFree
        <3> QED BY <3>1, <3>2
    <2>15. ASSUME NEW q \in Procs
           PROVE  OpFits(call'[q]) /\ Progress(call'[q], control', filters', file', disturbed')
        <3>1. CASE q = p
            BY <2>10, <3>1 DEF d
        <3>2. CASE q # p
            <4> DEFINE a == call[q]
                       b == call'[q]
            <4>1. OpFits(a) /\ Progress(a, control, filters, file, disturbed)
                BY DEF CardInv
            <4>2. /\ b.at = a.at /\ b.op = a.op /\ b.slot = a.slot /\ b.rule = a.rule
                  /\ b.word = a.word /\ b.linked = a.linked /\ (b.alone => a.alone)
                BY <2>5, <3>2
            <4> HIDE DEF a, b
            <4>3. OpFits(b)
                BY <4>1, <4>2 DEF OpFits
            <4>4. Progress(b, control', filters', file', disturbed')
                BY <1>0, <2>6, <4>1, <4>2 DEF Progress
            <4> QED BY <4>3, <4>4 DEF b
        <3> QED BY <3>1, <3>2
    <2>16. ASSUME NEW i \in sure' \ disturbed' PROVE Agrees(i, control', filters', file')
        BY <1>0, <2>6, <2>8 DEF CardInv
    <2> QED BY <2>9, <2>11, <2>13, <2>14, <2>15, <2>16 DEF CardInv
<1> QED BY <1>1, <1>2

\* A call that goes on says nothing new of its slots.
LEMMA Continues ==
    ASSUME FirewallInv, CardInv, NEW p \in Procs, Busy(p), NEW d, d = call'[p], d \in Calls,
           Concerned(d) = Concerned(call[p]), d.alone = call[p].alone, d.at # "idle", sure' = sure,
           OpFits(d), Progress(d, control', filters', file', disturbed')
    PROVE  Own(p)
<1>1. \A i \in sure' \ disturbed' : i \notin Concerned(call[p])
    BY DEF CardInv, SureFree
<1> QED BY <1>1 DEF Own

\* A call that returns, or ends: if it succeeds, card and file agree on its slots.
LEMMA ReturnCard ==
    ASSUME FirewallInv, CardInv, NEW p \in Procs, Busy(p), NEW ok \in BOOLEAN, Return(p, ok),
           control' = control, filters' = filters, file' = file,
           dir' \in BOOLEAN, ~dir' => \A s \in Slots : file[s] = NoFile,
           ok /\ call[p].alone => \A i \in Concerned(call[p]) \ disturbed :
                                       Agrees(i, control, filters, file)
    PROVE  CardInv'
<1>1. call \in [Procs -> Calls] /\ call[p] \in Calls
    BY DEF FirewallInv, Typed
<1>2. /\ call'[p] = Idle /\ \A q \in Procs \ {p} : call'[q] = call[q]
      /\ sure' = (IF ok /\ call[p].alone THEN sure \cup Concerned(call[p]) ELSE sure)
      /\ disturbed' = disturbed
    BY <1>1 DEF Return
<1>3. Elsewhere(p) /\ Wider(p) /\ Apart(p)
    BY <1>2 DEF Elsewhere, Wider, Apart
<1>4. Own(p)
    <2>1. Idle.at = "idle" /\ OpFits(Idle) /\ Idle \in Calls
        BY IdleCall DEF Idle, OpFits
    <2>2. ASSUME NEW i \in sure' \ disturbed', i \in Concerned(call[p])
          PROVE  Agrees(i, control', filters', file')
        <3>1. i \notin sure
            BY <2>2 DEF CardInv, SureFree
        <3>2. ok /\ call[p].alone /\ i \notin disturbed
            BY <1>2, <2>2, <3>1
        <3>3. Agrees(i, control, filters, file)
            BY <2>2, <3>2
        <3> QED BY <3>3
    <2>3. Progress(call'[p], control', filters', file', disturbed')
        BY <1>2, <2>1, IdleProgress
    <2> QED BY <1>2, <2>1, <2>2, <2>3 DEF Own
<1>5. FilesTyped'
    <2>1. sure' \subseteq Slots
        BY <1>1, <1>2, OwnSlot DEF CardInv, FilesTyped
    <2> QED BY <2>1 DEF CardInv, FilesTyped, Slots
<1>6. FilesThere'
    <2>1. ASSUME NEW q \in Procs, call'[q].at \in {"write", "rest"}, call'[q].linked
          PROVE  file'[call'[q].slot] # NoFile
        <3>1. q # p
            BY <1>2, <2>1 DEF Idle
        <3> QED BY <1>2, <2>1, <3>1 DEF CardInv, FilesThere
    <2> QED BY <2>1 DEF FilesThere, Slots
<1> QED BY <1>3, <1>4, <1>5, <1>6, OwnStep

\* A call that fails, or whose process is killed.
LEMMA FailedCard ==
    ASSUME FirewallInv, CardInv, NEW p \in Procs, Busy(p), Failed(p)
    PROVE  CardInv'
<1>1. /\ control' = control /\ filters' = filters /\ file' = file /\ dir' = dir
      /\ Return(p, FALSE)
    BY DEF Failed, Card, Files
<1>2. dir' \in BOOLEAN /\ (~dir' => \A s \in Slots : file[s] = NoFile)
    BY <1>1 DEF CardInv, FilesTyped, FilesThere
<1> QED BY <1>1, <1>2, ReturnCard

\* A step with the files, after which the call d of p goes on.
FileStep(p, d) ==
    /\ call'[p] = d /\ Onward(d, call[p]) /\ d.alone = call[p].alone /\ d.at # "idle"
    /\ UNCHANGED <<control, filters, disturbed, sure>>
    /\ \A i \in Slots \ Concerned(call[p]) : file'[i] = file[i]
    /\ d.at \in {"write", "rest"} /\ d.alone => d.linked
    /\ d.at = "off" /\ d.op # "clear all" /\ d.alone => Text(file'[d.slot]) = d.rule
    /\ d.at \in {"opendir", "readdir", "rmdir"} =>
           call[p].at \in {"opendir", "readdir", "rmdir"}

\* It keeps the invariant, if it keeps what holds of the files.
LEMMA FileStepCard ==
    ASSUME FirewallInv, CardInv, NEW p \in Procs, Busy(p), NEW d, FileStep(p, d), OpFits(d),
           Apart(p), FilesTyped', FilesThere'
    PROVE  CardInv'
<1>1. Elsewhere(p) /\ Wider(p)
    BY DEF FileStep, Elsewhere, Wider
<1>2. /\ d \in Calls /\ d.at \notin Loads \cup {"turn off"}
      /\ d.op = call[p].op /\ d.slot = call[p].slot /\ d.rule = call[p].rule
    BY DEF FileStep, Onward
<1>3. Concerned(d) = Concerned(call[p])
    BY <1>2 DEF Concerned
<1>4. Progress(call[p], control, filters, file, disturbed)
    BY DEF CardInv
<1>5. Progress(d, control', filters', file', disturbed')
    <2>1. d.at \in {"off", "turn off"} \cup Loads /\ d.op # "clear all" /\ d.alone =>
              Text(file'[d.slot]) = d.rule
        BY <1>2 DEF FileStep
    <2>2. d.at \notin Loads /\ d.at # "turn on"
        BY <1>2 DEF Loads
    <2>3. d.op = "clear all" =>
              \A i \in Slots \ disturbed' :
                  i < d.slot \/ d.at \in {"opendir", "readdir", "rmdir"} =>
                      control'[i] = {} /\ filters'[i][1] = Zero /\ filters'[i][2] = Zero
        BY <1>2, <1>4 DEF FileStep, Progress
    <2> QED BY <2>1, <2>2, <2>3 DEF FileStep, Progress
<1>6. Own(p)
    BY <1>2, <1>3, <1>5, Continues DEF FileStep
<1> QED BY <1>1, <1>6, OwnStep

\* The directory is there, and a file is to be opened.
LEMMA MakeDirCard ==
    ASSUME FirewallInv, CardInv, NEW p \in Procs, MakeDir(p), ~Failed(p)
    PROVE  CardInv'
<1> USE DEF Card, Files, Same
<1> DEFINE d == [call[p] EXCEPT !.at = "open"]
<1>1. call[p] \in Calls /\ call[p].at = "mkdir" /\ Busy(p) /\ OpFits(call[p])
    BY DEF MakeDir, Busy, FirewallInv, Typed, CardInv
<1>2. /\ call' = [call EXCEPT ![p] = d] /\ dir' = TRUE /\ file' = file
      /\ UNCHANGED <<control, filters, disturbed, sure>>
    BY DEF MakeDir, Goto
<1>3. /\ d.at = "open" /\ d.op = call[p].op /\ d.rule = call[p].rule
      /\ d.alone = call[p].alone /\ Onward(d, call[p])
    BY <1>1 DEF Onward, Calls, Points, Loads
<1> HIDE DEF d
<1>4. call'[p] = d /\ \A q \in Procs \ {p} : call'[q] = call[q]
    BY <1>2 DEF FirewallInv, Typed
<1>5. OpFits(d)
    BY <1>1, <1>3 DEF OpFits
<1>6. FileStep(p, d) /\ Apart(p)
    BY <1>2, <1>3, <1>4 DEF FileStep, Apart
<1>7. FilesTyped'
    BY <1>2 DEF CardInv, FilesTyped, Slots
<1>8. FilesThere'
    <2>1. ASSUME NEW q \in Procs, call'[q].at \in {"write", "rest"}, call'[q].linked
          PROVE  file'[call'[q].slot] # NoFile
        <3>1. call'[q] = call[q]
            BY <1>3, <1>4, <2>1
        <3> QED BY <1>2, <2>1, <3>1 DEF CardInv, FilesThere
    <2> QED BY <1>2, <2>1 DEF FilesThere
<1> QED BY <1>1, <1>5, <1>6, <1>7, <1>8, FileStepCard

\* The file of the slot is made, or emptied, for the call alone to write to it.
LEMMA OpenCard ==
    ASSUME FirewallInv, CardInv, NEW p \in Procs, Open(p), ~Failed(p)
    PROVE  CardInv'
<1> USE DEF Card, Files, Same
<1> DEFINE d == [call[p] EXCEPT !.at = "write", !.linked = TRUE]
           s == call[p].slot
<1>1. /\ call[p] \in Calls /\ call[p].at = "open" /\ Busy(p) /\ OpFits(call[p])
      /\ s \in Slots /\ s \in Concerned(call[p])
    BY OwnSlot DEF Open, Busy, FirewallInv, Typed, CardInv, Calls
<1>2. /\ call' = [call EXCEPT ![p] = d] /\ dir /\ dir' = dir
      /\ file' = [file EXCEPT ![s] = Zero]
      /\ UNCHANGED <<control, filters, disturbed, sure>>
    BY DEF Open, FirewallInv, Typed
<1>3. /\ d.at = "write" /\ d.op = call[p].op /\ d.rule = call[p].rule /\ d.linked
      /\ d.alone = call[p].alone /\ d.slot = s /\ Onward(d, call[p])
    BY <1>1 DEF Onward, Calls, Points, Loads
<1> HIDE DEF d
<1>4. call'[p] = d /\ \A q \in Procs \ {p} : call'[q] = call[q]
    BY <1>2 DEF FirewallInv, Typed
<1>5. OpFits(d)
    BY <1>1, <1>3 DEF OpFits
<1>6. /\ file'[s] = Zero /\ \A i \in Slots \ {s} : file'[i] = file[i]
      /\ Zero # NoFile
    BY <1>1, <1>2 DEF CardInv, FilesTyped, Zero, NoFile
<1>7. FileStep(p, d) /\ Apart(p)
    BY <1>1, <1>2, <1>3, <1>4, <1>6 DEF FileStep, Apart
<1>8. FilesTyped'
    BY <1>2 DEF CardInv, FilesTyped, Slots
<1>9. FilesThere'
    <2>1. ASSUME NEW q \in Procs, call'[q].at \in {"write", "rest"}, call'[q].linked
          PROVE  file'[call'[q].slot] # NoFile
        <3>1. CASE q = p
            BY <1>3, <1>4, <1>6, <3>1
        <3>2. CASE q # p
            <4>1. call'[q] = call[q] /\ call[q].slot \in Slots
                BY <1>4, <3>2 DEF FirewallInv, Typed, Calls
            <4> QED BY <1>6, <2>1, <4>1 DEF CardInv, FilesThere
        <3> QED BY <3>1, <3>2
    <2> QED BY <1>2, <2>1 DEF FilesThere
<1> QED BY <1>1, <1>5, <1>7, <1>8, <1>9, FileStepCard

\* What a call has written to its file, if the file was still there.
PutIn(p, x) ==
    /\ call[p].linked => /\ file'[call[p].slot] = x
                         /\ \A i \in Slots \ {call[p].slot} : file'[i] = file[i]
    /\ ~call[p].linked => file' = file

\* Writing is of a text, whole or torn.
LEMMA PutText ==
    ASSUME FirewallInv, CardInv, NEW p \in Procs, NEW x \in Texts \cup {Torn}, Put(p, x)
    PROVE  /\ PutIn(p, x)
           /\ file' \in [Slots -> Texts \cup {NoFile, Torn, Zero}]
<1>1. call[p].slot \in Slots /\ file \in [Slots -> Texts \cup {NoFile, Torn, Zero}]
    BY DEF FirewallInv, Typed, Calls, CardInv, FilesTyped
<1> QED BY <1>1 DEF Put, PutIn

\* Part of the rule is written, or the rest of it.
LEMMA WriteCard ==
    ASSUME FirewallInv, CardInv, NEW p \in Procs, Write(p), ~Failed(p)
    PROVE  CardInv'
<1> USE DEF Card, Files, Same
<1> DEFINE s == call[p].slot
<1>1. /\ call[p] \in Calls /\ call[p].at \in {"write", "rest"} /\ Busy(p) /\ OpFits(call[p])
      /\ s \in Slots /\ s \in Concerned(call[p])
    BY OwnSlot DEF Write, Busy, FirewallInv, Typed, CardInv, Calls
<1>2. call[p].op = "set" /\ call[p].rule \in Texts
    BY <1>1 DEF OpFits
<1>3. /\ Progress(call[p], control, filters, file, disturbed)
      /\ call[p].linked => file[s] # NoFile
    BY <1>1 DEF CardInv, FilesThere
<1>4. PICK x \in Texts \cup {Torn}, at \in {"rest", "off"} :
          /\ Put(p, x) /\ Goto(p, at) /\ dir' = dir
          /\ at = "off" /\ call[p].alone => x = call[p].rule
    BY <1>2 DEF Write
<1>5. UNCHANGED <<control, filters, disturbed, sure>>
    BY DEF Write
<1> DEFINE d == [call[p] EXCEPT !.at = at]
<1>6. call' = [call EXCEPT ![p] = d]
    BY <1>4 DEF Goto, FirewallInv, Typed
<1>7. /\ d.at = at /\ d.op = call[p].op /\ d.rule = call[p].rule /\ d.linked = call[p].linked
      /\ d.alone = call[p].alone /\ d.slot = s /\ Onward(d, call[p])
    BY <1>1 DEF Onward, Calls, Points, Loads
<1> HIDE DEF d
<1>8. call'[p] = d /\ \A q \in Procs \ {p} : call'[q] = call[q]
    BY <1>6 DEF FirewallInv, Typed
<1>9. OpFits(d)
    BY <1>1, <1>2, <1>7 DEF OpFits
<1>10. PutIn(p, x) /\ file' \in [Slots -> Texts \cup {NoFile, Torn, Zero}] /\ x # NoFile
    <2>1. x # NoFile
        <3>1. NoFile[1] = "no file" /\ Torn[1] = "part of a rule"
            BY DEF NoFile, Torn
        <3>2. NoFile # Torn
            BY <3>1
        <3> QED BY <3>2, FirewallAssumption
    <2> QED BY <1>4, <2>1, PutText
<1>11. FileStep(p, d) /\ Apart(p)
    <2>1. \A i \in Slots \ Concerned(call[p]) : file'[i] = file[i]
        BY <1>1, <1>10 DEF PutIn
    <2>2. d.alone => d.linked
        BY <1>1, <1>3, <1>7 DEF Progress
    <2>3. d.at = "off" /\ d.alone => Text(file'[d.slot]) = d.rule
        <3> SUFFICES ASSUME d.at = "off", d.alone PROVE Text(file'[d.slot]) = d.rule
            OBVIOUS
        <3>1. x = call[p].rule /\ call[p].linked
            BY <1>4, <1>7, <2>2
        <3>2. file'[s] = call[p].rule /\ call[p].rule # NoFile
            BY <1>10, <3>1 DEF PutIn
        <3> QED BY <1>7, <3>2 DEF Text
    <2> QED BY <1>5, <1>7, <1>8, <2>1, <2>2, <2>3 DEF FileStep, Apart
<1>12. FilesTyped'
    BY <1>4, <1>5, <1>10 DEF CardInv, FilesTyped, Slots
<1>13. FilesThere'
    <2>1. ~dir' => \A i \in Slots : file'[i] = NoFile
        <3> SUFFICES ASSUME ~dir' PROVE \A i \in Slots : file'[i] = NoFile
            OBVIOUS
        <3>1. \A i \in Slots : file[i] = NoFile
            BY <1>4 DEF CardInv, FilesThere
        <3>2. ~call[p].linked
            BY <1>1, <1>3, <3>1
        <3> QED BY <1>10, <3>1, <3>2 DEF PutIn
    <2>2. ASSUME NEW q \in Procs, call'[q].at \in {"write", "rest"}, call'[q].linked
          PROVE  file'[call'[q].slot] # NoFile
        <3>1. /\ call[q].at \in {"write", "rest"} /\ call[q].linked
              /\ call'[q].slot = call[q].slot /\ call[q].slot \in Slots
            BY <1>1, <1>7, <1>8, <2>2 DEF FirewallInv, Typed, Calls
        <3>2. file[call[q].slot] # NoFile
            BY <3>1 DEF CardInv, FilesThere
        <3> QED BY <1>10, <3>1, <3>2 DEF PutIn
    <2> QED BY <2>1, <2>2 DEF FilesThere, Slots
<1> QED BY <1>1, <1>9, <1>11, <1>12, <1>13, FileStepCard

\* A file that p deletes is written to no more.
LEMMA UnlinkedFiles ==
    ASSUME FirewallInv, CardInv, NEW p \in Procs, NEW s \in Slots, NEW d,
           call' = [Unlinked(s) EXCEPT ![p] = d], d.at \notin {"write", "rest"},
           file' = [file EXCEPT ![s] = NoFile], dir' = dir, sure' = sure,
           s \in Concerned(call[p])
    PROVE  /\ Apart(p) /\ call'[p] = d
           /\ FilesTyped' /\ FilesThere'
           /\ file'[s] = NoFile /\ \A i \in Slots \ {s} : file'[i] = file[i]
<1>1. file \in [Slots -> Texts \cup {NoFile, Torn, Zero}]
    BY DEF CardInv, FilesTyped
<1>2. call'[p] = d /\ \A q \in Procs \ {p} : call'[q] = Unlinked(s)[q]
    BY UnlinkedType DEF FirewallInv
<1>3. file'[s] = NoFile /\ \A i \in Slots \ {s} : file'[i] = file[i]
    BY <1>1
<1>4. FilesTyped'
    BY <1>1 DEF CardInv, FilesTyped, Slots
<1>5. Apart(p)
    BY <1>2 DEF Apart, Unlinked
<1>6. FilesThere'
    <2>1. ~dir' => \A i \in Slots : file'[i] = NoFile
        BY <1>3 DEF CardInv, FilesThere
    <2>2. ASSUME NEW q \in Procs, call'[q].at \in {"write", "rest"}, call'[q].linked
          PROVE  file'[call'[q].slot] # NoFile
        <3>1. q # p /\ call[q] \in Calls
            BY <1>2, <2>2 DEF FirewallInv, Typed
        <3>2. call'[q] = Unlinked(s)[q]
            BY <1>2, <3>1
        <3>3. CASE call[q].at \in {"write", "rest"} /\ call[q].slot = s
            <4>1. ~call'[q].linked
                BY <3>1, <3>2, <3>3 DEF Unlinked, Calls
            <4> QED BY <2>2, <4>1
        <3>4. CASE ~(call[q].at \in {"write", "rest"} /\ call[q].slot = s)
            <4>1. call'[q] = call[q] /\ call[q].slot \in Slots
                BY <3>1, <3>2, <3>4 DEF Unlinked, Calls
            <4> QED BY <1>3, <2>2, <3>4, <4>1 DEF CardInv, FilesThere
        <3> QED BY <3>3, <3>4
    <2> QED BY <2>1, <2>2 DEF FilesThere, Slots
<1> QED BY <1>2, <1>3, <1>4, <1>5, <1>6

\* Clearing a rule deletes its file.
LEMMA UnlinkCard ==
    ASSUME FirewallInv, CardInv, NEW p \in Procs, Unlink(p), ~Failed(p)
    PROVE  CardInv'
<1> USE DEF Card, Files, Same
<1> DEFINE d == [call[p] EXCEPT !.at = "off"]
           s == call[p].slot
<1>1. /\ call[p] \in Calls /\ call[p].at = "unlink" /\ Busy(p) /\ OpFits(call[p])
      /\ s \in Slots /\ s \in Concerned(call[p])
    BY OwnSlot DEF Unlink, Busy, FirewallInv, Typed, CardInv, Calls
<1>2. /\ call' = [Unlinked(s) EXCEPT ![p].at = "off"] /\ dir' = dir
      /\ file' = [file EXCEPT ![s] = NoFile]
      /\ UNCHANGED <<control, filters, disturbed, sure>>
    BY DEF Unlink
<1>3. call' = [Unlinked(s) EXCEPT ![p] = d]
    BY <1>1, <1>2 DEF Unlinked
<1>4. /\ d.at = "off" /\ d.op = call[p].op /\ d.rule = call[p].rule
      /\ d.alone = call[p].alone /\ d.slot = s /\ Onward(d, call[p])
    BY <1>1 DEF Onward, Calls, Points, Loads
<1> HIDE DEF d
<1>5. OpFits(d) /\ d.rule = Zero
    BY <1>1, <1>4 DEF OpFits
<1>6. /\ Apart(p) /\ call'[p] = d
      /\ FilesTyped' /\ FilesThere'
      /\ file'[s] = NoFile /\ \A i \in Slots \ {s} : file'[i] = file[i]
    <2>1. sure' = sure /\ d.at \notin {"write", "rest"}
        BY <1>2, <1>4
    <2> QED BY <1>1, <1>2, <1>3, <2>1, UnlinkedFiles
<1>7. FileStep(p, d)
    <2>1. \A i \in Slots \ Concerned(call[p]) : file'[i] = file[i]
        BY <1>1, <1>6
    <2>2. Text(file'[d.slot]) = d.rule
        BY <1>4, <1>5, <1>6 DEF Text
    <2> QED BY <1>2, <1>4, <1>6, <2>1, <2>2 DEF FileStep
<1> QED BY <1>1, <1>5, <1>6, <1>7, FileStepCard

\* What clearing all says of the slots once it has cleared the card.
LEMMA ClearedCard ==
    ASSUME CardInv, NEW p \in Procs, call[p].at \in {"opendir", "readdir", "rmdir"},
           \A s \in Slots : file[s] = NoFile
    PROVE  \A i \in Slots \ disturbed : Agrees(i, control, filters, file)
<1>1. call[p].op = "clear all" /\ Progress(call[p], control, filters, file, disturbed)
    BY DEF CardInv, OpFits
<1>2. Text(NoFile) = Zero /\ Control(Zero) = {}
    BY DEF Text, Control
<1> QED BY <1>1, <1>2 DEF Progress, Agrees

\* The directory is opened to delete the files that are in it; if there is none,
\* there are no files.
LEMMA OpenDirCard ==
    ASSUME FirewallInv, CardInv, NEW p \in Procs, OpenDir(p), ~Failed(p)
    PROVE  CardInv'
<1> USE DEF Card, Files, Same
<1> DEFINE d == [call[p] EXCEPT !.at = "readdir", !.todo = {s \in Slots : file[s] # NoFile}]
<1>1. call[p] \in Calls /\ call[p].at = "opendir" /\ Busy(p) /\ OpFits(call[p])
    BY DEF OpenDir, Busy, FirewallInv, Typed, CardInv
<1>2. file' = file /\ dir' = dir /\ control' = control /\ filters' = filters
    BY DEF OpenDir
<1>3. CASE ~dir /\ Return(p, TRUE)
    <2>1. \A s \in Slots : file[s] = NoFile
        BY <1>3 DEF CardInv, FilesThere
    <2>2. \A i \in Concerned(call[p]) \ disturbed : Agrees(i, control, filters, file)
        BY <1>1, <2>1, ClearedCard, OwnSlot
    <2>3. dir' \in BOOLEAN
        BY <1>2 DEF CardInv, FilesTyped
    <2> QED BY <1>1, <1>2, <1>3, <2>1, <2>2, <2>3, ReturnCard
<1>4. CASE ~(~dir /\ Return(p, TRUE))
    <2>1. /\ call' = [call EXCEPT ![p] = d] /\ UNCHANGED <<disturbed, sure>>
        BY <1>4 DEF OpenDir, FirewallInv, Typed
    <2>2. /\ d.at = "readdir" /\ d.op = call[p].op /\ d.rule = call[p].rule
          /\ d.alone = call[p].alone /\ Onward(d, call[p])
        BY <1>1 DEF Onward, Calls, Points, Loads
    <2> HIDE DEF d
    <2>3. call'[p] = d /\ \A q \in Procs \ {p} : call'[q] = call[q]
        BY <2>1 DEF FirewallInv, Typed
    <2>4. OpFits(d)
        BY <1>1, <2>2 DEF OpFits
    <2>5. FileStep(p, d) /\ Apart(p)
        BY <1>1, <1>2, <2>1, <2>2, <2>3 DEF FileStep, Apart
    <2>6. FilesTyped'
        BY <1>2, <2>1 DEF CardInv, FilesTyped, Slots
    <2>7. FilesThere'
        <3>1. ASSUME NEW q \in Procs, call'[q].at \in {"write", "rest"}, call'[q].linked
              PROVE  file'[call'[q].slot] # NoFile
            <4>1. call'[q] = call[q]
                BY <2>2, <2>3, <3>1
            <4> QED BY <1>2, <3>1, <4>1 DEF CardInv, FilesThere
        <3>2. ~dir' => \A s \in Slots : file'[s] = NoFile
            BY <1>2 DEF CardInv, FilesThere
        <3> QED BY <3>1, <3>2 DEF FilesThere, Slots
    <2> QED BY <1>1, <2>4, <2>5, <2>6, <2>7, FileStepCard
<1> QED BY <1>3, <1>4

\* The next file is deleted, or they all have been.
LEMMA UnlinkNextCard ==
    ASSUME FirewallInv, CardInv, NEW p \in Procs, UnlinkNext(p), ~Failed(p)
    PROVE  CardInv'
<1> USE DEF Card, Files, Same
<1>1. /\ call[p] \in Calls /\ call[p].at = "readdir" /\ Busy(p) /\ OpFits(call[p])
      /\ call[p].todo \subseteq Slots
    BY DEF UnlinkNext, Busy, FirewallInv, Typed, CardInv, Calls
<1>2. Concerned(call[p]) = Slots
    BY <1>1 DEF OpFits, Concerned
<1>3. CASE Goto(p, "rmdir") /\ UNCHANGED <<file, dir>>
    <2> DEFINE d == [call[p] EXCEPT !.at = "rmdir"]
    <2>1. call' = [call EXCEPT ![p] = d] /\ UNCHANGED <<control, filters, disturbed, sure>>
        BY <1>3 DEF UnlinkNext, Goto, FirewallInv, Typed
    <2>2. /\ d.at = "rmdir" /\ d.op = call[p].op /\ d.rule = call[p].rule
          /\ d.alone = call[p].alone /\ Onward(d, call[p])
        BY <1>1 DEF Onward, Calls, Points, Loads
    <2> HIDE DEF d
    <2>3. call'[p] = d /\ \A q \in Procs \ {p} : call'[q] = call[q]
        BY <2>1 DEF FirewallInv, Typed
    <2>4. OpFits(d)
        BY <1>1, <2>2 DEF OpFits
    <2>5. FileStep(p, d) /\ Apart(p)
        BY <1>1, <1>3, <2>1, <2>2, <2>3 DEF FileStep, Apart
    <2>6. FilesTyped'
        BY <1>3, <2>1 DEF CardInv, FilesTyped, Slots
    <2>7. FilesThere'
        <3>1. ASSUME NEW q \in Procs, call'[q].at \in {"write", "rest"}, call'[q].linked
              PROVE  file'[call'[q].slot] # NoFile
            <4>1. call'[q] = call[q]
                BY <2>2, <2>3, <3>1
            <4> QED BY <1>3, <3>1, <4>1 DEF CardInv, FilesThere
        <3>2. ~dir' => \A s \in Slots : file'[s] = NoFile
            BY <1>3 DEF CardInv, FilesThere
        <3> QED BY <3>1, <3>2 DEF FilesThere, Slots
    <2> QED BY <1>1, <2>4, <2>5, <2>6, <2>7, FileStepCard
<1>4. CASE ~(Goto(p, "rmdir") /\ UNCHANGED <<file, dir>>)
    <2>1. PICK s \in call[p].todo :
              /\ file' = [file EXCEPT ![s] = NoFile]
              /\ call' = [Unlinked(s) EXCEPT ![p].todo = @ \ {s}]
              /\ UNCHANGED <<control, filters, disturbed, sure, dir>>
        BY <1>4 DEF UnlinkNext
    <2> DEFINE d == [call[p] EXCEPT !.todo = @ \ {s}]
    <2>2. call' = [Unlinked(s) EXCEPT ![p] = d]
        BY <1>1, <2>1 DEF Unlinked
    <2>3. /\ d.at = "readdir" /\ d.op = call[p].op /\ d.rule = call[p].rule
          /\ d.alone = call[p].alone /\ Onward(d, call[p])
        BY <1>1 DEF Onward, Calls, Points, Loads
    <2> HIDE DEF d
    <2>4. OpFits(d)
        BY <1>1, <2>3 DEF OpFits
    <2>5. /\ Apart(p) /\ call'[p] = d
          /\ FilesTyped' /\ FilesThere'
        <3>1. sure' = sure /\ dir' = dir /\ d.at \notin {"write", "rest"} /\ s \in Slots
                /\ s \in Concerned(call[p])
            BY <1>1, <1>2, <2>1, <2>3
        <3> QED BY <2>1, <2>2, <3>1, UnlinkedFiles
    <2>6. FileStep(p, d)
        BY <1>1, <1>2, <2>1, <2>3, <2>5 DEF FileStep
    <2> QED BY <1>1, <2>4, <2>5, <2>6, FileStepCard
<1> QED BY <1>3, <1>4

\* The directory is removed once it is empty.
LEMMA RemoveDirCard ==
    ASSUME FirewallInv, CardInv, NEW p \in Procs, RemoveDir(p), ~Failed(p)
    PROVE  CardInv'
<1> USE DEF Card, Files, Same
<1>1. call[p] \in Calls /\ call[p].at = "rmdir" /\ Busy(p)
    BY DEF RemoveDir, Busy, FirewallInv, Typed
<1>2. /\ Return(p, TRUE) /\ dir' = FALSE /\ file' = file
      /\ control' = control /\ filters' = filters /\ \A s \in Slots : file[s] = NoFile
    BY DEF RemoveDir
<1>3. \A i \in Concerned(call[p]) \ disturbed : Agrees(i, control, filters, file)
    BY <1>1, <1>2, ClearedCard, OwnSlot
<1> QED BY <1>1, <1>2, <1>3, ReturnCard

\* The steps with the card leave the files as they are.
LEMMA FilesLeft ==
    ASSUME FirewallInv, CardInv, NEW p \in Procs, file' = file, dir' = dir, sure' \subseteq Slots,
           \A q \in Procs \ {p} : call'[q] = call[q], call'[p].at \notin {"write", "rest"}
    PROVE  FilesTyped' /\ FilesThere'
<1>1. FilesTyped'
    BY DEF CardInv, FilesTyped, Slots
<1>2. ASSUME NEW q \in Procs, call'[q].at \in {"write", "rest"}, call'[q].linked
      PROVE  file'[call'[q].slot] # NoFile
    <2>1. call'[q] = call[q]
        BY <1>2
    <2> QED BY <1>2, <2>1 DEF CardInv, FilesThere
<1>3. ~dir' => \A s \in Slots : file'[s] = NoFile
    BY DEF CardInv, FilesThere
<1> QED BY <1>1, <1>2, <1>3 DEF FilesThere, Slots

\* The register is read; a slot that is off, and not disturbed, reads so.
LEMMA ReadControlCard ==
    ASSUME FirewallInv, CardInv, NEW p \in Procs, ReadControl(p)
    PROVE  CardInv'
<1> USE DEF Card, Files, Same
<1> DEFINE s == call[p].slot
           read == [t \in SharedRegister(s) |-> control[t]]
           d == call'[p]
<1>1. /\ call \in [Procs -> Calls] /\ call[p] \in Calls /\ s \in Slots /\ Busy(p)
      /\ call[p].at \in {"off", "on"} /\ control \in [Slots -> SUBSET Flags]
    BY DEF FirewallInv, Typed, Calls, ReadControl, Busy
<1>2. /\ control' = control /\ filters' = filters /\ file' = file /\ dir' = dir
      /\ sure' = sure /\ disturbed' = disturbed
    BY DEF ReadControl
<1>3. PICK at \in {"turn off", "turn on"} :
          /\ call' = [call EXCEPT ![p] = [call[p] EXCEPT !.at = at, !.word = read]]
          /\ at = "turn on" => call[p].at = "on"
          /\ at = "turn off" => call[p].at = "off"
    BY <1>1 DEF ReadControl
<1>4. read \in [SharedRegister(s) -> SUBSET Flags] /\ read \in Register
      /\ read[s] = control[s]
    <2>1. SharedRegister(s) \subseteq Slots /\ s \in SharedRegister(s)
        BY <1>1, SharedSlots
    <2>2. read \in [SharedRegister(s) -> SUBSET Flags] /\ read[s] = control[s]
        BY <1>1, <2>1
    <2> QED BY <2>1, <2>2 DEF Register
<1> HIDE DEF read
<1>5. /\ d \in Calls /\ d.at = at /\ d.op = call[p].op /\ d.slot = s /\ d.rule = call[p].rule
      /\ d.word = read /\ d.alone = call[p].alone /\ d.linked = call[p].linked
    BY <1>1, <1>3, <1>4 DEF Calls, Points
<1>6. \A q \in Procs \ {p} : call'[q] = call[q]
    BY <1>1, <1>3
<1> HIDE DEF d
<1>7. OpFits(call[p]) /\ Progress(call[p], control, filters, file, disturbed)
    BY DEF CardInv
<1>8. OpFits(d)
    BY <1>3, <1>5, <1>7 DEF OpFits
<1>9. Progress(d, control', filters', file', disturbed')
    <2>1. d.at \in {"off", "turn off"} \cup Loads /\ d.op # "clear all" /\ d.alone =>
              Text(file'[d.slot]) = d.rule
        BY <1>1, <1>2, <1>5, <1>7 DEF Progress, Loads
    <2>2. d.at \in Loads /\ d.slot \notin disturbed' =>
              control'[d.slot] = {} /\ d.word[d.slot] = {}
        <3> SUFFICES ASSUME d.at \in Loads, s \notin disturbed PROVE control[s] = {}
            BY <1>2, <1>4, <1>5
        <3>1. call[p].at = "on"
            BY <1>3, <1>5 DEF Loads
        <3> QED BY <1>7, <3>1 DEF Progress, Loads
    <2>3. d.at \notin {"write", "rest", "opendir", "readdir", "rmdir"}
        BY <1>5
    <2>4. d.op = "clear all" =>
              \A i \in Slots \ disturbed' :
                  i < d.slot => control'[i] = {} /\ filters'[i][1] = Zero /\ filters'[i][2] = Zero
        BY <1>2, <1>5, <1>7 DEF Progress
    <2> QED BY <2>1, <2>2, <2>3, <2>4 DEF Progress, Loads
<1>10. Own(p)
    <2>1. Concerned(d) = Concerned(call[p]) /\ d.at # "idle"
        BY <1>5 DEF Concerned
    <2> QED BY <1>1, <1>2, <1>5, <1>8, <1>9, <2>1, Continues DEF d
<1>11. Elsewhere(p) /\ Wider(p) /\ Apart(p)
    BY <1>2, <1>6 DEF Elsewhere, Wider, Apart
<1>12. FilesTyped' /\ FilesThere'
    BY <1>2, <1>5, <1>6, FilesLeft DEF d, CardInv, FilesTyped
<1> QED BY <1>1, <1>10, <1>11, <1>12, OwnStep

\* The slot is turned off: its control byte is empty.
LEMMA TurnOffCard ==
    ASSUME FirewallInv, CardInv, NEW p \in Procs, TurnOff(p)
    PROVE  CardInv'
<1> USE DEF Files
<1> DEFINE s == call[p].slot
           d == [call[p] EXCEPT !.at = "half"]
<1>1. /\ call \in [Procs -> Calls] /\ call[p] \in Calls /\ s \in Slots /\ Busy(p)
      /\ call[p].at = "turn off" /\ s \in Concerned(call[p])
    BY OwnSlot DEF FirewallInv, Typed, Calls, TurnOff, Busy
<1>2. /\ filters' = filters /\ file' = file /\ dir' = dir /\ sure' = sure
      /\ call' = [call EXCEPT ![p] = d]
    BY <1>1 DEF TurnOff, Goto
<1>3. /\ control'[s] = {}
      /\ \A t \in Slots \ {s} : control'[t] = control[t] \/ t \in disturbed'
    BY <1>1, StoredBytes DEF TurnOff
<1>4. disturbed \ {s} \subseteq disturbed' /\ (Alone(p) \/ disturbed \subseteq disturbed')
    BY DEF TurnOff
<1>5. /\ d \in Calls /\ d.at = "half" /\ d.op = call[p].op /\ d.slot = s
      /\ d.rule = call[p].rule /\ d.alone = call[p].alone
    BY <1>1 DEF Calls, Points
<1> HIDE DEF d
<1>6. call'[p] = d /\ \A q \in Procs \ {p} : call'[q] = call[q]
    BY <1>1, <1>2
<1>7. OpFits(call[p]) /\ Progress(call[p], control, filters, file, disturbed)
    BY DEF CardInv
<1>8. OpFits(d)
    BY <1>1, <1>5, <1>7 DEF OpFits
<1>9. Progress(d, control', filters', file', disturbed')
    <2>1. d.op # "clear all" /\ d.alone => Text(file'[d.slot]) = d.rule
        BY <1>1, <1>2, <1>5, <1>7 DEF Progress
    <2>2. control'[d.slot] = {}
        BY <1>3, <1>5
    <2>3. d.op = "clear all" =>
              \A i \in Slots \ disturbed' :
                  i < d.slot => control'[i] = {} /\ filters'[i][1] = Zero /\ filters'[i][2] = Zero
        <3> SUFFICES ASSUME d.op = "clear all", NEW i \in Slots \ disturbed', i < s
                     PROVE  control'[i] = {} /\ filters'[i][1] = Zero /\ filters'[i][2] = Zero
            BY <1>5
        <3>1. i # s
            BY <1>1, SlotsBefore
        <3>2. control'[i] = control[i] /\ i \notin disturbed
            BY <1>3, <1>4, <3>1
        <3> QED BY <1>2, <1>5, <1>7, <3>2 DEF Progress
    <2> QED BY <1>5, <2>1, <2>2, <2>3 DEF Progress
<1>10. Own(p)
    <2>1. Concerned(d) = Concerned(call[p]) /\ d.at # "idle"
        BY <1>5 DEF Concerned
    <2> QED BY <1>1, <1>2, <1>5, <1>6, <1>8, <1>9, <2>1, Continues
<1>11. Elsewhere(p) /\ Wider(p) /\ Apart(p)
    <2>1. Elsewhere(p)
        BY <1>1, <1>2, <1>3, <1>4 DEF Elsewhere
    <2> QED BY <1>4, <1>6, <2>1 DEF Wider, Apart
<1>12. FilesTyped' /\ FilesThere'
    BY <1>2, <1>5, <1>6, FilesLeft DEF CardInv, FilesTyped
<1> QED BY <1>1, <1>10, <1>11, <1>12, OwnStep

\* Half of the filter is loaded, into the slot of the call.
LEMMA LoadHalfCard ==
    ASSUME FirewallInv, CardInv, NEW p \in Procs, LoadHalf(p)
    PROVE  CardInv'
<1> USE DEF Files, Same
<1> DEFINE s == call[p].slot
           at == IF call[p].at = "half" THEN "full" ELSE "on"
           d == [call[p] EXCEPT !.at = at]
<1>1. /\ call \in [Procs -> Calls] /\ call[p] \in Calls /\ s \in Slots /\ Busy(p)
      /\ call[p].at \in {"half", "full"} /\ s \in Concerned(call[p])
      /\ filters \in [Slots -> [1 .. 2 -> Rules]]
    BY OwnSlot DEF FirewallInv, Typed, Calls, LoadHalf, Busy
<1>2. /\ control' = control /\ file' = file /\ dir' = dir /\ sure' = sure
      /\ disturbed' = disturbed /\ call' = [call EXCEPT ![p] = d]
      /\ \A t \in Slots \ {s} : filters'[t] = filters[t]
    BY <1>1 DEF LoadHalf, Goto
<1>3. /\ d \in Calls /\ d.at \in {"full", "on"} /\ d.op = call[p].op /\ d.slot = s
      /\ d.rule = call[p].rule /\ d.alone = call[p].alone
    BY <1>1 DEF Calls, Points
<1> HIDE DEF d
<1>4. call'[p] = d /\ \A q \in Procs \ {p} : call'[q] = call[q]
    BY <1>1, <1>2
<1>5. OpFits(call[p]) /\ Progress(call[p], control, filters, file, disturbed)
    BY DEF CardInv
<1>6. OpFits(d)
    BY <1>1, <1>3, <1>5 DEF OpFits
<1>7. Progress(d, control', filters', file', disturbed')
    <2>1. d.op # "clear all" /\ d.alone => Text(file'[d.slot]) = d.rule
        BY <1>1, <1>2, <1>3, <1>5 DEF Progress, Loads
    <2>2. d.slot \notin disturbed' => control'[d.slot] = {}
        BY <1>1, <1>2, <1>3, <1>5 DEF Progress, Loads
    <2>3. d.op = "clear all" =>
              \A i \in Slots \ disturbed' :
                  i < d.slot => control'[i] = {} /\ filters'[i][1] = Zero /\ filters'[i][2] = Zero
        <3> SUFFICES ASSUME d.op = "clear all", NEW i \in Slots \ disturbed', i < s
                     PROVE  control'[i] = {} /\ filters'[i][1] = Zero /\ filters'[i][2] = Zero
            BY <1>3
        <3>1. i # s
            BY <1>1, SlotsBefore
        <3> QED BY <1>2, <1>3, <1>5, <3>1 DEF Progress
    <2> QED BY <1>3, <2>1, <2>2, <2>3 DEF Progress
<1>8. Own(p)
    <2>1. Concerned(d) = Concerned(call[p]) /\ d.at # "idle"
        BY <1>3 DEF Concerned
    <2> QED BY <1>1, <1>2, <1>3, <1>4, <1>6, <1>7, <2>1, Continues
<1>9. Elsewhere(p) /\ Wider(p) /\ Apart(p)
    BY <1>1, <1>2, <1>4 DEF Elsewhere, Wider, Apart
<1>10. FilesTyped' /\ FilesThere'
    BY <1>2, <1>3, <1>4, FilesLeft DEF CardInv, FilesTyped
<1> QED BY <1>1, <1>8, <1>9, <1>10, OwnStep

\* Slots up to one: those before it, and itself.
LEMMA SlotsUpTo ==
    /\ \A i \in Slots : \A s \in Slots : i < s + 1 => i < s \/ i = s
    /\ \A i \in Slots : \A s \in Slots : s + 1 \notin Slots => i < s \/ i = s
BY FirewallAssumption DEF Slots

\* The slot is turned on, and the call returns or clears the next slot.
LEMMA TurnOnCard ==
    ASSUME FirewallInv, CardInv, NEW p \in Procs, TurnOn(p)
    PROVE  CardInv'
<1> USE DEF Files
<1> DEFINE c == call[p]
           s == c.slot
           d == call'[p]
<1>1. /\ call \in [Procs -> Calls] /\ c \in Calls /\ s \in Slots /\ Busy(p)
      /\ c.at = "turn on" /\ s \in Concerned(c)
    BY OwnSlot DEF FirewallInv, Typed, Calls, TurnOn, Busy
<1>2. /\ filters' = filters /\ file' = file /\ dir' = dir
      /\ disturbed \subseteq disturbed'
    BY DEF TurnOn
<1>3. /\ control'[s] = c.word[s] \cup Control(c.rule)
      /\ \A t \in Slots \ {s} : control'[t] = control[t] \/ t \in disturbed'
    <2> DEFINE byte == c.word[s] \cup Control(c.rule)
    <2>1. c.word[s] \in SUBSET Flags
        BY <1>1, SharedSlots DEF FirewallInv, WordRead
    <2>2. byte \in SUBSET Flags
        BY <2>1, ControlType
    <2>3. control' = Stored(p, byte) /\ disturbed' = disturbed \cup Hit(p)
        BY DEF TurnOn
    <2>4. /\ Stored(p, byte)[s] = byte
          /\ \A t \in Slots \ {s} : Stored(p, byte)[t] = control[t] \/ t \in Hit(p)
        BY <1>1, <2>2, StoredBytes
    <2> QED BY <2>3, <2>4
<1>4. OpFits(c) /\ Progress(c, control, filters, file, disturbed)
    BY DEF CardInv
<1>5. s \notin disturbed' => /\ control'[s] = Control(c.rule)
                             /\ filters'[s][1] = c.rule /\ filters'[s][2] = c.rule
    <2> SUFFICES ASSUME s \notin disturbed'
                 PROVE  /\ control'[s] = Control(c.rule)
                        /\ filters'[s][1] = c.rule /\ filters'[s][2] = c.rule
        OBVIOUS
    <2>1. c.word[s] = {}
        BY <1>1, <1>2, <1>4 DEF Progress
    <2>2. filters[s][1] = c.rule /\ filters[s][2] = c.rule
        BY <1>1, <1>2 DEF FirewallInv, OffWhileLoaded, Loads
    <2> QED BY <1>2, <1>3, <2>1, <2>2
<1>6. \A q \in Procs \ {p} : call'[q] = call[q]
    BY <1>1 DEF TurnOn
<1>7. Elsewhere(p) /\ Wider(p) /\ Apart(p)
    <2>1. Elsewhere(p)
        BY <1>1, <1>2, <1>3 DEF Elsewhere
    <2> QED BY <1>2, <1>6, <2>1 DEF Wider, Apart
<1>8. CASE c.op # "clear all"
    <2>1. /\ d = Idle
          /\ sure' = (IF c.alone THEN sure \cup Concerned(c) ELSE sure)
        BY <1>1, <1>8 DEF TurnOn
    <2>2. Idle.at = "idle" /\ OpFits(Idle) /\ Idle \in Calls
        BY IdleCall DEF Idle, OpFits
    <2>3. Progress(d, control', filters', file', disturbed')
        BY <2>1, <2>2, IdleProgress
    <2>4. ASSUME NEW i \in sure' \ disturbed', i \in Concerned(c)
          PROVE  Agrees(i, control', filters', file')
        <3>1. i \notin sure /\ i = s
            BY <1>1, <1>8, <2>4 DEF CardInv, SureFree, Concerned
        <3>2. c.alone
            BY <2>1, <2>4, <3>1
        <3>3. Text(file'[s]) = c.rule
            BY <1>1, <1>2, <1>4, <1>8, <3>2 DEF Progress, Loads
        <3> QED BY <1>5, <2>4, <3>1, <3>3 DEF Agrees
    <2>5. Own(p)
        BY <2>1, <2>2, <2>3, <2>4 DEF Own
    <2>6. FilesTyped' /\ FilesThere'
        <3>1. sure' \subseteq Slots
            BY <1>1, <2>1, OwnSlot DEF CardInv, FilesTyped
        <3> QED BY <1>2, <1>6, <2>1, <2>2, <3>1, FilesLeft
    <2> QED BY <1>1, <1>7, <2>5, <2>6, OwnStep
<1>9. CASE c.op = "clear all"
    <2>1. /\ sure' = sure
          /\ call' = IF s + 1 \in Slots THEN [call EXCEPT ![p].at = "off", ![p].slot = s + 1]
                                        ELSE [call EXCEPT ![p].at = "opendir"]
        BY <1>1, <1>9 DEF TurnOn
    <2>2. /\ d \in Calls /\ d.op = c.op /\ d.rule = c.rule /\ d.alone = c.alone
          /\ \/ d.at = "off" /\ d.slot = s + 1
             \/ d.at = "opendir" /\ d.slot = s /\ s + 1 \notin Slots
        <3>1. CASE s + 1 \in Slots
            <4> DEFINE e == [c EXCEPT !.at = "off", !.slot = s + 1]
            <4>1. /\ e \in Calls /\ e.op = c.op /\ e.rule = c.rule /\ e.alone = c.alone
                  /\ e.at = "off" /\ e.slot = s + 1
                BY <1>1, <3>1 DEF Calls, Points
            <4>2. d = e
                BY <1>1, <2>1, <3>1
            <4> HIDE DEF d, e
            <4> QED BY <4>1, <4>2
        <3>2. CASE s + 1 \notin Slots
            <4> DEFINE e == [c EXCEPT !.at = "opendir"]
            <4>1. /\ e \in Calls /\ e.op = c.op /\ e.rule = c.rule /\ e.alone = c.alone
                  /\ e.at = "opendir" /\ e.slot = s
                BY <1>1 DEF Calls, Points
            <4>2. d = e
                BY <1>1, <2>1, <3>2
            <4> HIDE DEF d, e
            <4> QED BY <3>2, <4>1, <4>2
        <3> QED BY <3>1, <3>2
    <2>3. c.rule = Zero /\ Control(Zero) = {}
        BY <1>4, <1>9 DEF OpFits, Control
    <2>4. ASSUME NEW i \in Slots \ disturbed', i < s \/ i = s
          PROVE  control'[i] = {} /\ filters'[i][1] = Zero /\ filters'[i][2] = Zero
        <3>1. CASE i = s
            BY <1>5, <2>3, <2>4, <3>1
        <3>2. CASE i # s
            <4>1. control'[i] = control[i] /\ i \notin disturbed
                BY <1>2, <1>3, <2>4, <3>2
            <4> QED BY <1>2, <1>4, <1>9, <2>4, <3>2, <4>1 DEF Progress
        <3> QED BY <3>1, <3>2
    <2>5. ASSUME NEW i \in Slots \ disturbed', i < d.slot \/ d.at = "opendir"
          PROVE  i < s \/ i = s
        <3>1. CASE d.slot = s + 1
            <4>1. i < s + 1 \/ s + 1 \notin Slots
                BY <2>2, <2>5, <3>1
            <4> QED BY <1>1, <4>1, SlotsUpTo
        <3>2. CASE s + 1 \notin Slots
            BY <1>1, <3>2, SlotsUpTo
        <3> QED BY <2>2, <3>1, <3>2
    <2> HIDE DEF d
    <2>6. OpFits(d)
        BY <1>4, <1>9, <2>2 DEF OpFits
    <2>7. Progress(d, control', filters', file', disturbed')
        <3>1. d.at \notin Loads /\ d.at \in {"off", "opendir"}
            BY <2>2 DEF Loads
        <3> QED BY <1>9, <2>2, <2>4, <2>5, <3>1 DEF Progress, Loads
    <2>8. Own(p)
        <3>1. Concerned(d) = Concerned(c) /\ d.at # "idle"
            BY <1>9, <2>2 DEF Concerned
        <3> QED BY <1>1, <2>1, <2>2, <2>6, <2>7, <3>1, Continues DEF d
    <2>9. FilesTyped' /\ FilesThere'
        BY <1>2, <1>6, <2>1, <2>2, FilesLeft DEF d, CardInv, FilesTyped
    <2> QED BY <1>1, <1>7, <2>8, <2>9, OwnStep
<1> QED BY <1>8, <1>9

\* A step of the processes that configure the card keeps it in line with the files.
LEMMA CardStep == FirewallInv /\ CardInv /\ FirewallNext => CardInv'
<1> SUFFICES ASSUME FirewallInv, CardInv, FirewallNext PROVE CardInv'
    OBVIOUS
<1>1. ASSUME NEW s \in {"disable", "enable"}, SetState("firewall", s) PROVE CardInv'
    BY <1>1, CardLeft DEF SetState, Files
<1>2. ASSUME NEW p \in Procs, NEW h \in {"firewall", "nic"},
             NEW op \in {"set", "clear", "clear all"},
             NEW slot \in -1 .. NumFilters, NEW text \in Texts, Begin(p, h, op, slot, text)
      PROVE  CardInv'
    BY <1>2, BeginCard DEF Ops
<1>3. ASSUME NEW p \in Procs, Busy(p), Failed(p) PROVE CardInv'
    BY <1>3, FailedCard
<1>4. ASSUME NEW p \in Procs, ~(Busy(p) /\ Failed(p)),
             \/ MakeDir(p) \/ Open(p) \/ Write(p) \/ Unlink(p)
             \/ OpenDir(p) \/ UnlinkNext(p) \/ RemoveDir(p)
      PROVE  CardInv'
    <2>1. ~Failed(p)
        BY <1>4 DEF Busy, MakeDir, Open, Write, Unlink, OpenDir, UnlinkNext, RemoveDir
    <2> QED BY <1>4, <2>1, MakeDirCard, OpenCard, WriteCard, UnlinkCard, OpenDirCard,
               UnlinkNextCard, RemoveDirCard
<1>5. ASSUME NEW p \in Procs,
             ReadControl(p) \/ TurnOff(p) \/ LoadHalf(p) \/ TurnOn(p)
      PROVE  CardInv'
    BY <1>5, ReadControlCard, TurnOffCard, LoadHalfCard, TurnOnCard
<1>6. ASSUME NEW p \in Procs, Killed(p) PROVE CardInv'
    BY <1>3, <1>6 DEF Killed
<1> QED BY <1>1, <1>2, <1>3, <1>4, <1>5, <1>6 DEF FirewallNext

\* Nor do the other programs touch it.
LEMMA ToolCard == FirewallInv /\ CardInv /\ [Next]_toolVars => CardInv'
<1> SUFFICES ASSUME FirewallInv, CardInv, [Next]_toolVars PROVE CardInv'
    OBVIOUS
<1>1. CASE UNCHANGED firewallVars
    BY <1>1, CardLeft DEF firewallVars
<1>2. CASE FirewallNext
    BY <1>2, CardStep
<1> QED BY <1>1, <1>2 DEF Next, toolVars

\* The rule that exanic_get_firewall_filter reads back is the one the card applies, once
\* the last call on the slot has returned 0 by itself and no stale byte of the shared
\* register was stored over its own: for any number of processes, slots and rules, and
\* wherever calls fail or processes are killed.
THEOREM CardFollowsRulesHolds == Spec => []CardFollowsRules
<1>1. Init => FirewallInv /\ CardInv
    BY InitInv, CardInit DEF Init
<1>2. FirewallInv /\ CardInv /\ [Next]_toolVars => FirewallInv' /\ CardInv'
    BY ToolStep, ToolCard
<1>3. FirewallInv /\ CardInv => CardFollowsRules
    <2> SUFFICES ASSUME FirewallInv, CardInv, NEW s \in sure \ disturbed
                 PROVE  /\ control[s] = Control(FilterString(s))
                        /\ filters[s] = <<FilterString(s), FilterString(s)>>
        BY DEF CardFollowsRules
    <2>1. s \in Slots /\ filters[s] \in [1 .. 2 -> Rules]
        BY DEF CardInv, FilesTyped, FirewallInv, Typed
    <2>2. Text(file[s]) = FilterString(s)
        BY DEF Text, FilterString
    <2>3. /\ control[s] = Control(FilterString(s))
          /\ filters[s][1] = FilterString(s) /\ filters[s][2] = FilterString(s)
        BY <2>2 DEF CardInv, Agrees
    <2>4. filters[s] = <<filters[s][1], filters[s][2]>>
        BY <2>1
    <2> QED BY <2>3, <2>4
<1> QED BY <1>1, <1>2, <1>3, PTL DEF Spec

-----------------------------------------------------------------------------
(* Timestamps: arithmetic                                                  *)

\* Division with remainder, and its only result.
LEMMA Division ==
    ASSUME NEW a \in Int, NEW n \in Nat, n > 0
    PROVE  a \div n \in Int /\ a % n \in 0 .. n - 1 /\ a = n * (a \div n) + (a % n)
OBVIOUS

\* Quotient and rest are the only ones.
LEMMA DivisionUnique ==
    ASSUME NEW a \in Int, NEW n \in Nat, n > 0, NEW q \in Int, NEW r \in 0 .. n - 1, a = n * q + r
    PROVE  a \div n = q /\ a % n = r
OBVIOUS

\* A factor can be taken away.
LEMMA Cancel == ASSUME NEW j \in Int, NEW k \in Int, NEW n \in Nat, n > 0, n * j < n * k PROVE j < k
OBVIOUS

\* A set of one element more has twice as many subsets, and so the powers of two go.
LEMMA Doubling == ASSUME NEW n \in Nat PROVE 2 ^ n \in Nat /\ 2 ^ n > 0 /\ 2 ^ (n + 1) = 2 * 2 ^ n
<1> DEFINE x == n + 1
           S == SUBSET (1 .. n)
           T == {A \cup {x} : A \in S}
<1>1. /\ IsFiniteSet(1 .. n) /\ Cardinality(1 .. n) = n
      /\ IsFiniteSet(1 .. x) /\ Cardinality(1 .. x) = x
    BY FS_Interval
<1>2. /\ IsFiniteSet(S) /\ Cardinality(S) = 2 ^ n
      /\ Cardinality(SUBSET (1 .. x)) = 2 ^ x
    BY <1>1, FS_SUBSET
<1>3. 1 .. x = (1 .. n) \cup {x} /\ x \notin 1 .. n
    OBVIOUS
<1>4. SUBSET (1 .. x) = S \cup T
    <2>1. ASSUME NEW A \in SUBSET (1 .. x) PROVE A \in S \cup T
        <3>1. CASE x \in A
            <4>1. A \ {x} \in S /\ A = (A \ {x}) \cup {x}
                BY <1>3, <3>1
            <4> QED BY <4>1
        <3>2. CASE x \notin A
            BY <1>3, <3>2
        <3> QED BY <3>1, <3>2
    <2>2. S \cup T \subseteq SUBSET (1 .. x)
        BY <1>3
    <2> QED BY <2>1, <2>2
<1>5. S \cap T = {}
    BY <1>3
<1>6. IsFiniteSet(T) /\ Cardinality(T) = Cardinality(S)
    <2> DEFINE f == [A \in S |-> A \cup {x}]
    <2>1. f \in Bijection(S, T)
        <3>1. f \in [S -> T]
            OBVIOUS
        <3>2. ASSUME NEW A \in S, NEW A2 \in S, f[A] = f[A2] PROVE A = A2
            <4>1. A = f[A] \ {x} /\ A2 = f[A2] \ {x}
                BY <1>3
            <4> QED BY <3>2, <4>1
        <3>3. \A t \in T : \E A \in S : f[A] = t
            OBVIOUS
        <3> HIDE DEF f, S, T
        <3> QED BY <3>1, <3>2, <3>3 DEF Bijection, Injection, Surjection, IsInjective
    <2> HIDE DEF f, S, T
    <2> QED BY <1>2, <2>1, FS_Bijection DEF ExistsBijection
<1> HIDE DEF S, T
<1>7. Cardinality(S \cup T) = Cardinality(S) + Cardinality(T)
    <2>1. /\ Cardinality(S \cap T) = 0
          /\ Cardinality(S) \in Nat /\ Cardinality(T) \in Nat
        BY <1>2, <1>5, <1>6, FS_EmptySet, FS_CardinalityType
    <2>2. Cardinality(S \cup T) = Cardinality(S) + Cardinality(T) - Cardinality(S \cap T)
        BY <1>2, <1>6, FS_Union
    <2> QED BY <2>1, <2>2
<1>8. Cardinality(S) \in Nat /\ Cardinality(S) # 0
    <2>1. {} \in S
        BY DEF S
    <2> QED BY <1>2, <2>1, FS_CardinalityType, FS_EmptySet
<1>9. 2 ^ x = 2 * 2 ^ n
    <2>1. 2 ^ x = Cardinality(S \cup T)
        BY <1>2, <1>4
    <2>2. Cardinality(S \cup T) = 2 * Cardinality(S)
        BY <1>6, <1>7, <1>8
    <2> QED BY <1>2, <2>1, <2>2
<1> QED BY <1>2, <1>8, <1>9

\* A word has an even number of values.
LEMMA RadixEven == /\ Radix \in Nat /\ Radix > 0
                   /\ Radix \div 2 \in Nat /\ Radix \div 2 > 0 /\ Radix = 2 * (Radix \div 2)
<1>1. B - 1 \in Nat /\ (B - 1) + 1 = B
    BY TimeAssumption
<1>2. PICK h \in Nat : h = 2 ^ (B - 1) /\ h > 0
    BY <1>1, Doubling
<1>3. Radix = 2 * h
    BY <1>1, <1>2, Doubling DEF Radix
<1> QED BY <1>2, <1>3

\* A later time has no lower high word.
LEMMA HighGrows == ASSUME NEW a \in Int, NEW b \in Int, a <= b PROVE High(a) <= High(b)
<1> DEFINE p == a \div Radix
           q == b \div Radix
<1>1. /\ p \in Int /\ q \in Int
      /\ Radix * p <= a /\ b < Radix * q + Radix
    BY RadixEven, Division
<1>2. Radix * p < Radix * (q + 1)
    BY <1>1, RadixEven
<1>3. p < q + 1
    <2> HIDE DEF p, q
    <2> QED BY <1>1, <1>2, RadixEven, Cancel
<1> QED BY <1>1, <1>3 DEF High

\* Three reads within half a word make up the time of the second of them, wherever
\* between them the low word rolls over.
LEMMA ThreeReads ==
    ASSUME NEW t1 \in Nat, NEW t2 \in Nat, NEW t3 \in Nat, t1 <= t2, t2 <= t3,
           t3 - t1 < Radix \div 2
    PROVE  (IF High(t3) # High(t1) /\ Low(t2) < Radix \div 2 THEN High(t3) ELSE High(t1)) * Radix
               + Low(t2) = t2
<1> DEFINE h1 == High(t1)
           h2 == High(t2)
           h3 == High(t3)
           lo == Low(t2)
           half == Radix \div 2
<1>1. /\ h1 \in Int /\ h2 \in Int /\ h3 \in Int /\ lo \in 0 .. Radix - 1
      /\ t2 = Radix * h2 + lo
      /\ Radix * h1 <= t1 /\ t1 < Radix * h1 + Radix
      /\ Radix * h3 <= t3 /\ t3 < Radix * h3 + Radix
    BY RadixEven, Division DEF High, Low
<1>2. h1 <= h2 /\ h2 <= h3
    BY HighGrows
<1>3. Radix \in Nat /\ Radix > 0 /\ half \in Nat /\ half > 0 /\ Radix = 2 * half
    BY RadixEven
<1> SUFFICES (IF h3 # h1 /\ lo < half THEN h3 ELSE h1) * Radix + lo = t2
    OBVIOUS
<1>4. t3 - t1 < half
    OBVIOUS
<1> HIDE DEF h1, h2, h3, lo, half
<1>5. h3 < h1 + 2
    <2>1. Radix * h3 < Radix * (h1 + 2)
        BY <1>1, <1>3, <1>4
    <2> QED BY <1>1, <1>3, <2>1, Cancel
<1>6. CASE h3 = h1
    BY <1>1, <1>2, <1>3, <1>6
<1>7. CASE h3 = h1 + 1 /\ lo < half
    <2>1. h2 # h1
        <3> SUFFICES ASSUME h2 = h1 PROVE FALSE
            OBVIOUS
        <3>1. Radix * h3 = Radix * h1 + Radix
            BY <1>1, <1>3, <1>7
        <3> QED BY <1>1, <1>3, <1>4, <1>7, <3>1
    <2>2. h2 = h3 /\ h3 # h1
        BY <1>1, <1>2, <1>7, <2>1
    <2> QED BY <1>1, <1>3, <1>7, <2>2
<1>8. CASE h3 = h1 + 1 /\ ~(lo < half)
    <2>1. h2 # h3
        <3> SUFFICES ASSUME h2 = h3 PROVE FALSE
            OBVIOUS
        <3>1. Radix * h3 = Radix * h1 + Radix
            BY <1>1, <1>3, <1>8
        <3> QED BY <1>1, <1>3, <1>4, <1>8, <3>1
    <2>2. h2 = h1
        BY <1>1, <1>2, <1>8, <2>1
    <2> QED BY <1>1, <1>3, <1>8, <2>2
<1> QED BY <1>1, <1>2, <1>5, <1>6, <1>7, <1>8

\* From a base within half a word, the stamp is completed to its time.
LEMMA Nearest ==
    ASSUME stamped \in Nat, NEW base \in Int,
           stamped - Radix \div 2 < base, base < stamped + Radix \div 2
    PROVE  Expanded(base) = stamped
<1> DEFINE half == Radix \div 2
           d == stamped - base
           q == High(stamped)
<1>1. Radix \in Nat /\ Radix > 0 /\ half \in Nat /\ half > 0 /\ Radix = 2 * half
    BY RadixEven
<1>2. q \in Int /\ Low(stamped) = stamped - Radix * q
    BY RadixEven, Division DEF High, Low
<1>3. d \in Int /\ -half < d /\ d < half
    BY <1>1
<1>4. CASE d >= 0
    <2>1. Low(stamped) - base = Radix * (-q) + d /\ d \in 0 .. Radix - 1
        <3>1. d \in 0 .. Radix - 1 /\ Low(stamped) - base = d - Radix * q
            BY <1>1, <1>2, <1>3, <1>4
        <3> HIDE DEF q, d
        <3>2. d - Radix * q = Radix * (-q) + d
            BY <1>1, <1>2, <1>3
        <3> QED BY <3>1, <3>2
    <2>2. (Low(stamped) - base) % Radix = d
        <3>1. -q \in Int /\ Low(stamped) - base \in Int
            BY <1>1, <1>2
        <3> HIDE DEF q, d
        <3> QED BY <1>1, <2>1, <3>1, DivisionUnique
    <2> QED BY <1>3, <2>2 DEF Expanded, Signed
<1>5. CASE d < 0
    <2>1. Low(stamped) - base = Radix * (-q - 1) + (d + Radix) /\ d + Radix \in 0 .. Radix - 1
        BY <1>1, <1>2, <1>3, <1>5
    <2>2. (Low(stamped) - base) % Radix = d + Radix
        <3>1. -q - 1 \in Int /\ Low(stamped) - base \in Int
            BY <1>1, <1>2
        <3> HIDE DEF q, d
        <3> QED BY <1>1, <2>1, <3>1, DivisionUnique
    <2> QED BY <1>1, <1>3, <2>2 DEF Expanded, Signed
<1> QED BY <1>3, <1>4, <1>5

\* A number of two words is what it is in two words.
LEMMA Fits == ASSUME NEW x \in Nat, x < Radix * Radix PROVE U(x) = x
<1>1. Radix * Radix \in Nat /\ Radix * Radix > 0
    BY RadixEven
<1>2. PICK m \in Nat : m = Radix * Radix /\ m > 0 /\ x < m
    BY <1>1
<1>3. x = m * 0 + x /\ x \in 0 .. m - 1
    BY <1>2
<1>4. x % m = x
    BY <1>2, <1>3, DivisionUnique
<1> QED BY <1>2, <1>4 DEF U

\* The whole part of a product over n, from the whole part and the rest of a factor.
LEMMA SplitDivision ==
    ASSUME NEW t \in Nat, NEW n \in Nat, n > 0, NEW k \in Nat
    PROVE  (t * k) \div n = (t \div n) * k + ((t % n) * k) \div n
<1> DEFINE s == t \div n
           r == t % n
<1>1. s \in Int /\ r \in 0 .. n - 1 /\ t = n * s + r
    BY Division
<1> HIDE DEF s, r
<1>2. PICK w \in Nat : w = r * k
    BY <1>1
<1> DEFINE x == w \div n
           y == w % n
<1>3. x \in Int /\ y \in 0 .. n - 1 /\ w = n * x + y
    BY Division
<1> HIDE DEF x, y
<1>4. t * k = n * (s * k + x) + y
    <2>1. t * k = n * s * k + w
        BY <1>1, <1>2
    <2>2. n * (s * k + x) = n * s * k + n * x
        BY <1>1, <1>3
    <2> QED BY <1>1, <1>2, <1>3, <2>1, <2>2
<1>5. t * k \in Int /\ s * k + x \in Int
    BY <1>1, <1>3
<1>6. (t * k) \div n = s * k + x
    BY <1>3, <1>4, <1>5, DivisionUnique
<1> QED BY <1>2, <1>6 DEF s, x, r

\* A product of two words fits in two words.
LEMMA TwoWords == ASSUME NEW a \in Nat, NEW b \in Nat, NEW m \in Nat, a < m, b < m PROVE a * b < m * m
<1>1. a * b <= a * m
    <2>1. PICK j \in Nat : m = b + j
        BY Division
    <2>2. a * m = a * b + a * j /\ a * j >= 0
        BY <2>1
    <2> QED BY <2>2
<1>2. PICK k \in Nat : m = a + k /\ k > 0
    BY Division
<1>3. m * m = a * m + k * m /\ k * m > 0
    BY <1>2
<1> QED BY <1>1, <1>3

\* What a divided product is bounded by.
LEMMA QuotientBelow ==
    ASSUME NEW x \in Nat, NEW n \in Nat, n > 0, NEW k \in Nat, x < n * k
    PROVE  x \div n \in Nat /\ x \div n < k
<1> DEFINE q == x \div n
<1>1. q \in Int /\ x % n \in 0 .. n - 1 /\ x = n * q + (x % n)
    BY Division
<1> HIDE DEF q
<1>2. n * q < n * k /\ n * (-1) < n * q
    BY <1>1
<1>3. q < k /\ -1 < q
    BY <1>1, <1>2, Cancel
<1> QED BY <1>1, <1>3 DEF q

\* What is known of a clock that ticks.
LEMMA Ticks ==
    ASSUME tick_hz \in Hz, tick_hz # 0
    PROVE  /\ tick_hz \in Nat /\ tick_hz > 0 /\ tick_hz < Radix
           /\ MaxTime * NANOS < Radix * Radix * tick_hz
BY TimeAssumption, RadixEven

\* exanic_cycles_to_timespec and exanic_cycles_to_ns round down and do not overflow.
LEMMA NanosRight ==
    ASSUME tick_hz \in Hz, tick_hz # 0, NEW t \in 0 .. MaxTime
    PROVE  Timespec(t).tv_sec = t \div tick_hz /\ Ns(t) = (t * NANOS) \div tick_hz
<1>1. PICK h \in Nat : /\ h = tick_hz /\ h > 0 /\ h < Radix
                       /\ MaxTime * NANOS < Radix * Radix * h
    BY Ticks
<1>2. PICK N \in Nat : N = NANOS /\ N > 0 /\ N < Radix
    BY TimeAssumption
<1>3. t \in Nat /\ MaxTime \in Nat /\ t <= MaxTime /\ Radix \in Nat
    BY TimeAssumption, RadixEven
<1>4. PICK r \in Nat : r = t % h /\ r < h
    BY <1>1, <1>3, Division
<1>5. U(r * N) = r * N
    <2>1. r * N \in Nat /\ r * N < Radix * Radix
        BY <1>1, <1>2, <1>3, <1>4, TwoWords
    <2> QED BY <2>1, Fits
<1>6. (t * N) \div h \in Nat /\ (t * N) \div h < Radix * Radix
    <2>1. PICK k \in Nat : k = Radix * Radix
        BY <1>3
    <2>2. PICK j \in Nat : MaxTime = t + j
        BY <1>3
    <2>3. MaxTime * N = t * N + j * N /\ j * N >= 0 /\ t * N \in Nat
        BY <1>2, <1>3, <2>2
    <2>4. t * N < h * k
        <3>1. MaxTime * N < k * h
            BY <1>1, <1>2, <2>1
        <3> QED BY <1>3, <2>3, <3>1
    <2>5. PICK x \in Nat : x = t * N
        BY <2>3
    <2> QED BY <1>1, <2>1, <2>4, <2>5, QuotientBelow
<1>7. (t * N) \div h = (t \div h) * N + (r * N) \div h
    BY <1>1, <1>3, <1>4, SplitDivision
<1>8. Timespec(t) = [tv_sec |-> t \div h, tv_nsec |-> (r * N) \div h]
    BY <1>1, <1>2, <1>4, <1>5 DEF Timespec
<1>9. Ns(t) = U((t * N) \div h)
    BY <1>2, <1>7, <1>8 DEF Ns
<1>10. Ns(t) = (t * N) \div h
    <2>1. PICK x \in Nat : x = (t * N) \div h /\ x < Radix * Radix
        BY <1>6
    <2> QED BY <1>9, <2>1, Fits
<1> QED BY <1>1, <1>2, <1>8, <1>10

\* exanic_cycles_to_timespecps too.
LEMMA PicosRight ==
    ASSUME tick_hz \in Hz, tick_hz # 0, NEW t \in 0 .. MaxTime
    PROVE  (t \div tick_hz) * PICOS + Psec(t) = (t * PICOS) \div tick_hz
<1>1. PICK h \in Nat : h = tick_hz /\ h > 0 /\ h < Radix
    BY Ticks
<1>2. PICK P \in Nat : P = PICOS /\ P < Radix * Radix
    BY TimeAssumption
<1>3. t \in Nat /\ Radix \in Nat
    BY TimeAssumption, RadixEven
<1>4. PICK r \in Nat : r = t % h /\ r < h
    BY <1>1, <1>3, Division
<1>5. PICK a \in Int, b \in Nat : a = P \div h /\ b = P % h /\ b < h /\ P = h * a + b
    BY <1>1, <1>2, Division
<1>6. a \in Nat
    <2>1. h * (-1) < h * a
        BY <1>1, <1>5
    <2>2. -1 < a
        BY <1>1, <1>5, <2>1, Cancel
    <2> QED BY <1>5, <2>2
<1>7. r * a \in Nat /\ r * a <= P
    <2>1. PICK j \in Nat : h = r + j
        BY <1>1, <1>4
    <2>2. r * a \in Nat /\ j * a \in Nat
        BY <1>6
    <2>3. h * a = r * a + j * a
        BY <1>6, <2>1
    <2> QED BY <1>5, <2>2, <2>3
<1>8. PICK c \in Nat : c = r * b /\ c < Radix * Radix
    BY <1>1, <1>3, <1>4, <1>5, TwoWords
<1>9. (P * r) \div h = a * r + (b * r) \div h
    BY <1>1, <1>4, <1>5, SplitDivision
<1>10. (P * r) \div h = r * a + c \div h
    BY <1>4, <1>5, <1>6, <1>8, <1>9
<1>11. PICK x \in Nat : x = (P * r) \div h /\ x < Radix * Radix
    <2>1. PICK w \in Nat : w = P * r
        BY <1>2, <1>4
    <2>2. w < h * (P + 1)
        <3>1. PICK j \in Nat : h = r + j
            BY <1>1, <1>4
        <3>2. h * (P + 1) = P * r + P * j + h /\ P * j >= 0
            BY <1>2, <1>4, <3>1
        <3> QED BY <1>1, <2>1, <3>2
    <2>3. w \div h \in Nat /\ w \div h < P + 1
        BY <1>1, <1>2, <2>1, <2>2, QuotientBelow
    <2>4. Radix * Radix \in Nat
        BY <1>3
    <2> QED BY <1>2, <2>1, <2>3, <2>4
<1>12. U(r * a) = r * a /\ U(c) = c
    <2>1. PICK y \in Nat : y = r * a /\ y <= P
        BY <1>7
    <2>2. Radix * Radix \in Nat
        BY <1>3
    <2>3. y < Radix * Radix
        BY <1>2, <2>1, <2>2
    <2> QED BY <1>8, <2>1, <2>3, Fits
<1>13. Psec(t) = x
    <2>1. Psec(t) = U(U(r * a) + U(c) \div h)
        BY <1>1, <1>2, <1>4, <1>5, <1>8 DEF Psec
    <2>2. Psec(t) = U(x)
        BY <1>10, <1>11, <1>12, <2>1
    <2> QED BY <1>11, <2>2, Fits
<1>14. (t * P) \div h = (t \div h) * P + (r * P) \div h
    BY <1>1, <1>2, <1>3, <1>4, SplitDivision
<1>15. r * P = P * r
    BY <1>2, <1>4
<1> QED BY <1>1, <1>2, <1>11, <1>13, <1>14, <1>15

\* What low words are apart is no more than what the times are.
LEMMA LowDifference ==
    ASSUME NEW t \in Int, NEW x \in Int, x <= t
    PROVE  (Low(t) - Low(x)) % Radix \in 0 .. t - x
<1> DEFINE p == t \div Radix
           q == x \div Radix
           i == Low(t)
           j == Low(x)
           y == t - x
           k == y \div Radix
           r == y % Radix
<1>1. Radix \in Nat /\ Radix > 0
    BY RadixEven
<1>2. p \in Int /\ i \in Int /\ t = Radix * p + i
    BY <1>1, Division DEF Low
<1>3. q \in Int /\ j \in Int /\ x = Radix * q + j
    BY <1>1, Division DEF Low
<1>4. y \in Nat
    OBVIOUS
<1>5. k \in Int /\ r \in 0 .. Radix - 1 /\ y = Radix * k + r
    <2> HIDE DEF y
    <2> QED BY <1>1, <1>4, Division
<1>6. y = t - x
    OBVIOUS
<1> HIDE DEF p, q, i, j, k, r, y
<1>7. r <= y
    <2>1. Radix * (-1) < Radix * k
        BY <1>1, <1>4, <1>5
    <2>2. -1 < k
        BY <1>1, <1>5, <2>1, Cancel
    <2>3. Radix * k >= 0
        BY <1>1, <1>5, <2>2
    <2> QED BY <1>1, <1>4, <1>5, <2>3
<1>8. i - j = Radix * (k - p + q) + r
    <2>1. Radix * (k - p + q) = Radix * k - Radix * p + Radix * q
        BY <1>1, <1>2, <1>3, <1>5
    <2>2. i = t - Radix * p /\ j = x - Radix * q /\ r = t - x - Radix * k
        BY <1>1, <1>2, <1>3, <1>4, <1>5, <1>6
    <2> QED BY <1>1, <1>2, <1>3, <1>5, <2>1, <2>2
<1>9. i - j \in Int /\ k - p + q \in Int
    BY <1>2, <1>3, <1>5
<1>10. (i - j) % Radix = r
    BY <1>1, <1>5, <1>8, <1>9, DivisionUnique
<1> QED BY <1>4, <1>5, <1>6, <1>7, <1>10 DEF i, j

\* exanic_counter_to_timestamp comes back to the stamp, but for the rounding.
LEMMA StampAgain ==
    ASSUME tick_hz \in Hz, tick_hz # 0, NEW t \in 0 .. MaxTime
    PROVE  (Low(t) - Timestamp((t * NANOS) \div tick_hz)) % Radix \in 0 .. tick_hz \div NANOS + 1
<1>1. PICK h \in Nat : h = tick_hz /\ h > 0 /\ h < Radix
    BY Ticks
<1>2. PICK N \in Nat : N = NANOS /\ N > 0 /\ N < Radix
    BY TimeAssumption
<1>3. t \in Nat /\ Radix \in Nat /\ Radix > 0 /\ t < Radix * Radix
    <2>1. PICK k \in Nat : k = Radix * Radix
        BY RadixEven
    <2>2. t \in Nat /\ t < k
        BY <2>1, TimeAssumption
    <2> QED BY <2>1, <2>2, RadixEven
<1>4. PICK w \in Nat : w = t * N
    BY <1>2, <1>3
<1>5. PICK n \in Int, e \in Nat : n = w \div h /\ e < h /\ w = h * n + e
    BY <1>1, <1>4, Division
<1>6. n \in Nat
    <2>1. h * (-1) < h * n
        BY <1>1, <1>5
    <2>2. -1 < n
        BY <1>1, <1>5, <2>1, Cancel
    <2> QED BY <1>5, <2>2
<1>7. PICK s \in Int, m \in Nat : s = n \div N /\ m = n % N /\ m < N /\ n = N * s + m
    BY <1>2, <1>6, Division
<1>8. PICK c \in Nat : c = m * h /\ c < Radix * Radix
    BY <1>1, <1>2, <1>3, <1>7, TwoWords
<1>9. PICK d \in Int : d = c \div N
    BY <1>2, <1>8, Division
<1>10. (n * h) \div N = s * h + d
    BY <1>1, <1>2, <1>6, <1>7, <1>8, <1>9, SplitDivision
<1>11. PICK v \in Nat : v = n * h
    BY <1>1, <1>6
<1>12. PICK x \in Int, f \in Nat : x = v \div N /\ f < N /\ v = N * x + f
    BY <1>2, <1>11, Division
<1>13. x = s * h + d /\ d >= 0
    <2>1. d >= 0
        <3>1. PICK g \in Nat : c = N * d + g /\ g < N
            BY <1>2, <1>8, <1>9, Division
        <3>2. N * (-1) < N * d
            BY <1>2, <1>8, <1>9, <3>1
        <3>3. -1 < d
            BY <1>2, <1>9, <3>2, Cancel
        <3> QED BY <1>9, <3>3
    <2> QED BY <1>10, <1>11, <1>12, <2>1
<1>14. v = w - e
    BY <1>1, <1>5, <1>6, <1>11
<1>15. x <= t
    <2>1. N * x < N * (t + 1)
        <3>1. N * (t + 1) = w + N
            BY <1>2, <1>3, <1>4
        <3> QED BY <1>2, <1>5, <1>12, <1>14, <3>1
    <2>2. x < t + 1
        BY <1>2, <1>3, <1>12, <2>1, Cancel
    <2> QED BY <1>3, <1>12, <2>2
<1>16. PICK u \in Int, z \in Nat : u = h \div N /\ z < N /\ h = N * u + z
    BY <1>1, <1>2, Division
<1>17. t - x < u + 2
    <2>1. N * (t - x) < N * (u + 2)
        <3>1. N * (t - x) = w - N * x
            BY <1>2, <1>3, <1>4, <1>12
        <3>2. N * (u + 2) = N * u + 2 * N
            BY <1>2, <1>16
        <3> QED BY SMTT(40), <1>2, <1>5, <1>12, <1>14, <1>16, <3>1, <3>2
    <2> QED BY <1>2, <1>3, <1>12, <1>16, <2>1, Cancel
<1>18. s \in Nat /\ s * h \in Nat
    <2>1. N * (-1) < N * s
        BY <1>2, <1>6, <1>7
    <2>2. -1 < s
        BY <1>2, <1>7, <2>1, Cancel
    <2> QED BY <1>1, <1>7, <2>2
<1>19. U(s * h) = s * h /\ U(c) = c
    <2>1. PICK y \in Nat : y = s * h
        BY <1>18
    <2>2. Radix * Radix \in Nat
        BY <1>3
    <2>3. y < Radix * Radix
        BY <1>3, <1>9, <1>12, <1>13, <1>15, <2>1, <2>2
    <2> QED BY <1>8, <2>1, <2>3, Fits
<1>20. Timestamp(n) = Low(x)
    <2>1. Timestamp(n) = Low(U(s * h) + U(c) \div N)
        BY <1>1, <1>2, <1>7, <1>8 DEF Timestamp
    <2> QED BY <1>9, <1>13, <1>19, <2>1
<1>21. (Low(t) - Low(x)) % Radix \in 0 .. t - x
    <2>1. t \in Int /\ x \in Int /\ x <= t
        BY <1>3, <1>12, <1>15
    <2> QED BY <2>1, LowDifference
<1>22. (Low(t) - Timestamp(n)) % Radix \in 0 .. u + 1
    BY <1>3, <1>12, <1>16, <1>17, <1>20, <1>21
<1> QED BY <1>1, <1>2, <1>4, <1>5, <1>16, <1>22

-----------------------------------------------------------------------------
(* Timestamps: the reads                                                   *)

\* The times at which the three reads were made, and what they say together.
TimeInv ==
    /\ now \in 0 .. MaxTime /\ stamped \in 0 .. now
    /\ hw_time \in Int /\ tick_hz \in Hz
    /\ reading \in [at : {"none", "hi1", "lo", "no tick", "done"}, by : {"page", "registers"},
                    hi1 : Int, lo : Int]
    /\ At("none") => reading.by = "page"
    /\ reading.at \in {"hi1", "lo", "done"} => tick_hz # 0
    /\ At("hi1") =>
          /\ reading.by = "registers"
          /\ \E t1 \in stamped .. now : reading.hi1 = High(t1)
    /\ At("lo") =>
          /\ reading.by = "registers"
          /\ \E t1 \in stamped .. now, t2 \in stamped .. now :
                t1 <= t2 /\ reading.hi1 = High(t1) /\ reading.lo = Low(t2)
    /\ At("done") => (Timely => cycles = stamped)

\* In the programs without a clock nothing is read.
ClockInv == IF program = "time" THEN TimeInv ELSE reading.at = "none"

\* The bounds are numbers.
LEMMA TimeBounds == MaxTime \in Nat /\ Hz \subseteq Int
<1>1. MaxTime \in Nat /\ Hz \subseteq 0 .. Radix - 1
    BY TimeAssumption
<1> QED BY <1>1

\* The types of the variables.
LEMMA TimeTypes ==
    ASSUME TimeInv
    PROVE  /\ now \in Nat /\ now <= MaxTime /\ stamped \in Nat /\ stamped <= now
           /\ hw_time \in Int /\ tick_hz \in Int
<1>1. now \in 0 .. MaxTime /\ stamped \in 0 .. now /\ hw_time \in Int /\ tick_hz \in Hz
    BY DEF TimeInv
<1>2. now \in Nat /\ now <= MaxTime /\ tick_hz \in Int
    BY <1>1, TimeBounds
<1> QED BY <1>1, <1>2

\* Nothing is read to begin with.
LEMMA ClockInitInv == Init => ClockInv
<1> SUFFICES ASSUME Init PROVE ClockInv
    OBVIOUS
<1>1. CASE program = "time" /\ TimeInit
    <2>1. reading = Unread /\ Unread.at = "none" /\ Unread.by = "page"
        BY <1>1 DEF TimeInit, Unread
    <2>2. Unread \in [at : {"none", "hi1", "lo", "no tick", "done"}, by : {"page", "registers"},
                     hi1 : Int, lo : Int]
        BY DEF Unread
    <2>3. hw_time \in Int /\ now \in 0 .. MaxTime /\ stamped \in 0 .. now /\ tick_hz \in Hz
        BY <1>1, TimeBounds DEF TimeInit
    <2>4. TimeInv
        BY <2>1, <2>2, <2>3 DEF TimeInv, At
    <2> QED BY <1>1, <2>4 DEF ClockInv
<1>2. CASE program # "time" /\ NoTime
    BY <1>2 DEF NoTime, Unread, ClockInv
<1> QED BY <1>1, <1>2 DEF Init

\* High and low words are numbers.
LEMMA WordTypes == ASSUME NEW t \in Int PROVE High(t) \in Int /\ Low(t) \in Int
BY RadixEven, Division DEF High, Low

\* The clock runs on between the reads.
LEMMA AdvanceKeeps ==
    ASSUME TimeInv, NEW d \in 1 .. Radix, Advance(d)
    PROVE  TimeInv'
<1>1. /\ ~At("done") /\ now + d <= MaxTime /\ now' = now + d
      /\ UNCHANGED <<stamped, hw_time, caps_hi, tick_hz, reading, cycles>>
    BY DEF Advance
<1>2. now \in 0 .. MaxTime /\ stamped \in 0 .. now /\ MaxTime \in Nat /\ d \in Nat
    BY TimeBounds, TimeTypes, RadixEven
<1>3. now' \in 0 .. MaxTime /\ stamped \in 0 .. now' /\ stamped .. now \subseteq stamped .. now'
    BY <1>1, <1>2
<1>4. UNCHANGED <<reading, stamped>> /\ ~At("done")'
    BY <1>1 DEF At
<1>5. At("hi1")' => \E t1 \in stamped' .. now' : reading'.hi1 = High(t1)
    BY <1>3, <1>4 DEF TimeInv, At
<1>6. At("lo")' => \E t1 \in stamped' .. now', t2 \in stamped' .. now' :
          t1 <= t2 /\ reading'.hi1 = High(t1) /\ reading'.lo = Low(t2)
    BY <1>3, <1>4 DEF TimeInv, At
<1> QED BY <1>1, <1>3, <1>4, <1>5, <1>6 DEF TimeInv, At

\* The first two reads.
LEMMA FirstReadsKeep ==
    ASSUME TimeInv, ReadHi1 \/ ReadLo
    PROVE  TimeInv'
<1>1. /\ UNCHANGED <<now, stamped, hw_time, caps_hi, tick_hz, cycles>>
      /\ now \in 0 .. MaxTime /\ stamped \in 0 .. now /\ now \in stamped .. now /\ now \in Int
    BY TimeBounds, TimeTypes DEF ReadHi1, ReadLo, Clock
<1>2. CASE ReadHi1
    <2>1. reading' = [at |-> "hi1", by |-> "registers", hi1 |-> High(now), lo |-> 0] /\ tick_hz # 0
        BY <1>2 DEF ReadHi1, Unread
    <2>2. High(now) \in Int
        BY <1>1, WordTypes
    <2>3. At("hi1")' /\ \E t1 \in stamped' .. now' : reading'.hi1 = High(t1)
        BY <1>1, <2>1 DEF At
    <2>4. /\ reading' \in [at : {"none", "hi1", "lo", "no tick", "done"},
                            by : {"page", "registers"}, hi1 : Int, lo : Int]
          /\ reading'.at = "hi1" /\ reading'.by = "registers"
        BY <2>1, <2>2
    <2> QED BY <1>1, <2>1, <2>3, <2>4 DEF TimeInv, At
<1>3. CASE ReadLo
    <2>1. At("hi1") /\ reading' = [reading EXCEPT !.at = "lo", !.lo = Low(now)]
        BY <1>3 DEF ReadLo
    <2>2. PICK t1 \in stamped .. now : reading.hi1 = High(t1)
        BY <2>1 DEF TimeInv
    <2>3. /\ reading' = [at |-> "lo", by |-> "registers", hi1 |-> High(t1), lo |-> Low(now)]
          /\ tick_hz # 0
        BY <2>1, <2>2 DEF TimeInv, At
    <2>4. High(t1) \in Int /\ Low(now) \in Int /\ t1 <= now
        BY <1>1, WordTypes
    <2> QED BY <1>1, <2>3, <2>4 DEF TimeInv, At
<1> QED BY <1>2, <1>3

\* What a read from the page or the last read of the registers leads to.
LEMMA ExpandKeeps ==
    ASSUME TimeInv, tick_hz # 0, NEW base, Expand(base), UNCHANGED Clock,
           Timely' => Expanded(base) = stamped
    PROVE  TimeInv'
<1>1. /\ reading' = [reading EXCEPT !.at = "done"] /\ cycles' = Expanded(base)
      /\ UNCHANGED <<now, stamped, hw_time, tick_hz>>
    BY DEF Expand, Clock
<1>2. reading'.at = "done" /\ reading' \in [at : {"none", "hi1", "lo", "no tick", "done"},
                                        by : {"page", "registers"}, hi1 : Int, lo : Int]
    BY <1>1 DEF TimeInv
<1> QED BY <1>1, <1>2 DEF TimeInv, At

\* The second read of the high word.
LEMMA LastReadKeeps ==
    ASSUME TimeInv, ReadHi2
    PROVE  TimeInv'
<1> DEFINE base == HighOf(High(now)) * Radix + reading.lo
<1>1. At("lo") /\ Expand(base) /\ UNCHANGED Clock
    BY DEF ReadHi2
<1>2. PICK t1 \in stamped .. now, t2 \in stamped .. now :
          t1 <= t2 /\ reading.hi1 = High(t1) /\ reading.lo = Low(t2)
    BY <1>1 DEF TimeInv
<1>3. reading'.by = "registers" /\ now' = now /\ stamped' = stamped /\ tick_hz # 0
    BY <1>1 DEF Expand, Clock, TimeInv, At
<1>4. ASSUME Timely' PROVE Expanded(base) = stamped
    <2>1. now < stamped + Radix \div 2
        BY <1>3, <1>4 DEF Timely
    <2>2. /\ now \in Nat /\ stamped \in Nat /\ Radix \div 2 \in Nat /\ Radix \div 2 > 0
          /\ t1 \in Nat /\ t2 \in Nat /\ t2 <= now /\ now - t1 < Radix \div 2
        BY <2>1, RadixEven, TimeTypes
    <2>3. base = t2
        <3>1. (IF High(now) # High(t1) /\ Low(t2) < Radix \div 2 THEN High(now) ELSE High(t1)) * Radix
                  + Low(t2) = t2
            BY <1>2, <2>2, ThreeReads
        <3> QED BY <1>2, <3>1 DEF HighOf
    <2>4. stamped - Radix \div 2 < t2 /\ t2 < stamped + Radix \div 2
        BY <2>1, <2>2
    <2> HIDE DEF base
    <2> QED BY <2>2, <2>3, <2>4, Nearest
<1> QED BY <1>1, <1>3, <1>4, ExpandKeeps

\* Every step of the reader and of the clock.
LEMMA TimeKeeps == TimeInv /\ TimeNext => TimeInv'
<1> SUFFICES ASSUME TimeInv, TimeNext PROVE TimeInv'
    OBVIOUS
<1>1. CASE UpdatePage
    <2>1. /\ ~At("done") /\ hw_time' = now
          /\ UNCHANGED <<now, stamped, tick_hz, reading, cycles>>
        BY <1>1 DEF UpdatePage
    <2>2. now \in Int
        BY TimeTypes
    <2> QED BY <2>1, <2>2 DEF TimeInv, At
<1>2. CASE ReadPage
    <2>1. At("none") /\ tick_hz # 0 /\ Expand(hw_time) /\ UNCHANGED Clock
        BY <1>2 DEF ReadPage
    <2>2. reading'.by = "page" /\ hw_time' = hw_time /\ stamped' = stamped
        BY <2>1 DEF Expand, Clock, TimeInv
    <2>3. ASSUME Timely' PROVE Expanded(hw_time) = stamped
        <3>1. stamped - Radix \div 2 < hw_time /\ hw_time < stamped + Radix \div 2
            BY <2>2, <2>3 DEF Timely
        <3>2. stamped \in Nat /\ hw_time \in Int
            BY TimeTypes
        <3> QED BY <3>1, <3>2, Nearest
    <2> QED BY <2>1, <2>3, ExpandKeeps
<1>3. CASE NoTick
    <2>1. /\ reading' = [reading EXCEPT !.at = "no tick"]
          /\ UNCHANGED <<now, stamped, hw_time, tick_hz, cycles>>
        BY <1>3 DEF NoTick, Clock
    <2>2. reading'.at = "no tick" /\ reading' \in [at : {"none", "hi1", "lo", "no tick", "done"},
                                             by : {"page", "registers"}, hi1 : Int, lo : Int]
        BY <2>1 DEF TimeInv
    <2> QED BY <2>1, <2>2 DEF TimeInv, At
<1> QED BY <1>1, <1>2, <1>3, AdvanceKeeps, FirstReadsKeep, LastReadKeeps DEF TimeNext

\* Every step of Tools.
LEMMA ClockKeeps == ClockInv /\ [Next]_toolVars => ClockInv'
<1> SUFFICES ASSUME ClockInv, [Next]_toolVars PROVE ClockInv'
    OBVIOUS
<1>1. CASE UNCHANGED <<timeVars, program>>
    BY <1>1 DEF timeVars, ClockInv, TimeInv, At, Timely
<1>2. CASE program = "time" /\ TimeNext /\ UNCHANGED program
    BY <1>2, TimeKeeps DEF ClockInv
<1> QED BY <1>1, <1>2 DEF Next, toolVars

\* A reader that is within half a word of the stamp gets, for every width of a word
\* and every clock, the time at which the card made the stamp
\* (exanic_expand_timestamp, wherever between its reads the low word rolls over),
\* and the conversions of that time are exact but for rounding down.
THEOREM TimeRightHolds == Spec => []TimeRight
<1>1. ClockInv => TimeRight
    <2> SUFFICES ASSUME ClockInv, At("done"), Timely PROVE TimeRight
        BY DEF TimeRight
    <2>1. TimeInv /\ tick_hz # 0 /\ tick_hz \in Hz /\ cycles = stamped
        BY DEF ClockInv, TimeInv, At
    <2>2. stamped \in 0 .. MaxTime
        BY <2>1, TimeTypes, TimeBounds
    <2>3. PICK t \in 0 .. MaxTime : t = stamped /\ t = cycles
        BY <2>1, <2>2
    <2>4. Timespec(t).tv_sec = t \div tick_hz /\ Ns(t) = (t * NANOS) \div tick_hz
        BY <2>1, NanosRight
    <2>5. (t \div tick_hz) * PICOS + Psec(t) = (t * PICOS) \div tick_hz
        BY <2>1, PicosRight
    <2>6. (Low(t) - Timestamp((t * NANOS) \div tick_hz)) % Radix \in 0 .. tick_hz \div NANOS + 1
        BY <2>1, StampAgain
    <2> QED BY <2>1, <2>3, <2>4, <2>5, <2>6 DEF TimeRight
<1> QED BY <1>1, ClockInitInv, ClockKeeps, PTL DEF Spec

-----------------------------------------------------------------------------
(* Queries                                                                 *)

Things == {"socket", "ifaddrs", "eeprom", "info", "handle", "names"}
StepNames == Things \cup {"free", "fields", "port usable", "if_indextoname", "found", "drvinfo",
                          "is exanic", "ifinfo", "send", "recv", "modinfo", "eeprom ioctl",
                          "width", "lane", "diag", "read byte", "realpath", "room"}
StepsOfCalls == [name : StepNames, takes : SUBSET Things, gives : SUBSET Things,
                 undo : SUBSET Things]

\* Such a step does not fail.
Safe == {"free", "lane", "fields"}

\* What a ladder holds before each of its steps, and after the last: from a to b,
\* no more at a step that may fail than its exit gives back.
Accounts(ladder, h) ==
    \A i \in 1 .. Len(ladder) :
        /\ h[i + 1] = (h[i] \cup ladder[i].takes) \ ladder[i].gives
        /\ ladder[i].name \notin Safe => h[i] \subseteq ladder[i].undo
Balanced(ladder, a, b) ==
    /\ ladder \in Seq(StepsOfCalls)
    /\ \E h \in [1 .. Len(ladder) + 1 -> SUBSET Things] :
          h[1] = a /\ h[Len(ladder) + 1] = b /\ Accounts(ladder, h)

\* Each way to write a step gives a step of the calls.
LEMMA StepTypes ==
    /\ \A n \in StepNames, u \in SUBSET Things : Ask(n, u) \in StepsOfCalls
    /\ \A t \in Things, u \in SUBSET Things : Take(t, u) \in StepsOfCalls
    /\ \A w \in SUBSET Things : Give(w) \in StepsOfCalls
BY DEF Ask, Take, Give, Step, StepsOfCalls, StepNames

\* A step alone is balanced when its exit gives back what was held before it.
LEMMA OneStep ==
    ASSUME NEW s \in StepsOfCalls, NEW a \in SUBSET Things,
           s.name \notin Safe => a \subseteq s.undo
    PROVE  Balanced(<<s>>, a, (a \cup s.takes) \ s.gives)
<1> DEFINE b == (a \cup s.takes) \ s.gives
           L == <<s>>
           h == [i \in 1 .. 2 |-> IF i = 1 THEN a ELSE b]
<1>1. b \in SUBSET Things
    BY DEF StepsOfCalls
<1>2. L \in Seq(StepsOfCalls) /\ Len(L) = 1 /\ L[1] = s
    OBVIOUS
<1>3. h \in [1 .. Len(L) + 1 -> SUBSET Things] /\ h[1] = a /\ h[2] = b
    BY <1>1, <1>2
<1>4. Accounts(L, h)
    BY <1>2, <1>3 DEF Accounts
<1> QED BY <1>2, <1>3, <1>4 DEF Balanced

\* Of two balanced ladders, the one that starts with what the other leaves goes after it.
LEMMA Chain ==
    ASSUME NEW L, NEW M, NEW a, NEW b, NEW c, Balanced(L, a, b), Balanced(M, b, c)
    PROVE  Balanced(L \o M, a, c)
<1>1. PICK g \in [1 .. Len(L) + 1 -> SUBSET Things] :
          g[1] = a /\ g[Len(L) + 1] = b /\ Accounts(L, g)
    BY DEF Balanced
<1>2. PICK h \in [1 .. Len(M) + 1 -> SUBSET Things] :
          h[1] = b /\ h[Len(M) + 1] = c /\ Accounts(M, h)
    BY DEF Balanced
<1> DEFINE m == Len(L)
           n == Len(M)
           S == L \o M
           k == [i \in 1 .. m + n + 1 |-> IF i <= m THEN g[i] ELSE h[i - m]]
<1>3. L \in Seq(StepsOfCalls) /\ M \in Seq(StepsOfCalls) /\ m \in Nat /\ n \in Nat
    BY DEF Balanced
<1>4. /\ S \in Seq(StepsOfCalls) /\ Len(S) = m + n
      /\ \A i \in 1 .. m : S[i] = L[i]
      /\ \A i \in m + 1 .. m + n : S[i] = M[i - m]
    BY <1>3
<1>5. k \in [1 .. Len(S) + 1 -> SUBSET Things]
    BY <1>3, <1>4
<1>6. k[1] = a /\ k[m + n + 1] = c
    BY <1>1, <1>2, <1>3
<1>7. ASSUME NEW i \in 1 .. Len(S)
      PROVE  /\ k[i + 1] = (k[i] \cup S[i].takes) \ S[i].gives
             /\ S[i].name \notin Safe => k[i] \subseteq S[i].undo
    <2>1. CASE i <= m
        <3>1. i \in 1 .. m /\ S[i] = L[i] /\ k[i] = g[i]
            BY <1>3, <1>4, <2>1
        <3>2. k[i + 1] = g[i + 1]
            BY <1>1, <1>2, <1>3, <2>1
        <3> QED BY <1>1, <3>1, <3>2 DEF Accounts
    <2>2. CASE i > m
        <3>1. i - m \in 1 .. n /\ S[i] = M[i - m] /\ k[i] = h[i - m] /\ k[i + 1] = h[(i - m) + 1]
            BY <1>3, <1>4, <2>2
        <3> QED BY <1>2, <3>1 DEF Accounts
    <2>3. i <= m \/ i > m
        BY <1>3, <1>4
    <2> QED BY <2>1, <2>2, <2>3
<1>8. Accounts(S, k)
    BY <1>7 DEF Accounts
<1> HIDE DEF k
<1> QED BY <1>4, <1>5, <1>6, <1>8 DEF Balanced

\* A ladder taken within a call that holds more, and gives that back on its exits too.
LEMMA WithMore ==
    ASSUME NEW L, NEW a, NEW b, NEW more \in SUBSET Things, Balanced(L, a, b),
           \A i \in 1 .. Len(L) : L[i].gives \cap more = {}
    PROVE  Balanced(Within(L, more), a \cup more, b \cup more)
<1>1. PICK g \in [1 .. Len(L) + 1 -> SUBSET Things] :
          g[1] = a /\ g[Len(L) + 1] = b /\ Accounts(L, g)
    BY DEF Balanced
<1> DEFINE n == Len(L)
           outer == Within(L, more)
           h == [i \in 1 .. n + 1 |-> g[i] \cup more]
<1>2. L \in Seq(StepsOfCalls) /\ n \in Nat
    BY DEF Balanced
<1>3. \A i \in 1 .. n : L[i] \in StepsOfCalls
    BY <1>2
<1>4. \A i \in 1 .. n : [L[i] EXCEPT !.undo = @ \cup more] \in StepsOfCalls
    BY <1>3 DEF StepsOfCalls
<1>5. outer \in Seq(StepsOfCalls) /\ Len(outer) = n
      /\ \A i \in 1 .. n : outer[i] = [L[i] EXCEPT !.undo = @ \cup more]
    BY <1>2, <1>4 DEF Within
<1>6. h \in [1 .. Len(outer) + 1 -> SUBSET Things] /\ h[1] = a \cup more /\ h[n + 1] = b \cup more
    BY <1>1, <1>2, <1>5
<1>7. ASSUME NEW i \in 1 .. Len(outer)
      PROVE  /\ h[i + 1] = (h[i] \cup outer[i].takes) \ outer[i].gives
             /\ outer[i].name \notin Safe => h[i] \subseteq outer[i].undo
    <2>1. i \in 1 .. n /\ i \in 1 .. n + 1 /\ i + 1 \in 1 .. n + 1
        BY <1>2, <1>5
    <2>2. /\ outer[i].takes = L[i].takes /\ outer[i].gives = L[i].gives
          /\ outer[i].name = L[i].name /\ outer[i].undo = L[i].undo \cup more
        BY <1>3, <1>5, <2>1 DEF StepsOfCalls
    <2>3. h[i] = g[i] \cup more /\ h[i + 1] = g[i + 1] \cup more
        BY <2>1
    <2>4. /\ g[i + 1] = (g[i] \cup L[i].takes) \ L[i].gives
          /\ L[i].name \notin Safe => g[i] \subseteq L[i].undo
        BY <1>1, <2>1 DEF Accounts
    <2>5. L[i].gives \cap more = {}
        BY <2>1
    <2> HIDE DEF h, outer
    <2> QED BY <2>2, <2>3, <2>4, <2>5
<1>8. Accounts(outer, h)
    BY <1>7 DEF Accounts
<1> HIDE DEF h
<1> QED BY <1>5, <1>6, <1>8 DEF Balanced

\* A sequence that starts with s and goes on as r.
LEMMA Longer ==
    ASSUME NEW S, NEW s \in S, NEW r \in Seq(S), NEW q \in Seq(S), Len(q) = Len(r) + 1, q[1] = s,
           \A i \in 1 .. Len(r) : q[i + 1] = r[i]
    PROVE  q = <<s>> \o r
<1>1. /\ <<s>> \o r \in Seq(S) /\ Len(<<s>> \o r) = Len(r) + 1 /\ (<<s>> \o r)[1] = s
      /\ \A i \in 1 .. Len(r) : (<<s>> \o r)[i + 1] = r[i]
    OBVIOUS
<1>2. \A i \in 1 .. Len(q) : q[i] = (<<s>> \o r)[i]
    <2> TAKE i \in 1 .. Len(q)
    <2>1. i = 1 \/ (i - 1 \in 1 .. Len(r) /\ i = (i - 1) + 1)
        OBVIOUS
    <2> QED BY <1>1, <2>1
<1> QED BY <1>1, <1>2

\* Steps one after the other, for ladders of up to five.
LEMMA TwoSteps ==
    ASSUME NEW s, NEW t, NEW a, NEW b, NEW c,
           Balanced(<<s>>, a, b), Balanced(<<t>>, b, c)
    PROVE  Balanced(<<s, t>>, a, c)
<1> DEFINE q == <<s, t>>
           r == <<t>>
           S == StepsOfCalls
<1>1. <<s>> \in Seq(S) /\ r \in Seq(S)
    BY DEF Balanced
<1>2. <<s>>[1] = s /\ r[1] = t /\ Len(<<s>>) = 1 /\ Len(r) = 1
    OBVIOUS
<1>3. s \in S /\ t \in S
    BY <1>1, <1>2
<1>4. q \in Seq(S) /\ Len(q) = 2 /\ q[1] = s /\ q[1 + 1] = r[1]
    BY <1>3
<1>5. \A i \in 1 .. 1 : i = 1
    OBVIOUS
<1> HIDE DEF q, r, S
<1>6. Len(q) = Len(r) + 1 /\ \A i \in 1 .. Len(r) : q[i + 1] = r[i]
    BY <1>2, <1>4, <1>5
<1>7. q = <<s>> \o r
    BY <1>1, <1>3, <1>4, <1>6, Longer
<1>8. Balanced(<<s>> \o r, a, c)
    BY Chain DEF r
<1> QED BY <1>7, <1>8 DEF q

\* The same with two more steps after the first,
LEMMA ThreeSteps ==
    ASSUME NEW s, NEW t, NEW u, NEW a, NEW b, NEW c,
           Balanced(<<s>>, a, b), Balanced(<<t, u>>, b, c)
    PROVE  Balanced(<<s, t, u>>, a, c)
<1> DEFINE q == <<s, t, u>>
           r == <<t, u>>
           S == StepsOfCalls
<1>1. <<s>> \in Seq(S) /\ r \in Seq(S)
    BY DEF Balanced
<1>2. <<s>>[1] = s /\ r[1] = t /\ r[2] = u /\ Len(<<s>>) = 1 /\ Len(r) = 2
    OBVIOUS
<1>3. s \in S /\ t \in S /\ u \in S
    BY <1>1, <1>2
<1>4. q \in Seq(S) /\ Len(q) = 3 /\ q[1] = s /\ q[1 + 1] = r[1] /\ q[2 + 1] = r[2]
    BY <1>3
<1>5. \A i \in 1 .. 2 : i = 1 \/ i = 2
    OBVIOUS
<1> HIDE DEF q, r, S
<1>6. Len(q) = Len(r) + 1 /\ \A i \in 1 .. Len(r) : q[i + 1] = r[i]
    BY <1>2, <1>4, <1>5
<1>7. q = <<s>> \o r
    BY <1>1, <1>3, <1>4, <1>6, Longer
<1>8. Balanced(<<s>> \o r, a, c)
    BY Chain DEF r
<1> QED BY <1>7, <1>8 DEF q

\* with three,
LEMMA FourSteps ==
    ASSUME NEW s, NEW t, NEW u, NEW v, NEW a, NEW b, NEW c,
           Balanced(<<s>>, a, b), Balanced(<<t, u, v>>, b, c)
    PROVE  Balanced(<<s, t, u, v>>, a, c)
<1> DEFINE q == <<s, t, u, v>>
           r == <<t, u, v>>
           S == StepsOfCalls
<1>1. <<s>> \in Seq(S) /\ r \in Seq(S)
    BY DEF Balanced
<1>2. <<s>>[1] = s /\ r[1] = t /\ r[2] = u /\ r[3] = v /\ Len(<<s>>) = 1 /\ Len(r) = 3
    OBVIOUS
<1>3. s \in S /\ t \in S /\ u \in S /\ v \in S
    BY <1>1, <1>2
<1>4. q \in Seq(S) /\ Len(q) = 4 /\ q[1] = s /\ q[1 + 1] = r[1] /\ q[2 + 1] = r[2] /\ q[3 + 1] = r[3]
    BY <1>3
<1>5. \A i \in 1 .. 3 : i = 1 \/ i = 2 \/ i = 3
    OBVIOUS
<1> HIDE DEF q, r, S
<1>6. Len(q) = Len(r) + 1 /\ \A i \in 1 .. Len(r) : q[i + 1] = r[i]
    BY <1>2, <1>4, <1>5
<1>7. q = <<s>> \o r
    BY <1>1, <1>3, <1>4, <1>6, Longer
<1>8. Balanced(<<s>> \o r, a, c)
    BY Chain DEF r
<1> QED BY <1>7, <1>8 DEF q

\* and with four.
LEMMA FiveSteps ==
    ASSUME NEW s, NEW t, NEW u, NEW v, NEW w, NEW a, NEW b, NEW c,
           Balanced(<<s>>, a, b), Balanced(<<t, u, v, w>>, b, c)
    PROVE  Balanced(<<s, t, u, v, w>>, a, c)
<1> DEFINE q == <<s, t, u, v, w>>
           r == <<t, u, v, w>>
           S == StepsOfCalls
<1>1. <<s>> \in Seq(S) /\ r \in Seq(S)
    BY DEF Balanced
<1>2. <<s>>[1] = s /\ r[1] = t /\ r[2] = u /\ r[3] = v /\ r[4] = w /\ Len(<<s>>) = 1 /\ Len(r) = 4
    OBVIOUS
<1>3. s \in S /\ t \in S /\ u \in S /\ v \in S /\ w \in S
    BY <1>1, <1>2
<1>4. q \in Seq(S) /\ Len(q) = 5 /\ q[1] = s /\ q[1 + 1] = r[1] /\ q[2 + 1] = r[2]
      /\ q[3 + 1] = r[3] /\ q[4 + 1] = r[4]
    BY <1>3
<1>5. \A i \in 1 .. 4 : i = 1 \/ i = 2 \/ i = 3 \/ i = 4
    OBVIOUS
<1> HIDE DEF q, r, S
<1>6. Len(q) = Len(r) + 1 /\ \A i \in 1 .. Len(r) : q[i + 1] = r[i]
    BY <1>2, <1>4, <1>5
<1>7. q = <<s>> \o r
    BY <1>1, <1>3, <1>4, <1>6, Longer
<1>8. Balanced(<<s>> \o r, a, c)
    BY Chain DEF r
<1> QED BY <1>7, <1>8 DEF q

\* A step that takes nothing, whose exit gives back all that is held.
LEMMA AskBalanced ==
    ASSUME NEW n \in StepNames, NEW u \in SUBSET Things, NEW a \in SUBSET Things,
           n \in Safe \/ a \subseteq u
    PROVE  Balanced(<<Ask(n, u)>>, a, a)
<1>1. Ask(n, u) \in StepsOfCalls /\ Ask(n, u) = [name |-> n, takes |-> {}, gives |-> {}, undo |-> u]
    BY StepTypes DEF Ask, Step
<1>2. (a \cup {}) \ {} = a
    OBVIOUS
<1> QED BY <1>1, <1>2, OneStep

\* A step that takes one thing more.
LEMMA TakeBalanced ==
    ASSUME NEW t \in Things, NEW u \in SUBSET Things, NEW a \in SUBSET Things, a \subseteq u
    PROVE  Balanced(<<Take(t, u)>>, a, a \cup {t})
<1>1. /\ Take(t, u) \in StepsOfCalls
      /\ Take(t, u) = [name |-> t, takes |-> {t}, gives |-> {}, undo |-> u]
    BY StepTypes DEF Take, Step
<1>2. (a \cup {t}) \ {} = a \cup {t}
    OBVIOUS
<1> QED BY <1>1, <1>2, OneStep

\* A step that gives something back.
LEMMA GiveBalanced ==
    ASSUME NEW w \in SUBSET Things, NEW a \in SUBSET Things
    PROVE  Balanced(<<Give(w)>>, a, a \ w)
<1>1. /\ Give(w) \in StepsOfCalls
      /\ Give(w) = [name |-> "free", takes |-> {}, gives |-> w, undo |-> {}]
    BY StepTypes DEF Give, Step
<1>2. (a \cup {}) \ w = a \ w
    OBVIOUS
<1> QED BY <1>1, <1>2, OneStep DEF Safe

\* The ladders of the calls, each with its exits: exanic_get_interface_name,
LEMMA InterfaceNameBalanced == Balanced(InterfaceName, {}, {})
<1>1. /\ Balanced(<<Ask("port usable", {})>>, {}, {})
      /\ Balanced(<<Ask("if_indextoname", {})>>, {}, {})
    BY AskBalanced DEF StepNames
<1> QED BY <1>1, TwoSteps DEF InterfaceName

\* With a socket that each failing step closes.
LEMMA SocketSteps ==
    LET S == {"socket"} IN
    /\ Balanced(<<Take("socket", {})>>, {}, S)
    /\ \A n \in StepNames : Balanced(<<Ask(n, S)>>, S, S)
    /\ Balanced(<<Give(S)>>, S, {})
<1> DEFINE S == {"socket"}
<1>1. S \in SUBSET Things /\ {} \in SUBSET Things /\ "socket" \in Things /\ {} \cup S = S /\ S \ S = {}
    BY DEF Things
<1>2. Balanced(<<Take("socket", {})>>, {}, S)
    <2>1. Balanced(<<Take("socket", {})>>, {}, {} \cup {"socket"})
        BY <1>1, TakeBalanced
    <2> QED BY <1>1, <2>1
<1>3. \A n \in StepNames : Balanced(<<Ask(n, S)>>, S, S)
    BY <1>1, AskBalanced
<1>4. Balanced(<<Give(S)>>, S, {})
    <2>1. Balanced(<<Give(S)>>, S, S \ S)
        BY <1>1, GiveBalanced
    <2> QED BY <1>1, <2>1
<1> QED BY <1>2, <1>3, <1>4

\* exanic_find_port_by_interface_name,
LEMMA FindByNameBalanced == Balanced(FindByName, {}, {})
<1> DEFINE S == {"socket"}
<1>1. /\ Balanced(<<Ask("drvinfo", S)>>, S, S) /\ Balanced(<<Ask("is exanic", S)>>, S, S)
      /\ Balanced(<<Ask("ifinfo", S)>>, S, S)
    BY SocketSteps DEF StepNames
<1>2. Balanced(<<Ask("ifinfo", S), Give(S)>>, S, {})
    BY <1>1, SocketSteps, TwoSteps
<1>3. Balanced(<<Ask("is exanic", S), Ask("ifinfo", S), Give(S)>>, S, {})
    BY <1>1, <1>2, ThreeSteps
<1>4. Balanced(<<Ask("drvinfo", S), Ask("is exanic", S), Ask("ifinfo", S), Give(S)>>, S, {})
    BY <1>1, <1>3, FourSteps
<1> QED BY <1>4, SocketSteps, FiveSteps DEF FindByName

\* exanic_get_ip_routes,
LEMMA RoutesBalanced == Balanced(Routes, {}, {})
<1> DEFINE S == {"socket"}
<1>1. /\ Balanced(<<Ask("port usable", {})>>, {}, {})
      /\ Balanced(<<Ask("send", S)>>, S, S) /\ Balanced(<<Ask("recv", S)>>, S, S)
    BY SocketSteps, AskBalanced DEF StepNames
<1>2. Balanced(<<Ask("recv", S), Give(S)>>, S, {})
    BY <1>1, SocketSteps, TwoSteps
<1>3. Balanced(<<Ask("send", S), Ask("recv", S), Give(S)>>, S, {})
    BY <1>1, <1>2, ThreeSteps
<1>4. Balanced(<<Take("socket", {}), Ask("send", S), Ask("recv", S), Give(S)>>, {}, {})
    BY <1>3, SocketSteps, FourSteps
<1> QED BY <1>1, <1>4, FiveSteps DEF Routes

\* exanic_get_interface_addr,
LEMMA InterfaceAddrBalanced == Balanced(InterfaceAddr, {}, {})
<1> DEFINE A == {"ifaddrs"}
<1>1. A \in SUBSET Things /\ {} \in SUBSET Things /\ "ifaddrs" \in Things /\ {} \cup A = A /\ A \ A = {}
    BY DEF Things
<1>2. Balanced(<<Take("ifaddrs", {})>>, {}, {} \cup A) /\ Balanced(<<Give(A)>>, A, A \ A)
      /\ Balanced(<<Ask("found", A)>>, A, A)
    BY <1>1, TakeBalanced, GiveBalanced, AskBalanced DEF StepNames
<1>3. Balanced(<<Ask("found", A), Give(A)>>, A, {})
    BY <1>1, <1>2, TwoSteps
<1>4. Balanced(<<Take("ifaddrs", {}), Ask("found", A), Give(A)>>, {}, {})
    BY <1>1, <1>2, <1>3, ThreeSteps
<1> QED BY <1>4, InterfaceNameBalanced, Chain DEF InterfaceAddr

\* exanic_find_port_by_ip_addr, with the search by name inside,
LEMMA FindByAddrBalanced == Balanced(FindByAddr, {}, {})
<1> DEFINE A == {"ifaddrs"}
<1>1. A \in SUBSET Things /\ {} \in SUBSET Things /\ "ifaddrs" \in Things /\ {} \cup A = A /\ A \ A = {}
    BY DEF Things
<1>2. Balanced(<<Take("ifaddrs", {})>>, {}, {} \cup A) /\ Balanced(<<Give(A)>>, A, A \ A)
      /\ Balanced(<<Ask("found", A)>>, A, A)
    BY <1>1, TakeBalanced, GiveBalanced, AskBalanced DEF StepNames
<1>3. Balanced(<<Take("ifaddrs", {}), Ask("found", A)>>, {}, A)
    BY <1>1, <1>2, TwoSteps
<1>4. \A i \in 1 .. Len(FindByName) : FindByName[i].gives \cap A = {}
    <2>1. Len(FindByName) = 5 /\ \A i \in 1 .. 5 : i = 1 \/ i = 2 \/ i = 3 \/ i = 4 \/ i = 5
        BY DEF FindByName
    <2>2. /\ FindByName[1].gives = {} /\ FindByName[2].gives = {} /\ FindByName[3].gives = {}
          /\ FindByName[4].gives = {} /\ FindByName[5].gives = {"socket"}
        BY DEF FindByName, Take, Ask, Give, Step
    <2> QED BY <2>1, <2>2
<1>5. Balanced(Within(FindByName, A), {} \cup A, {} \cup A)
    BY <1>1, <1>4, FindByNameBalanced, WithMore
<1>6. Balanced(<<Take("ifaddrs", {}), Ask("found", A)>> \o Within(FindByName, A), {}, A)
    BY <1>1, <1>3, <1>5, Chain
<1>7. Balanced(<<Give(A)>>, A, {})
    BY <1>1, <1>2
<1> QED BY <1>6, <1>7, Chain DEF FindByAddr

\* The EEPROM is the caller's to free.
LEMMA ModuleEepromBalanced == Balanced(ModuleEeprom, {}, {"eeprom"})
<1> DEFINE S == {"socket"}
           Both == {"eeprom", "socket"}
<1>1. /\ S \in SUBSET Things /\ Both \in SUBSET Things /\ "eeprom" \in Things
      /\ S \cup {"eeprom"} = Both /\ Both \ S = {"eeprom"}
    BY DEF Things
<1>2. /\ Balanced(<<Ask("modinfo", S)>>, S, S) /\ Balanced(<<Take("eeprom", S)>>, S, S \cup {"eeprom"})
      /\ Balanced(<<Ask("eeprom ioctl", Both)>>, Both, Both) /\ Balanced(<<Give(S)>>, Both, Both \ S)
    BY <1>1, TakeBalanced, GiveBalanced, AskBalanced DEF StepNames
<1>3. Balanced(<<Ask("eeprom ioctl", Both), Give(S)>>, Both, {"eeprom"})
    BY <1>1, <1>2, TwoSteps
<1>4. Balanced(<<Take("eeprom", S), Ask("eeprom ioctl", Both), Give(S)>>, S, {"eeprom"})
    BY <1>1, <1>2, <1>3, ThreeSteps
<1>5. Balanced(<<Ask("modinfo", S), Take("eeprom", S), Ask("eeprom ioctl", Both), Give(S)>>, S, {"eeprom"})
    BY <1>2, <1>4, FourSteps
<1>6. Balanced(<<Take("socket", {}), Ask("modinfo", S), Take("eeprom", S), Ask("eeprom ioctl", Both),
                 Give(S)>>, {}, {"eeprom"})
    BY <1>5, SocketSteps, FiveSteps
<1> QED BY <1>6, InterfaceNameBalanced, Chain DEF ModuleEeprom

\* exanic_get_xcvr_info, which keeps nothing,
LEMMA XcvrInfoBalanced == Balanced(XcvrInfo, {}, {})
<1> DEFINE E == {"eeprom"}
<1>1. E \in SUBSET Things /\ {} \in SUBSET Things /\ E \ E = {}
    BY DEF Things
<1>2. Balanced(<<Ask("fields", {})>>, E, E) /\ Balanced(<<Give(E)>>, E, E \ E)
    BY <1>1, GiveBalanced, AskBalanced DEF StepNames, Safe
<1>3. Balanced(<<Ask("fields", {}), Give(E)>>, E, {})
    BY <1>1, <1>2, TwoSteps
<1> QED BY <1>3, ModuleEepromBalanced, Chain DEF XcvrInfo

\* exanic_get_xcvr_diag_info, which hands over the list of values,
LEMMA XcvrDiagInfoBalanced == Balanced(XcvrDiagInfo, {}, {"info"})
<1> DEFINE E == {"eeprom"}
           I == {"info", "eeprom"}
<1>1. /\ E \in SUBSET Things /\ {} \in SUBSET Things /\ I \in SUBSET Things /\ "info" \in Things
      /\ E \cup {"info"} = I /\ I \ E = {"info"}
    BY DEF Things
<1>2. /\ Balanced(<<Ask("width", {})>>, {}, {}) /\ Balanced(<<Ask("lane", {})>>, {}, {})
      /\ Balanced(<<Take("info", E)>>, E, E \cup {"info"})
      /\ Balanced(<<Ask("diag", I)>>, I, I) /\ Balanced(<<Give(E)>>, I, I \ E)
    BY <1>1, TakeBalanced, GiveBalanced, AskBalanced DEF StepNames
<1>3. Balanced(<<Ask("width", {}), Ask("lane", {})>>, {}, {})
    BY <1>2, TwoSteps
<1>4. Balanced(<<Ask("diag", I), Give(E)>>, I, {"info"})
    BY <1>1, <1>2, TwoSteps
<1>5. Balanced(<<Take("info", E), Ask("diag", I), Give(E)>>, E, {"info"})
    BY <1>1, <1>2, <1>4, ThreeSteps
<1>6. Balanced(<<Ask("width", {}), Ask("lane", {})>> \o ModuleEeprom, {}, E)
    BY <1>3, ModuleEepromBalanced, Chain
<1> QED BY <1>5, <1>6, Chain DEF XcvrDiagInfo

\* exanic_eeprom_acquire, which hands over the handle and its socket,
LEMMA EepromAcquireBalanced == Balanced(EepromAcquire, {}, {"handle", "socket"})
<1> DEFINE H == {"handle"}
           Both == {"socket", "handle"}
<1>1. /\ H \in SUBSET Things /\ {} \in SUBSET Things /\ Both \in SUBSET Things
      /\ "handle" \in Things /\ "socket" \in Things
      /\ {} \cup H = H /\ H \cup {"socket"} = Both /\ Both = {"handle", "socket"}
    BY DEF Things
<1>2. /\ Balanced(<<Take("handle", {})>>, {}, {} \cup H)
      /\ Balanced(<<Take("socket", H)>>, H, H \cup {"socket"})
      /\ Balanced(<<Ask("read byte", Both)>>, Both, Both)
    BY <1>1, TakeBalanced, AskBalanced DEF StepNames
<1>3. \A i \in 1 .. Len(InterfaceName) : InterfaceName[i].gives \cap H = {}
    <2>1. Len(InterfaceName) = 2 /\ \A i \in 1 .. 2 : i = 1 \/ i = 2
        BY DEF InterfaceName
    <2>2. InterfaceName[1].gives = {} /\ InterfaceName[2].gives = {}
        BY DEF InterfaceName, Ask, Step
    <2> QED BY <2>1, <2>2
<1>4. Balanced(Within(InterfaceName, H), {} \cup H, {} \cup H)
    BY <1>1, <1>3, InterfaceNameBalanced, WithMore
<1>5. Balanced(<<Take("handle", {})>> \o Within(InterfaceName, H), {}, H)
    BY <1>1, <1>2, <1>4, Chain
<1>6. Balanced(<<Take("socket", H), Ask("read byte", Both)>>, H, Both)
    BY <1>1, <1>2, TwoSteps
<1>7. Balanced((<<Take("handle", {})>> \o Within(InterfaceName, H))
               \o <<Take("socket", H), Ask("read byte", Both)>>, {}, Both)
    BY <1>5, <1>6, Chain
<1> QED BY <1>1, <1>7 DEF EepromAcquire

\* the same with exanic_eeprom_free,
LEMMA EepromBalanced == Balanced(EepromAcquire \o EepromFree, {}, {})
<1> DEFINE Both == {"socket", "handle"}
<1>1. Both \in SUBSET Things /\ Both \ Both = {} /\ Both = {"handle", "socket"}
    BY DEF Things
<1>2. Balanced(<<Give(Both)>>, Both, Both \ Both)
    BY <1>1, GiveBalanced
<1>3. Balanced(EepromFree, Both, {})
    BY <1>1, <1>2 DEF EepromFree
<1> QED BY <1>1, <1>3, EepromAcquireBalanced, Chain

\* and exanic_get_sysfs_path.
LEMMA SysfsPathBalanced == Balanced(SysfsPath, {}, {})
<1>1. Balanced(<<Ask("realpath", {})>>, {}, {}) /\ Balanced(<<Ask("room", {})>>, {}, {})
    BY AskBalanced DEF StepNames
<1>2. Balanced(<<Ask("realpath", {}), Ask("room", {})>>, {}, {})
    BY <1>1, TwoSteps
<1> QED BY <1>2, InterfaceNameBalanced, Chain DEF SysfsPath

\* What a call holds when its ladder is done.
Left(c) == IF c = "all_ports" THEN {"names"} ELSE Handed(c)

\* Every call starts with a ladder that leaves what it should.
LEMMA LaddersBalanced == \A c \in DOMAIN Ladder : Balanced(Ladder[c], {}, Left(c))
<1>1. Balanced(<<Take("names", {})>>, {}, {"names"})
    <2>1. {} \in SUBSET Things /\ "names" \in Things /\ {} \cup {"names"} = {"names"}
        BY DEF Things
    <2>2. Balanced(<<Take("names", {})>>, {}, {} \cup {"names"})
        BY <2>1, TakeBalanced
    <2> QED BY <2>1, <2>2
<1> TAKE c \in DOMAIN Ladder
<1>2. c \in {"interface_addr", "find_by_name", "find_by_addr", "routes", "xcvr_info", "diag_info",
            "eeprom_acquire", "eeprom", "sysfs_path", "all_ports"}
    BY DEF Ladder
<1>3. CASE c = "interface_addr"
    BY <1>3, InterfaceAddrBalanced DEF Ladder, Left, Handed
<1>4. CASE c = "find_by_name"
    BY <1>4, FindByNameBalanced DEF Ladder, Left, Handed
<1>5. CASE c = "find_by_addr"
    BY <1>5, FindByAddrBalanced DEF Ladder, Left, Handed
<1>6. CASE c = "routes"
    BY <1>6, RoutesBalanced DEF Ladder, Left, Handed
<1>7. CASE c = "xcvr_info"
    BY <1>7, XcvrInfoBalanced DEF Ladder, Left, Handed
<1>8. CASE c = "diag_info"
    BY <1>8, XcvrDiagInfoBalanced DEF Ladder, Left, Handed
<1>9. CASE c = "eeprom_acquire"
    BY <1>9, EepromAcquireBalanced DEF Ladder, Left, Handed
<1>10. CASE c = "eeprom"
    BY <1>10, EepromBalanced DEF Ladder, Left, Handed
<1>11. CASE c = "sysfs_path"
    BY <1>11, SysfsPathBalanced DEF Ladder, Left, Handed
<1>12. CASE c = "all_ports"
    BY <1>1, <1>12 DEF Ladder, Left
<1> QED BY <1>2, <1>3, <1>4, <1>5, <1>6, <1>7, <1>8, <1>9, <1>10, <1>11, <1>12

\* The field of a module's information that a byte belongs to.
Owner(m, x) ==
    IF m.type = "sfp"
    THEN IF x <= 8 THEN "tech" ELSE IF x <= 12 THEN "bit_rate" ELSE IF x <= 35 THEN "vendor_name"
         ELSE IF x <= 55 THEN "vendor_pn" ELSE IF x <= 59 THEN "vendor_rev"
         ELSE IF x <= 61 THEN "wavelength" ELSE IF x <= 83 THEN "vendor_sn" ELSE "date_code"
    ELSE IF m.type = "qsfp"
    THEN IF x <= 140 THEN "bit_rate" ELSE IF x <= 147 THEN "tech" ELSE IF x <= 163 THEN "vendor_name"
         ELSE IF x <= 183 THEN "vendor_pn" ELSE IF x <= 185 THEN "vendor_rev"
         ELSE IF x <= 187 THEN "wavelength" ELSE IF x <= 211 THEN "vendor_sn" ELSE "date_code"
    ELSE IF x <= 144 THEN "vendor_name" ELSE IF x <= 163 THEN "vendor_pn"
         ELSE IF x <= 165 THEN "vendor_rev" ELSE IF x <= 181 THEN "vendor_sn"
         ELSE IF x <= 189 THEN "date_code" ELSE IF x <= 212 THEN "tech" ELSE "wavelength"

\* The fields of a module lie in its first pages, no two on the same byte.
LEMMA InfoRight ==
    ASSUME NEW m \in Modules
    PROVE  LET b == InfoBytes(m) IN
           /\ \A v, w \in DOMAIN b : v # w => b[v] \cap b[w] = {}
           /\ \A v \in DOMAIN b : b[v] \subseteq 0 .. m.len - 1
<1> DEFINE b == InfoBytes(m)
           F == {"vendor_name", "vendor_pn", "vendor_rev", "vendor_sn", "date_code", "bit_rate",
                 "tech", "wavelength"}
<1>1. m.len \in Nat /\ m.len >= 256 /\ m.type \in {"sfp", "qsfp", "qsfpdd"}
    BY QueryAssumption
<1>2. DOMAIN b = F /\ \A v \in F : \A x \in b[v] : x \in 0 .. m.len - 1 /\ Owner(m, x) = v
    <2>1. CASE m.type = "sfp"
        <3>1. /\ DOMAIN b = F
              /\ b["vendor_name"] = 20 .. 35 /\ b["vendor_pn"] = 40 .. 55
              /\ b["vendor_rev"] = 56 .. 59 /\ b["vendor_sn"] = 68 .. 83
              /\ b["date_code"] = 84 .. 91 /\ b["bit_rate"] = {12} /\ b["tech"] = {8}
              /\ b["wavelength"] \subseteq 60 .. 61
            BY <2>1 DEF InfoBytes
        <3> HIDE DEF b
        <3> QED BY <1>1, <2>1, <3>1 DEF Owner
    <2>2. CASE m.type = "qsfp"
        <3>1. /\ DOMAIN b = F
              /\ b["vendor_name"] = 148 .. 163 /\ b["vendor_pn"] = 168 .. 183
              /\ b["vendor_rev"] = 184 .. 185 /\ b["vendor_sn"] = 196 .. 211
              /\ b["date_code"] = 212 .. 219 /\ b["bit_rate"] = {140} /\ b["tech"] = {147}
              /\ b["wavelength"] \subseteq 186 .. 187
            BY <2>2 DEF InfoBytes
        <3> HIDE DEF b
        <3> QED BY <1>1, <2>2, <3>1 DEF Owner
    <2>3. CASE m.type = "qsfpdd"
        <3>1. QsfpddOffset(1, 138) = 266
            BY DEF QsfpddOffset
        <3>2. b = [vendor_name |-> 129 .. 144, vendor_pn |-> 148 .. 163, vendor_rev |-> 164 .. 165,
                   vendor_sn |-> 166 .. 181, date_code |-> 182 .. 189, bit_rate |-> {},
                   tech |-> {212},
                   wavelength |-> IF m.copper \/ m.len < 640 THEN {} ELSE 266 .. 266 + 1]
            BY <2>3, <3>1 DEF InfoBytes
        <3>3. /\ DOMAIN b = F
              /\ b["vendor_name"] = 129 .. 144 /\ b["vendor_pn"] = 148 .. 163
              /\ b["vendor_rev"] = 164 .. 165 /\ b["vendor_sn"] = 166 .. 181
              /\ b["date_code"] = 182 .. 189 /\ b["bit_rate"] = {} /\ b["tech"] = {212}
              /\ \A x \in b["wavelength"] : x \in 266 .. 267 /\ m.len >= 640
            BY <1>1, <3>2
        <3> HIDE DEF b
        <3> QED BY <1>1, <2>3, <3>3 DEF Owner
    <2> QED BY <1>1, <2>1, <2>2, <2>3
<1> HIDE DEF b
<1>3. \A v, w \in DOMAIN b : v # w => b[v] \cap b[w] = {}
    BY <1>2
<1>4. \A v \in DOMAIN b : b[v] \subseteq 0 .. m.len - 1
    BY <1>2
<1> QED BY <1>3, <1>4 DEF b

\* The lanes of a port are among those of its cage.
LEMMA Widths ==
    ASSUME NEW c \in Cages, Width(c) # -1
    PROVE  \/ Width(c) = 1 /\ PhysWidth(c) = 1 /\ c.ff = "sfp"
           \/ Width(c) \in {1, 4} /\ PhysWidth(c) = 4 /\ c.ff = "qsfp"
           \/ Width(c) \in {1, 4} /\ PhysWidth(c) = 8 /\ c.ff = "qsfpdd"
<1>1. c.ff \in {"sfp", "qsfp", "qsfpdd", "unknown"}
    BY QueryAssumption
<1>2. CASE c.ff = "sfp"
    <2>1. Width(c) = 1
        BY <1>2 DEF Width
    <2>2. PhysWidth(c) = 1
        BY <1>2 DEF PhysWidth
    <2> QED BY <1>2, <2>1, <2>2
<1>3. CASE c.ff = "qsfp"
    <2>1. Width(c) \in {1, 4}
        BY <1>3 DEF Width
    <2>2. PhysWidth(c) = 4
        BY <1>3 DEF PhysWidth
    <2> QED BY <1>3, <2>1, <2>2
<1>4. CASE c.ff = "qsfpdd"
    BY <1>4 DEF Width, PhysWidth
<1>5. CASE c.ff = "unknown"
    BY <1>5 DEF Width
<1> QED BY <1>1, <1>2, <1>3, <1>4, <1>5

\* The lanes of a port are lanes of its cage.
LEMMA LaneInCage ==
    ASSUME NEW c \in Cages, Width(c) # -1, NEW p \in Nat, NEW i \in 0 .. Width(c) - 1
    PROVE  LaneIndex(c, p) \in Nat /\ LaneIndex(c, p) + i \in 0 .. PhysWidth(c) - 1
<1>1. CASE Width(c) = 1
    <2>1. PhysWidth(c) \in {1, 4, 8} /\ i = 0 /\ p * 1 = p
        BY <1>1, Widths
    <2>2. p % 1 \in 0 .. 0 /\ p % 4 \in 0 .. 3 /\ p % 8 \in 0 .. 7
        OBVIOUS
    <2> QED BY <1>1, <2>1, <2>2 DEF LaneIndex
<1>2. CASE Width(c) = 4
    <2>1. PhysWidth(c) \in {4, 8} /\ i \in 0 .. 3
        BY <1>2, Widths
    <2>2. (p * 4) % 4 = 0 /\ (p * 4) % 8 \in {0, 4}
        OBVIOUS
    <2> QED BY <1>2, <2>1, <2>2 DEF LaneIndex
<1> QED BY <1>1, <1>2, Widths

\* Two ports of a cage have no lane in common.
LEMMA LanesApart ==
    ASSUME NEW c \in Cages, Width(c) # -1, NEW p \in Nat, NEW q \in Nat, p # q,
           p \div PortsPerCage(c) = q \div PortsPerCage(c),
           NEW i \in 0 .. Width(c) - 1, NEW j \in 0 .. Width(c) - 1
    PROVE  LaneIndex(c, p) + i # LaneIndex(c, q) + j
<1>1. CASE Width(c) = 1 /\ PhysWidth(c) = 1
    <2>1. PortsPerCage(c) = 1
        BY <1>1 DEF PortsPerCage
    <2> QED BY <2>1
<1>2. CASE Width(c) = 4 /\ PhysWidth(c) = 4
    <2>1. PortsPerCage(c) = 1
        BY <1>2 DEF PortsPerCage
    <2> QED BY <2>1
<1>3. CASE Width(c) = 1 /\ PhysWidth(c) = 4
    <2>1. PortsPerCage(c) = 4 /\ LaneIndex(c, p) = p % 4 /\ LaneIndex(c, q) = q % 4 /\ i = 0 /\ j = 0
        BY <1>3 DEF PortsPerCage, LaneIndex
    <2> QED BY <2>1
<1>4. CASE Width(c) = 1 /\ PhysWidth(c) = 8
    <2>1. PortsPerCage(c) = 8 /\ LaneIndex(c, p) = p % 8 /\ LaneIndex(c, q) = q % 8 /\ i = 0 /\ j = 0
        BY <1>4 DEF PortsPerCage, LaneIndex
    <2> QED BY <2>1
<1>5. CASE Width(c) = 4 /\ PhysWidth(c) = 8
    <2>1. /\ PortsPerCage(c) = 2 /\ LaneIndex(c, p) = (p * 4) % 8 /\ LaneIndex(c, q) = (q * 4) % 8
          /\ i \in 0 .. 3 /\ j \in 0 .. 3
        BY <1>5 DEF PortsPerCage, LaneIndex
    <2>2. (p * 4) % 8 = 4 * (p % 2) /\ (q * 4) % 8 = 4 * (q % 2) /\ p % 2 # q % 2
        BY <2>1
    <2> QED BY <2>1, <2>2
<1> QED BY <1>1, <1>2, <1>3, <1>4, <1>5, Widths

\* Where the two bytes of a value are: for the lane with number n of its module.
LaneByte(m, kind, n) == LaneStart(m, kind) + 2 * n
LanesOf(m) == CASE m.type = "sfp" -> 1 [] m.type = "qsfp" -> 4 [] OTHER -> 8

\* Where the values of a kind start, by the type of the module.
LEMMA LaneStarts ==
    ASSUME NEW m \in Modules
    PROVE  \/ /\ m.type = "sfp" /\ LanesOf(m) = 1
              /\ LaneStart(m, "tx_bias") = 356 /\ LaneStart(m, "tx_power") = 358
              /\ LaneStart(m, "rx_power") = 360
           \/ /\ m.type = "qsfp" /\ LanesOf(m) = 4
              /\ LaneStart(m, "rx_power") = 34 /\ LaneStart(m, "tx_bias") = 42
              /\ LaneStart(m, "tx_power") = 50
           \/ /\ m.type = "qsfpdd" /\ LanesOf(m) = 8
              /\ LaneStart(m, "tx_power") = 538 /\ LaneStart(m, "tx_bias") = 554
              /\ LaneStart(m, "rx_power") = 570
<1>1. m.type \in {"sfp", "qsfp", "qsfpdd"}
    BY QueryAssumption
<1>2. CASE m.type = "sfp"
    <2>1. LanesOf(m) = 1
        BY <1>2 DEF LanesOf
    <2>2. /\ LaneStart(m, "tx_bias") = 356 /\ LaneStart(m, "tx_power") = 358
          /\ LaneStart(m, "rx_power") = 360
        BY <1>2 DEF LaneStart
    <2> QED BY <1>2, <2>1, <2>2
<1>3. CASE m.type = "qsfp"
    <2>1. LanesOf(m) = 4
        BY <1>3 DEF LanesOf
    <2>2. /\ LaneStart(m, "rx_power") = 34 /\ LaneStart(m, "tx_bias") = 42
          /\ LaneStart(m, "tx_power") = 50
        BY <1>3 DEF LaneStart
    <2> QED BY <1>3, <2>1, <2>2
<1>4. CASE m.type = "qsfpdd"
    <2>1. LanesOf(m) = 8
        BY <1>4 DEF LanesOf
    <2>2. \A a \in Nat : QsfpddOffset(17, a) = 384 + a
        BY DEF QsfpddOffset
    <2>3. /\ LaneStart(m, "tx_power") = 384 + 154 /\ LaneStart(m, "tx_bias") = 384 + 170
          /\ LaneStart(m, "rx_power") = 384 + 186
        BY <1>4, <2>2 DEF LaneStart
    <2> QED BY <1>4, <2>1, <2>3
<1> QED BY <1>1, <1>2, <1>3, <1>4

\* Values of different kinds or lanes have no byte in common.
LEMMA LaneBytesApart ==
    ASSUME NEW m \in Modules, NEW k \in Kinds, NEW l \in Kinds,
           NEW i \in 0 .. LanesOf(m) - 1, NEW j \in 0 .. LanesOf(m) - 1, k # l \/ i # j
    PROVE  LET a == LaneByte(m, k, i)
               b == LaneByte(m, l, j)
           IN  {a, a + 1} \cap {b, b + 1} = {}
BY LaneStarts DEF LaneByte, Kinds

\* They are in the EEPROM, also if the cage has more lanes than the module.
LEMMA LaneBytesInside ==
    ASSUME NEW m \in Modules, ~DiagFails(m), NEW k \in Kinds, NEW i \in 0 .. 7,
           m.type = "sfp" => i = 0
    PROVE  LET a == LaneByte(m, k, i) IN
           /\ {a, a + 1} \subseteq 0 .. m.len - 1
           /\ i < LanesOf(m) => {a, a + 1} \subseteq Area(m, k)
<1> DEFINE a == LaneByte(m, k, i)
<1>1. m.len \in Nat /\ m.len >= 256
    BY QueryAssumption
<1>2. (m.type = "sfp" => m.len >= 512) /\ (m.type = "qsfpdd" => m.len >= 640)
    BY <1>1 DEF DiagFails
<1>3. a \in Nat /\ a + 1 <= m.len - 1
    BY <1>1, <1>2, LaneStarts DEF LaneByte, Kinds
<1>4. Area(m, k) = LaneStart(m, k) .. LaneStart(m, k) + LanesOf(m) * 2 - 1
    BY DEF Area, LanesOf
<1>5. LaneStart(m, k) \in Nat /\ LanesOf(m) \in Nat
    BY LaneStarts DEF Kinds
<1>6. i < LanesOf(m) => {a, a + 1} \subseteq Area(m, k)
    BY <1>4, <1>5 DEF LaneByte
<1> QED BY <1>1, <1>3, <1>6

\* The lane that a value is of.
LaneOf(m, c, p, v) == IF m.type = "sfp" THEN 0 ELSE LaneIndex(c, p) + v[1]

\* The values of port p and what they are of.
ValuesOfLanes(D, c, p, m) ==
    /\ DOMAIN D = (IF m.type = "sfp" THEN {0} ELSE 0 .. Width(c) - 1) \X Kinds
    /\ \A v \in DOMAIN D :
          LET n == LaneOf(m, c, p, v)
              a == LaneByte(m, v[2], n)
          IN  /\ D[v] = {a, a + 1} /\ v[2] \in Kinds /\ v = <<v[1], v[2]>> /\ n \in 0 .. 7
              /\ m.type = "sfp" => v[1] = 0 /\ n = 0
              /\ m.type # "sfp" => v[1] \in 0 .. Width(c) - 1 /\ n \in 0 .. PhysWidth(c) - 1

\* The values that exanic_get_xcvr_diag_info returns are those of the port's lanes.
LEMMA DiagValues ==
    ASSUME NEW c \in Cages, Width(c) # -1, NEW m \in Modules, NEW p \in Nat
    PROVE  ValuesOfLanes(DiagBytes(c, p, m), c, p, m)
<1> DEFINE D == DiagBytes(c, p, m)
           X == IF m.type = "sfp" THEN {0} ELSE 0 .. Width(c) - 1
<1>1. DOMAIN D = X \X Kinds
    BY DEF DiagBytes
<1>2. ASSUME NEW v \in X \X Kinds
      PROVE  LET a == LaneByte(m, v[2], LaneOf(m, c, p, v)) IN
             /\ D[v] = {a, a + 1} /\ v[2] \in Kinds /\ v = <<v[1], v[2]>>
             /\ LaneOf(m, c, p, v) \in 0 .. 7
             /\ m.type = "sfp" => v[1] = 0 /\ LaneOf(m, c, p, v) = 0
             /\ m.type # "sfp" => /\ v[1] \in 0 .. Width(c) - 1
                                  /\ LaneOf(m, c, p, v) \in 0 .. PhysWidth(c) - 1
    <2>1. v[1] \in X /\ v[2] \in Kinds /\ v = <<v[1], v[2]>>
        OBVIOUS
    <2>2. LaneStart(m, v[2]) \in Nat
        BY <2>1, LaneStarts DEF Kinds
    <2>3. CASE m.type = "sfp"
        <3>1. v[1] = 0 /\ LaneOf(m, c, p, v) = 0
            BY <2>1, <2>3 DEF LaneOf
        <3>2. D[v] = {LaneStart(m, v[2]) + 0, LaneStart(m, v[2]) + 0 + 1}
            BY <2>3 DEF DiagBytes
        <3> QED BY <2>1, <2>2, <2>3, <3>1, <3>2 DEF LaneByte
    <2>4. CASE m.type # "sfp"
        <3>1. v[1] \in 0 .. Width(c) - 1 /\ LaneOf(m, c, p, v) = LaneIndex(c, p) + v[1]
            BY <2>1, <2>4 DEF LaneOf
        <3>2. LaneIndex(c, p) + v[1] \in 0 .. PhysWidth(c) - 1
            BY <3>1, LaneInCage
        <3>3. LaneIndex(c, p) + v[1] \in 0 .. 7
            BY <3>2, Widths
        <3>4. D[v] = {LaneByte(m, v[2], LaneOf(m, c, p, v)), LaneByte(m, v[2], LaneOf(m, c, p, v)) + 1}
            BY <2>4, <3>1 DEF DiagBytes, LaneByte
        <3> QED BY <2>1, <2>4, <3>1, <3>2, <3>3, <3>4
    <2> QED BY <2>3, <2>4
<1> QED BY <1>1, <1>2 DEF ValuesOfLanes

-----------------------------------------------------------------------------
\* The values of a result are right once its ladder is done.
LEMMA DiagRight ==
    ASSUME NEW c \in Cages, Width(c) # -1, NEW m \in Modules, ~DiagFails(m),
           NEW p \in 0 .. c.num_ports - 1
    PROVE  LET D == DiagBytes(c, p, m) IN
           /\ \A v, w \in DOMAIN D : v # w => D[v] \cap D[w] = {}
                                              \/ (m.type = "qsfp" /\ c.ff = "qsfpdd")
           /\ \A v \in DOMAIN D : D[v] \subseteq 0 .. m.len - 1
           /\ m.type = c.ff =>
                 /\ \A v \in DOMAIN D : D[v] \subseteq Area(m, v[2])
                 /\ \A q \in (0 .. c.num_ports - 1) \ {p}, v \in DOMAIN D :
                       q \div PortsPerCage(c) = p \div PortsPerCage(c) =>
                           \A w \in DOMAIN D : DiagBytes(c, q, m)[w] # D[v]
<1> DEFINE D == DiagBytes(c, p, m)
           LaneAt(v) == LaneOf(m, c, p, v)
<1>1. c.num_ports \in Nat /\ p \in Nat
    BY QueryAssumption
<1>2. m.type \in {"sfp", "qsfp", "qsfpdd"}
    BY QueryAssumption
<1>3. \A v \in DOMAIN D :
          LET a == LaneByte(m, v[2], LaneAt(v)) IN
          /\ D[v] = {a, a + 1} /\ v[2] \in Kinds /\ v = <<v[1], v[2]>> /\ LaneAt(v) \in 0 .. 7
          /\ m.type = "sfp" => v[1] = 0 /\ LaneAt(v) = 0
          /\ m.type # "sfp" => v[1] \in 0 .. Width(c) - 1 /\ LaneAt(v) \in 0 .. PhysWidth(c) - 1
    <2>1. ValuesOfLanes(D, c, p, m)
        BY <1>1, DiagValues
    <2> HIDE DEF D
    <2> QED BY <2>1 DEF ValuesOfLanes
<1>4. ASSUME NEW v \in DOMAIN D PROVE D[v] \subseteq 0 .. m.len - 1
    BY <1>3, <1>4, LaneBytesInside
<1>5. ASSUME NEW v \in DOMAIN D, NEW w \in DOMAIN D, v # w, ~(m.type = "qsfp" /\ c.ff = "qsfpdd")
      PROVE  D[v] \cap D[w] = {}
    <2>1. LaneAt(v) \in 0 .. LanesOf(m) - 1 /\ LaneAt(w) \in 0 .. LanesOf(m) - 1
        <3>1. CASE m.type = "sfp"
            BY <1>3, <3>1, LaneStarts
        <3>2. CASE m.type = "qsfp"
            <4>1. PhysWidth(c) \in {1, 4} /\ LanesOf(m) = 4
                BY <1>5, <3>2, Widths, LaneStarts
            <4> QED BY <1>3, <3>2, <4>1
        <3>3. CASE m.type = "qsfpdd"
            BY <1>3, <3>3, LaneStarts
        <3> QED BY <1>2, <3>1, <3>2, <3>3
    <2>2. v[2] # w[2] \/ LaneAt(v) # LaneAt(w)
        <3>1. SUFFICES ASSUME v[2] = w[2] PROVE LaneAt(v) # LaneAt(w)
            OBVIOUS
        <3>2. v[1] # w[1]
            BY <1>3, <1>5, <3>1
        <3>3. m.type # "sfp" /\ v[1] \in Int /\ w[1] \in Int
            BY <1>3, <3>2, Widths
        <3>4. LaneIndex(c, p) \in Int
            BY <1>1, <1>3, <3>3, LaneInCage
        <3> QED BY <3>2, <3>3, <3>4 DEF LaneOf
    <2> QED BY <1>3, <2>1, <2>2, LaneBytesApart
<1>6. ASSUME m.type = c.ff, NEW v \in DOMAIN D
      PROVE  LaneAt(v) \in 0 .. LanesOf(m) - 1 /\ D[v] \subseteq Area(m, v[2])
    <2>1. LaneAt(v) \in 0 .. LanesOf(m) - 1
        BY <1>2, <1>3, <1>6, Widths, LaneStarts
    <2>2. LanesOf(m) \in Nat /\ LaneAt(v) < LanesOf(m)
        BY <2>1, LaneStarts
    <2> QED BY <1>3, <2>1, <2>2, LaneBytesInside
<1>7. ASSUME m.type = c.ff, NEW q \in (0 .. c.num_ports - 1) \ {p}, NEW v \in DOMAIN D,
             q \div PortsPerCage(c) = p \div PortsPerCage(c), NEW w \in DOMAIN D
      PROVE  DiagBytes(c, q, m)[w] # D[v]
    <2> DEFINE E == DiagBytes(c, q, m)
               LaneOfQ(x) == LaneOf(m, c, q, x)
    <2>1. q \in Nat /\ q # p
        BY <1>1, <1>7
    <2>0. ValuesOfLanes(D, c, p, m) /\ ValuesOfLanes(E, c, q, m)
        BY <1>1, <2>1, DiagValues
    <2>2. DOMAIN E = DOMAIN D
        BY <2>0 DEF ValuesOfLanes
    <2>3. LET a == LaneByte(m, w[2], LaneOfQ(w)) IN
          /\ E[w] = {a, a + 1} /\ w[2] \in Kinds /\ LaneOfQ(w) \in 0 .. 7
          /\ m.type = "sfp" => w[1] = 0 /\ LaneOfQ(w) = 0
          /\ m.type # "sfp" => w[1] \in 0 .. Width(c) - 1 /\ LaneOfQ(w) \in 0 .. PhysWidth(c) - 1
        <3> HIDE DEF D, E
        <3> QED BY <2>0, <2>2 DEF ValuesOfLanes
    <2>4. m.type # "sfp"
        <3>1. SUFFICES ASSUME m.type = "sfp" PROVE FALSE
            OBVIOUS
        <3>2. Width(c) = 1 /\ PhysWidth(c) = 1
            BY <1>7, <3>1, Widths
        <3>3. PortsPerCage(c) = 1
            BY <3>2 DEF PortsPerCage
        <3> QED BY <1>1, <1>7, <2>1, <3>3
    <2>5. LaneOfQ(w) \in 0 .. LanesOf(m) - 1
        BY <1>2, <1>7, <2>3, Widths, LaneStarts
    <2>6. LaneOfQ(w) # LaneAt(v)
        <3>1. v[1] \in 0 .. Width(c) - 1 /\ w[1] \in 0 .. Width(c) - 1
            BY <1>3, <2>3, <2>4
        <3>2. LaneIndex(c, q) + w[1] # LaneIndex(c, p) + v[1]
            BY <1>1, <1>7, <2>1, <3>1, LanesApart
        <3> QED BY <2>4, <3>2 DEF LaneOf
    <2>7. LaneAt(v) \in 0 .. LanesOf(m) - 1
        BY <1>6, <1>7
    <2>8. E[w] \cap D[v] = {}
        BY <1>3, <2>3, <2>5, <2>6, <2>7, LaneBytesApart
    <2> QED BY <2>3, <2>8
<1> QED BY <1>4, <1>5, <1>6, <1>7

\* The names of the steps of a ladder.
Pending(ladder) == {ladder[j].name : j \in 1 .. Len(ladder)}

\* What a step leaves pending.
LEMMA NextStep ==
    ASSUME NEW s \in Seq(StepsOfCalls), s # <<>>
    PROVE  /\ Tail(s) \in Seq(StepsOfCalls) /\ Head(s) \in StepsOfCalls
           /\ Pending(Tail(s)) \subseteq Pending(s)
           /\ Pending(s) = {Head(s).name} \cup Pending(Tail(s))
<1> DEFINE n == Len(s)
           t == Tail(s)
<1>1. n \in Nat /\ n > 0 /\ Head(s) = s[1] /\ s[1] \in StepsOfCalls
    OBVIOUS
<1>2. t \in Seq(StepsOfCalls) /\ Len(t) = n - 1 /\ \A j \in 1 .. n - 1 : t[j] = s[j + 1]
    BY <1>1
<1> HIDE DEF t
<1>3. Pending(t) \subseteq Pending(s)
    <2> SUFFICES ASSUME NEW j \in 1 .. Len(t) PROVE t[j].name \in Pending(s)
        BY DEF Pending
    <2>1. j + 1 \in 1 .. n /\ t[j] = s[j + 1]
        BY <1>1, <1>2
    <2> QED BY <2>1 DEF Pending
<1>4. Pending(s) \subseteq {s[1].name} \cup Pending(t)
    <2> SUFFICES ASSUME NEW j \in 1 .. n, j # 1 PROVE s[j].name \in Pending(t)
        BY <1>1 DEF Pending
    <2>1. j - 1 \in 1 .. Len(t) /\ t[j - 1] = s[j]
        BY <1>1, <1>2
    <2> QED BY <2>1 DEF Pending
<1>5. s[1].name \in Pending(s)
    BY <1>1 DEF Pending
<1> QED BY <1>1, <1>2, <1>3, <1>4, <1>5 DEF t

\* A balanced ladder stays so from its next step on, and none is left of it when
\* it is done.
LEMMA BalancedStep ==
    ASSUME NEW s, NEW a, NEW b, Balanced(s, a, b), s # <<>>
    PROVE  /\ Balanced(Tail(s), (a \cup Head(s).takes) \ Head(s).gives, b)
           /\ Head(s).name \notin Safe => a \subseteq Head(s).undo
<1>1. PICK h \in [1 .. Len(s) + 1 -> SUBSET Things] :
          h[1] = a /\ h[Len(s) + 1] = b /\ Accounts(s, h)
    BY DEF Balanced
<1> DEFINE n == Len(s)
           t == Tail(s)
           g == [j \in 1 .. n |-> h[j + 1]]
<1>2. s \in Seq(StepsOfCalls) /\ n \in Nat /\ n > 0 /\ Head(s) = s[1]
    BY DEF Balanced
<1>3. t \in Seq(StepsOfCalls) /\ Len(t) = n - 1 /\ \A j \in 1 .. n - 1 : t[j] = s[j + 1]
    BY <1>2
<1>4. /\ h[2] = (a \cup Head(s).takes) \ Head(s).gives
      /\ Head(s).name \notin Safe => a \subseteq Head(s).undo
    BY <1>1, <1>2 DEF Accounts
<1> HIDE DEF t
<1>5. g \in [1 .. Len(t) + 1 -> SUBSET Things] /\ g[1] = h[2] /\ g[Len(t) + 1] = b
    BY <1>1, <1>2, <1>3
<1>6. ASSUME NEW j \in 1 .. Len(t)
      PROVE  /\ g[j + 1] = (g[j] \cup t[j].takes) \ t[j].gives
             /\ t[j].name \notin Safe => g[j] \subseteq t[j].undo
    <2>1. j + 1 \in 1 .. n /\ t[j] = s[j + 1] /\ g[j] = h[j + 1] /\ g[j + 1] = h[(j + 1) + 1]
        BY <1>2, <1>3
    <2> QED BY <1>1, <2>1 DEF Accounts
<1> HIDE DEF g
<1>7. Balanced(t, h[2], b)
    BY <1>3, <1>5, <1>6 DEF Balanced, Accounts
<1> QED BY <1>4, <1>7 DEF t

\* At the end of a ladder nothing is taken or given back any more.
LEMMA BalancedEnd == ASSUME NEW a, NEW b, Balanced(<<>>, a, b) PROVE a = b
BY DEF Balanced

\* Of two ladders one after the other, the steps of both are pending.
LEMMA PendingBoth ==
    ASSUME NEW L \in Seq(StepsOfCalls), NEW M \in Seq(StepsOfCalls)
    PROVE  Pending(L \o M) = Pending(L) \cup Pending(M) /\ L \o M \in Seq(StepsOfCalls)
<1> DEFINE m == Len(L)
           n == Len(M)
           S == L \o M
<1>1. /\ m \in Nat /\ n \in Nat /\ S \in Seq(StepsOfCalls) /\ Len(S) = m + n
      /\ \A i \in 1 .. m : S[i] = L[i]
      /\ \A i \in m + 1 .. m + n : S[i] = M[i - m]
    OBVIOUS
<1> HIDE DEF S
<1>2. Pending(S) \subseteq Pending(L) \cup Pending(M)
    <2> SUFFICES ASSUME NEW j \in 1 .. m + n PROVE S[j].name \in Pending(L) \cup Pending(M)
        BY <1>1 DEF Pending
    <2>1. CASE j <= m
        BY <1>1, <2>1 DEF Pending
    <2>2. CASE j > m
        <3>1. j - m \in 1 .. n /\ S[j] = M[j - m]
            BY <1>1, <2>2
        <3> QED BY <3>1 DEF Pending
    <2> QED BY <1>1, <2>1, <2>2
<1>3. Pending(L) \subseteq Pending(S)
    BY <1>1 DEF Pending
<1>4. Pending(M) \subseteq Pending(S)
    <2> SUFFICES ASSUME NEW j \in 1 .. n PROVE M[j].name \in Pending(S)
        BY DEF Pending
    <2>1. j + m \in 1 .. m + n /\ j + m \in m + 1 .. m + n /\ S[j + m] = M[(j + m) - m] /\ (j + m) - m = j
        BY <1>1
    <2> QED BY <1>1, <2>1 DEF Pending
<1> QED BY <1>1, <1>2, <1>3, <1>4 DEF S

\* Steps one after the other are a ladder, and their names are pending in it.
LEMMA NamesOfTwo ==
    ASSUME NEW s \in StepsOfCalls, NEW t \in StepsOfCalls
    PROVE  <<s, t>> \in Seq(StepsOfCalls) /\ Pending(<<s, t>>) = {s.name, t.name}
<1> DEFINE q == <<s, t>>
<1>1. q \in Seq(StepsOfCalls) /\ Len(q) = 2 /\ q[1] = s /\ q[2] = t
    OBVIOUS
<1>2. 1 .. 2 = {1, 2}
    OBVIOUS
<1> HIDE DEF q
<1>3. Pending(q) = {q[1].name, q[2].name}
    BY <1>1, <1>2 DEF Pending
<1> QED BY <1>1, <1>3 DEF q

\* So with three steps,
LEMMA NamesOfThree ==
    ASSUME NEW s \in StepsOfCalls, NEW t \in StepsOfCalls, NEW u \in StepsOfCalls
    PROVE  <<s, t, u>> \in Seq(StepsOfCalls) /\ Pending(<<s, t, u>>) = {s.name, t.name, u.name}
<1> DEFINE q == <<s, t, u>>
<1>1. q \in Seq(StepsOfCalls) /\ Len(q) = 3 /\ q[1] = s /\ q[2] = t /\ q[3] = u
    OBVIOUS
<1>2. 1 .. 3 = {1, 2, 3}
    OBVIOUS
<1> HIDE DEF q
<1>3. Pending(q) = {q[1].name, q[2].name, q[3].name}
    BY <1>1, <1>2 DEF Pending
<1> QED BY <1>1, <1>3 DEF q

\* and with five.
LEMMA NamesOfFive ==
    ASSUME NEW s \in StepsOfCalls, NEW t \in StepsOfCalls, NEW u \in StepsOfCalls,
           NEW v \in StepsOfCalls, NEW w \in StepsOfCalls
    PROVE  /\ <<s, t, u, v, w>> \in Seq(StepsOfCalls)
           /\ Pending(<<s, t, u, v, w>>) = {s.name, t.name, u.name, v.name, w.name}
<1> DEFINE q == <<s, t, u, v, w>>
<1>1. /\ q \in Seq(StepsOfCalls) /\ Len(q) = 5
      /\ q[1] = s /\ q[2] = t /\ q[3] = u /\ q[4] = v /\ q[5] = w
    OBVIOUS
<1>2. 1 .. 5 = {1, 2, 3, 4, 5}
    OBVIOUS
<1> HIDE DEF q
<1>3. Pending(q) = {q[1].name, q[2].name, q[3].name, q[4].name, q[5].name}
    BY <1>1, <1>2 DEF Pending
<1> QED BY <1>1, <1>3 DEF q

\* The names of the steps that the ladders are written with.
LEMMA NameOfStep ==
    /\ \A n \in StepNames, u \in SUBSET Things : Ask(n, u).name = n
    /\ \A t \in Things, u \in SUBSET Things : Take(t, u).name = t
    /\ \A w \in SUBSET Things : Give(w).name = "free"
BY DEF Ask, Take, Give, Step

\* The steps at which the transceiver calls find what they return are on their
\* ladders, and each on one of the two only.
LEMMA XcvrSteps ==
    /\ "fields" \in Pending(XcvrInfo) /\ "diag" \notin Pending(XcvrInfo)
    /\ "width" \in Pending(XcvrDiagInfo) /\ "diag" \in Pending(XcvrDiagInfo)
    /\ "fields" \notin Pending(XcvrDiagInfo)
<1> DEFINE S == StepsOfCalls
           five == <<Take("socket", {}), Ask("modinfo", {"socket"}), Take("eeprom", {"socket"}),
                     Ask("eeprom ioctl", {"eeprom", "socket"}), Give({"socket"})>>
           front == <<Ask("width", {}), Ask("lane", {})>>
           back == <<Take("info", {"eeprom"}), Ask("diag", {"info", "eeprom"}), Give({"eeprom"})>>
           last == <<Ask("fields", {}), Give({"eeprom"})>>
<1>1. /\ "socket" \in Things /\ "eeprom" \in Things /\ "info" \in Things
      /\ {} \in SUBSET Things /\ {"socket"} \in SUBSET Things /\ {"eeprom"} \in SUBSET Things
      /\ {"eeprom", "socket"} \in SUBSET Things /\ {"info", "eeprom"} \in SUBSET Things
      /\ {"modinfo", "eeprom ioctl", "width", "lane", "diag", "fields", "port usable",
          "if_indextoname"} \subseteq StepNames
    BY DEF Things, StepNames
<1>2. Pending(InterfaceName) = {"port usable", "if_indextoname"} /\ InterfaceName \in Seq(S)
    <2>1. /\ Ask("port usable", {}) \in S /\ Ask("port usable", {}).name = "port usable"
          /\ Ask("if_indextoname", {}) \in S /\ Ask("if_indextoname", {}).name = "if_indextoname"
        BY <1>1, StepTypes, NameOfStep
    <2> QED BY <2>1, NamesOfTwo DEF InterfaceName
<1>3. Pending(five) = {"socket", "modinfo", "eeprom", "eeprom ioctl", "free"} /\ five \in Seq(S)
    <2> DEFINE s == Take("socket", {})
               t == Ask("modinfo", {"socket"})
               u == Take("eeprom", {"socket"})
               v == Ask("eeprom ioctl", {"eeprom", "socket"})
               w == Give({"socket"})
    <2>1. s \in S /\ s.name = "socket" /\ w \in S /\ w.name = "free"
        BY <1>1, StepTypes, NameOfStep
    <2>2. u \in S /\ u.name = "eeprom"
        BY <1>1, StepTypes, NameOfStep
    <2>3. t \in S /\ t.name = "modinfo" /\ v \in S /\ v.name = "eeprom ioctl"
        BY <1>1, StepTypes, NameOfStep
    <2>4. five = <<s, t, u, v, w>>
        OBVIOUS
    <2> HIDE DEF s, t, u, v, w, five
    <2>5. /\ <<s, t, u, v, w>> \in Seq(StepsOfCalls)
          /\ Pending(<<s, t, u, v, w>>) = {s.name, t.name, u.name, v.name, w.name}
        <3>1. /\ s \in StepsOfCalls /\ t \in StepsOfCalls /\ u \in StepsOfCalls
              /\ v \in StepsOfCalls /\ w \in StepsOfCalls
            BY <2>1, <2>2, <2>3
        <3> QED BY ONLY <3>1, NamesOfFive
    <2> QED BY <2>1, <2>2, <2>3, <2>4, <2>5
<1>4. Pending(front) = {"width", "lane"} /\ front \in Seq(S)
    <2>1. /\ Ask("width", {}) \in S /\ Ask("width", {}).name = "width"
          /\ Ask("lane", {}) \in S /\ Ask("lane", {}).name = "lane"
        BY <1>1, StepTypes, NameOfStep
    <2> QED BY <2>1, NamesOfTwo
<1>5. Pending(back) = {"info", "diag", "free"} /\ back \in Seq(S)
    <2>1. /\ Take("info", {"eeprom"}) \in S /\ Take("info", {"eeprom"}).name = "info"
          /\ Ask("diag", {"info", "eeprom"}) \in S /\ Ask("diag", {"info", "eeprom"}).name = "diag"
          /\ Give({"eeprom"}) \in S /\ Give({"eeprom"}).name = "free"
        BY <1>1, StepTypes, NameOfStep
    <2> QED BY <2>1, NamesOfThree
<1>6. Pending(last) = {"fields", "free"} /\ last \in Seq(S)
    <2>1. /\ Ask("fields", {}) \in S /\ Ask("fields", {}).name = "fields"
          /\ Give({"eeprom"}) \in S /\ Give({"eeprom"}).name = "free"
        BY <1>1, StepTypes, NameOfStep
    <2> QED BY <2>1, NamesOfTwo
<1>7. /\ ModuleEeprom = InterfaceName \o five
      /\ XcvrInfo = ModuleEeprom \o last /\ XcvrDiagInfo = (front \o ModuleEeprom) \o back
    BY DEF ModuleEeprom, XcvrInfo, XcvrDiagInfo
<1> HIDE DEF five, front, back, last
<1>8. /\ ModuleEeprom \in Seq(S)
      /\ Pending(ModuleEeprom) = Pending(InterfaceName) \cup Pending(five)
    BY <1>2, <1>3, <1>7, PendingBoth
<1>9. Pending(XcvrInfo) = Pending(ModuleEeprom) \cup Pending(last)
    BY <1>6, <1>7, <1>8, PendingBoth
<1>10. /\ front \o ModuleEeprom \in Seq(S)
       /\ Pending(front \o ModuleEeprom) = Pending(front) \cup Pending(ModuleEeprom)
    BY <1>4, <1>8, PendingBoth
<1>11. Pending(XcvrDiagInfo) = Pending(front \o ModuleEeprom) \cup Pending(back)
    BY <1>5, <1>7, <1>10, PendingBoth
<1>12. Pending(ModuleEeprom) = {"socket", "modinfo", "eeprom", "eeprom ioctl", "free",
                                "port usable", "if_indextoname"}
    BY <1>2, <1>3, <1>8
<1> QED BY <1>4, <1>5, <1>6, <1>9, <1>10, <1>11, <1>12

-----------------------------------------------------------------------------
\* While a call runs, what it holds is what the rest of its ladder accounts for.
LadderInv ==
    /\ query \in DOMAIN Ladder
    /\ outcome \in {"none", "ok", "failed"}
    /\ outcome = "none" => Balanced(steps, held, Left(query))
    /\ outcome = "ok" => held = Handed(query) /\ steps = <<>>
    /\ outcome = "failed" => held = {}

\* A table with room for whole entries has no more of them than that.
TableInv ==
    /\ rest \in Seq(STRING) /\ table \in Seq(STRING) /\ table_size \in Nat
    /\ table_size % 2 = 0 => 2 * Len(table) <= table_size

\* A transceiver call has found what its ladder has no step left to find.
XcvrInv ==
    /\ query \in {"xcvr_info", "diag_info"} =>
          cage \in Cages /\ module \in Modules /\ port \in 0 .. cage.num_ports - 1
    /\ query = "xcvr_info" /\ outcome # "failed" =>
          /\ "diag" \notin Pending(steps)
          /\ "fields" \in Pending(steps) \/ bytes = InfoBytes(module)
    /\ query = "diag_info" /\ outcome # "failed" =>
          /\ "fields" \notin Pending(steps)
          /\ "width" \in Pending(steps) \/ Width(cage) # -1
          /\ "diag" \in Pending(steps)
             \/ (bytes = DiagBytes(cage, port, module) /\ ~DiagFails(module))

QueryInv == IF program = "query" THEN LadderInv /\ TableInv /\ XcvrInv ELSE NoQuery

\* At the end of a ladder no step is pending.
LEMMA NonePending == Pending(<<>>) = {}
BY DEF Pending

\* A call starts with its ladder whole, nothing held and nothing found.
LEMMA QueryInitInv ==
    ASSUME QueryInit
    PROVE  LadderInv /\ TableInv /\ XcvrInv
<1>1. LadderInv
    BY LaddersBalanced DEF QueryInit, LadderInv
<1>2. TableInv
    <2>1. (rest \in Interfaces /\ table_size \in TableSizes) \/ (rest = <<>> /\ table_size = 0)
        BY DEF QueryInit
    <2>2. rest \in Seq(STRING) /\ table_size \in Nat
        <3>1. <<>> \in Seq(STRING) /\ 0 \in Nat
            OBVIOUS
        <3>2. Interfaces \subseteq Seq(STRING) /\ TableSizes \subseteq Nat
            BY QueryAssumption
        <3> QED BY <2>1, <3>1, <3>2
    <2>3. table = <<>> /\ Len(table) = 0 /\ table \in Seq(STRING)
        BY DEF QueryInit
    <2> QED BY <2>2, <2>3 DEF TableInv
<1>3. XcvrInv
    <2>1. CASE query \notin {"xcvr_info", "diag_info"}
        BY <2>1 DEF XcvrInv
    <2>2. CASE query = "xcvr_info"
        <3>1. steps = XcvrInfo
            BY <2>2 DEF QueryInit, Ladder
        <3> QED BY <2>2, <3>1, XcvrSteps DEF QueryInit, XcvrInv
    <2>3. CASE query = "diag_info"
        <3>1. steps = XcvrDiagInfo
            BY <2>3 DEF QueryInit, Ladder
        <3> QED BY <2>3, <3>1, XcvrSteps DEF QueryInit, XcvrInv
    <2> QED BY <2>1, <2>2, <2>3
<1> QED BY <1>1, <1>2, <1>3

\* A step that succeeds keeps the invariant.
LEMMA SucceedInv ==
    ASSUME LadderInv, TableInv, XcvrInv, Succeed
    PROVE  LadderInv' /\ TableInv' /\ XcvrInv'
<1> DEFINE s == Head(steps)
           t == Tail(steps)
<1>1. /\ outcome = "none" /\ steps # <<>> /\ May(s.name)
      /\ steps' = t /\ held' = (held \cup s.takes) \ s.gives
      /\ query' = query /\ outcome' = outcome /\ rest' = rest /\ table' = table
      /\ table_size' = table_size /\ cage' = cage /\ port' = port /\ module' = module
    BY DEF Succeed, Input
<1>2. Balanced(steps, held, Left(query))
    BY <1>1 DEF LadderInv
<1>3. Balanced(t, held', Left(query))
    BY <1>1, <1>2, BalancedStep
<1>4. Pending(steps) = {s.name} \cup Pending(t)
    BY <1>1, <1>2, NextStep DEF Balanced
<1>5. /\ s.name = "fields" => bytes' = InfoBytes(module)
      /\ s.name = "diag" => bytes' = DiagBytes(cage, port, module)
      /\ s.name \notin {"fields", "diag"} => bytes' = bytes
    BY DEF Succeed
<1> HIDE DEF s, t
<1>6. LadderInv'
    BY <1>1, <1>3 DEF LadderInv, Left, Handed
<1>7. TableInv'
    BY <1>1 DEF TableInv
<1>8. XcvrInv'
    <2>1. /\ s.name = "width" => Width(cage) # -1
          /\ s.name = "diag" => ~DiagFails(module)
        BY <1>1 DEF May
    <2>2. InfoBytes(module)' = InfoBytes(module) /\ DiagFails(module)' = DiagFails(module)
        BY <1>1 DEF InfoBytes, DiagFails
    <2>3. /\ DiagBytes(cage, port, module)' = DiagBytes(cage, port, module)
          /\ Width(cage)' = Width(cage)
        BY <1>1
    <2>4. Pending(steps)' = Pending(t)
        BY <1>1
    <2> QED BY <1>1, <1>4, <1>5, <2>1, <2>2, <2>3, <2>4 DEF XcvrInv
<1> QED BY <1>6, <1>7, <1>8

\* A step that fails keeps it: its exit gives back all that is held.
LEMMA FailInv ==
    ASSUME LadderInv, TableInv, XcvrInv, Fail
    PROVE  LadderInv' /\ TableInv' /\ XcvrInv'
<1>1. /\ outcome = "none" /\ steps # <<>> /\ MayFail(Head(steps).name)
      /\ held' = held \ Head(steps).undo /\ outcome' = "failed"
      /\ query' = query /\ steps' = steps /\ rest' = rest /\ table' = table /\ bytes' = bytes
      /\ table_size' = table_size /\ cage' = cage /\ port' = port /\ module' = module
    BY DEF Fail, Input
<1>2. Head(steps).name \notin Safe
    BY <1>1 DEF MayFail, Safe
<1>3. held \subseteq Head(steps).undo
    BY <1>1, <1>2, BalancedStep DEF LadderInv
<1>4. LadderInv'
    BY <1>1, <1>3 DEF LadderInv
<1>5. TableInv'
    BY <1>1 DEF TableInv
<1>6. XcvrInv'
    BY <1>1 DEF XcvrInv
<1> QED BY <1>4, <1>5, <1>6

\* Adding to a list.
LEMMA OneMore ==
    ASSUME NEW S, NEW s \in Seq(S), NEW x \in S
    PROVE  /\ Append(s, x) \in Seq(S) /\ Len(s) \in Nat
           /\ Len(Append(s, x)) = Len(s) + 1
OBVIOUS

\* exanic_get_all_ports adds to its table while there is room for half an entry, so
\* with room for whole entries there is room for one.
LEMMA NextPortInv ==
    ASSUME LadderInv, TableInv, XcvrInv, NextPort
    PROVE  LadderInv' /\ TableInv' /\ XcvrInv'
<1>1. /\ query = "all_ports" /\ rest # <<>> /\ Room
      /\ table' \in {table, Append(table, Head(rest))} /\ rest' = Tail(rest)
      /\ query' = query /\ steps' = steps /\ held' = held /\ outcome' = outcome
      /\ table_size' = table_size
    BY DEF NextPort, Input
<1>2. LadderInv'
    BY <1>1 DEF LadderInv, Left, Handed
<1>3. TableInv'
    <2>1. Head(rest) \in STRING /\ rest' \in Seq(STRING)
        BY <1>1 DEF TableInv
    <2>2. /\ table \in Seq(STRING) /\ Len(table) \in Nat /\ table_size \in Nat
          /\ table' \in Seq(STRING) /\ Len(table') \in Nat /\ Len(table') <= Len(table) + 1
        <3>1. table \in Seq(STRING) /\ table_size \in Nat
            BY DEF TableInv
        <3> QED BY <1>1, <2>1, <3>1, OneMore
    <2>3. Len(table) * 2 < table_size
        BY <1>1 DEF Room
    <2>4. table_size % 2 = 0 => 2 * Len(table') <= table_size
        BY <2>2, <2>3
    <2> QED BY <1>1, <2>1, <2>2, <2>4 DEF TableInv
<1>4. XcvrInv'
    BY <1>1 DEF XcvrInv
<1> QED BY <1>2, <1>3, <1>4

\* A call that returns hands over what its ladder leaves; the search of all ports frees
\* its list of names first.
LEMMA ReturnInv ==
    ASSUME LadderInv, TableInv, XcvrInv, AllPorts \/ Returns
    PROVE  LadderInv' /\ TableInv' /\ XcvrInv'
<1>1. /\ outcome = "none" /\ steps = <<>> /\ outcome' = "ok"
      /\ query' = query /\ steps' = steps /\ rest' = rest /\ table' = table /\ bytes' = bytes
      /\ table_size' = table_size /\ cage' = cage /\ port' = port /\ module' = module
    BY DEF AllPorts, Returns, Input
<1>2. held = Left(query)
    BY <1>1, BalancedEnd DEF LadderInv
<1>3. held' = Handed(query)
    BY <1>2 DEF AllPorts, Returns, Left, Handed
<1>4. LadderInv'
    BY <1>1, <1>3 DEF LadderInv, Handed
<1>5. TableInv'
    BY <1>1 DEF TableInv
<1>6. XcvrInv'
    <2>1. InfoBytes(module)' = InfoBytes(module) /\ DiagFails(module)' = DiagFails(module)
        BY <1>1 DEF InfoBytes, DiagFails
    <2> QED BY <1>1, <2>1 DEF XcvrInv
<1> QED BY <1>4, <1>5, <1>6

\* The invariant of the calls holds in every state of Tools.
LEMMA QueryInvariance == Spec => []QueryInv
<1>1. Init => QueryInv
    BY QueryInitInv DEF Init, QueryInv
<1>2. QueryInv /\ [Next]_toolVars => QueryInv'
    <2> SUFFICES ASSUME QueryInv, [Next]_toolVars PROVE QueryInv'
        OBVIOUS
    <2>1. CASE UNCHANGED <<queryVars, program>>
        <3>1. /\ query' = query /\ steps' = steps /\ held' = held /\ outcome' = outcome
              /\ rest' = rest /\ table' = table /\ table_size' = table_size /\ cage' = cage
              /\ port' = port /\ module' = module /\ bytes' = bytes /\ program' = program
            BY <2>1 DEF queryVars
        <3>2. InfoBytes(module)' = InfoBytes(module) /\ DiagFails(module)' = DiagFails(module)
            BY <3>1 DEF InfoBytes, DiagFails
        <3> QED BY <3>1, <3>2 DEF QueryInv, NoQuery, LadderInv, TableInv, XcvrInv
    <2>2. CASE program = "query" /\ program' = program /\ QueryNext
        <3>1. LadderInv /\ TableInv /\ XcvrInv
            BY <2>2 DEF QueryInv
        <3>2. LadderInv' /\ TableInv' /\ XcvrInv'
            BY <2>2, <3>1, SucceedInv, FailInv, NextPortInv, ReturnInv DEF QueryNext
        <3> QED BY <2>2, <3>2 DEF QueryInv
    <2> QED BY <2>1, <2>2 DEF Next, toolVars
<1> QED BY <1>1, <1>2, PTL DEF Spec

\* Every query of the kernel that fails, at whichever step, has closed its sockets and
\* freed its memory, one that succeeds keeps just what it returns, and the table of
\* exanic_get_all_ports never gets more entries than its caller has room for, whatever
\* the interfaces and the size.
THEOREM LaddersCleanHolds == Spec => []LaddersClean
<1>1. QueryInv => LaddersClean
    BY DEF QueryInv, NoQuery, LadderInv, TableInv, LaddersClean
<1> QED BY <1>1, QueryInvariance, PTL

\* The values of transceiver calls come from disjoint bytes that the module has, those
\* of a lane from the area of their kind, and those of two ports of a cage from
\* different lanes: for every form factor, number of ports and module.
THEOREM FieldsRightHolds == Spec => []FieldsRight
<1>1. ASSUME QueryInv PROVE FieldsRight
    <2> SUFFICES ASSUME outcome = "ok", query \in {"xcvr_info", "diag_info"} PROVE FieldsRight
        BY DEF FieldsRight
    <2>1. LadderInv /\ XcvrInv
        BY <1>1 DEF QueryInv, NoQuery
    <2>2. Pending(steps) = {} /\ outcome # "failed"
        BY <2>1, NonePending DEF LadderInv
    <2>3. CASE query = "xcvr_info"
        <3>1. module \in Modules /\ bytes = InfoBytes(module)
            BY <2>1, <2>2, <2>3 DEF XcvrInv
        <3> QED BY <2>3, <3>1, InfoRight DEF FieldsRight
    <2>4. CASE query = "diag_info"
        <3>1. /\ cage \in Cages /\ module \in Modules /\ port \in 0 .. cage.num_ports - 1
              /\ Width(cage) # -1 /\ ~DiagFails(module) /\ bytes = DiagBytes(cage, port, module)
            BY <2>1, <2>2, <2>4 DEF XcvrInv
        <3> QED BY <2>4, <3>1, DiagRight DEF FieldsRight
    <2> QED BY <2>3, <2>4
<1> QED BY <1>1, QueryInvariance, PTL

-----------------------------------------------------------------------------
(* Rules                                                                   *)

\* The words that open a condition and say what it is about, and the places of the parser.
Directions == {"src", "dst"}
Openers == Directions \cup {"type"}
BeforeClauses == {"action", "vlan", "id", "protocol"}
Values == {"host", "net", "port"}
Places == BeforeClauses \cup Values \cup {"clause", "dir", "type", "bad"}

\* The state of the parser.
RuleType == [at : Places, drop : BOOLEAN, vlan : BOOLEAN, proto : Proto \cup {"any"},
             dir : Directions \cup {""}, pattern : [Fields -> Nat], mask : [Fields -> Nat]]

\* The condition that starts with word i is whole, and what it says: about which field,
\* with which pattern and mask.
Whole(x, i, n) ==
    /\ x[i] = "type" => i + 1 <= n /\ x[i + 1] \in DOMAIN Num
    /\ x[i] \in Directions =>
          /\ i + 2 <= n
          /\ \/ x[i + 1] = "host" /\ x[i + 2] \in DOMAIN Addr
             \/ x[i + 1] = "port" /\ x[i + 2] \in DOMAIN Num
             \/ x[i + 1] = "net" /\ x[i + 2] \in DOMAIN Net
FieldIn(d, k) == IF k = "port" THEN (IF d = "src" THEN "sport" ELSE "dport")
                               ELSE (IF d = "src" THEN "saddr" ELSE "daddr")
FieldOf(x, i) == IF x[i] = "type" THEN "icmp_type" ELSE FieldIn(x[i], x[i + 1])
ValueIn(k, v) == IF k = "host" THEN Addr[v] ELSE IF k = "net" THEN Net[v].addr ELSE UInt16(Num[v])
MaskIn(k, v) == IF k = "net" THEN 2 ^ W - 2 ^ (W - Net[v].bits) ELSE AllOnes
PatternOf(x, i) == IF x[i] = "type" THEN UInt8(Num[x[i + 1]]) ELSE ValueIn(x[i + 1], x[i + 2])
MaskOf(x, i) == IF x[i] = "type" THEN AllOnes ELSE MaskIn(x[i + 1], x[i + 2])

\* The conditions among the first n words are in the rule, and nothing else is.
InRule(x, n, s) ==
    \A i \in 1 .. n : x[i] \in Openers =>
        /\ Whole(x, i, n)
        /\ s.mask[FieldOf(x, i)] # 0
        /\ s.pattern[FieldOf(x, i)] = PatternOf(x, i) /\ s.mask[FieldOf(x, i)] = MaskOf(x, i)
InWords(x, n, s) ==
    \A g \in {"saddr", "daddr", "sport", "dport", "icmp_type"} :
        IF s.mask[g] = 0 THEN s.pattern[g] = 0
        ELSE \E i \in 1 .. n : x[i] \in Openers /\ FieldOf(x, i) = g
NoHeaders(s) == \A g \in {"ethertype", "ihl", "protocol"} : s.mask[g] = 0 /\ s.pattern[g] = 0
Said(x, n, s) == InRule(x, n, s) /\ InWords(x, n, s) /\ NoHeaders(s)

\* The words before the condition that is not whole yet.
Completed(x, s) ==
    IF s.at \in {"dir", "type"} THEN Len(x) - 1
    ELSE IF s.at \in Values THEN Len(x) - 2 ELSE Len(x)
Opened(x, s) ==
    /\ s.at = "dir" => Len(x) > 0 /\ x[Len(x)] = s.dir /\ s.dir \in Directions
    /\ s.at = "type" => Len(x) > 0 /\ x[Len(x)] = "type"
    /\ s.at \in Values => /\ Len(x) > 1 /\ x[Len(x) - 1] = s.dir /\ s.dir \in Directions
                          /\ x[Len(x)] = s.at

\* "vlan" comes second or not at all, its identifier third, and the place says how much of
\* the beginning has been read.
Tagged(x, s) ==
    /\ s.vlan <=> Len(x) >= 2 /\ x[2] = "vlan"
    /\ \A i \in 1 .. Len(x) : x[i] = "vlan" => i = 2
    /\ s.at = "action" => Len(x) = 0
    /\ s.at = "vlan" => Len(x) = 1
    /\ s.at = "id" => Len(x) = 2 /\ s.vlan
    /\ s.at = "protocol" => Len(x) = 3 /\ s.vlan
    /\ s.at \notin BeforeClauses => Len(x) >= 2 /\ (s.vlan => Len(x) >= 3)
    /\ IF Len(x) >= 3 /\ s.vlan /\ x[3] \in Identifiers
       THEN s.mask["tci"] = AllOnes /\ s.pattern["tci"] = UInt16(Num[x[3]])
       ELSE s.mask["tci"] = 0 /\ s.pattern["tci"] = 0

\* The protocol is the one named, or IP where conditions come without one.
ProtoRead(x, s) ==
    /\ s.at \in BeforeClauses => s.proto = "any" /\ \A i \in 1 .. Len(x) : x[i] \notin Proto \cup Openers
    /\ s.at \notin BeforeClauses =>
          \/ /\ s.proto \in Proto /\ \E i \in 1 .. Len(x) : x[i] = s.proto
             /\ \A i \in 1 .. Len(x) : x[i] \in Proto => x[i] = s.proto
          \/ /\ s.proto = "ip" /\ \E i \in 1 .. Len(x) : x[i] \in Openers
             /\ \A i \in 1 .. Len(x) : x[i] \notin Proto

\* What the state of the parser says of the words, unless they do not fit.
Reads(x, s) ==
    s.at # "bad" => Said(x, Completed(x, s), s) /\ Opened(x, s) /\ Tagged(x, s) /\ ProtoRead(x, s)

\* The invariant that the steps keep.
RuleInv ==
    /\ words \in Seq(Vocabulary) /\ rule \in RuleType /\ shifted \in {0, AllOnes}
    /\ Proper(words) => Reads(words, rule)

-----------------------------------------------------------------------------
\* y is x with one word more.
Adds(x, y, w) ==
    /\ Len(x) \in Nat /\ Len(y) = Len(x) + 1 /\ y[Len(x) + 1] = w
    /\ \A i \in 1 .. Len(x) : y[i] = x[i]

\* Append adds a word.
LEMMA AppendAdds ==
    ASSUME NEW V, NEW x \in Seq(V), NEW w \in V
    PROVE  Adds(x, Append(x, w), w) /\ Append(x, w) \in Seq(V)
BY DEF Adds

\* The words of the grammar are not values.
LEMMA Words ==
    /\ \A w \in DOMAIN Addr \cup DOMAIN Net \cup DOMAIN Num : w \notin Keywords
    /\ Identifiers \subseteq DOMAIN Num
    /\ Openers \subseteq Keywords /\ Proto \subseteq Keywords /\ Values \subseteq Keywords
    /\ "vlan" \in Keywords /\ "allow" \in Keywords /\ "drop" \in Keywords
BY RuleAssumption DEF Keywords, Openers, Directions, Values, Identifiers

\* What one word does to the state of the parser.
Keeps(s, t) == t.vlan = s.vlan /\ t.mask = s.mask /\ t.pattern = s.pattern
Puts(s, t, g, p, m) == /\ t.vlan = s.vlan /\ t.mask = [s.mask EXCEPT ![g] = m]
                       /\ t.pattern = [s.pattern EXCEPT ![g] = p]
Moves(s, w, t, zero) ==
    \/ t.at = "bad"
    \/ s.at = "action" /\ w \in {"allow", "drop"} /\ t.at = "vlan" /\ Keeps(s, t) /\ t.proto = s.proto
    \/ /\ s.at = "vlan" /\ w = "vlan" /\ t.at = "id" /\ t.vlan = TRUE
       /\ t.mask = s.mask /\ t.pattern = s.pattern /\ t.proto = s.proto
    \/ /\ s.at = "id" /\ w \in Identifiers /\ t.at = "protocol" /\ t.proto = s.proto
       /\ Puts(s, t, "tci", UInt16(Num[w]), AllOnes)
    \/ /\ s.at \in {"vlan", "id", "protocol"} /\ w \in Proto /\ t.at = "clause"
       /\ t.proto = w /\ Keeps(s, t)
    \/ /\ s.at \in {"vlan", "id", "protocol", "clause"} /\ w \in Directions
       /\ t.at = "dir" /\ t.dir = w /\ Keeps(s, t)
       /\ t.proto = IF s.at = "clause" THEN s.proto ELSE "ip"
    \/ s.at = "clause" /\ w = "type" /\ t.at = "type" /\ t.proto = s.proto /\ Keeps(s, t)
    \/ /\ s.at = "dir" /\ w \in Values /\ t.at = w /\ t.dir = s.dir /\ t.proto = s.proto
       /\ Keeps(s, t)
    \/ /\ s.at \in Values /\ t.at = "clause" /\ t.proto = s.proto
       /\ w \in (IF s.at = "host" THEN DOMAIN Addr ELSE IF s.at = "net" THEN DOMAIN Net ELSE DOMAIN Num)
       /\ s.mask[FieldIn(s.dir, s.at)] = 0
       /\ Puts(s, t, FieldIn(s.dir, s.at), ValueIn(s.at, w),
               IF s.at = "net" THEN Netmask(Net[w].bits, zero) ELSE AllOnes)
    \/ /\ s.at = "type" /\ w \in DOMAIN Num /\ t.at = "clause" /\ t.proto = s.proto
       /\ Puts(s, t, "icmp_type", UInt8(Num[w]), AllOnes)

\* A text that does not fit stays where it is no rule.
LEMMA BadMoves == ASSUME NEW s \in RuleType PROVE Bad(s).at = "bad" /\ Bad(s) \in RuleType
BY DEF Bad, RuleType, Places

\* Each part of the parser makes one of the moves: the start of a clause,
LEMMA ClauseMoves ==
    ASSUME NEW s \in RuleType, NEW w, NEW t, t = Clause(s, w), w \notin {"type"} \/ s.at = "clause"
    PROVE  /\ t \in RuleType
           /\ \/ t.at = "bad"
              \/ w \in Directions /\ t.at = "dir" /\ t.dir = w /\ Keeps(s, t) /\ t.proto = s.proto
              \/ w = "type" /\ t.at = "type" /\ t.proto = s.proto /\ Keeps(s, t)
<1>1. CASE w \in {"dst", "src"}
    <2>1. t = [s EXCEPT !.at = "dir", !.dir = w]
        BY <1>1 DEF Clause
    <2> QED BY <1>1, <2>1 DEF RuleType, Places, Directions, Keeps
<1>2. CASE w = "type" /\ s.proto = "icmp"
    <2>1. t = [s EXCEPT !.at = "type"]
        BY <1>2 DEF Clause
    <2> QED BY <1>2, <2>1 DEF RuleType, Places, Keeps
<1>3. CASE w \notin {"dst", "src"} /\ ~(w = "type" /\ s.proto = "icmp")
    <2>1. t = Bad(s)
        BY <1>3 DEF Clause
    <2> QED BY <2>1, BadMoves
<1> QED BY <1>1, <1>2, <1>3

\* the protocol, or what comes without one,
LEMMA ProtocolMoves ==
    ASSUME NEW s \in RuleType, NEW w, NEW t, t = Protocol(s, w), s.at \in {"vlan", "id", "protocol"},
           NEW z
    PROVE  t \in RuleType /\ Moves(s, w, t, z)
<1>1. CASE w \in Proto
    <2>1. t = [s EXCEPT !.proto = w, !.at = "clause"]
        BY <1>1 DEF Protocol
    <2>2. t \in RuleType /\ t.at = "clause" /\ t.proto = w /\ Keeps(s, t)
        BY <1>1, <2>1 DEF RuleType, Places, Keeps
    <2> QED BY <1>1, <2>2 DEF Moves
<1>2. CASE w \notin Proto
    <2> DEFINE r == [s EXCEPT !.proto = "ip"]
    <2>1. t = Clause(r, w)
        BY <1>2 DEF Protocol
    <2>2. r \in RuleType /\ Keeps(s, r) /\ r.proto = "ip" /\ r.at = s.at
        BY DEF RuleType, Keeps, Proto
    <2> HIDE DEF r
    <2>3. CASE w = "type"
        <3>1. t = Bad(r)
            BY <2>1, <2>2, <2>3 DEF Clause
        <3> QED BY <2>2, <3>1, BadMoves DEF Moves
    <2>4. CASE w # "type"
        <3>1. t \in RuleType /\ (t.at = "bad" \/ (w \in Directions /\ t.at = "dir" /\ t.dir = w
                                                  /\ Keeps(r, t) /\ t.proto = r.proto))
            BY <2>1, <2>2, <2>4, ClauseMoves
        <3>2. Keeps(r, t) => Keeps(s, t)
            BY <2>2 DEF Keeps
        <3>3. s.at # "clause"
            OBVIOUS
        <3> QED BY <2>2, <3>1, <3>2, <3>3 DEF Moves
    <2> QED BY <2>3, <2>4
<1> QED BY <1>1, <1>2

\* A set with more elements has more subsets, so the powers of two grow.
LEMMA MorePower ==
    ASSUME NEW k \in Nat, NEW m \in Nat, k < m
    PROVE  2 ^ k < 2 ^ m
<1> DEFINE S == SUBSET (1 .. k)
           T == SUBSET (1 .. m)
<1>1. /\ IsFiniteSet(1 .. k) /\ Cardinality(1 .. k) = k
      /\ IsFiniteSet(1 .. m) /\ Cardinality(1 .. m) = m
    BY FS_Interval
<1>2. Cardinality(S) = 2 ^ k /\ IsFiniteSet(T) /\ Cardinality(T) = 2 ^ m
    BY <1>1, FS_SUBSET
<1>3. 1 .. k \subseteq 1 .. m
    OBVIOUS
<1>4. S \in SUBSET T
    BY <1>3
<1>5. S # T
    <2>1. {m} \in T /\ {m} \notin S
        OBVIOUS
    <2> QED BY <2>1
<1>6. Cardinality(S) <= Cardinality(T) /\ Cardinality(S) # Cardinality(T)
    <2> HIDE DEF S, T
    <2> QED BY <1>2, <1>4, <1>5, FS_Subset
<1>7. 2 ^ k \in Nat /\ 2 ^ m \in Nat
    BY Doubling
<1> QED BY <1>2, <1>6, <1>7

\* Masks of at least one bit are not zero.
LEMMA RuleMasks ==
    /\ AllOnes \in Nat /\ AllOnes # 0
    /\ \A b \in 0 .. W : 2 ^ (W - b) \in Nat /\ 2 ^ (W - b) > 0 /\ 2 ^ W - 2 ^ (W - b) \in Nat
    /\ \A b \in 1 .. W : 2 ^ W - 2 ^ (W - b) # 0
<1>1. W \in Nat /\ W > 0 /\ 2 ^ W \in Nat /\ 2 ^ W > 0
    BY RuleAssumption, Doubling
<1>2. AllOnes \in Nat /\ AllOnes # 0
    <2>1. 2 ^ 0 < 2 ^ W
        BY <1>1, MorePower
    <2>2. 2 ^ 0 \in Nat /\ 2 ^ 0 > 0
        BY Doubling
    <2> QED BY <1>1, <2>1, <2>2 DEF AllOnes
<1>3. ASSUME NEW b \in 0 .. W
      PROVE  /\ 2 ^ (W - b) \in Nat /\ 2 ^ (W - b) > 0 /\ 2 ^ W - 2 ^ (W - b) \in Nat
             /\ b > 0 => 2 ^ W - 2 ^ (W - b) # 0
    <2>1. W - b \in Nat /\ (b > 0 => W - b < W) /\ (b = 0 => W - b = W)
        BY <1>1
    <2>2. 2 ^ (W - b) \in Nat /\ 2 ^ (W - b) > 0
        BY <2>1, Doubling
    <2>3. b > 0 => 2 ^ (W - b) < 2 ^ W
        BY <1>1, <2>1, MorePower
    <2>4. b = 0 => 2 ^ (W - b) = 2 ^ W
        BY <2>1
    <2> QED BY <1>1, <2>2, <2>3, <2>4
<1> QED BY <1>1, <1>2, <1>3

\* The mask of a network is a number, and for one bit or more no shift is undefined.
LEMMA MaskTypes ==
    /\ \A b \in 0 .. W, z \in {0, AllOnes} : Netmask(b, z) \in Nat
    /\ \A b \in 1 .. W, z \in {0, AllOnes} : Netmask(b, z) = 2 ^ W - 2 ^ (W - b)
BY RuleMasks, RuleAssumption DEF Netmask

\* The numbers below a power of two are their own rest.
LEMMA Narrow ==
    ASSUME NEW n \in Int
    PROVE  /\ UInt16(n) \in Nat /\ (n >= 0 /\ n < 2 ^ 16 => UInt16(n) = n)
           /\ UInt8(n) \in Nat /\ (n >= 0 /\ n < 2 ^ 8 => UInt8(n) = n)
           /\ n >= 0 /\ n < 2 ^ 12 => n % 2 ^ 12 = n /\ n < 2 ^ 16
<1>1. ASSUME NEW k \in Nat
      PROVE  n % 2 ^ k \in Nat /\ (n >= 0 /\ n < 2 ^ k => n % 2 ^ k = n)
    <2> DEFINE m == 2 ^ k
    <2>1. m \in Nat /\ m > 0
        BY Doubling
    <2> HIDE DEF m
    <2>2. n % m \in Nat /\ (n >= 0 /\ n < m => n % m = n)
        BY <2>1
    <2> QED BY <2>2 DEF m
<1>2. 16 \in Nat /\ 12 \in Nat /\ 8 \in Nat
    OBVIOUS
<1>3. n < 2 ^ 12 => n < 2 ^ 16
    <2> DEFINE a == 2 ^ 12
               b == 2 ^ 16
    <2>1. a \in Nat /\ b \in Nat /\ a < b
        BY Doubling, MorePower
    <2> HIDE DEF a, b
    <2>2. n < a => n < b
        BY <2>1
    <2> QED BY <2>2 DEF a, b
<1> QED BY <1>1, <1>2, <1>3, Zenon DEF UInt16, UInt8

\* Numbers of a proper text fit what they are about.
LEMMA ProperNumber ==
    ASSUME NEW x, Len(x) \in Nat, Proper(x), NEW i \in 1 .. Len(x), i + 1 <= Len(x),
           x[i + 1] \in DOMAIN Num
    PROVE  /\ Num[x[i + 1]] \in Int
           /\ x[i] = "port" => UInt16(Num[x[i + 1]]) = Num[x[i + 1]]
           /\ x[i] = "type" => UInt8(Num[x[i + 1]]) = Num[x[i + 1]]
           /\ x[i] = "vlan" => Num[x[i + 1]] >= 0 /\ Num[x[i + 1]] < 2 ^ 12
<1> DEFINE n == Num[x[i + 1]]
<1>1. i + 1 \in 2 .. Len(x) /\ (i + 1) - 1 = i
    OBVIOUS
<1>2. x[i] \in DOMAIN Limit => n >= 0 /\ n < Limit[x[i]]
    BY <1>1 DEF Proper
<1>3. n \in Int
    BY RuleAssumption
<1>4. /\ "port" \in DOMAIN Limit /\ "type" \in DOMAIN Limit /\ "vlan" \in DOMAIN Limit
      /\ Limit["port"] = 2 ^ 16 /\ Limit["type"] = 2 ^ 8 /\ Limit["vlan"] = 2 ^ 12
    BY DEF Limit
<1> HIDE DEF n
<1>5. /\ x[i] = "port" => n >= 0 /\ n < 2 ^ 16
      /\ x[i] = "type" => n >= 0 /\ n < 2 ^ 8
      /\ x[i] = "vlan" => n >= 0 /\ n < 2 ^ 12
    BY <1>2, <1>4, Zenon
<1>6. (x[i] = "port" => UInt16(n) = n) /\ (x[i] = "type" => UInt8(n) = n)
    BY <1>3, <1>5, Narrow, Zenon
<1> QED BY <1>3, <1>5, <1>6, Zenon DEF n

\* a value that is stored,
LEMMA PutsType ==
    ASSUME NEW s \in RuleType, NEW g \in Fields, NEW p \in Nat, NEW m \in Nat, NEW a \in Places
    PROVE  LET t == [Set(s, g, p, m) EXCEPT !.at = a] IN
           /\ t \in RuleType /\ t.at = a /\ t.proto = s.proto /\ Puts(s, t, g, p, m)
BY DEF Set, RuleType, Puts

\* a value that may be stored once,
LEMMA OnceMoves ==
    ASSUME NEW s \in RuleType, NEW g \in Fields, NEW p \in Nat, NEW m \in Nat, NEW t,
           t = SetOnce(s, g, p, m)
    PROVE  /\ t \in RuleType
           /\ \/ t.at = "bad"
              \/ t.at = "clause" /\ t.proto = s.proto /\ s.mask[g] = 0 /\ Puts(s, t, g, p, m)
<1>1. CASE s.mask[g] # 0
    BY <1>1, BadMoves DEF SetOnce
<1>2. CASE s.mask[g] = 0
    <2>1. t = [Set(s, g, p, m) EXCEPT !.at = "clause"] /\ "clause" \in Places
        BY <1>2 DEF SetOnce, Places
    <2> QED BY <1>2, <2>1, PutsType
<1> QED BY <1>1, <1>2

\* the value of a host, a network or a port,
LEMMA ValueMoves ==
    ASSUME NEW s \in RuleType, NEW w, NEW z \in {0, AllOnes}, NEW t, t = Token(s, w, z),
           s.at \in Values
    PROVE  t \in RuleType /\ Moves(s, w, t, z)
<1> DEFINE D == IF s.at = "host" THEN DOMAIN Addr ELSE IF s.at = "net" THEN DOMAIN Net ELSE DOMAIN Num
           g == FieldIn(s.dir, s.at)
           p == ValueIn(s.at, w)
           m == IF s.at = "net" THEN Netmask(Net[w].bits, z) ELSE AllOnes
<1>1. CASE w \notin D
    <2>1. t = Bad(s)
        BY <1>1 DEF Token, Values
    <2> QED BY <2>1, BadMoves DEF Moves
<1>2. CASE w \in D
    <2>1. g \in Fields /\ p \in Nat /\ m \in Nat
        <3>1. g \in Fields /\ m \in Nat
            BY <1>2, RuleAssumption, RuleMasks, MaskTypes DEF Fields, FieldIn, Values
        <3>2. /\ s.at = "host" => Addr[w] \in Nat
              /\ s.at = "net" => Net[w].addr \in Nat
              /\ s.at = "port" => Num[w] \in Int
            BY <1>2, RuleAssumption
        <3>3. p \in Nat
            <4>1. s.at = "port" => UInt16(Num[w]) \in Nat
                BY <3>2, Narrow, Zenon
            <4> QED BY <3>2, <4>1 DEF ValueIn, Values
        <3> QED BY <3>1, <3>3
    <2>2. t = SetOnce(s, g, p, m)
        <3>1. CASE s.at = "host"
            BY <1>2, <3>1 DEF Token, FieldIn, ValueIn, Address
        <3>2. CASE s.at = "net"
            BY <1>2, <3>2 DEF Token, FieldIn, ValueIn, Address
        <3>3. CASE s.at = "port"
            BY <1>2, <3>3 DEF Token, FieldIn, ValueIn, Port
        <3> QED BY <3>1, <3>2, <3>3 DEF Values
    <2>3. /\ t \in RuleType
          /\ \/ t.at = "bad"
             \/ t.at = "clause" /\ t.proto = s.proto /\ s.mask[g] = 0 /\ Puts(s, t, g, p, m)
        <3> HIDE DEF g, p, m
        <3> QED BY <2>1, <2>2, OnceMoves
    <2> QED BY <1>2, <2>3 DEF Moves
<1> QED BY <1>1, <1>2

\* and so every word.
LEMMA TokenMoves ==
    ASSUME NEW s \in RuleType, NEW w, NEW z \in {0, AllOnes}, NEW t, t = Token(s, w, z)
    PROVE  t \in RuleType /\ Moves(s, w, t, z)
<1>1. CASE s.at = "action"
    <2>1. t = IF w \in {"allow", "drop"} THEN [s EXCEPT !.at = "vlan", !.drop = (w = "drop")] ELSE Bad(s)
        BY <1>1 DEF Token
    <2>2. CASE w \notin {"allow", "drop"}
        BY <2>1, <2>2, BadMoves DEF Moves
    <2>3. CASE w \in {"allow", "drop"}
        <3>1. t = [s EXCEPT !.at = "vlan", !.drop = (w = "drop")] /\ (w = "drop") \in BOOLEAN
            BY <2>1, <2>3
        <3>2. t \in RuleType /\ t.at = "vlan" /\ Keeps(s, t) /\ t.proto = s.proto
            BY <3>1 DEF RuleType, Places, BeforeClauses, Keeps
        <3> QED BY <1>1, <2>3, <3>2 DEF Moves
    <2> QED BY <2>2, <2>3
<1>2. CASE s.at = "vlan"
    <2>1. t = IF w = "vlan" THEN [s EXCEPT !.at = "id", !.vlan = TRUE] ELSE Protocol(s, w)
        BY <1>2 DEF Token
    <2>2. CASE w = "vlan"
        <3>1. /\ t \in RuleType /\ t.at = "id" /\ t.vlan = TRUE /\ t.mask = s.mask
              /\ t.pattern = s.pattern /\ t.proto = s.proto
            BY <2>1, <2>2 DEF RuleType, Places, BeforeClauses
        <3> QED BY <1>2, <2>2, <3>1 DEF Moves
    <2>3. CASE w # "vlan"
        BY <1>2, <2>1, <2>3, ProtocolMoves
    <2> QED BY <2>2, <2>3
<1>3. CASE s.at = "id"
    <2>1. t = VlanId(s, w)
        BY <1>3 DEF Token
    <2>2. CASE w \in Identifiers
        <3>1. t = [Set(s, "tci", UInt16(Num[w]), AllOnes) EXCEPT !.at = "protocol"]
            BY <2>1, <2>2 DEF VlanId
        <3>2. "tci" \in Fields /\ AllOnes \in Nat /\ "protocol" \in Places
            BY RuleMasks DEF Fields, Places, BeforeClauses
        <3>3. UInt16(Num[w]) \in Nat
            <4>1. Num[w] \in Int
                BY <2>2, Words, RuleAssumption
            <4> QED BY <4>1, Narrow, Zenon
        <3>4. /\ t \in RuleType /\ t.at = "protocol" /\ t.proto = s.proto
              /\ Puts(s, t, "tci", UInt16(Num[w]), AllOnes)
            BY <3>1, <3>2, <3>3, PutsType
        <3> QED BY <1>3, <2>2, <3>4 DEF Moves
    <2>3. CASE w \notin Identifiers
        <3>1. t = Protocol(s, w)
            BY <2>1, <2>3 DEF VlanId
        <3> QED BY <1>3, <3>1, ProtocolMoves
    <2> QED BY <2>2, <2>3
<1>4. CASE s.at = "protocol"
    <2>1. t = Protocol(s, w)
        BY <1>4 DEF Token
    <2> QED BY <1>4, <2>1, ProtocolMoves
<1>5. CASE s.at = "clause"
    <2>1. t = Clause(s, w)
        BY <1>5 DEF Token
    <2>2. /\ t \in RuleType
          /\ \/ t.at = "bad"
             \/ w \in Directions /\ t.at = "dir" /\ t.dir = w /\ Keeps(s, t) /\ t.proto = s.proto
             \/ w = "type" /\ t.at = "type" /\ t.proto = s.proto /\ Keeps(s, t)
        BY <1>5, <2>1, ClauseMoves
    <2> QED BY <1>5, <2>2 DEF Moves
<1>6. CASE s.at = "dir"
    <2>1. t = Kind(s, w)
        BY <1>6 DEF Token
    <2>2. t = Bad(s) \/ (w \in Values /\ t = [s EXCEPT !.at = w])
        BY <2>1 DEF Kind, Values
    <2>3. CASE t = Bad(s)
        BY <2>3, BadMoves DEF Moves
    <2>4. CASE w \in Values /\ t = [s EXCEPT !.at = w]
        <3>1. t \in RuleType /\ t.at = w /\ t.dir = s.dir /\ t.proto = s.proto /\ Keeps(s, t)
            BY <2>4 DEF RuleType, Places, Keeps
        <3> QED BY <1>6, <2>4, <3>1 DEF Moves
    <2> QED BY <2>2, <2>3, <2>4
<1>7. CASE s.at \in Values
    BY <1>7, ValueMoves
<1>8. CASE s.at = "type"
    <2>1. t = TypeCode(s, w)
        BY <1>8 DEF Token
    <2>2. CASE w \in DOMAIN Num
        <3>1. t = [Set(s, "icmp_type", UInt8(Num[w]), AllOnes) EXCEPT !.at = "clause"]
            BY <2>1, <2>2 DEF TypeCode
        <3>2. "icmp_type" \in Fields /\ AllOnes \in Nat /\ "clause" \in Places
            BY RuleMasks DEF Fields, Places
        <3>3. UInt8(Num[w]) \in Nat
            <4>1. Num[w] \in Int
                BY <2>2, RuleAssumption
            <4> QED BY <4>1, Narrow, Zenon
        <3>4. /\ t \in RuleType /\ t.at = "clause" /\ t.proto = s.proto
              /\ Puts(s, t, "icmp_type", UInt8(Num[w]), AllOnes)
            BY <3>1, <3>2, <3>3, PutsType
        <3> QED BY <1>8, <2>2, <3>4 DEF Moves
    <2>3. CASE w \notin DOMAIN Num
        <3>1. t = Bad(s)
            BY <2>1, <2>3 DEF TypeCode
        <3> QED BY <3>1, BadMoves DEF Moves
    <2> QED BY <2>2, <2>3
<1>9. CASE s.at = "bad"
    <2>1. t = s
        BY <1>9 DEF Token
    <2> QED BY <1>9, <2>1 DEF Moves
<1>10. s.at \in Places
    BY DEF RuleType
<1> QED BY <1>1, <1>2, <1>3, <1>4, <1>5, <1>6, <1>7, <1>8, <1>9, <1>10 DEF Places, BeforeClauses

\* A condition is the same in a longer text.
LEMMA SameCondition ==
    ASSUME NEW x, NEW y, NEW w, Adds(x, y, w), NEW m \in 0 .. Len(x), NEW i \in 1 .. m,
           x[i] \in Openers, Whole(x, i, m)
    PROVE  /\ y[i] = x[i] /\ Whole(y, i, m) /\ FieldOf(y, i) = FieldOf(x, i)
           /\ PatternOf(y, i) = PatternOf(x, i) /\ MaskOf(y, i) = MaskOf(x, i)
<1>1. Len(x) \in Nat /\ \A j \in 1 .. Len(x) : y[j] = x[j]
    BY DEF Adds
<1>2. m \in Nat /\ m <= Len(x) /\ i \in Nat /\ i >= 1 /\ i <= m /\ y[i] = x[i]
    BY <1>1
<1>3. CASE x[i] = "type"
    <2>1. i + 1 <= m /\ x[i + 1] \in DOMAIN Num /\ x[i] \notin Directions
        BY <1>3 DEF Whole, Directions
    <2>2. i + 1 \in 1 .. Len(x)
        BY <1>1, <1>2, <2>1
    <2>3. y[i + 1] = x[i + 1]
        BY <1>1, <2>2
    <2> QED BY <1>2, <1>3, <2>1, <2>3 DEF Whole, FieldOf, PatternOf, MaskOf
<1>4. CASE x[i] # "type"
    <2>1. x[i] \in Directions /\ i + 2 <= m
        BY <1>4 DEF Whole, Openers
    <2>2. i + 1 \in 1 .. Len(x) /\ i + 2 \in 1 .. Len(x)
        BY <1>1, <1>2, <2>1
    <2>3. y[i + 1] = x[i + 1] /\ y[i + 2] = x[i + 2]
        BY <1>1, <2>2
    <2> QED BY <1>2, <1>4, <2>1, <2>3 DEF Whole, FieldOf, PatternOf, MaskOf
<1> QED BY <1>3, <1>4

\* It is whole in every longer part of a text.
LEMMA WholeOn ==
    ASSUME NEW x, NEW i \in Nat, NEW m \in Nat, NEW n \in Nat, m <= n, Whole(x, i, m)
    PROVE  Whole(x, i, n)
BY DEF Whole

\* A word more that changes no field leaves the conditions read as they are.
LEMMA SaidKeeps ==
    ASSUME NEW x, NEW y, NEW w, Adds(x, y, w), NEW m \in 0 .. Len(x), NEW s, NEW t, Said(x, m, s),
           t.mask = s.mask, t.pattern = s.pattern
    PROVE  Said(y, m, t)
<1>1. Len(x) \in Nat /\ \A j \in 1 .. Len(x) : y[j] = x[j]
    BY DEF Adds
<1>2. InRule(y, m, t)
    <2> SUFFICES ASSUME NEW i \in 1 .. m, y[i] \in Openers
                 PROVE  /\ Whole(y, i, m)
                        /\ s.mask[FieldOf(y, i)] # 0
                        /\ s.pattern[FieldOf(y, i)] = PatternOf(y, i)
                        /\ s.mask[FieldOf(y, i)] = MaskOf(y, i)
        BY DEF InRule
    <2>1. i \in 1 .. Len(x) /\ x[i] \in Openers
        BY <1>1
    <2>2. /\ Whole(x, i, m)
          /\ s.mask[FieldOf(x, i)] # 0
          /\ s.pattern[FieldOf(x, i)] = PatternOf(x, i)
          /\ s.mask[FieldOf(x, i)] = MaskOf(x, i)
        BY <2>1 DEF Said, InRule
    <2> QED BY <2>1, <2>2, SameCondition
<1>3. InWords(y, m, t)
    <2> SUFFICES ASSUME NEW g \in {"saddr", "daddr", "sport", "dport", "icmp_type"}, s.mask[g] # 0
                 PROVE  \E i \in 1 .. m : y[i] \in Openers /\ FieldOf(y, i) = g
        BY DEF InWords, Said
    <2>1. PICK i \in 1 .. m : x[i] \in Openers /\ FieldOf(x, i) = g
        BY DEF InWords, Said
    <2>2. Whole(x, i, m)
        BY <2>1 DEF Said, InRule
    <2>3. y[i] = x[i] /\ FieldOf(y, i) = g
        BY <2>1, <2>2, SameCondition
    <2> QED BY <2>1, <2>3
<1>4. NoHeaders(t)
    BY DEF Said, NoHeaders
<1> QED BY <1>2, <1>3, <1>4 DEF Said

\* Words that open no condition add none.
LEMMA SaidMore ==
    ASSUME NEW y, NEW m \in Nat, NEW s, Said(y, m, s), y[m + 1] \notin Openers
    PROVE  Said(y, m + 1, s)
<1>1. InRule(y, m + 1, s)
    <2> SUFFICES ASSUME NEW i \in 1 .. m + 1, y[i] \in Openers
                 PROVE  /\ Whole(y, i, m + 1)
                        /\ s.mask[FieldOf(y, i)] # 0
                        /\ s.pattern[FieldOf(y, i)] = PatternOf(y, i)
                        /\ s.mask[FieldOf(y, i)] = MaskOf(y, i)
        BY DEF InRule
    <2>1. i \in 1 .. m
        <3>1. i # m + 1
            OBVIOUS
        <3> QED BY <3>1
    <2>2. /\ Whole(y, i, m)
          /\ s.mask[FieldOf(y, i)] # 0
          /\ s.pattern[FieldOf(y, i)] = PatternOf(y, i)
          /\ s.mask[FieldOf(y, i)] = MaskOf(y, i)
        BY <2>1 DEF Said, InRule
    <2>3. Whole(y, i, m + 1)
        BY <2>1, <2>2, WholeOn
    <2> QED BY <2>1, <2>2, <2>3
<1>2. InWords(y, m + 1, s)
    <2> SUFFICES ASSUME NEW g \in {"saddr", "daddr", "sport", "dport", "icmp_type"}, s.mask[g] # 0
                 PROVE  \E i \in 1 .. m + 1 : y[i] \in Openers /\ FieldOf(y, i) = g
        BY DEF InWords, Said
    <2>1. PICK i \in 1 .. m : y[i] \in Openers /\ FieldOf(y, i) = g
        BY DEF InWords, Said
    <2>2. i \in 1 .. m + 1
        OBVIOUS
    <2> QED BY <2>1, <2>2
<1> QED BY <1>1, <1>2 DEF Said

\* The values of a kind.
ValuesOf(k) == IF k = "host" THEN DOMAIN Addr ELSE IF k = "net" THEN DOMAIN Net ELSE DOMAIN Num

\* A condition about an address or a port, of three words, whose field was free.
LEMMA SaidValue ==
    ASSUME NEW y, NEW m \in Nat, NEW s \in RuleType, NEW t \in RuleType, Said(y, m, s),
           NEW d, NEW k, NEW w, y[m + 1] = d, y[m + 2] = k, y[m + 3] = w,
           d \in Directions, k \in Values, w \in ValuesOf(k),
           k = "net" => Net[w].bits > 0,
           s.mask[FieldIn(d, k)] = 0,
           Puts(s, t, FieldIn(d, k), ValueIn(k, w), MaskIn(k, w))
    PROVE  Said(y, m + 3, t)
<1> DEFINE g == FieldIn(d, k)
           n == m + 3
<1>1. g \in {"saddr", "daddr", "sport", "dport"} /\ g \in Fields
    BY DEF FieldIn, Fields
<1>2. /\ t.mask[g] = MaskIn(k, w) /\ t.pattern[g] = ValueIn(k, w)
      /\ \A f \in Fields \ {g} : t.mask[f] = s.mask[f] /\ t.pattern[f] = s.pattern[f]
    <2>1. s.mask \in [Fields -> Nat] /\ s.pattern \in [Fields -> Nat]
        BY DEF RuleType
    <2> HIDE DEF g
    <2> QED BY <1>1, <2>1 DEF Puts, g
<1>3. MaskIn(k, w) # 0
    <2>1. CASE k = "net"
        <3>1. Net[w].bits \in 1 .. W
            BY <2>1, RuleAssumption DEF ValuesOf
        <3> QED BY <2>1, <3>1, RuleMasks DEF MaskIn
    <2>2. CASE k # "net"
        BY <2>2, RuleMasks DEF MaskIn
    <2> QED BY <2>1, <2>2
<1>4. /\ d \in Openers /\ d # "type" /\ k \notin Openers /\ w \notin Openers
      /\ k # "type" /\ w # "type"
    <2>1. d \in Openers /\ d # "type" /\ k \notin Openers
        BY DEF Openers, Directions, Values
    <2>2. w \in DOMAIN Addr \cup DOMAIN Net \cup DOMAIN Num
        BY DEF ValuesOf
    <2>3. w \notin Openers
        BY <2>2, Words
    <2> QED BY <2>1, <2>3 DEF Openers
<1>5. \A i \in 1 .. n : y[i] \in Openers => i \in 1 .. m \/ i = m + 1
    <2>1. \A i \in 1 .. n : i \in 1 .. m \/ i = m + 1 \/ i = m + 2 \/ i = m + 3
        OBVIOUS
    <2> QED BY <1>4, <2>1
<1>6. /\ Whole(y, m + 1, n) /\ FieldOf(y, m + 1) = g /\ PatternOf(y, m + 1) = ValueIn(k, w)
      /\ MaskOf(y, m + 1) = MaskIn(k, w)
    <2>1. (m + 1) + 1 = m + 2 /\ (m + 1) + 2 = m + 3 /\ m + 3 <= n
        OBVIOUS
    <2>2. Whole(y, m + 1, n)
        BY <1>4, <2>1 DEF Whole, ValuesOf, Values
    <2> QED BY <1>4, <2>1, <2>2 DEF FieldOf, PatternOf, MaskOf
<1>7. InRule(y, n, t)
    <2> SUFFICES ASSUME NEW i \in 1 .. n, y[i] \in Openers
                 PROVE  /\ Whole(y, i, n)
                        /\ t.mask[FieldOf(y, i)] # 0
                        /\ t.pattern[FieldOf(y, i)] = PatternOf(y, i)
                        /\ t.mask[FieldOf(y, i)] = MaskOf(y, i)
        BY DEF InRule
    <2>1. CASE i = m + 1
        BY <1>2, <1>3, <1>6, <2>1
    <2>2. CASE i \in 1 .. m
        <3>1. /\ Whole(y, i, m)
              /\ s.mask[FieldOf(y, i)] # 0
              /\ s.pattern[FieldOf(y, i)] = PatternOf(y, i)
              /\ s.mask[FieldOf(y, i)] = MaskOf(y, i)
            BY <2>2 DEF Said, InRule
        <3>2. FieldOf(y, i) \in Fields \ {g}
            <4>1. FieldOf(y, i) \in Fields
                BY DEF FieldOf, FieldIn, Fields
            <4> QED BY <3>1, <4>1
        <3>3. Whole(y, i, n)
            BY <2>2, <3>1, WholeOn
        <3> QED BY <1>2, <2>2, <3>1, <3>2, <3>3
    <2> QED BY <1>5, <2>1, <2>2
<1>8. InWords(y, n, t)
    <2> SUFFICES ASSUME NEW f \in {"saddr", "daddr", "sport", "dport", "icmp_type"}
                 PROVE  IF t.mask[f] = 0 THEN t.pattern[f] = 0
                        ELSE \E i \in 1 .. n : y[i] \in Openers /\ FieldOf(y, i) = f
        BY DEF InWords
    <2>1. CASE f = g
        <3>1. m + 1 \in 1 .. n
            OBVIOUS
        <3> QED BY <1>2, <1>3, <1>4, <1>6, <2>1, <3>1
    <2>2. CASE f # g
        <3>1. t.mask[f] = s.mask[f] /\ t.pattern[f] = s.pattern[f]
            BY <1>2, <2>2 DEF Fields
        <3>2. CASE s.mask[f] = 0
            BY <3>1, <3>2 DEF Said, InWords
        <3>3. CASE s.mask[f] # 0
            <4>1. PICK i \in 1 .. m : y[i] \in Openers /\ FieldOf(y, i) = f
                BY <3>3 DEF Said, InWords
            <4>2. i \in 1 .. n
                OBVIOUS
            <4> QED BY <3>1, <3>3, <4>1, <4>2
        <3> QED BY <3>2, <3>3
    <2> QED BY <2>1, <2>2
<1>9. NoHeaders(t)
    BY <1>1, <1>2 DEF Said, NoHeaders, Fields
<1> QED BY <1>7, <1>8, <1>9 DEF Said

\* A condition about the type of an ICMP message, the same as an earlier one.
LEMMA SaidType ==
    ASSUME NEW y, NEW m \in Nat, NEW s \in RuleType, NEW t \in RuleType, Said(y, m, s),
           NEW w, y[m + 1] = "type", y[m + 2] = w, w \in DOMAIN Num,
           \A i \in 1 .. m : y[i] = "type" => y[i + 1] = w,
           Puts(s, t, "icmp_type", UInt8(Num[w]), AllOnes)
    PROVE  Said(y, m + 2, t)
<1> DEFINE g == "icmp_type"
           n == m + 2
<1>1. /\ t.mask[g] = AllOnes /\ t.pattern[g] = UInt8(Num[w]) /\ AllOnes # 0
      /\ \A f \in Fields \ {g} : t.mask[f] = s.mask[f] /\ t.pattern[f] = s.pattern[f]
    <2>1. s.mask \in [Fields -> Nat] /\ s.pattern \in [Fields -> Nat] /\ g \in Fields
        BY DEF RuleType, Fields
    <2> QED BY <2>1, RuleMasks DEF Puts
<1>2. w \notin Openers /\ w # "type" /\ "type" \in Openers
    BY Words DEF Openers
<1>3. \A i \in 1 .. n : y[i] \in Openers => i \in 1 .. m \/ i = m + 1
    <2>1. \A i \in 1 .. n : i \in 1 .. m \/ i = m + 1 \/ i = m + 2
        OBVIOUS
    <2> QED BY <1>2, <2>1
<1>4. ASSUME NEW i \in 1 .. n, y[i] = "type", y[i + 1] = w
      PROVE  FieldOf(y, i) = g /\ PatternOf(y, i) = UInt8(Num[w]) /\ MaskOf(y, i) = AllOnes
    BY <1>4 DEF FieldOf, PatternOf, MaskOf
<1>5. /\ Whole(y, m + 1, n) /\ FieldOf(y, m + 1) = g /\ PatternOf(y, m + 1) = UInt8(Num[w])
      /\ MaskOf(y, m + 1) = AllOnes
    <2>1. (m + 1) + 1 = m + 2 /\ m + 2 <= n
        OBVIOUS
    <2>2. Whole(y, m + 1, n)
        BY <2>1 DEF Whole, Directions
    <2>3. m + 1 \in 1 .. n /\ y[(m + 1) + 1] = w
        BY <2>1
    <2> QED BY <1>4, <2>2, <2>3
<1>6. InRule(y, n, t)
    <2> SUFFICES ASSUME NEW i \in 1 .. n, y[i] \in Openers
                 PROVE  /\ Whole(y, i, n)
                        /\ t.mask[FieldOf(y, i)] # 0
                        /\ t.pattern[FieldOf(y, i)] = PatternOf(y, i)
                        /\ t.mask[FieldOf(y, i)] = MaskOf(y, i)
        BY DEF InRule
    <2>1. CASE i = m + 1
        BY <1>1, <1>5, <2>1
    <2>2. CASE i \in 1 .. m
        <3>1. /\ Whole(y, i, m)
              /\ s.mask[FieldOf(y, i)] # 0
              /\ s.pattern[FieldOf(y, i)] = PatternOf(y, i)
              /\ s.mask[FieldOf(y, i)] = MaskOf(y, i)
            BY <2>2 DEF Said, InRule
        <3>2. Whole(y, i, n)
            BY <2>2, <3>1, WholeOn
        <3>3. CASE y[i] = "type"
            <4>1. i \in 1 .. n /\ y[i + 1] = w
                BY <2>2, <3>3
            <4> QED BY <1>1, <1>4, <3>2, <3>3, <4>1
        <3>4. CASE y[i] # "type"
            <4>1. FieldOf(y, i) \in Fields \ {g}
                BY <3>4 DEF FieldOf, FieldIn, Fields
            <4> QED BY <1>1, <3>1, <3>2, <4>1
        <3> QED BY <3>3, <3>4
    <2> QED BY <1>3, <2>1, <2>2
<1>7. InWords(y, n, t)
    <2> SUFFICES ASSUME NEW f \in {"saddr", "daddr", "sport", "dport", "icmp_type"}
                 PROVE  IF t.mask[f] = 0 THEN t.pattern[f] = 0
                        ELSE \E i \in 1 .. n : y[i] \in Openers /\ FieldOf(y, i) = f
        BY DEF InWords
    <2>1. CASE f = g
        <3>1. m + 1 \in 1 .. n
            OBVIOUS
        <3> QED BY <1>1, <1>2, <1>5, <2>1, <3>1
    <2>2. CASE f # g
        <3>1. t.mask[f] = s.mask[f] /\ t.pattern[f] = s.pattern[f]
            BY <1>1, <2>2 DEF Fields
        <3>2. CASE s.mask[f] = 0
            BY <3>1, <3>2 DEF Said, InWords
        <3>3. CASE s.mask[f] # 0
            <4>1. PICK i \in 1 .. m : y[i] \in Openers /\ FieldOf(y, i) = f
                BY <3>3 DEF Said, InWords
            <4>2. i \in 1 .. n
                OBVIOUS
            <4> QED BY <3>1, <3>3, <4>1, <4>2
        <3> QED BY <3>2, <3>3
    <2> QED BY <2>1, <2>2
<1>8. NoHeaders(t)
    BY <1>1 DEF Said, NoHeaders, Fields
<1> QED BY <1>6, <1>7, <1>8 DEF Said

\* The beginning of a text.
LEMMA TaggedKeeps ==
    ASSUME NEW x, NEW y, NEW w, Adds(x, y, w), NEW s \in RuleType, NEW t \in RuleType,
           Tagged(x, s), s.at \notin {"action", "bad"}, t.at \notin BeforeClauses \cup {"bad"},
           w # "vlan", s.at \in BeforeClauses => w \notin Identifiers,
           t.vlan = s.vlan, t.mask["tci"] = s.mask["tci"], t.pattern["tci"] = s.pattern["tci"]
    PROVE  Tagged(y, t)
<1>1. /\ Len(x) \in Nat /\ Len(y) = Len(x) + 1 /\ y[Len(x) + 1] = w
      /\ \A i \in 1 .. Len(x) : y[i] = x[i]
    BY DEF Adds
<1>2. /\ s.at = "vlan" => Len(x) = 1
      /\ s.at = "id" => Len(x) = 2 /\ s.vlan
      /\ s.at = "protocol" => Len(x) = 3 /\ s.vlan
      /\ s.at \notin BeforeClauses => Len(x) >= 2 /\ (s.vlan => Len(x) >= 3)
      /\ s.vlan <=> Len(x) >= 2 /\ x[2] = "vlan"
      /\ \A i \in 1 .. Len(x) : x[i] = "vlan" => i = 2
    BY DEF Tagged
<1>3. Len(y) >= 2 /\ (s.vlan => Len(y) >= 3)
    BY <1>1, <1>2 DEF BeforeClauses
<1>4. s.vlan <=> Len(y) >= 2 /\ y[2] = "vlan"
    <2>1. CASE Len(x) >= 2
        <3>1. y[2] = x[2]
            BY <1>1, <2>1
        <3> QED BY <1>1, <1>2, <2>1, <3>1
    <2>2. CASE Len(x) < 2
        <3>1. Len(x) = 1
            <4>1. s.at \notin {"id", "protocol"}
                BY <1>2, <2>2
            <4>2. CASE s.at = "vlan"
                BY <1>2, <4>2
            <4>3. CASE s.at # "vlan"
                <5>1. s.at \notin BeforeClauses
                    BY <4>1, <4>3 DEF BeforeClauses
                <5> QED BY <1>1, <1>2, <2>2, <5>1
            <4> QED BY <4>2, <4>3
        <3>2. y[1 + 1] = w /\ 1 + 1 = 2
            BY <1>1, <3>1
        <3> QED BY <1>2, <3>1, <3>2
    <2> QED BY <1>1, <2>1, <2>2
<1>5. \A i \in 1 .. Len(y) : y[i] = "vlan" => i = 2
    <2>1. \A i \in 1 .. Len(y) : i \in 1 .. Len(x) \/ i = Len(x) + 1
        BY <1>1
    <2> QED BY <1>1, <1>2, <2>1
<1>6. (Len(y) >= 3 /\ s.vlan /\ y[3] \in Identifiers) <=> (Len(x) >= 3 /\ s.vlan /\ x[3] \in Identifiers)
    <2>1. CASE Len(x) >= 3
        BY <1>1, <2>1
    <2>2. CASE Len(x) < 3 /\ s.vlan
        <3>1. Len(x) = 2 /\ s.at \in BeforeClauses
            <4>1. Len(x) \in Nat /\ Len(x) >= 2 /\ Len(x) < 3
                BY <1>1, <1>2, <2>2
            <4>2. Len(x) = 2
                <5>1. \A n \in Nat : n >= 2 /\ n < 3 => n = 2
                    OBVIOUS
                <5> QED BY <4>1, <5>1, Zenon
            <4>3. s.at \notin BeforeClauses => Len(x) >= 3
                BY <1>2, <2>2
            <4> QED BY <4>2, <4>3
        <3>2. y[3] = w
            BY <1>1, <3>1
        <3> QED BY <2>2, <3>1, <3>2
    <2> QED BY <1>1, <2>1, <2>2
<1>7. Len(x) >= 3 => y[3] = x[3]
    BY <1>1
<1> QED BY <1>3, <1>4, <1>5, <1>6, <1>7 DEF Tagged, BeforeClauses

\* So does the protocol.
LEMMA ProtoKeeps ==
    ASSUME NEW x, NEW y, NEW w, Adds(x, y, w), NEW s \in RuleType, NEW t \in RuleType,
           ProtoRead(x, s), s.at \notin BeforeClauses, t.at \notin BeforeClauses, w \notin Proto,
           t.proto = s.proto
    PROVE  ProtoRead(y, t)
<1>1. /\ Len(x) \in Nat /\ Len(y) = Len(x) + 1 /\ y[Len(x) + 1] = w
      /\ \A i \in 1 .. Len(x) : y[i] = x[i]
    BY DEF Adds
<1>2. /\ \A i \in 1 .. Len(y) : i \in 1 .. Len(x) \/ i = Len(x) + 1
      /\ 1 .. Len(x) \subseteq 1 .. Len(y)
    BY <1>1
<1>3. CASE /\ s.proto \in Proto /\ \E i \in 1 .. Len(x) : x[i] = s.proto
           /\ \A i \in 1 .. Len(x) : x[i] \in Proto => x[i] = s.proto
    BY <1>1, <1>2, <1>3 DEF ProtoRead
<1>4. CASE /\ s.proto = "ip" /\ \E i \in 1 .. Len(x) : x[i] \in Openers
           /\ \A i \in 1 .. Len(x) : x[i] \notin Proto
    BY <1>1, <1>2, <1>4 DEF ProtoRead
<1> QED BY <1>3, <1>4 DEF ProtoRead

\* The words read before, if the next word does not spoil the text.
LEMMA Beginning ==
    ASSUME NEW x, NEW s \in RuleType, s.at # "bad", Reads(x, s), Len(x) \in Nat
    PROVE  /\ Said(x, Completed(x, s), s) /\ Opened(x, s) /\ Tagged(x, s) /\ ProtoRead(x, s)
           /\ Completed(x, s) \in 0 .. Len(x)
<1>1. Said(x, Completed(x, s), s) /\ Opened(x, s) /\ Tagged(x, s) /\ ProtoRead(x, s)
    BY DEF Reads
<1>2. (s.at \in {"dir", "type"} => Len(x) > 0) /\ (s.at \in Values => Len(x) > 1)
    BY <1>1 DEF Opened
<1>3. Completed(x, s) \in 0 .. Len(x)
    BY <1>2 DEF Completed
<1> QED BY <1>1, <1>3

\* Each move keeps what the state says of the words: "allow" or "drop",
LEMMA ActionReads ==
    ASSUME NEW x, NEW y, NEW w, Adds(x, y, w), NEW s \in RuleType, NEW t \in RuleType,
           Reads(x, s), s.at = "action", w \in {"allow", "drop"}, t.at = "vlan", Keeps(s, t),
           t.proto = s.proto
    PROVE  Reads(y, t)
<1>1. /\ Len(x) \in Nat /\ Len(y) = Len(x) + 1 /\ y[Len(x) + 1] = w
      /\ \A i \in 1 .. Len(x) : y[i] = x[i]
    BY DEF Adds
<1>2. /\ Said(x, Len(x), s) /\ Tagged(x, s) /\ ProtoRead(x, s) /\ Len(x) \in 0 .. Len(x)
    BY <1>1, Beginning DEF Completed, Values
<1>3. Len(x) = 0 /\ y[1] = w /\ Len(y) = 1
    BY <1>1, <1>2 DEF Tagged
<1>4. w \notin Openers /\ w \notin Proto /\ w # "vlan"
    BY DEF Openers, Directions, Proto
<1>5. Said(y, Len(y), t)
    <2>1. Said(y, 0, t)
        BY <1>2, <1>3, SaidKeeps DEF Keeps
    <2>2. Said(y, 0 + 1, t)
        BY <1>3, <1>4, <2>1, SaidMore
    <2> QED BY <1>3, <2>2
<1>6. Tagged(y, t)
    <2>1. /\ \A i \in 1 .. 1 : i = 1
          /\ t.vlan = s.vlan /\ ~s.vlan /\ t.mask = s.mask /\ t.pattern = s.pattern
        BY <1>2, <1>3 DEF Tagged, Keeps
    <2>2. s.mask["tci"] = 0 /\ s.pattern["tci"] = 0
        BY <1>2, <1>3 DEF Tagged
    <2> QED BY <1>3, <1>4, <2>1, <2>2 DEF Tagged, BeforeClauses
<1>7. ProtoRead(y, t)
    <2>1. s.proto = "any" /\ \A i \in 1 .. 1 : i = 1
        BY <1>2 DEF ProtoRead, BeforeClauses
    <2> QED BY <1>3, <1>4, <2>1 DEF ProtoRead, BeforeClauses
<1>8. Completed(y, t) = Len(y) /\ Opened(y, t)
    BY DEF Completed, Opened, Values
<1> QED BY <1>5, <1>6, <1>7, <1>8 DEF Reads

\* "vlan",
LEMMA VlanReads ==
    ASSUME NEW x, NEW y, NEW w, Adds(x, y, w), NEW s \in RuleType, NEW t \in RuleType,
           Reads(x, s), s.at = "vlan", w = "vlan", t.at = "id", t.vlan = TRUE,
           t.mask = s.mask, t.pattern = s.pattern, t.proto = s.proto
    PROVE  Reads(y, t)
<1>1. /\ Len(x) \in Nat /\ Len(y) = Len(x) + 1 /\ y[Len(x) + 1] = w
      /\ \A i \in 1 .. Len(x) : y[i] = x[i]
    BY DEF Adds
<1>2. /\ Said(x, Len(x), s) /\ Tagged(x, s) /\ ProtoRead(x, s) /\ Len(x) \in 0 .. Len(x)
    BY <1>1, Beginning DEF Completed, Values
<1>3. Len(x) = 1 /\ y[1 + 1] = w /\ Len(y) = 2 /\ y[1] = x[1] /\ x[1] # "vlan"
    <2>1. Len(x) = 1 /\ \A i \in 1 .. Len(x) : x[i] = "vlan" => i = 2
        BY <1>2 DEF Tagged
    <2>2. 1 \in 1 .. Len(x)
        BY <2>1
    <2>3. x[1] # "vlan" /\ y[1] = x[1]
        BY <1>1, <2>1, <2>2
    <2> QED BY <1>1, <2>1, <2>3
<1>4. w \notin Openers /\ w \notin Proto
    BY DEF Openers, Directions, Proto
<1>5. Said(y, Len(y), t)
    <2>1. Said(y, Len(x), t)
        BY <1>2, SaidKeeps
    <2>2. Said(y, Len(x) + 1, t)
        BY <1>1, <1>4, <2>1, SaidMore
    <2> QED BY <1>1, <2>2
<1>6. \A i \in 1 .. 2 : i = 1 \/ i = 2
    OBVIOUS
<1>7. Tagged(y, t)
    <2>1. s.mask["tci"] = 0 /\ s.pattern["tci"] = 0
        BY <1>2, <1>3 DEF Tagged
    <2>2. y[2] = "vlan"
        BY <1>3
    <2> QED BY <1>3, <1>6, <2>1, <2>2 DEF Tagged, BeforeClauses
<1>8. ProtoRead(y, t)
    <2>1. s.proto = "any" /\ x[1] \notin Proto \cup Openers
        BY <1>2, <1>3 DEF ProtoRead, BeforeClauses
    <2>2. y[2] = w
        BY <1>3
    <2> QED BY <1>3, <1>4, <1>6, <2>1, <2>2 DEF ProtoRead, BeforeClauses
<1>9. Completed(y, t) = Len(y) /\ Opened(y, t)
    BY DEF Completed, Opened, Values
<1> QED BY <1>5, <1>7, <1>8, <1>9 DEF Reads

\* its identifier,
LEMMA IdReads ==
    ASSUME NEW x, NEW y, NEW w, Adds(x, y, w), NEW s \in RuleType, NEW t \in RuleType,
           Reads(x, s), s.at = "id", w \in Identifiers, t.at = "protocol", t.proto = s.proto,
           Puts(s, t, "tci", UInt16(Num[w]), AllOnes)
    PROVE  Reads(y, t)
<1>1. /\ Len(x) \in Nat /\ Len(y) = Len(x) + 1 /\ y[Len(x) + 1] = w
      /\ \A i \in 1 .. Len(x) : y[i] = x[i]
    BY DEF Adds
<1>2. /\ Said(x, Len(x), s) /\ Tagged(x, s) /\ ProtoRead(x, s) /\ Len(x) \in 0 .. Len(x)
    BY <1>1, Beginning DEF Completed, Values
<1>3. /\ Len(x) = 2 /\ y[2 + 1] = w /\ Len(y) = 3 /\ y[1] = x[1] /\ y[2] = x[2] /\ s.vlan
      /\ x[1] # "vlan" /\ x[2] = "vlan"
    <2>1. Len(x) = 2 /\ s.vlan /\ x[2] = "vlan" /\ \A i \in 1 .. Len(x) : x[i] = "vlan" => i = 2
        BY <1>2 DEF Tagged
    <2>2. 1 \in 1 .. Len(x) /\ 2 \in 1 .. Len(x)
        BY <2>1
    <2>3. x[1] # "vlan" /\ y[1] = x[1] /\ y[2] = x[2]
        BY <1>1, <2>1, <2>2
    <2> QED BY <1>1, <2>1, <2>3
<1>4. w \notin Openers /\ w \notin Proto /\ w # "vlan"
    BY Words
<1>5. /\ t.vlan = s.vlan /\ t.mask["tci"] = AllOnes /\ t.pattern["tci"] = UInt16(Num[w])
      /\ \A f \in Fields \ {"tci"} : t.mask[f] = s.mask[f] /\ t.pattern[f] = s.pattern[f]
    <2>1. s.mask \in [Fields -> Nat] /\ s.pattern \in [Fields -> Nat] /\ "tci" \in Fields
        BY DEF RuleType, Fields
    <2> QED BY <2>1 DEF Puts
<1>6. \A i \in 1 .. 3 : i = 1 \/ i = 2 \/ i = 3
    OBVIOUS
<1>7. s.proto = "any" /\ x[1] \notin Proto \cup Openers /\ x[2] \notin Proto \cup Openers
    BY <1>2, <1>3 DEF ProtoRead, BeforeClauses
<1>8. y[3] = w
    BY <1>3
<1>9. \A i \in 1 .. 3 : y[i] \notin Openers
    BY <1>3, <1>4, <1>6, <1>7, <1>8
<1>10. Said(y, Len(y), t)
    <2>1. InRule(y, 3, t)
        BY <1>9 DEF InRule
    <2>2. \A i \in 1 .. 2 : i = 1 \/ i = 2
        OBVIOUS
    <2>3. InWords(y, 3, t)
        <3> SUFFICES ASSUME NEW f \in {"saddr", "daddr", "sport", "dport", "icmp_type"}
                     PROVE  t.mask[f] = 0 /\ t.pattern[f] = 0
            BY DEF InWords
        <3>1. s.mask[f] = 0 => s.pattern[f] = 0
            BY <1>2 DEF Said, InWords
        <3>2. s.mask[f] # 0 => \E i \in 1 .. 2 : x[i] \in Openers
            BY <1>2, <1>3 DEF Said, InWords
        <3>3. s.mask[f] = 0
            BY <1>7, <2>2, <3>2
        <3> QED BY <1>5, <3>1, <3>3 DEF Fields
    <2>4. NoHeaders(t)
        BY <1>2, <1>5 DEF Said, NoHeaders, Fields
    <2> QED BY <1>3, <2>1, <2>3, <2>4 DEF Said
<1>11. Tagged(y, t)
    BY <1>3, <1>4, <1>5, <1>6, <1>8 DEF Tagged, BeforeClauses
<1>12. ProtoRead(y, t)
    BY <1>3, <1>4, <1>6, <1>7, <1>8 DEF ProtoRead, BeforeClauses
<1>13. Completed(y, t) = Len(y) /\ Opened(y, t)
    BY DEF Completed, Opened, Values
<1> QED BY <1>10, <1>11, <1>12, <1>13 DEF Reads

\* a protocol,
LEMMA ProtocolReads ==
    ASSUME NEW x, NEW y, NEW w, Adds(x, y, w), NEW s \in RuleType, NEW t \in RuleType,
           Reads(x, s), s.at \in {"vlan", "id", "protocol"}, w \in Proto, t.at = "clause",
           t.proto = w, Keeps(s, t)
    PROVE  Reads(y, t)
<1>1. /\ Len(x) \in Nat /\ Len(y) = Len(x) + 1 /\ y[Len(x) + 1] = w
      /\ \A i \in 1 .. Len(x) : y[i] = x[i]
    BY DEF Adds
<1>2. /\ Said(x, Len(x), s) /\ Tagged(x, s) /\ ProtoRead(x, s) /\ Len(x) \in 0 .. Len(x)
    BY <1>1, Beginning DEF Completed, Values
<1>3. w \notin Openers /\ w # "vlan" /\ w \notin Identifiers
    <2>1. w \notin Openers /\ w # "vlan"
        BY DEF Openers, Directions, Proto
    <2> QED BY <2>1, Words
<1>4. Said(y, Len(y), t)
    <2>1. Said(y, Len(x), t)
        BY <1>2, SaidKeeps DEF Keeps
    <2> QED BY <1>1, <1>3, <2>1, SaidMore
<1>5. Tagged(y, t)
    BY <1>2, <1>3, TaggedKeeps DEF Keeps, BeforeClauses
<1>6. ProtoRead(y, t)
    <2>1. \A i \in 1 .. Len(x) : x[i] \notin Proto
        BY <1>2 DEF ProtoRead, BeforeClauses
    <2>2. /\ \A i \in 1 .. Len(y) : i \in 1 .. Len(x) \/ i = Len(x) + 1
          /\ Len(x) + 1 \in 1 .. Len(y)
        BY <1>1
    <2> QED BY <1>1, <2>1, <2>2 DEF ProtoRead, BeforeClauses
<1>7. Completed(y, t) = Len(y) /\ Opened(y, t)
    BY DEF Completed, Opened, Values
<1> QED BY <1>4, <1>5, <1>6, <1>7 DEF Reads

\* the word that opens a condition,
LEMMA OpenerReads ==
    ASSUME NEW x, NEW y, NEW w, Adds(x, y, w), NEW s \in RuleType, NEW t \in RuleType,
           Reads(x, s), s.at \in {"vlan", "id", "protocol", "clause"}, w \in Openers,
           t.at = IF w = "type" THEN "type" ELSE "dir", w # "type" => t.dir = w,
           Keeps(s, t), t.proto = IF s.at = "clause" THEN s.proto ELSE "ip"
    PROVE  Reads(y, t)
<1>1. /\ Len(x) \in Nat /\ Len(y) = Len(x) + 1 /\ y[Len(x) + 1] = w
      /\ \A i \in 1 .. Len(x) : y[i] = x[i]
    BY DEF Adds
<1>2. /\ Said(x, Len(x), s) /\ Tagged(x, s) /\ ProtoRead(x, s) /\ Len(x) \in 0 .. Len(x)
    BY <1>1, Beginning DEF Completed, Values
<1>3. w # "vlan" /\ w \notin Identifiers /\ w \notin Proto
    <2>1. w # "vlan" /\ w \notin Proto
        BY DEF Openers, Directions, Proto
    <2> QED BY <2>1, Words
<1>4. Said(y, Len(x), t)
    BY <1>2, SaidKeeps DEF Keeps
<1>5. Tagged(y, t)
    BY <1>2, <1>3, TaggedKeeps DEF Keeps, BeforeClauses
<1>6. ProtoRead(y, t)
    <2>1. CASE s.at = "clause"
        BY <1>2, <1>3, <2>1, ProtoKeeps DEF BeforeClauses
    <2>2. CASE s.at # "clause"
        <3>1. \A i \in 1 .. Len(x) : x[i] \notin Proto
            BY <1>2, <2>2 DEF ProtoRead, BeforeClauses
        <3>2. /\ \A i \in 1 .. Len(y) : i \in 1 .. Len(x) \/ i = Len(x) + 1
              /\ Len(x) + 1 \in 1 .. Len(y)
            BY <1>1
        <3> QED BY <1>1, <1>3, <2>2, <3>1, <3>2 DEF ProtoRead, BeforeClauses
    <2> QED BY <2>1, <2>2
<1>7. Completed(y, t) = Len(x)
    BY <1>1 DEF Completed
<1>8. Opened(y, t)
    <2>1. w # "type" => w \in Directions
        BY DEF Openers
    <2> QED BY <1>1, <2>1 DEF Opened, Values
<1> QED BY <1>4, <1>5, <1>6, <1>7, <1>8 DEF Reads

\* the word that says what it is about,
LEMMA KindReads ==
    ASSUME NEW x, NEW y, NEW w, Adds(x, y, w), NEW s \in RuleType, NEW t \in RuleType,
           Reads(x, s), s.at = "dir", w \in Values, t.at = w, t.dir = s.dir, t.proto = s.proto,
           Keeps(s, t)
    PROVE  Reads(y, t)
<1>1. /\ Len(x) \in Nat /\ Len(y) = Len(x) + 1 /\ y[Len(x) + 1] = w
      /\ \A i \in 1 .. Len(x) : y[i] = x[i]
    BY DEF Adds
<1>2. /\ Said(x, Len(x) - 1, s) /\ Tagged(x, s) /\ ProtoRead(x, s) /\ Len(x) - 1 \in 0 .. Len(x)
      /\ Opened(x, s)
    BY <1>1, Beginning DEF Completed, Values
<1>3. w # "vlan" /\ w \notin Proto /\ w # "bad" /\ w \notin BeforeClauses /\ w \notin {"dir", "type"}
    BY DEF Values, Proto, BeforeClauses
<1>4. Said(y, Len(x) - 1, t)
    BY <1>2, SaidKeeps DEF Keeps
<1>5. Tagged(y, t)
    BY <1>2, <1>3, TaggedKeeps DEF Keeps, BeforeClauses
<1>6. ProtoRead(y, t)
    BY <1>2, <1>3, ProtoKeeps DEF BeforeClauses
<1>7. Completed(y, t) = Len(x) - 1
    BY <1>1, <1>3 DEF Completed
<1>8. Opened(y, t)
    <2>1. Len(x) > 0 /\ x[Len(x)] = s.dir /\ s.dir \in Directions
        BY <1>2 DEF Opened
    <2>2. y[Len(x)] = x[Len(x)] /\ Len(y) - 1 = Len(x)
        BY <1>1, <2>1
    <2> QED BY <1>1, <1>3, <2>1, <2>2 DEF Opened
<1> QED BY <1>4, <1>5, <1>6, <1>7, <1>8 DEF Reads

\* the value that completes it,
LEMMA ValueReads ==
    ASSUME NEW x, NEW y, NEW w, Adds(x, y, w), NEW s \in RuleType, NEW t \in RuleType,
           Reads(x, s), s.at \in Values, w \in ValuesOf(s.at), t.at = "clause", t.proto = s.proto,
           s.mask[FieldIn(s.dir, s.at)] = 0, s.at = "net" => Net[w].bits > 0,
           Puts(s, t, FieldIn(s.dir, s.at), ValueIn(s.at, w), MaskIn(s.at, w))
    PROVE  Reads(y, t)
<1> DEFINE m == Len(x) - 2
<1>1. /\ Len(x) \in Nat /\ Len(y) = Len(x) + 1 /\ y[Len(x) + 1] = w
      /\ \A i \in 1 .. Len(x) : y[i] = x[i]
    BY DEF Adds
<1>2. s.at \notin BeforeClauses /\ s.at \notin {"dir", "type", "bad"}
    BY DEF Values, BeforeClauses
<1>3. /\ Said(x, m, s) /\ Tagged(x, s) /\ ProtoRead(x, s) /\ m \in 0 .. Len(x)
      /\ Opened(x, s)
    BY <1>1, <1>2, Beginning DEF Completed
<1>4. Len(x) > 1 /\ x[Len(x) - 1] = s.dir /\ s.dir \in Directions /\ x[Len(x)] = s.at
    BY <1>3 DEF Opened
<1>5. y[m + 1] = s.dir /\ y[m + 2] = s.at /\ y[m + 3] = w /\ m \in Nat /\ Len(y) = m + 3
    <2>1. m + 1 = Len(x) - 1 /\ m + 2 = Len(x) /\ m + 3 = Len(x) + 1 /\ m \in Nat
        BY <1>1, <1>4
    <2>2. y[Len(x) - 1] = x[Len(x) - 1] /\ y[Len(x)] = x[Len(x)]
        BY <1>1, <1>4
    <2> QED BY <1>1, <1>4, <2>1, <2>2
<1>6. w # "vlan" /\ w \notin Proto
    <2>1. w \in DOMAIN Addr \cup DOMAIN Net \cup DOMAIN Num
        BY DEF ValuesOf
    <2> QED BY <2>1, Words
<1>7. Said(y, m + 3, t)
    <2>1. Said(y, m, s)
        BY <1>3, SaidKeeps
    <2> HIDE DEF m
    <2> QED BY <1>4, <1>5, <2>1, SaidValue
<1>8. /\ t.vlan = s.vlan /\ t.mask["tci"] = s.mask["tci"] /\ t.pattern["tci"] = s.pattern["tci"]
    <2>1. /\ s.mask \in [Fields -> Nat] /\ s.pattern \in [Fields -> Nat] /\ "tci" \in Fields
          /\ FieldIn(s.dir, s.at) # "tci"
        BY DEF RuleType, Fields, FieldIn
    <2> QED BY <2>1 DEF Puts
<1>9. Tagged(y, t)
    BY <1>2, <1>3, <1>6, <1>8, TaggedKeeps DEF BeforeClauses
<1>10. ProtoRead(y, t)
    BY <1>2, <1>3, <1>6, ProtoKeeps DEF BeforeClauses
<1>11. Completed(y, t) = m + 3 /\ Opened(y, t)
    BY <1>5 DEF Completed, Opened, Values
<1> QED BY <1>7, <1>9, <1>10, <1>11 DEF Reads

\* and the type of an ICMP message.
LEMMA TypeReads ==
    ASSUME NEW x, NEW y, NEW w, Adds(x, y, w), NEW s \in RuleType, NEW t \in RuleType,
           Reads(x, s), s.at = "type", w \in DOMAIN Num, t.at = "clause", t.proto = s.proto,
           Puts(s, t, "icmp_type", UInt8(Num[w]), AllOnes),
           Proper(y)
    PROVE  Reads(y, t)
<1> DEFINE m == Len(x) - 1
<1>1. /\ Len(x) \in Nat /\ Len(y) = Len(x) + 1 /\ y[Len(x) + 1] = w
      /\ \A i \in 1 .. Len(x) : y[i] = x[i]
    BY DEF Adds
<1>3. /\ Said(x, m, s) /\ Tagged(x, s) /\ ProtoRead(x, s) /\ m \in 0 .. Len(x)
      /\ Opened(x, s)
    BY <1>1, Beginning DEF Completed
<1>4. Len(x) > 0 /\ x[Len(x)] = "type"
    BY <1>3 DEF Opened
<1>5. y[m + 1] = "type" /\ y[m + 2] = w /\ m \in Nat /\ Len(y) = m + 2
    <2>1. m + 1 = Len(x) /\ m + 2 = Len(x) + 1 /\ m \in Nat
        BY <1>1, <1>4
    <2>2. y[Len(x)] = x[Len(x)]
        BY <1>1, <1>4
    <2> QED BY <1>1, <1>4, <2>1, <2>2
<1>6. w # "vlan" /\ w \notin Proto
    BY Words
<1>7. Said(y, m + 2, t)
    <2>1. Said(y, m, s)
        BY <1>3, SaidKeeps
    <2> HIDE DEF m
    <2>2. \A i, j \in 2 .. Len(y) : y[i - 1] = "type" /\ y[j - 1] = "type" => y[i] = y[j]
        BY DEF Proper
    <2>3. ASSUME NEW i \in 1 .. m, y[i] = "type" PROVE y[i + 1] = w
        <3>1. i + 1 \in 2 .. Len(y) /\ m + 2 \in 2 .. Len(y)
            BY <1>5
        <3>2. y[(i + 1) - 1] = "type" /\ y[(m + 2) - 1] = "type"
            <4>1. (i + 1) - 1 = i /\ (m + 2) - 1 = m + 1
                BY <1>5
            <4> QED BY <1>5, <2>3, <4>1
        <3> QED BY <1>5, <2>2, <3>1, <3>2
    <2> QED BY <1>5, <2>1, <2>3, SaidType
<1>8. /\ t.vlan = s.vlan /\ t.mask["tci"] = s.mask["tci"] /\ t.pattern["tci"] = s.pattern["tci"]
    <2>1. /\ s.mask \in [Fields -> Nat] /\ s.pattern \in [Fields -> Nat] /\ "tci" \in Fields
        BY DEF RuleType, Fields
    <2> QED BY <2>1 DEF Puts
<1>9. Tagged(y, t)
    BY <1>3, <1>6, <1>8, TaggedKeeps DEF BeforeClauses
<1>10. ProtoRead(y, t)
    BY <1>3, <1>6, ProtoKeeps DEF BeforeClauses
<1>11. Completed(y, t) = m + 2 /\ Opened(y, t)
    BY <1>5 DEF Completed, Opened, Values
<1> QED BY <1>7, <1>9, <1>10, <1>11 DEF Reads

\* The beginning of a proper text is proper.
LEMMA ProperBefore ==
    ASSUME NEW x, NEW y, NEW w, Adds(x, y, w), Proper(y)
    PROVE  Proper(x) /\ (w \in DOMAIN Net => Net[w].bits > 0)
<1>1. /\ Len(x) \in Nat /\ Len(y) = Len(x) + 1 /\ y[Len(x) + 1] = w
      /\ \A i \in 1 .. Len(x) : y[i] = x[i]
    BY DEF Adds
<1>2. 1 .. Len(x) \subseteq 1 .. Len(y) /\ Len(x) + 1 \in 1 .. Len(y)
    BY <1>1
<1>3. \A i \in 1 .. Len(y) : y[i] \in DOMAIN Net =>
        Net[y[i]].bits > 0 /\ Net[y[i]].addr % (2 ^ (W - Net[y[i]].bits)) = 0
    BY DEF Proper
<1>4. \A i \in 1 .. Len(x) : x[i] \in DOMAIN Net =>
        Net[x[i]].bits > 0 /\ Net[x[i]].addr % (2 ^ (W - Net[x[i]].bits)) = 0
    BY <1>1, <1>2, <1>3
<1>5. \A i \in 2 .. Len(x) : i \in 2 .. Len(y) /\ y[i] = x[i] /\ y[i - 1] = x[i - 1]
    <2> SUFFICES ASSUME NEW i \in 2 .. Len(x)
                 PROVE  i \in 2 .. Len(y) /\ y[i] = x[i] /\ y[i - 1] = x[i - 1]
        OBVIOUS
    <2>1. i \in 2 .. Len(y) /\ i \in 1 .. Len(x) /\ i - 1 \in 1 .. Len(x)
        BY <1>1
    <2> QED BY <1>1, <2>1
<1>6. \A i \in 2 .. Len(x) : x[i - 1] \in DOMAIN Limit /\ x[i] \in DOMAIN Num =>
        Num[x[i]] >= 0 /\ Num[x[i]] < Limit[x[i - 1]]
    <2>1. \A i \in 2 .. Len(y) : y[i - 1] \in DOMAIN Limit /\ y[i] \in DOMAIN Num =>
            Num[y[i]] >= 0 /\ Num[y[i]] < Limit[y[i - 1]]
        BY DEF Proper
    <2> SUFFICES ASSUME NEW i \in 2 .. Len(x), x[i - 1] \in DOMAIN Limit, x[i] \in DOMAIN Num
                 PROVE  Num[x[i]] >= 0 /\ Num[x[i]] < Limit[x[i - 1]]
        OBVIOUS
    <2>2. i \in 2 .. Len(y) /\ y[i] = x[i] /\ y[i - 1] = x[i - 1]
        BY <1>5
    <2>3. Num[y[i]] >= 0 /\ Num[y[i]] < Limit[y[i - 1]]
        BY <2>1, <2>2
    <2> QED BY <2>2, <2>3
<1>7. \A i, j \in 2 .. Len(x) : x[i - 1] = "type" /\ x[j - 1] = "type" => x[i] = x[j]
    <2>1. \A i, j \in 2 .. Len(y) : y[i - 1] = "type" /\ y[j - 1] = "type" => y[i] = y[j]
        BY DEF Proper
    <2> SUFFICES ASSUME NEW i \in 2 .. Len(x), NEW j \in 2 .. Len(x),
                        x[i - 1] = "type", x[j - 1] = "type"
                 PROVE  x[i] = x[j]
        OBVIOUS
    <2>2. /\ i \in 2 .. Len(y) /\ y[i] = x[i] /\ y[i - 1] = x[i - 1]
          /\ j \in 2 .. Len(y) /\ y[j] = x[j] /\ y[j - 1] = x[j - 1]
        BY <1>5
    <2>3. y[i] = y[j]
        BY <2>1, <2>2
    <2> QED BY <2>2, <2>3
<1>8. Proper(x)
    BY <1>4, <1>6, <1>7 DEF Proper
<1> QED BY <1>1, <1>2, <1>3, <1>8

\* The next word keeps what is known of the words read.
LEMMA ReadsStep ==
    ASSUME NEW x, NEW y, NEW w, Adds(x, y, w), NEW s \in RuleType, NEW z \in {0, AllOnes},
           NEW t, t = Token(s, w, z), Reads(x, s), Proper(y)
    PROVE  t \in RuleType /\ Reads(y, t)
<1>1. t \in RuleType /\ Moves(s, w, t, z)
    BY TokenMoves
<1>2. CASE t.at = "bad"
    BY <1>1, <1>2 DEF Reads
<1>3. CASE s.at = "action" /\ w \in {"allow", "drop"} /\ t.at = "vlan" /\ Keeps(s, t) /\ t.proto = s.proto
    BY <1>1, <1>3, ActionReads
<1>4. CASE /\ s.at = "vlan" /\ w = "vlan" /\ t.at = "id" /\ t.vlan = TRUE
           /\ t.mask = s.mask /\ t.pattern = s.pattern /\ t.proto = s.proto
    BY <1>1, <1>4, VlanReads
<1>5. CASE /\ s.at = "id" /\ w \in Identifiers /\ t.at = "protocol" /\ t.proto = s.proto
           /\ Puts(s, t, "tci", UInt16(Num[w]), AllOnes)
    BY <1>1, <1>5, IdReads
<1>6. CASE /\ s.at \in {"vlan", "id", "protocol"} /\ w \in Proto /\ t.at = "clause"
           /\ t.proto = w /\ Keeps(s, t)
    BY <1>1, <1>6, ProtocolReads
<1>7. CASE /\ s.at \in {"vlan", "id", "protocol", "clause"} /\ w \in Directions
           /\ t.at = "dir" /\ t.dir = w /\ Keeps(s, t)
           /\ t.proto = IF s.at = "clause" THEN s.proto ELSE "ip"
    <2>1. w \in Openers /\ w # "type"
        BY <1>7 DEF Openers, Directions
    <2> QED BY <1>1, <1>7, <2>1, OpenerReads
<1>8. CASE s.at = "clause" /\ w = "type" /\ t.at = "type" /\ t.proto = s.proto /\ Keeps(s, t)
    <2>1. w \in Openers
        BY <1>8 DEF Openers
    <2> QED BY <1>1, <1>8, <2>1, OpenerReads
<1>9. CASE /\ s.at = "dir" /\ w \in Values /\ t.at = w /\ t.dir = s.dir /\ t.proto = s.proto
           /\ Keeps(s, t)
    BY <1>1, <1>9, KindReads
<1>10. CASE /\ s.at \in Values /\ t.at = "clause" /\ t.proto = s.proto
            /\ w \in (IF s.at = "host" THEN DOMAIN Addr ELSE IF s.at = "net" THEN DOMAIN Net ELSE DOMAIN Num)
            /\ s.mask[FieldIn(s.dir, s.at)] = 0
            /\ Puts(s, t, FieldIn(s.dir, s.at), ValueIn(s.at, w),
                    IF s.at = "net" THEN Netmask(Net[w].bits, z) ELSE AllOnes)
    <2>1. w \in ValuesOf(s.at)
        BY <1>10 DEF ValuesOf
    <2>2. s.at = "net" => Net[w].bits \in 1 .. W
        <3>1. s.at = "net" => w \in DOMAIN Net
            BY <1>10
        <3>2. w \in DOMAIN Net => Net[w].bits > 0
            BY ProperBefore
        <3>3. w \in DOMAIN Net => Net[w].bits \in 0 .. W
            BY RuleAssumption
        <3> QED BY <3>1, <3>2, <3>3, RuleAssumption
    <2>3. (IF s.at = "net" THEN Netmask(Net[w].bits, z) ELSE AllOnes) = MaskIn(s.at, w)
        BY <2>2, MaskTypes DEF MaskIn
    <2>4. s.at = "net" => Net[w].bits > 0
        BY <2>2, RuleAssumption
    <2>5. Puts(s, t, FieldIn(s.dir, s.at), ValueIn(s.at, w), MaskIn(s.at, w))
        BY <1>10, <2>3
    <2> QED BY <1>1, <1>10, <2>1, <2>4, <2>5, ValueReads
<1>11. CASE /\ s.at = "type" /\ w \in DOMAIN Num /\ t.at = "clause" /\ t.proto = s.proto
            /\ Puts(s, t, "icmp_type", UInt8(Num[w]), AllOnes)
    BY <1>1, <1>11, TypeReads
<1> QED BY <1>1, <1>2, <1>3, <1>4, <1>5, <1>6, <1>7, <1>8, <1>9, <1>10, <1>11 DEF Moves

-----------------------------------------------------------------------------
\* The first n bits of an address are those of the network iff the address is in it.
LEMMA InNetwork ==
    ASSUME NEW v \in Nat, NEW a \in Nat, NEW d \in Nat, d > 0, a % d = 0
    PROVE  (v - (v % d) = a) <=> v \in a .. a + d - 1
<1>1. v % d \in 0 .. d - 1
    BY Division
<1>2. CASE v - (v % d) = a
    BY <1>1, <1>2
<1>3. CASE v \in a .. a + d - 1
    <2> DEFINE r == v - a
               q == a \div d
    <2>1. r \in 0 .. d - 1 /\ v = a + r
        BY <1>3
    <2>2. q \in Int /\ a = d * q + 0
        BY Division
    <2>3. v = d * q + r
        BY <2>1, <2>2
    <2> HIDE DEF q, r
    <2>4. v % d = r
        BY <2>1, <2>2, <2>3, DivisionUnique
    <2> QED BY <1>3, <2>1, <2>4
<1> QED BY <1>2, <1>3

\* The same for the mask that the parser computes.
LEMMA MaskedNetwork ==
    ASSUME NEW v \in Nat, NEW b \in 0 .. W, NEW a \in Nat, a % (2 ^ (W - b)) = 0
    PROVE  (Masked(v, 2 ^ W - 2 ^ (W - b)) = a) <=> v \in a .. a + 2 ^ (W - b) - 1
<1> DEFINE d == 2 ^ (W - b)
           p == 2 ^ W
<1>1. d \in Nat /\ d > 0 /\ p \in Nat
    BY RuleMasks, RuleAssumption, Doubling
<1>2. AllOnes = p - 1
    BY DEF AllOnes
<1> HIDE DEF d, p
<1>3. AllOnes + 1 - (p - d) = d
    BY <1>1, <1>2
<1>4. Masked(v, p - d) = v - (v % d)
    <2>1. CASE p - d = AllOnes
        <3>1. d = 1
            BY <1>1, <1>2, <2>1
        <3>2. v % d = 0
            BY <3>1
        <3> QED BY <2>1, <3>2 DEF Masked
    <2>2. CASE p - d # AllOnes
        BY <1>3, <2>2 DEF Masked
    <2> QED BY <2>1, <2>2
<1>5. a % d = 0
    BY DEF d
<1>6. (v - (v % d) = a) <=> v \in a .. a + d - 1
    BY <1>1, <1>5, InNetwork
<1> QED BY <1>4, <1>6 DEF d, p

\* The fields that conditions are about.
Compared == {"saddr", "daddr", "sport", "dport", "icmp_type"}

\* The fields of a frame.
LEMMA FrameTypes ==
    ASSUME NEW f \in Frames
    PROVE  /\ f.saddr \in Nat /\ f.daddr \in Nat /\ f.sport \in Nat /\ f.dport \in Nat
           /\ f.icmp_type \in Nat /\ f.tci \in Int /\ f.tci >= -1
           /\ f["saddr"] = f.saddr /\ f["daddr"] = f.daddr /\ f["sport"] = f.sport
           /\ f["dport"] = f.dport /\ f["icmp_type"] = f.icmp_type /\ f["tci"] = f.tci
           /\ f["ethertype"] = f.ethertype /\ f["ihl"] = f.ihl /\ f["protocol"] = f.protocol
<1> DEFINE T == -1 .. 2 ^ 16 - 1
<1>1. \A v \in T : v \in Int /\ v >= -1
    BY Doubling
<1>2. Frames \subseteq [tci : T, ethertype : STRING, ihl : Nat, protocol : STRING,
                        saddr : Nat, daddr : Nat, sport : Nat, dport : Nat, icmp_type : Nat]
    BY ToolsAssumption
<1> HIDE DEF T
<1> QED BY <1>1, <1>2

\* A condition holds of a frame iff the card finds its field equal.
LEMMA HoldsMasked ==
    ASSUME NEW x, Len(x) \in Nat, NEW i \in 1 .. Len(x), x[i] \in Openers, Whole(x, i, Len(x)), Proper(x),
           NEW f \in Frames
    PROVE  Holds(x, i, f) <=> Masked(f[FieldOf(x, i)], MaskOf(x, i)) = PatternOf(x, i)
<1> DEFINE addr == IF x[i] = "src" THEN f.saddr ELSE f.daddr
           pt == IF x[i] = "src" THEN f.sport ELSE f.dport
<1>1. addr \in Nat /\ pt \in Nat
    BY FrameTypes
<1>2. \A v : Masked(v, AllOnes) = v
    BY DEF Masked
<1>3. CASE x[i] = "type"
    <2>1. UInt8(Num[x[i + 1]]) = Num[x[i + 1]]
        BY <1>3, ProperNumber DEF Whole
    <2>2. FieldOf(x, i) = "icmp_type" /\ MaskOf(x, i) = AllOnes /\ PatternOf(x, i) = Num[x[i + 1]]
        BY <1>3, <2>1 DEF FieldOf, MaskOf, PatternOf
    <2>3. Holds(x, i, f) <=> f.icmp_type = Num[x[i + 1]]
        BY <1>3 DEF Holds
    <2> QED BY <1>2, <2>2, <2>3, FrameTypes
<1>4. CASE x[i] # "type"
    <2>1. x[i] \in Directions /\ i + 2 <= Len(x) /\ i + 2 \in 1 .. Len(x)
        BY <1>4 DEF Openers, Whole
    <2>2. FieldOf(x, i) = FieldIn(x[i], x[i + 1])
        BY <1>4 DEF FieldOf
    <2>3. PatternOf(x, i) = ValueIn(x[i + 1], x[i + 2]) /\ MaskOf(x, i) = MaskIn(x[i + 1], x[i + 2])
        BY <1>4 DEF PatternOf, MaskOf
    <2>4. x[i + 1] # "port" => f[FieldOf(x, i)] = addr
        BY <2>2, FrameTypes DEF FieldIn
    <2>5. CASE x[i + 1] = "host" /\ x[i + 2] \in DOMAIN Addr
        <3>1. Holds(x, i, f) <=> addr = Addr[x[i + 2]]
            BY <1>4, <2>5 DEF Holds
        <3>2. PatternOf(x, i) = Addr[x[i + 2]] /\ MaskOf(x, i) = AllOnes
            BY <2>3, <2>5 DEF ValueIn, MaskIn
        <3>3. f[FieldOf(x, i)] = addr
            BY <2>4, <2>5
        <3> HIDE DEF addr
        <3> QED BY <1>2, <3>1, <3>2, <3>3
    <2>6. CASE x[i + 1] = "port" /\ x[i + 2] \in DOMAIN Num
        <3>1. Holds(x, i, f) <=> pt = Num[x[i + 2]]
            BY <1>4, <2>6 DEF Holds
        <3>2. UInt16(Num[x[i + 2]]) = Num[x[i + 2]]
            <4>1. /\ i + 1 \in 1 .. Len(x) /\ (i + 1) + 1 = i + 2 /\ i + 2 <= Len(x)
                BY <2>1
            <4> QED BY <2>6, <4>1, ProperNumber
        <3>3. PatternOf(x, i) = Num[x[i + 2]] /\ MaskOf(x, i) = AllOnes
            BY <2>3, <2>6, <3>2 DEF ValueIn, MaskIn
        <3>4. f[FieldOf(x, i)] = pt
            BY <2>2, <2>6, FrameTypes DEF FieldIn
        <3> HIDE DEF pt
        <3> QED BY <1>2, <3>1, <3>3, <3>4
    <2>7. CASE x[i + 1] = "net" /\ x[i + 2] \in DOMAIN Net
        <3> DEFINE v == x[i + 2]
                   a == Net[v].addr
                   b == Net[v].bits
        <3>1. Holds(x, i, f) <=> addr \in a .. a + 2 ^ (W - b) - 1
            BY <1>4, <2>7 DEF Holds
        <3>2. PatternOf(x, i) = a /\ MaskOf(x, i) = 2 ^ W - 2 ^ (W - b)
            BY <2>3, <2>7 DEF ValueIn, MaskIn
        <3>3. f[FieldOf(x, i)] = addr
            BY <2>4, <2>7
        <3>4. a \in Nat /\ b \in 0 .. W
            BY <2>7, RuleAssumption
        <3>5. a % (2 ^ (W - b)) = 0
            BY <2>1, <2>7 DEF Proper
        <3> HIDE DEF addr, a, b
        <3>6. (Masked(addr, 2 ^ W - 2 ^ (W - b)) = a) <=> addr \in a .. a + 2 ^ (W - b) - 1
            BY <1>1, <3>4, <3>5, MaskedNetwork
        <3> QED BY <3>1, <3>2, <3>3, <3>6
    <2> QED BY <2>1, <2>5, <2>6, <2>7 DEF Whole
<1> QED BY <1>3, <1>4

\* All conditions hold iff every field that was set is found equal.
LEMMA ConditionsMasked ==
    ASSUME NEW x, Len(x) \in Nat, NEW s \in RuleType, Said(x, Len(x), s), Proper(x), NEW f \in Frames
    PROVE  (\A i \in {k \in 1 .. Len(x) : x[k] \in {"src", "dst", "type"}} : Holds(x, i, f))
           <=> \A g \in Compared : s.mask[g] # 0 => Masked(f[g], s.mask[g]) = s.pattern[g]
<1>1. \A k : x[k] \in {"src", "dst", "type"} <=> x[k] \in Openers
    BY DEF Openers, Directions
<1>2. \A i \in 1 .. Len(x) : x[i] \in Openers =>
        /\ Whole(x, i, Len(x)) /\ s.mask[FieldOf(x, i)] # 0
        /\ s.pattern[FieldOf(x, i)] = PatternOf(x, i) /\ s.mask[FieldOf(x, i)] = MaskOf(x, i)
    BY DEF Said, InRule
<1>3. ASSUME NEW i \in 1 .. Len(x), x[i] \in Openers
      PROVE  Holds(x, i, f) <=> Masked(f[FieldOf(x, i)], s.mask[FieldOf(x, i)]) = s.pattern[FieldOf(x, i)]
    BY <1>2, <1>3, HoldsMasked
<1>4. \A i \in 1 .. Len(x) : x[i] \in Openers => FieldOf(x, i) \in Compared
    BY DEF FieldOf, FieldIn, Compared
<1>5. ASSUME NEW g \in Compared, s.mask[g] # 0
      PROVE  \E i \in 1 .. Len(x) : x[i] \in Openers /\ FieldOf(x, i) = g
    BY <1>5 DEF Said, InWords, Compared
<1>6. ASSUME \A i \in {k \in 1 .. Len(x) : x[k] \in {"src", "dst", "type"}} : Holds(x, i, f)
      PROVE  \A g \in Compared : s.mask[g] # 0 => Masked(f[g], s.mask[g]) = s.pattern[g]
    <2> SUFFICES ASSUME NEW g \in Compared, s.mask[g] # 0
                 PROVE  Masked(f[g], s.mask[g]) = s.pattern[g]
        OBVIOUS
    <2>1. PICK i \in 1 .. Len(x) : x[i] \in Openers /\ FieldOf(x, i) = g
        BY <1>5
    <2>2. Holds(x, i, f)
        BY <1>1, <1>6, <2>1
    <2> QED BY <1>3, <2>1, <2>2
<1>7. ASSUME \A g \in Compared : s.mask[g] # 0 => Masked(f[g], s.mask[g]) = s.pattern[g]
      PROVE  \A i \in {k \in 1 .. Len(x) : x[k] \in {"src", "dst", "type"}} : Holds(x, i, f)
    <2> SUFFICES ASSUME NEW i \in 1 .. Len(x), x[i] \in Openers PROVE Holds(x, i, f)
        BY <1>1
    <2> QED BY <1>2, <1>3, <1>4, <1>7
<1> QED BY <1>6, <1>7

\* What a text says, in terms of what has been read of it.
Asks(s, f) ==
    /\ s.vlan => f.tci # -1
    /\ s.proto # "any" /\ ~s.vlan => f.tci = -1
    /\ s.mask["tci"] # 0 => f.tci = s.pattern["tci"]
    /\ s.proto = "arp" => f.ethertype = "arp"
    /\ s.proto \notin {"any", "arp"} => f.ethertype = "ip" /\ (s.proto = "igmp" \/ f.ihl = 5)
    /\ s.proto \in {"tcp", "udp", "icmp", "igmp"} => f.protocol = s.proto
    /\ \A g \in Compared : s.mask[g] # 0 => Masked(f[g], s.mask[g]) = s.pattern[g]

\* What its reading asks a text means, and it asks no more of a plain frame.
LEMMA MeansAsks ==
    ASSUME NEW x, Len(x) \in Nat, NEW s \in RuleType, Said(x, Len(x), s), Tagged(x, s), ProtoRead(x, s),
           s.at # "bad", Proper(x), NEW f \in Frames
    PROVE  (Asks(s, f) => Means(x, f)) /\ (Means(x, f) /\ Plain(f) => Asks(s, f))
<1> DEFINE protos == {w \in Proto : In(w, x)}
           conditions == {i \in 1 .. Len(x) : x[i] \in {"src", "dst", "type"}}
           ip == protos \ {"arp"} # {} \/ (protos = {} /\ conditions # {})
           fields == \A g \in Compared : s.mask[g] # 0 => Masked(f[g], s.mask[g]) = s.pattern[g]
           given == Len(x) > 2 /\ x[2] = "vlan" /\ x[3] \in Identifiers
<1>1. (\A i \in conditions : Holds(x, i, f)) <=> fields
    BY ConditionsMasked
<1>2. In("vlan", x) <=> s.vlan
    <2>1. /\ s.vlan <=> Len(x) >= 2 /\ x[2] = "vlan"
          /\ \A i \in 1 .. Len(x) : x[i] = "vlan" => i = 2
        BY DEF Tagged
    <2>2. Len(x) >= 2 <=> 2 \in 1 .. Len(x)
        OBVIOUS
    <2> QED BY <2>1, <2>2 DEF In
<1>3. /\ (s.mask["tci"] # 0 => f.tci = s.pattern["tci"]) => (given => f.tci % 2 ^ 12 = Num[x[3]])
      /\ Plain(f) /\ f.tci # -1 /\ (given => f.tci % 2 ^ 12 = Num[x[3]])
            => (s.mask["tci"] # 0 => f.tci = s.pattern["tci"])
      /\ s.mask["tci"] # 0 => s.vlan
    <2>1. given <=> Len(x) >= 3 /\ s.vlan /\ x[3] \in Identifiers
        <3>1. s.vlan <=> Len(x) >= 2 /\ x[2] = "vlan"
            BY DEF Tagged
        <3>2. (Len(x) > 2 <=> Len(x) >= 3) /\ (Len(x) > 2 => Len(x) >= 2)
            OBVIOUS
        <3> QED BY <3>1, <3>2
    <2>2. IF Len(x) >= 3 /\ s.vlan /\ x[3] \in Identifiers
          THEN s.mask["tci"] = AllOnes /\ s.pattern["tci"] = UInt16(Num[x[3]])
          ELSE s.mask["tci"] = 0 /\ s.pattern["tci"] = 0
        BY DEF Tagged
    <2>3. AllOnes # 0
        BY RuleMasks
    <2>4. ASSUME given
          PROVE  /\ Num[x[3]] \in Int /\ Num[x[3]] % 2 ^ 12 = Num[x[3]]
                 /\ UInt16(Num[x[3]]) = Num[x[3]]
        <3>1. /\ 2 \in 1 .. Len(x) /\ 2 + 1 <= Len(x) /\ 2 + 1 = 3 /\ x[2] = "vlan"
              /\ x[3] \in DOMAIN Num
            BY <2>4, Words
        <3>2. x[2 + 1] \in DOMAIN Num
            BY <3>1, Zenon
        <3>3. Num[x[2 + 1]] \in Int /\ Num[x[2 + 1]] >= 0 /\ Num[x[2 + 1]] < 2 ^ 12
            BY <3>1, <3>2, ProperNumber
        <3>4. Num[x[3]] \in Int /\ Num[x[3]] >= 0 /\ Num[x[3]] < 2 ^ 12
            BY <3>1, <3>3, Zenon
        <3> QED BY <3>4, Narrow, Zenon
    <2>5. Plain(f) /\ f.tci # -1 => f.tci % 2 ^ 12 = f.tci
        <3>1. f.tci \in Int /\ f.tci >= -1
            BY FrameTypes
        <3>2. f.tci # -1 => f.tci >= 0
            BY <3>1
        <3> QED BY <3>1, <3>2, Narrow, Zenon DEF Plain
    <2> HIDE DEF given
    <2>6. CASE given
        <3>1. s.mask["tci"] # 0 /\ s.vlan /\ s.pattern["tci"] = Num[x[3]]
            BY <2>1, <2>2, <2>3, <2>4, <2>6
        <3> QED BY <2>4, <2>5, <2>6, <3>1, Zenon
    <2>7. CASE ~given
        BY <2>1, <2>2, <2>7
    <2> QED BY <2>6, <2>7
<1>4. \A i \in 1 .. Len(x) : x[i] \in {"src", "dst", "type"} <=> x[i] \in Openers
    BY DEF Openers, Directions
<1>5. /\ ip <=> s.proto \notin {"any", "arp"}
      /\ (ip \/ protos # {}) <=> s.proto # "any"
      /\ protos \subseteq {s.proto} /\ (s.proto # "ip" => protos = {s.proto} \cap Proto)
    <2>1. CASE s.at \in BeforeClauses
        <3>1. s.proto = "any" /\ \A i \in 1 .. Len(x) : x[i] \notin Proto \cup Openers
            BY <2>1 DEF ProtoRead
        <3>2. protos = {} /\ conditions = {}
            BY <1>4, <3>1 DEF In
        <3>3. "any" \notin Proto
            BY DEF Proto
        <3> HIDE DEF protos, conditions
        <3> QED BY <3>1, <3>2, <3>3
    <2>2. CASE /\ s.proto \in Proto /\ \E i \in 1 .. Len(x) : x[i] = s.proto
               /\ \A i \in 1 .. Len(x) : x[i] \in Proto => x[i] = s.proto
        <3>1. protos = {s.proto}
            BY <2>2 DEF In
        <3>2. s.proto # "any"
            BY <2>2 DEF Proto
        <3> HIDE DEF protos, conditions
        <3> QED BY <2>2, <3>1, <3>2
    <2>3. CASE /\ s.proto = "ip" /\ \E i \in 1 .. Len(x) : x[i] \in Openers
               /\ \A i \in 1 .. Len(x) : x[i] \notin Proto
        <3>1. protos = {} /\ conditions # {}
            BY <1>4, <2>3 DEF In
        <3> HIDE DEF protos, conditions
        <3> QED BY <2>3, <3>1
    <2> QED BY <2>1, <2>2, <2>3 DEF ProtoRead
<1>6. /\ "arp" \in protos <=> s.proto = "arp"
      /\ "igmp" \in protos <=> s.proto = "igmp"
      /\ (\A w \in protos \cap {"tcp", "udp", "icmp", "igmp"} : f.protocol = w)
            <=> (s.proto \in {"tcp", "udp", "icmp", "igmp"} => f.protocol = s.proto)
    <2>1. "arp" \in Proto /\ "igmp" \in Proto /\ {"tcp", "udp", "icmp", "igmp"} \subseteq Proto
        BY DEF Proto
    <2> HIDE DEF protos
    <2> QED BY <1>5, <2>1
<1>7. Means(x, f) <=>
        /\ In("vlan", x) => f.tci # -1
        /\ (ip \/ protos # {}) /\ ~In("vlan", x) => f.tci = -1
        /\ given => f.tci % 2 ^ 12 = Num[x[3]]
        /\ "arp" \in protos => f.ethertype = "arp"
        /\ ip => f.ethertype = "ip"
        /\ \A w \in protos \cap {"tcp", "udp", "icmp", "igmp"} : f.protocol = w
        /\ \A i \in conditions : Holds(x, i, f)
    BY Zenon DEF Means
<1> HIDE DEF protos, conditions, ip, fields, given
<1>8. Asks(s, f) <=>
        /\ s.vlan => f.tci # -1
        /\ s.proto # "any" /\ ~s.vlan => f.tci = -1
        /\ s.mask["tci"] # 0 => f.tci = s.pattern["tci"]
        /\ s.proto = "arp" => f.ethertype = "arp"
        /\ s.proto \notin {"any", "arp"} => f.ethertype = "ip" /\ (s.proto = "igmp" \/ f.ihl = 5)
        /\ s.proto \in {"tcp", "udp", "icmp", "igmp"} => f.protocol = s.proto
        /\ fields
    BY DEF Asks, fields
<1>9. Plain(f) => f.ihl = 5
    BY DEF Plain
<1>10. ASSUME Asks(s, f) PROVE Means(x, f)
    BY <1>1, <1>2, <1>3, <1>5, <1>6, <1>7, <1>8, <1>10
<1>11. ASSUME Means(x, f), Plain(f) PROVE Asks(s, f)
    BY <1>1, <1>2, <1>3, <1>5, <1>6, <1>7, <1>8, <1>9, <1>11
<1> QED BY <1>10, <1>11

-----------------------------------------------------------------------------
\* A rule whose patterns may name a protocol.
NamedRule == [at : Places, drop : BOOLEAN, vlan : BOOLEAN, proto : Proto \cup {"any"},
              dir : Directions \cup {""}, pattern : [Fields -> Nat \cup Proto], mask : [Fields -> Nat]]

\* t is s with the field g to be compared with p.
SetTo(s, t, g, p) ==
    /\ t \in NamedRule /\ t.mask[g] = AllOnes /\ t.pattern[g] = p
    /\ \A e \in Fields \ {g} : t.mask[e] = s.mask[e] /\ t.pattern[e] = s.pattern[e]

\* Storing a field leaves the others alone.
LEMMA SetFields ==
    ASSUME NEW s \in NamedRule, NEW g \in Fields, NEW p \in Nat \cup Proto
    PROVE  SetTo(s, Set(s, g, p, AllOnes), g, p)
<1>1. AllOnes \in Nat
    BY RuleMasks
<1> QED BY <1>1 DEF NamedRule, Set, SetTo

\* The headers of a rule.
LEMMA HeaderFields ==
    ASSUME NEW s \in RuleType, NoHeaders(s)
    PROVE  LET h == Headers(s) IN
           /\ \A g \in Compared \cup {"tci"} : h.mask[g] = s.mask[g] /\ h.pattern[g] = s.pattern[g]
           /\ IF s.proto = "any" THEN h.mask["ethertype"] = 0 /\ h.pattern["ethertype"] = 0
              ELSE /\ h.mask["ethertype"] = AllOnes
                   /\ h.pattern["ethertype"] = IF s.proto = "arp" THEN "arp" ELSE "ip"
           /\ IF s.proto \in {"any", "arp", "igmp"} THEN h.mask["ihl"] = 0 /\ h.pattern["ihl"] = 0
              ELSE h.mask["ihl"] = AllOnes /\ h.pattern["ihl"] = 5
           /\ IF s.proto \in {"any", "arp", "ip"} THEN h.mask["protocol"] = 0 /\ h.pattern["protocol"] = 0
              ELSE h.mask["protocol"] = AllOnes /\ h.pattern["protocol"] = s.proto
<1> DEFINE h == Headers(s)
           ip == Set(s, "ethertype", "ip", AllOnes)
           base == Set(ip, "ihl", 5, AllOnes)
<1>1. /\ s \in NamedRule /\ AllOnes \in Nat /\ 5 \in Nat /\ s.proto \in Proto \cup {"any"}
      /\ "arp" \in Nat \cup Proto /\ "ip" \in Nat \cup Proto /\ "igmp" \in Nat \cup Proto
      /\ "ethertype" \in Fields /\ "ihl" \in Fields /\ "protocol" \in Fields
    <2>1. s \in NamedRule
        BY DEF RuleType, NamedRule
    <2>2. s.proto \in Proto \cup {"any"}
        BY DEF RuleType
    <2>3. "ethertype" \in Fields /\ "ihl" \in Fields /\ "protocol" \in Fields
        BY DEF Fields
    <2> QED BY <2>1, <2>2, <2>3, RuleMasks DEF Proto
<1>2. \A g \in {"ethertype", "ihl", "protocol"} : s.mask[g] = 0 /\ s.pattern[g] = 0
    BY DEF NoHeaders
<1>3. Compared \cup {"tci"} = Fields \ {"ethertype", "ihl", "protocol"}
    BY DEF Compared, Fields
<1>4. /\ ip \in NamedRule /\ ip.mask["ethertype"] = AllOnes /\ ip.pattern["ethertype"] = "ip"
      /\ \A e \in Fields \ {"ethertype"} : ip.mask[e] = s.mask[e] /\ ip.pattern[e] = s.pattern[e]
    <2>1. SetTo(s, ip, "ethertype", "ip")
        BY <1>1, SetFields
    <2> QED BY <2>1 DEF SetTo
<1>5. /\ base \in NamedRule /\ base.mask["ihl"] = AllOnes /\ base.pattern["ihl"] = 5
      /\ \A e \in Fields \ {"ihl"} : base.mask[e] = ip.mask[e] /\ base.pattern[e] = ip.pattern[e]
    <2> HIDE DEF ip
    <2>1. SetTo(ip, base, "ihl", 5)
        BY <1>1, <1>4, SetFields
    <2> QED BY <2>1 DEF SetTo
<1>6. CASE s.proto = "any"
    <2>1. h = s
        BY <1>6 DEF Headers
    <2> QED BY <1>2, <1>6, <2>1
<1>7. CASE s.proto = "arp"
    <2>1. h = Set(s, "ethertype", "arp", AllOnes)
        BY <1>7 DEF Headers
    <2> HIDE DEF h
    <2>2. /\ h.mask["ethertype"] = AllOnes /\ h.pattern["ethertype"] = "arp"
          /\ \A e \in Fields \ {"ethertype"} : h.mask[e] = s.mask[e] /\ h.pattern[e] = s.pattern[e]
        <3>1. SetTo(s, h, "ethertype", "arp")
            BY <1>1, <2>1, SetFields
        <3> QED BY <3>1 DEF SetTo
    <2> QED BY <1>1, <1>2, <1>3, <1>7, <2>2 DEF h
<1>8. CASE s.proto = "ip"
    <2>1. h = base
        BY <1>8 DEF Headers
    <2> HIDE DEF h, base, ip
    <2> QED BY <1>1, <1>2, <1>3, <1>4, <1>5, <1>8, <2>1 DEF h
<1>9. CASE s.proto = "igmp"
    <2>1. h = Set(ip, "protocol", "igmp", AllOnes)
        BY <1>9 DEF Headers
    <2> HIDE DEF h, ip
    <2>2. /\ h.mask["protocol"] = AllOnes /\ h.pattern["protocol"] = "igmp"
          /\ \A e \in Fields \ {"protocol"} : h.mask[e] = ip.mask[e] /\ h.pattern[e] = ip.pattern[e]
        <3>1. SetTo(ip, h, "protocol", "igmp")
            BY <1>1, <1>4, <2>1, SetFields
        <3> QED BY <3>1 DEF SetTo
    <2> QED BY <1>1, <1>2, <1>3, <1>4, <1>9, <2>2 DEF h
<1>10. CASE s.proto \in {"tcp", "udp", "icmp"}
    <2>1. h = Set(base, "protocol", s.proto, AllOnes) /\ s.proto \in Nat \cup Proto
        BY <1>10 DEF Headers, Proto
    <2> HIDE DEF h, base, ip
    <2>2. /\ h.mask["protocol"] = AllOnes /\ h.pattern["protocol"] = s.proto
          /\ \A e \in Fields \ {"protocol"} : h.mask[e] = base.mask[e] /\ h.pattern[e] = base.pattern[e]
        <3>1. SetTo(base, h, "protocol", s.proto)
            BY <1>1, <1>5, <2>1, SetFields
        <3> QED BY <3>1 DEF SetTo
    <2> QED BY <1>1, <1>2, <1>3, <1>4, <1>5, <1>10, <2>2 DEF h
<1> QED BY <1>1, <1>6, <1>7, <1>8, <1>9, <1>10 DEF Proto

\* The card matches just the frames for which that is so.
LEMMA MatchesAsks ==
    ASSUME NEW x, Len(x) \in Nat, NEW s \in RuleType, Said(x, Len(x), s), Tagged(x, s), ProtoRead(x, s),
           s.at # "bad", NEW f \in Frames
    PROVE  Matches(Finished(s), f) <=> Asks(s, f)
<1> DEFINE h == Headers(s)
           r == Finished(s)
           tagged == f.tci # -1
           Equal(g) == Masked(f[g], h.mask[g]) = h.pattern[g]
<1>1. NoHeaders(s) /\ InWords(x, Len(x), s) /\ s.vlan \in BOOLEAN
    BY DEF Said, RuleType
<1>2. /\ \A g \in Compared \cup {"tci"} : h.mask[g] = s.mask[g] /\ h.pattern[g] = s.pattern[g]
      /\ IF s.proto = "any" THEN h.mask["ethertype"] = 0 /\ h.pattern["ethertype"] = 0
         ELSE /\ h.mask["ethertype"] = AllOnes
              /\ h.pattern["ethertype"] = IF s.proto = "arp" THEN "arp" ELSE "ip"
      /\ IF s.proto \in {"any", "arp", "igmp"} THEN h.mask["ihl"] = 0 /\ h.pattern["ihl"] = 0
         ELSE h.mask["ihl"] = AllOnes /\ h.pattern["ihl"] = 5
      /\ IF s.proto \in {"any", "arp", "ip"} THEN h.mask["protocol"] = 0 /\ h.pattern["protocol"] = 0
         ELSE h.mask["protocol"] = AllOnes /\ h.pattern["protocol"] = s.proto
    BY <1>1, HeaderFields
<1>3. r.vlan = s.vlan /\ r.mask = h.mask /\ r.pattern = h.pattern
    BY DEF Finished
<1>4. Fields = Compared \cup {"tci", "ethertype", "ihl", "protocol"} /\ AllOnes # 0
    BY RuleMasks DEF Fields, Compared
<1>5. \A g \in Compared : s.mask[g] = 0 => s.pattern[g] = 0
    BY <1>1 DEF InWords, Compared
<1>6. \A g \in Compared : s.mask[g] # 0 => s.proto # "any"
    <2> SUFFICES ASSUME NEW g \in Compared, s.mask[g] # 0 PROVE s.proto # "any"
        OBVIOUS
    <2>1. PICK i \in 1 .. Len(x) : x[i] \in Openers
        BY <1>1 DEF InWords, Compared
    <2>2. s.at \notin BeforeClauses
        BY <2>1 DEF ProtoRead
    <2> QED BY <2>2 DEF ProtoRead, Proto
<1>7. (s.mask["tci"] # 0 => s.vlan) /\ (s.mask["tci"] = 0 => s.pattern["tci"] = 0)
    BY <1>4 DEF Tagged
<1>8. \A g \in Fields : h.mask[g] = 0 => h.pattern[g] = 0
    BY <1>2, <1>4, <1>5, <1>7
<1>9. Matches(r, f) <=> /\ s.vlan => tagged
                        /\ \A g \in Fields : h.mask[g] # 0 => s.vlan = tagged /\ Equal(g)
    BY <1>3, <1>8 DEF Matches
<1>10. /\ h.mask["ethertype"] # 0 <=> s.proto # "any"
       /\ h.mask["ihl"] # 0 <=> s.proto \notin {"any", "arp", "igmp"}
       /\ h.mask["protocol"] # 0 <=> s.proto \notin {"any", "arp", "ip"}
       /\ h.mask["tci"] # 0 <=> s.mask["tci"] # 0
    BY <1>2, <1>4
<1>11. \A v : Masked(v, AllOnes) = v
    BY DEF Masked
<1>12. /\ s.proto # "any" => (Equal("ethertype") <=> f.ethertype = IF s.proto = "arp" THEN "arp" ELSE "ip")
       /\ s.proto \notin {"any", "arp", "igmp"} => (Equal("ihl") <=> f.ihl = 5)
       /\ s.proto \notin {"any", "arp", "ip"} => (Equal("protocol") <=> f.protocol = s.proto)
       /\ s.mask["tci"] # 0 => (Equal("tci") <=> f.tci = s.pattern["tci"])
    <2>1. s.mask["tci"] # 0 => s.mask["tci"] = AllOnes
        BY DEF Tagged
    <2>2. h.mask["tci"] = s.mask["tci"] /\ h.pattern["tci"] = s.pattern["tci"]
        BY <1>2
    <2>3. /\ f["tci"] = f.tci /\ f["ethertype"] = f.ethertype /\ f["ihl"] = f.ihl
          /\ f["protocol"] = f.protocol
        BY FrameTypes
    <2> HIDE DEF h
    <2> QED BY <1>2, <1>11, <2>1, <2>2, <2>3
<1>13. \A g \in Compared : Equal(g) <=> Masked(f[g], s.mask[g]) = s.pattern[g]
    BY <1>2
<1>14. s.proto \in Proto \cup {"any"}
    BY DEF RuleType
<1>15. s.proto \notin {"any", "arp", "ip"} <=> s.proto \in {"tcp", "udp", "icmp", "igmp"}
    BY <1>14 DEF Proto
<1> HIDE DEF h, r, Equal
<1>16. (\A g \in Fields : h.mask[g] # 0 => s.vlan = tagged /\ Equal(g)) <=>
         /\ s.proto # "any" => s.vlan = tagged /\ Equal("ethertype")
         /\ s.proto \notin {"any", "arp", "igmp"} => s.vlan = tagged /\ Equal("ihl")
         /\ s.proto \notin {"any", "arp", "ip"} => s.vlan = tagged /\ Equal("protocol")
         /\ s.mask["tci"] # 0 => s.vlan = tagged /\ Equal("tci")
         /\ \A g \in Compared : s.mask[g] # 0 => s.vlan = tagged /\ Equal(g)
    <2>1. \A g \in Compared : h.mask[g] = s.mask[g]
        BY <1>2
    <2> HIDE DEF tagged
    <2> QED BY <1>4, <1>10, <2>1
<1>17. Asks(s, f) <=>
         /\ s.vlan => tagged
         /\ s.proto # "any" => s.vlan = tagged
         /\ s.mask["tci"] # 0 => f.tci = s.pattern["tci"]
         /\ s.proto # "any" => f.ethertype = IF s.proto = "arp" THEN "arp" ELSE "ip"
         /\ s.proto \notin {"any", "arp", "igmp"} => f.ihl = 5
         /\ s.proto \notin {"any", "arp", "ip"} => f.protocol = s.proto
         /\ \A g \in Compared : s.mask[g] # 0 => Masked(f[g], s.mask[g]) = s.pattern[g]
    BY <1>1, <1>15 DEF Asks
<1>18. s.proto \notin {"any", "arp", "igmp"} \/ s.proto \notin {"any", "arp", "ip"} => s.proto # "any"
    OBVIOUS
<1>19. ASSUME Matches(r, f) PROVE Asks(s, f)
    <2>1. /\ s.vlan => tagged
          /\ s.proto # "any" => s.vlan = tagged /\ Equal("ethertype")
          /\ s.proto \notin {"any", "arp", "igmp"} => Equal("ihl")
          /\ s.proto \notin {"any", "arp", "ip"} => Equal("protocol")
          /\ s.mask["tci"] # 0 => Equal("tci")
          /\ \A g \in Compared : s.mask[g] # 0 => Equal(g)
        <3> HIDE DEF tagged
        <3> QED BY <1>9, <1>16, <1>19
    <2>2. s.proto # "any" => f.ethertype = IF s.proto = "arp" THEN "arp" ELSE "ip"
        BY <1>12, <2>1
    <2>3. s.mask["tci"] # 0 => f.tci = s.pattern["tci"]
        BY <1>12, <2>1
    <2>4. s.proto \notin {"any", "arp", "igmp"} => f.ihl = 5
        BY <1>12, <2>1
    <2>5. s.proto \notin {"any", "arp", "ip"} => f.protocol = s.proto
        BY <1>12, <2>1
    <2>6. \A g \in Compared : s.mask[g] # 0 => Masked(f[g], s.mask[g]) = s.pattern[g]
        BY <1>13, <2>1
    <2> HIDE DEF tagged
    <2> QED BY <1>17, <2>1, <2>2, <2>3, <2>4, <2>5, <2>6
<1>20. ASSUME Asks(s, f) PROVE Matches(r, f)
    <2>1. /\ s.vlan => tagged
          /\ s.proto # "any" => s.vlan = tagged
          /\ s.mask["tci"] # 0 => f.tci = s.pattern["tci"]
          /\ s.proto # "any" => f.ethertype = IF s.proto = "arp" THEN "arp" ELSE "ip"
          /\ s.proto \notin {"any", "arp", "igmp"} => f.ihl = 5
          /\ s.proto \notin {"any", "arp", "ip"} => f.protocol = s.proto
          /\ \A g \in Compared : s.mask[g] # 0 => Masked(f[g], s.mask[g]) = s.pattern[g]
        <3> HIDE DEF tagged
        <3> QED BY <1>17, <1>20
    <2>2. s.proto # "any" => s.vlan = tagged /\ Equal("ethertype")
        BY <1>12, <2>1
    <2>3. s.proto \notin {"any", "arp", "igmp"} => s.vlan = tagged /\ Equal("ihl")
        BY <1>12, <1>18, <2>1
    <2>4. s.proto \notin {"any", "arp", "ip"} => s.vlan = tagged /\ Equal("protocol")
        BY <1>12, <1>18, <2>1
    <2>5. s.mask["tci"] # 0 => s.vlan = tagged /\ Equal("tci")
        BY <1>1, <1>7, <1>12, <2>1
    <2>6. \A g \in Compared : s.mask[g] # 0 => s.vlan = tagged /\ Equal(g)
        BY <1>6, <1>13, <2>1
    <2> HIDE DEF tagged
    <2> QED BY <1>9, <1>16, <2>1, <2>2, <2>3, <2>4, <2>5, <2>6
<1> QED BY <1>19, <1>20 DEF r

-----------------------------------------------------------------------------
\* A text that ends here gives the rule that matches only frames it describes, and every
\* plain one.
LEMMA RuleRight ==
    ASSUME NEW x \in Seq(Vocabulary), NEW s \in RuleType, Reads(x, s), Proper(x), Finished(s).ok,
           NEW f \in Frames
    PROVE  /\ Matches(Finished(s), f) => Means(x, f)
           /\ Means(x, f) /\ Plain(f) => Matches(Finished(s), f)
<1>1. s.at \in {"vlan", "id", "protocol", "clause"} /\ Len(x) \in Nat
    <2>1. Finished(s).ok = (s.at \in {"vlan", "id", "protocol", "clause"})
        BY DEF Finished
    <2>2. s.at \in {"vlan", "id", "protocol", "clause"}
        BY <2>1, Zenon
    <2> QED BY <2>2
<1>2. s.at # "bad" /\ Completed(x, s) = Len(x)
    BY <1>1 DEF Completed, Values
<1>3. Said(x, Len(x), s) /\ Tagged(x, s) /\ ProtoRead(x, s)
    BY <1>2 DEF Reads
<1> QED BY <1>1, <1>2, <1>3, MatchesAsks, MeansAsks

\* Before the first word nothing has been said.
LEMMA BegunReads == Begun \in RuleType /\ Reads(<<>>, Begun)
<1> DEFINE x == <<>>
<1>1. Len(x) = 0 /\ 1 .. Len(x) = {}
    OBVIOUS
<1>2. /\ Begun \in RuleType
      /\ Begun.at = "action" /\ Begun.vlan = FALSE /\ Begun.proto = "any"
      /\ \A g \in Fields : Begun.mask[g] = 0 /\ Begun.pattern[g] = 0
    BY DEF Begun, RuleType, Places, BeforeClauses
<1>3. Compared \subseteq Fields /\ {"ethertype", "ihl", "protocol", "tci"} \subseteq Fields
    BY DEF Compared, Fields
<1> HIDE DEF x
<1>4. Completed(x, Begun) = 0
    BY <1>1, <1>2 DEF Completed, Values
<1>5. Said(x, 0, Begun)
    <2>1. InRule(x, 0, Begun)
        BY DEF InRule
    <2>2. InWords(x, 0, Begun)
        BY <1>2, <1>3 DEF InWords, Compared
    <2>3. NoHeaders(Begun)
        BY <1>2, <1>3 DEF NoHeaders
    <2> QED BY <2>1, <2>2, <2>3 DEF Said
<1>6. Opened(x, Begun)
    BY <1>2 DEF Opened, Values
<1>7. Tagged(x, Begun)
    BY <1>1, <1>2, <1>3 DEF Tagged, BeforeClauses
<1>8. ProtoRead(x, Begun)
    BY <1>1, <1>2 DEF ProtoRead, BeforeClauses
<1> QED BY <1>2, <1>4, <1>5, <1>6, <1>7, <1>8 DEF Reads, x

\* The invariant of the parser holds at the start,
LEMMA RuleInit == Init => RuleInv
<1> SUFFICES ASSUME Init PROVE RuleInv
    OBVIOUS
<1>1. words = <<>> /\ rule = Begun /\ shifted \in {0, AllOnes}
    BY DEF Init, Reset
<1> QED BY <1>1, BegunReads DEF RuleInv

\* and every step keeps it.
LEMMA RuleStep == RuleInv /\ [Next]_toolVars => RuleInv'
<1> SUFFICES ASSUME RuleInv, [Next]_toolVars PROVE RuleInv'
    OBVIOUS
<1>1. CASE UNCHANGED <<words, rule, shifted>>
    BY <1>1 DEF RuleInv
<1>2. CASE ReadWord
    <2>1. PICK w \in Vocabulary : words' = Append(words, w) /\ rule' = Token(rule, w, shifted)
        BY <1>2 DEF ReadWord
    <2>2. shifted' = shifted
        BY <1>2 DEF ReadWord
    <2>3. words \in Seq(Vocabulary) /\ rule \in RuleType /\ shifted \in {0, AllOnes}
        BY DEF RuleInv
    <2>4. Adds(words, words', w) /\ words' \in Seq(Vocabulary)
        BY <2>1, <2>3, AppendAdds
    <2>5. rule' \in RuleType
        BY <2>1, <2>3, TokenMoves
    <2>6. ASSUME Proper(words') PROVE Reads(words', rule')
        <3>1. Proper(words)
            BY <2>4, <2>6, ProperBefore
        <3>2. Reads(words, rule)
            BY <3>1 DEF RuleInv
        <3> QED BY <2>1, <2>3, <2>4, <2>6, <3>2, ReadsStep
    <2>7. Proper(words)' <=> Proper(words')
        BY DEF Proper
    <2> QED BY <2>2, <2>3, <2>4, <2>5, <2>6 DEF RuleInv
<1>3. ReadWord \/ UNCHANGED <<words, rule, shifted>>
    BY DEF Next, toolVars
<1> QED BY <1>1, <1>2, <1>3

\* A rule that exanic_parse_filter_string accepts matches only frames that its words
\* describe, and every one of them whose VLAN tag has no priority and whose IP header no
\* options, if the words are proper: networks of at least one bit written with their first
\* address, ports, types and VLAN identifiers that fit, no two types.  Numbers are
\* truncated as the code does it: that those which fit stay as written is part of what is
\* shown.  For every width of an address, every vocabulary of addresses, networks and
\* numbers, every length of the text and order of its clauses, and every frame.
THEOREM RuleMeansHolds == Spec => []RuleMeans
<1>1. RuleInv => RuleMeans
    BY RuleRight DEF RuleInv, RuleMeans
<1> QED BY <1>1, RuleInit, RuleStep, PTL DEF Spec
=============================================================================
