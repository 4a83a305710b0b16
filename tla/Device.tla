------------------------------- MODULE Device -------------------------------
(***************************************************************************)
(* Programs over the library's handles and buffers, one to a process:      *)
(*                                                                         *)
(*   "library"  any program: legal calls in any order (a call is given     *)
(*              only pointers that its caller holds)                       *)
(*   "hashing"  one that spreads a port over several buffers               *)
(*   "capture"  main of src/src/main.c from the options to the loop, and   *)
(*              from the loop to exit (the loop is module Capture)         *)
(*                                                                         *)
(* beside other processes that use filter buffers of the same port.        *)
(***************************************************************************)
EXTENDS Buffers, FilterLine

CONSTANTS Lines, Packets, Default

\* Buffer 0 of a port is its default one.
ASSUME DeviceAssumption ==
    /\ Default \subseteq [port : Ports, buffer_number : {0}]
    /\ Lines \subseteq Seq(STRING)
    /\ Packets \subseteq [src_addr : Nat, dst_addr : Nat, src_port : Nat,
                         dst_port : Nat, protocol : Nat]

VARIABLES
    program,    \* which of the programs this is
    pc,         \* capture: where main is
    line,       \* capture: the filter expression, as words
    argv,       \* capture: the words not yet read
    filter,     \* capture: the filter whose reverse is to be added
    savefp      \* capture: a save file is open

mainVars == <<pc, line, argv, filter, savefp>>
allVars == <<vars, program, mainVars>>

TypeOK ==
    /\ HandlesTypeOK /\ BuffersTypeOK
    /\ program \in {"library", "hashing", "capture"}
    /\ pc \in {"none", "open file", "handle", "rx", "filter", "reverse", "running",
               "release rx", "release handle", "close file", "exited"}
    /\ savefp \in BOOLEAN

Init ==
    /\ HandlesInit /\ BuffersInit
    /\ filter = Wildcard /\ savefp = FALSE
    /\ \/ program \in {"library", "hashing"} /\ pc = "none" /\ line = <<>>
       \/ program = "capture" /\ pc = "open file" /\ line \in Lines
    /\ argv = line

-----------------------------------------------------------------------------
(* main                                                                    *)

Go(to) == pc' = to /\ UNCHANGED <<program, line>>
Branch(good, bad) == Go(IF ret' = "ok" THEN good ELSE bad)

\* rotate_file for the first file, if one is asked for other than "-".
OpenFile ==
    /\ pc = "open file"
    /\ \/ savefp' = TRUE /\ Go("handle")
       \/ savefp' = FALSE /\ Go("handle")
       \/ savefp' = FALSE /\ Go("exited")
    /\ UNCHANGED <<vars, argv, filter>>

GetHandle ==
    /\ pc = "handle"
    /\ \E c \in Callers, n \in Names : Cut[n] = n /\ AcquireHandle(c, n)
    /\ Branch("rx", "close file")
    /\ UNCHANGED <<bufferVars, argv, filter, savefp>>

\* A filter buffer of its own if there is a filter expression.
GetRx ==
    /\ pc = "rx"
    /\ \E c \in Callers, x \in RxIds :
          IF argv = <<>> THEN \E r \in Default : AcquireRxBuffer(x, c, r)
                         ELSE \E p \in Ports : AcquireUnused(x, c, p)
    /\ Branch("filter", "release handle")
    /\ UNCHANGED <<argv, filter, savefp>>

\* Mutant: the reverse of a filter is not added.
ReadOneWay ==
    LET one == ParseOneFilter(argv) IN
    /\ pc = "filter" /\ argv # <<>> /\ one.ok
    /\ \E x \in RxIds : FilterAdd(x, one.filter)
    /\ Branch("filter", "release rx")
    /\ argv' = one.rest /\ filter' = Wildcard
    /\ UNCHANGED savefp

\* apply_filters, one clause.
ReadClause ==
    LET one == ParseOneFilter(argv) IN
    /\ pc = "filter" /\ argv # <<>> /\ one.ok
    /\ \E x \in RxIds : FilterAdd(x, one.filter)
    /\ Branch(IF one.bidir THEN "reverse" ELSE "filter", "release rx")
    /\ argv' = one.rest
    /\ filter' = IF one.bidir /\ ret' = "ok" THEN Reversed(one.filter) ELSE Wildcard
    /\ UNCHANGED savefp

AddReverse ==
    /\ pc = "reverse"
    /\ \E x \in RxIds : FilterAdd(x, filter)
    /\ Branch("filter", "release rx")
    /\ filter' = Wildcard
    /\ UNCHANGED <<argv, savefp>>

\* The end of the words, or something that is no clause.  A line that ends with
\* a keyword is taken for one that is all read.
EndOfClauses ==
    LET one == ParseOneFilter(argv) IN
    /\ pc = "filter" /\ (argv = <<>> \/ ~one.ok)
    /\ argv' = IF argv = <<>> THEN <<>> ELSE one.rest
    /\ Go(IF argv' = <<>> THEN "running" ELSE "release rx")
    /\ UNCHANGED <<vars, filter, savefp>>

\* The loop ends, with a save file or, when one could not be opened, without.
Capture ==
    /\ pc = "running"
    /\ savefp' \in {savefp, FALSE}
    /\ Go("release rx")
    /\ UNCHANGED <<vars, argv, filter>>

\* Mutant: the RX buffer is not released.
LeaveRx ==
    /\ pc = "release rx"
    /\ Go("release handle")
    /\ UNCHANGED <<vars, argv, filter, savefp>>

LeaveReleasingRx ==
    /\ pc = "release rx"
    /\ \E x \in RxIds : ReleaseRxBuffer(x)
    /\ Go("release handle")
    /\ UNCHANGED <<argv, filter, savefp>>

LeaveReleasingHandle ==
    /\ pc = "release handle"
    /\ \E c \in Callers : ReleaseHandle(c)
    /\ Go("close file")
    /\ UNCHANGED <<bufferVars, argv, filter, savefp>>

LeaveClosing ==
    /\ pc = "close file"
    /\ savefp' = FALSE
    /\ Go("exited")
    /\ UNCHANGED <<vars, argv, filter>>

Main == OpenFile \/ GetHandle \/ GetRx \/ ReadClause \/ AddReverse \/ EndOfClauses
        \/ Capture \/ LeaveReleasingRx \/ LeaveReleasingHandle \/ LeaveClosing

-----------------------------------------------------------------------------
HandleCall ==
    /\ \/ \E c \in Callers, n \in Names : AcquireHandle(c, n)
       \/ \E c, d \in Callers : RetainHandle(c, d)
       \/ \E c \in Callers : ReleaseHandle(c)
    /\ UNCHANGED bufferVars

RxCall ==
    \E x \in RxIds, c \in Callers :
        \/ \E r \in Default : AcquireRxBuffer(x, c, r)
        \/ \E p \in Ports : AcquireUnused(x, c, p)
        \/ ReleaseRxBuffer(x)

TxCall ==
    \E t \in TxIds, c \in Callers :
        \/ \E p \in Ports : AcquireTxBuffer(t, c, p)
        \/ ReleaseTxBuffer(t)

Library == /\ program = "library"
           /\ HandleCall \/ RxCall \/ TxCall
           /\ UNCHANGED <<program, mainVars>>

\* One handle; buffers by number.
HashingCall ==
    \E c \in Callers, p \in Ports :
        \/ Open = {} /\ (\E n \in Names : AcquireOpened(c, n)) /\ UNCHANGED bufferVars
        \/ \E max \in Pow2s : max <= 2 * MaxBuffers /\ EnableFlowHashing(c, p, max)
        \/ DisableFlowHashing(c, p)
        \/ \E x \in RxIds, i \in 1 .. MaxBuffers :
              AcquireRxBuffer(x, c, [port |-> p, buffer_number |-> i])
        \/ \E x \in RxIds : ReleaseRxBuffer(x)
        \/ \E x \in RxIds, flow \in Flows : filters = {} /\ FilterAdd(x, flow)
        \/ \E f \in filters : FilterRemove(c, p, f.id)

Hashing == /\ program = "hashing"
           /\ HashingCall
           /\ UNCHANGED <<program, mainVars>>

\* A library program is alone on the card.
Others == /\ program # "library"
          /\ \E b \in Buffer \cap Contested : OtherProcess(b)
          /\ UNCHANGED <<program, mainVars>>

Next == (Library \/ Hashing \/ Main \/ Others) /\ FewLost'

Spec == Init /\ [][Next]_allVars

-----------------------------------------------------------------------------
Mine == {<<rx[x].port, rx[x].buffer_number - 1>> : x \in Live}

\* When the capture program starts its loop with a filter expression, the card
\* steers to its buffer just the packets that the expression describes: every
\* complete clause, in both directions where it says so.  The expression is a
\* proper one: a port of 65536 or more is cut to its low 16 bits without a word
\* (65616 is installed as 80), and one that is 0 then, or an address of 0, stands
\* for any.  A last clause that lacks an argument is passed over in silence.
FiltersAsWritten ==
    pc = "running" /\ line # <<>> /\ Proper(line) =>
        \A p \in Packets :
            (\E f \in filters : f.buffer \in Mine /\ Matches(f.flow, p)) <=> Described(line, p)

\* Whichever way the capture program ends, it has let go of what it held, its
\* filters included, but for what failing calls of the library lost.
LeavesNothing ==
    pc = "exited" =>
        /\ ~savefp /\ Live = {}
        /\ \A c \in Callers : uses[c] = Nobody
        /\ \A f \in filters : others[f.buffer] > 0 \/ lost.bufs[f.buffer] > 0
=============================================================================
