------------------------------- MODULE Capture -------------------------------
(***************************************************************************)
(* The life of capture programs (main in main.c): each opens a save file,  *)
(* acquires the receive buffer, puts the interface in promiscuous mode,    *)
(* saves frames and rotates its file until a signal stops it, and undoes   *)
(* what it did.  Several programs may run on one interface; all they share *)
(* is the promiscuous flag, which each reads before it changes it.         *)
(*                                                                         *)
(* exanic_receive_frame_ex is the subject of CaptureRx; here a call returns*)
(* a frame or, in a step that changes nothing, no data.  Files are in pcap *)
(* format.                                                                 *)
(***************************************************************************)
EXTENDS Integers, Sequences, FiniteSetsExt, SequencesExt

CONSTANTS
    Progs,          \* the capture programs
    Options,        \* the command lines considered
    MaxFrames,      \* bound: frames received by all programs together
    MaxTime         \* bound: last second of the clock

ASSUME CaptureAssumption ==
    /\ IsFiniteSet(Progs)
    /\ Options \subseteq [save : {"none", "stdout", "file"},    \* -w; "stdout" for "-"
                           rotate_seconds : Nat,               \* -G; 0 without it
                           promisc : BOOLEAN]                  \* TRUE without -p
    /\ MaxFrames \in Nat /\ MaxTime \in Nat

VARIABLES
    opt,            \* the options of each program
    prog,           \* the variables of each program's main
    streams,        \* what each program wrote: to stdout, 0, and its files
    promisc,        \* the interface's promiscuous flag
    found,          \* ghost: its value before any program ran
    clock           \* time(), in seconds

vars == <<opt, prog, streams, promisc, found, clock>>

\* savefp is the number of the stream in use, NULL for none.  failed is a ghost:
\* the program left by an error path, or could not undo promiscuous mode.
NULL  == -1
Start == [pc |-> "open", run |-> TRUE, set_promisc |-> FALSE, savefp |-> NULL,
          file_no |-> 0, now |-> 0, next_rotation_time |-> 0, taken |-> 0,
          failed |-> FALSE]

\* A frame is its number among those received; opened and at are ghosts, the
\* time the stream was opened and the time the frame was taken up for saving.
Blank  == [opened |-> 0, frames |-> <<>>]
Frame(p) == [n |-> prog[p].taken, at |-> prog[p].now]

Init ==
    /\ opt \in [Progs -> Options]
    /\ prog = [p \in Progs |-> Start]
    /\ streams = [p \in Progs |-> [i \in {0} |-> Blank]]
    /\ promisc \in BOOLEAN /\ found = promisc
    /\ clock = 0

-----------------------------------------------------------------------------
Goto(p, next) == prog' = [prog EXCEPT ![p].pc = next]

\* err_*: leave without the steps of a normal end.
Fail(p) == prog' = [prog EXCEPT ![p].pc = "release", ![p].failed = TRUE]

\* rotate_file: the stream in use is closed first, whatever comes of the rest;
\* an existing file of the new number is truncated.  time is the time of the next
\* rotation after it.
RotateFile(p, next, time) ==
    LET no == prog[p].file_no + 1
    IN  \/ /\ streams' = [streams EXCEPT ![p] =
                  [i \in DOMAIN @ \cup {no} |->
                      IF i = no THEN [opened |-> clock, frames |-> <<>>] ELSE @[i]]]
           /\ prog' = [prog EXCEPT ![p].pc = next, ![p].savefp = no, ![p].file_no = no,
                                   ![p].next_rotation_time = time]
        \/ /\ prog' = [prog EXCEPT ![p].pc = "release", ![p].failed = TRUE,
                                   ![p].savefp = NULL, ![p].file_no = no]
           /\ UNCHANGED streams

OpenSave(p) ==
    /\ prog[p].pc = "open"
    /\ \/ /\ opt[p].save = "file"
          /\ RotateFile(p, IF opt[p].rotate_seconds > 0 THEN "start" ELSE "acquire",
                        prog[p].next_rotation_time)
       \/ /\ opt[p].save = "stdout"
          /\ prog' = [prog EXCEPT ![p].pc = "acquire", ![p].savefp = 0]
          /\ UNCHANGED streams
       \/ opt[p].save = "none" /\ Goto(p, "acquire") /\ UNCHANGED streams
    /\ UNCHANGED <<opt, promisc, found, clock>>

\* Once the first file is open main reads the time, from which the first rotation
\* is counted.
StartRotation(p) ==
    /\ prog[p].pc = "start"
    /\ prog' = [prog EXCEPT ![p].pc = "acquire",
                            ![p].next_rotation_time = clock + opt[p].rotate_seconds]
    /\ UNCHANGED <<opt, streams, promisc, found, clock>>

\* The handle, the receive buffer and the filters; any of them may fail.
AcquireRx(p) ==
    /\ prog[p].pc = "acquire"
    /\ Goto(p, "query") \/ Fail(p)
    /\ UNCHANGED <<opt, streams, promisc, found, clock>>

\* Mutant: the flag is taken to be clear.
QueryNothing(p) ==
    /\ prog[p].pc = "query"
    /\ prog' = [prog EXCEPT ![p].pc = "enable", ![p].set_promisc = opt[p].promisc]
    /\ UNCHANGED <<opt, streams, promisc, found, clock>>

QueryPromisc(p) ==
    /\ prog[p].pc = "query"
    /\ prog' = [prog EXCEPT ![p].pc = "enable",
                            ![p].set_promisc = opt[p].promisc /\ ~promisc]
    /\ UNCHANGED <<opt, streams, promisc, found, clock>>

\* Mutant: run is set only now, after the handlers are installed.
EnableThenRun(p) ==
    /\ prog[p].pc = "enable"
    /\ promisc' = (promisc \/ prog[p].set_promisc)
    /\ prog' = [prog EXCEPT ![p].pc = "loop", ![p].run = TRUE]
    /\ UNCHANGED <<opt, streams, found, clock>>

\* The system call may fail, here and in DisablePromisc.
EnablePromisc(p) ==
    /\ prog[p].pc = "enable"
    /\ \/ ~prog[p].set_promisc /\ Goto(p, "loop") /\ UNCHANGED promisc
       \/ prog[p].set_promisc /\ Goto(p, "loop") /\ promisc' = TRUE
       \/ /\ prog[p].set_promisc
          /\ prog' = [prog EXCEPT ![p].pc = "loop", ![p].set_promisc = FALSE]
          /\ UNCHANGED promisc
    /\ UNCHANGED <<opt, streams, found, clock>>

Receive(p) ==
    /\ prog[p].pc = "loop" /\ prog[p].run
    /\ MapThenSumSet(LAMBDA q : prog[q].taken, Progs) < MaxFrames
    /\ prog' = [prog EXCEPT ![p].pc = IF prog[p].savefp = NULL THEN "loop" ELSE "rotate",
                            ![p].taken = @ + 1]
    /\ UNCHANGED <<opt, streams, promisc, found, clock>>

\* The time is read once for a frame; a new file is started, if it is due by that
\* time, before the frame in hand is written.
RotationLate(p) ==              \* mutant: off by one
    opt[p].rotate_seconds > 0 /\ clock > prog[p].next_rotation_time
RotationDue(p) == opt[p].rotate_seconds > 0 /\ clock >= prog[p].next_rotation_time

Rotate(p) ==
    /\ prog[p].pc = "rotate"
    /\ prog' = [prog EXCEPT ![p].pc = IF RotationDue(p) THEN "reopen" ELSE "write",
                            ![p].now = clock]
    /\ UNCHANGED <<opt, streams, promisc, found, clock>>

\* Mutant: the frame that finds rotation due is not written.
ReopenAndDrop(p) ==
    /\ prog[p].pc = "reopen"
    /\ RotateFile(p, "loop", prog[p].now + opt[p].rotate_seconds)
    /\ UNCHANGED <<opt, promisc, found, clock>>

Reopen(p) ==
    /\ prog[p].pc = "reopen"
    /\ RotateFile(p, "write", prog[p].now + opt[p].rotate_seconds)
    /\ UNCHANGED <<opt, promisc, found, clock>>

WritePacket(p) ==
    /\ prog[p].pc = "write"
    /\ streams' = [streams EXCEPT ![p][prog[p].savefp].frames = Append(@, Frame(p))]
    /\ prog' = [prog EXCEPT ![p].pc = "loop", ![p].now = 0]
    /\ UNCHANGED <<opt, promisc, found, clock>>

Stop(p) ==
    /\ prog[p].pc = "loop" /\ ~prog[p].run
    /\ Goto(p, "disable")
    /\ UNCHANGED <<opt, streams, promisc, found, clock>>

DisablePromisc(p) ==
    /\ prog[p].pc = "disable"
    /\ \/ ~prog[p].set_promisc /\ Goto(p, "release") /\ UNCHANGED promisc
       \/ prog[p].set_promisc /\ Goto(p, "release") /\ promisc' = FALSE
       \/ prog[p].set_promisc /\ Fail(p) /\ UNCHANGED promisc
    /\ UNCHANGED <<opt, streams, found, clock>>

\* The receive buffer and the handle are released, the file closed.
Release(p) ==
    /\ prog[p].pc = "release"
    /\ prog' = [prog EXCEPT ![p].pc = "exit", ![p].savefp = NULL]
    /\ UNCHANGED <<opt, streams, promisc, found, clock>>

\* signal_handler, once it is installed.
Signal(p) ==
    /\ prog[p].pc \notin {"open", "start", "acquire", "query", "exit"} /\ prog[p].run
    /\ prog' = [prog EXCEPT ![p].run = FALSE]
    /\ UNCHANGED <<opt, streams, promisc, found, clock>>

Tick ==
    /\ clock < MaxTime
    /\ clock' = clock + 1
    /\ UNCHANGED <<opt, prog, streams, promisc, found>>

Step(p) ==
    \/ OpenSave(p) \/ StartRotation(p) \/ AcquireRx(p) \/ QueryPromisc(p)
    \/ EnablePromisc(p) \/ Receive(p) \/ Rotate(p) \/ Reopen(p) \/ WritePacket(p)
    \/ Stop(p) \/ DisablePromisc(p) \/ Release(p)

Next == Tick \/ \E p \in Progs : Step(p) \/ Signal(p)

Spec == Init /\ [][Next]_vars
FairSpec == Spec /\ \A p \in Progs : WF_vars(Step(p))

-----------------------------------------------------------------------------
\* Whatever stops a program, its streams in order hold every frame it received,
\* once and in order, up to the one in hand: none is lost or doubled at a
\* rotation, and no file is opened twice.
Number(p, i, j) == streams[p][i].frames[j].n

SavedUpTo(p, last) ==
    /\ \A n \in 1 .. last : \E i \in DOMAIN streams[p] :
           \E j \in DOMAIN streams[p][i].frames : Number(p, i, j) = n
    /\ \A i \in DOMAIN streams[p] : \A j \in DOMAIN streams[p][i].frames :
           /\ Number(p, i, j) \in 1 .. last
           /\ \A k \in DOMAIN streams[p] : \A l \in DOMAIN streams[p][k].frames :
                  i < k \/ (i = k /\ j < l) => Number(p, i, j) < Number(p, k, l)

InHand(p) == prog[p].pc \in {"rotate", "reopen", "write"} \/ prog[p].failed

EveryFrameSaved ==
    \A p \in Progs : opt[p].save # "none" =>
        SavedUpTo(p, prog[p].taken) \/ (InHand(p) /\ SavedUpTo(p, prog[p].taken - 1))

\* "rotate to a new save file every N seconds": the frames of one file were taken up
\* less than N seconds apart, and less than N seconds after the file was opened,
\* however the clock moves between main's readings of it.  The second does not hold
\* of the file opened at start-up: main reads the time some time after opening it.
FirstFile(p, i) == opt[p].save = "file" /\ i = 1

FileSpan ==
    \A p \in Progs : opt[p].rotate_seconds > 0 =>
        \A i \in DOMAIN streams[p] : \A j \in 1 .. Len(streams[p][i].frames) :
            LET frames == streams[p][i].frames
                N      == opt[p].rotate_seconds
            IN  /\ \A k \in 1 .. Len(frames) : frames[k].at < frames[j].at + N
                /\ frames[j].at < streams[p][i].opened + N \/ FirstFile(p, i)

\* When all programs are done the interface is as it was before the first,
\* however their reads and writes of the flag fell; except that a program that
\* could not rotate its file, or not reset the flag, leaves the flag set.
InterfaceRestored ==
    (\A p \in Progs : prog[p].pc = "exit" /\ ~(prog[p].failed /\ prog[p].set_promisc))
        => promisc = found

\* A signal stops the program, whatever it is doing.
StopsOnSignal == \A p \in Progs : ~prog[p].run ~> prog[p].pc = "exit"
=============================================================================
