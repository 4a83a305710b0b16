------------------------------ MODULE MCCapture ------------------------------
(***************************************************************************)
(* TLC instances of Capture: command lines for each kind of output.        *)
(***************************************************************************)
EXTENDS Capture

\* A capture that rotates its file, one whose "file" is stdout, and one that
\* only prints, without promiscuous mode.
CommandLines ==
    {[save |-> "file",   rotate_seconds |-> 1, promisc |-> TRUE],
     [save |-> "stdout", rotate_seconds |-> 1, promisc |-> TRUE],
     [save |-> "none",   rotate_seconds |-> 0, promisc |-> FALSE]}
=============================================================================
