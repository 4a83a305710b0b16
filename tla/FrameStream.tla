----------------------------- MODULE FrameStream -----------------------------
(***************************************************************************)
(* What exanic_receive_frame promises a caller whose buffer holds any      *)
(* frame: the card produces a stream of chunks, and each call takes the    *)
(* next frame off it, says that there is none, or owns up to an overflow.  *)
(* Nothing is skipped, repeated or reordered without an overflow report,   *)
(* and an overflow is reported only when the card has come within reach    *)
(* of the frame being taken.  No ring, no generations and no sentinel.     *)
(***************************************************************************)
EXTENDS Naturals

CONSTANTS
    Slack,      \* chunks the card may be ahead before data is lost
    Start,      \* where the stream starts
    MaxFrame    \* most chunks a frame occupies

VARIABLES
    head,       \* chunks written so far
    pos,        \* chunks taken so far
    ret,        \* result of the last call
    frame       \* the frame it returned: its first chunk and its length

streamVars == <<head, pos, ret, frame>>

Nothing == <<0, 0>>

StreamInit == head = Start /\ pos = Start /\ ret = "none" /\ frame = Nothing

Produce == head' = head + 1 /\ UNCHANGED <<pos, ret, frame>>

Invoke == ret' = "none" /\ frame' = Nothing /\ UNCHANGED <<head, pos>>

Attach == ret = "none" /\ ret' = "acquired" /\ pos' \in pos .. head /\ UNCHANGED <<head, frame>>

Empty == ret = "none" /\ pos = head /\ ret' = "empty" /\ UNCHANGED <<head, pos, frame>>

Take(n) ==
    /\ ret = "none"
    /\ pos + n <= head
    /\ head < pos + Slack
    /\ pos' = pos + n
    /\ frame' = <<pos, n>>
    /\ ret' \in {"frame", "error"}
    /\ UNCHANGED head

Overflow ==
    /\ ret = "none"
    /\ head >= pos + Slack
    /\ pos' \in pos + 1 .. head
    /\ ret' = "swovfl"
    /\ UNCHANGED <<head, frame>>

StreamNext == Produce \/ Invoke \/ Attach \/ Empty \/ (\E n \in 1 .. MaxFrame : Take(n)) \/ Overflow

StreamSpec == StreamInit /\ [][StreamNext]_streamVars
=============================================================================
