------------------------------- MODULE RxFrame -------------------------------
(***************************************************************************)
(* exanic_receive_frame (libs/exanic/fifo_rx.c): one reader takes whole    *)
(* frames out of the ring of RxRing while the card goes on writing.        *)
(*                                                                         *)
(* Every step makes at most one read of the shared ring, so the card can   *)
(* write between any two reads of the call: between the info word of a     *)
(* chunk and its payload, between two chunks of a frame, and between the   *)
(* last memcpy and the sentinel check that decides whether the copy is     *)
(* still whole.                                                            *)
(*                                                                         *)
(* Sizes are counted in chunks.                                            *)
(***************************************************************************)
EXTENDS RxRing

CONSTANT BufChunks      \* rx_buf_size

ASSUME BufAssumption == BufChunks \in Nat

VARIABLES
    pc,         \* where the reader is
    u,          \* the info word read last, with its chunk
    rx_buf,     \* the payloads copied so far
    size,       \* chunks taken by this call, copied or not
    ret         \* what the last call returned, "none" during a call

callVars == <<pc, u, rx_buf, size, ret>>
vars == <<ringVars, callVars>>

Locations == {"acquire", "idle", "call", "copy", "spin", "check", "scan"}
Returns   == {"none", "acquired", "frame", "error", "truncated", "empty", "swovfl"}

NoInfo == [tag |-> BlankTag, lap |-> G - 1, chunk |-> 0]

Init ==
    /\ RingInit
    /\ pc = "acquire" /\ u = NoInfo /\ rx_buf = <<>> /\ size = 0 /\ ret = "none"

TypeOK ==
    /\ RingTypeOK
    /\ pc \in Locations
    /\ u \in [tag : Tag, lap : Laps, chunk : Chunks]
    /\ rx_buf \in Seq(Tag)
    /\ size \in Nat
    /\ ret \in Returns

-----------------------------------------------------------------------------
\* Leave the call with result r; the locals die.
Return(r) == pc' = "idle" /\ ret' = r /\ u' = NoInfo /\ size' = 0

\* The last statement of exanic_acquire_rx_buffer looks for a place to start.
Acquire ==
    /\ pc = "acquire"
    /\ CatchupBegin /\ pc' = "scan" /\ ret' = "acquired"
    /\ UNCHANGED <<buffer, hw, rx, u, rx_buf, size>>

Call ==
    /\ pc = "idle"
    /\ pc' = "call" /\ ret' = "none" /\ rx_buf' = <<>>
    /\ UNCHANGED <<ringVars, u, size>>

ReadNext ==
    /\ pc \in {"call", "spin"} /\ IsNext
    /\ u' = Info /\ pc' = "copy"
    /\ UNCHANGED <<ringVars, rx_buf, size, ret>>

\* Mutant: an overrun is not told from an empty ring.
NoNewFrameLoose ==
    /\ pc = "call" /\ ~IsNext
    /\ Return("empty")
    /\ UNCHANGED <<ringVars, rx_buf>>

NoNewFrame ==
    /\ pc = "call" /\ ~IsNext /\ IsOld
    /\ Return("empty")
    /\ UNCHANGED <<ringVars, rx_buf>>

\* Mutants: a spin does not notice an overrun; the catch-up is forgotten.
LappedInCall ==
    /\ ~IsNext /\ ~IsOld
    /\ \/ /\ pc = "call"
          /\ CatchupBegin /\ pc' = "scan" /\ ret' = "swovfl"
          /\ UNCHANGED <<buffer, hw, rx, u, rx_buf, size>>
       \/ pc = "spin" /\ UNCHANGED vars

LappedNoCatchup ==
    /\ pc \in {"call", "spin"} /\ ~IsNext /\ ~IsOld
    /\ Return("swovfl")
    /\ UNCHANGED <<ringVars, rx_buf>>

\* In a spin IsOld is tested first: while it holds the loop goes on.
Lapped ==
    /\ pc \in {"call", "spin"} /\ ~IsNext /\ ~IsOld
    /\ CatchupBegin /\ pc' = "scan" /\ ret' = "swovfl"
    /\ UNCHANGED <<buffer, hw, rx, u, rx_buf, size>>

\* A chunk of a frame that goes on.
CopyMore ==
    /\ pc = "copy" /\ ~IsEnd(u.tag)
    /\ rx_buf' = IF size < BufChunks THEN Append(rx_buf, buffer[u.chunk].payload)
                                     ELSE rx_buf
    /\ size' = size + 1
    /\ rx' = Advanced
    /\ pc' = "spin"
    /\ UNCHANGED <<buffer, hw, scan, u, ret>>

\* Mutant: the place is not moved past the last chunk.
TruncateInPlace ==
    /\ pc = "copy" /\ IsEnd(u.tag) /\ size >= BufChunks
    /\ Return("truncated")
    /\ UNCHANGED <<ringVars, rx_buf>>

\* The last chunk does not fit: return at once, the sentinel where it was.
Truncate ==
    /\ pc = "copy" /\ IsEnd(u.tag) /\ size >= BufChunks
    /\ rx' = Advanced
    /\ Return("truncated")
    /\ UNCHANGED <<buffer, hw, scan, rx_buf>>

CopyLast ==
    /\ pc = "copy" /\ IsEnd(u.tag) /\ size < BufChunks
    /\ rx_buf' = Append(rx_buf, buffer[u.chunk].payload)
    /\ size' = size + 1
    /\ rx' = Advanced
    /\ pc' = "check"
    /\ UNCHANGED <<buffer, hw, scan, u, ret>>

\* Mutants: the sentinel is moved before the check; it is not moved at all.
SentinelMovedFirst == SameGen(buffer[u.chunk].lap, u.lap)
SentinelLeft       == rx

\* Move the sentinel to the chunk just copied and look whether the card has
\* overwritten the one before: the frame came after it, so if it is still
\* there so was the frame.
SentinelIntact == SameGen(buffer[rx.sentinel_chunk].lap, rx.sentinel_generation)
MovedSentinel  == [rx EXCEPT !.sentinel_chunk = u.chunk, !.sentinel_generation = u.lap]

\* Mutant: the error bits of frame_status are ignored.
DeliverUnmasked ==
    /\ pc = "check" /\ SentinelIntact
    /\ rx' = MovedSentinel
    /\ Return("frame")
    /\ UNCHANGED <<buffer, hw, scan, rx_buf>>

Deliver ==
    /\ pc = "check" /\ SentinelIntact
    /\ rx' = MovedSentinel
    /\ Return(IF u.tag.status = "ok" THEN "frame" ELSE "error")
    /\ UNCHANGED <<buffer, hw, scan, rx_buf>>

Overwritten ==
    /\ pc = "check" /\ ~SentinelIntact
    /\ rx' = MovedSentinel
    /\ CatchupBegin /\ pc' = "scan" /\ ret' = "swovfl"
    /\ UNCHANGED <<buffer, hw, u, rx_buf, size>>

Catchup ==
    /\ pc = "scan"
    /\ \/ CatchupRead /\ UNCHANGED callVars
       \/ CatchupEnd /\ Return(ret) /\ UNCHANGED rx_buf

-----------------------------------------------------------------------------
\* The oldest lap the reader still compares a generation with.
OldestInUse == CASE pc = "acquire" -> hw.lap
                 [] pc = "scan"    -> scan.floor
                 [] OTHER          -> rx.sentinel_generation

Card == (HwPayload(OldestInUse) \/ HwInfo) /\ UNCHANGED callVars

Receive == ReadNext \/ NoNewFrame \/ Lapped \/ CopyMore \/ Truncate \/ CopyLast
           \/ Deliver \/ Overwritten \/ Catchup

Next == Card \/ Acquire \/ Call \/ Receive

\* The card finishes the frame it is receiving; the caller calls again and
\* a call in progress takes its steps.
FinishFrame == ((~IsEnd(hw.tag) /\ HwPayload(OldestInUse)) \/ HwInfo) /\ UNCHANGED callVars

Spec == Init /\ [][Next]_vars
FairSpec == Spec /\ WF_vars(FinishFrame) /\ WF_vars(Acquire \/ Call \/ Receive)

-----------------------------------------------------------------------------
(* What a returned buffer is.                                              *)

\* exanic_receive_frame never hands out a frame the card has started to
\* overwrite, nor pieces of two frames, however the card's writes fall
\* between the reads of the call.
NoTornFrame ==
    ret \in {"frame", "error"} /\ rx.aligned => WholeFrame(rx_buf)

\* A frame received with an error status is never returned as good, and a good
\* one never as an error (the status comes from the info word, the data from
\* the payload, at different times).
StatusOfTheData ==
    ret \in {"frame", "error"} /\ rx.aligned =>
        (rx_buf[Len(rx_buf)].status = "ok") = (ret = "frame")

\* The catch-up always finds an end of frame, although the card writes while
\* it scans: the fallback that may start in the middle of a frame is not used.
FallbackUnused == rx.aligned

\* "0 if no frame is available": an empty return means the chunk awaited had
\* not been written when the call looked.
EmptyMeansEmpty == [][ret' = "empty" /\ ret # "empty" => AtCard]_vars

\* "One or more frames were lost due to software overflow": when a call finds
\* itself overrun, the card has come round to the first chunk of the frame the
\* call was taking.
OverflowMeansLapped ==
    [][ret' = "swovfl" /\ ret = "none" => CardPos >= ReaderPos - size + N]_vars

\* A call always returns: the spin on the next chunk ends because the card
\* finishes its frames or overwrites the chunk awaited.
CallReturns == pc = "call" ~> pc = "idle"

\* Once the card stops, everything it has written is taken: no position is lost
\* track of, whatever overflows came before.
Drained == <>[]AtCard
=============================================================================
