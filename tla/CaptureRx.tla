------------------------------ MODULE CaptureRx ------------------------------
(***************************************************************************)
(* exanic_receive_frame_ex (main.c): the capture program's own copy of     *)
(* exanic_receive_frame.  It differs in two places: the last chunk is      *)
(* returned without a sentinel check, and the sentinel is never moved.     *)
(***************************************************************************)
EXTENDS RxFrame

\* The last chunk fits: copy it and return the frame.
ReturnFrame ==
    /\ pc = "copy" /\ IsEnd(u.tag) /\ size < BufChunks
    /\ rx_buf' = Append(rx_buf, buffer[u.chunk].payload)
    /\ rx' = Advanced
    /\ Return(IF u.tag.status = "ok" THEN "frame" ELSE "error")
    /\ UNCHANGED <<buffer, hw, scan>>

OldestRead == CASE pc = "acquire" -> hw.lap
                [] pc = "scan"    -> scan.floor
                [] OTHER          -> rx.generation

CaptureCard == (HwPayload(OldestRead) \/ HwInfo) /\ UNCHANGED callVars

CaptureReceive == ReadNext \/ NoNewFrame \/ Lapped \/ CopyMore \/ Truncate
                  \/ ReturnFrame \/ Catchup

CaptureNext == CaptureCard \/ Acquire \/ Call \/ CaptureReceive

CaptureFinishFrame ==
    ((~IsEnd(hw.tag) /\ HwPayload(OldestRead)) \/ HwInfo) /\ UNCHANGED callVars

CaptureSpec == Init /\ [][CaptureNext]_vars
CaptureFairSpec == CaptureSpec /\ WF_vars(CaptureFinishFrame)
                               /\ WF_vars(Acquire \/ Call \/ CaptureReceive)

-----------------------------------------------------------------------------
\* What remains true without the sentinel: a frame returned while the card has
\* not come round to its first chunk is whole, so a torn one is always the
\* card's doing, never a reader that has mixed up its chunks.
WholeUnlessLapped ==
    ret \in {"frame", "error"} /\ rx.aligned /\ CardPos < ReaderPos - Len(rx_buf) + N
        => WholeFrame(rx_buf)

\* "The frame is good for further processing": a frame returned with
\* EXANIC_RX_FRAME_OK is one whole frame.
GoodFrame == ret = "frame" /\ rx.aligned => WholeFrame(rx_buf)
=============================================================================
