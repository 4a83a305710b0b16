------------------------------ MODULE MCRxFrame ------------------------------
(***************************************************************************)
(* TLC instances of RxFrame, and the refinement of FrameStream: the place  *)
(* in the stream is where the call in progress started, and the ring, the  *)
(* sentinel and the catch-up are hidden.                                   *)
(***************************************************************************)
EXTENDS RxFrameInv

Returned == IF ret \in {"frame", "error"}
            THEN <<Pos(rx_buf[1].frame[1], rx_buf[1].frame[2]), Len(rx_buf)>>
            ELSE <<0, 0>>

Stream == INSTANCE FrameStream WITH
            Slack <- N,
            Start <- Pos(G, 0),
            head  <- CardPos,
            pos   <- ReaderPos - size,
            ret   <- IF pc = "scan" THEN "none" ELSE ret,
            frame <- Returned

\* With buffers that hold any frame, the calls implement the promise: frames
\* come whole, each exactly once and in the order received, an empty return is
\* true, and frames go missing only when an overflow is reported.
StreamRefined == Stream!StreamSpec
=============================================================================
