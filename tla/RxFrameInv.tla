----------------------------- MODULE RxFrameInv -----------------------------
(***************************************************************************)
(* The inductive invariant of RxFrame.  TLC checks it on the instances of  *)
(* MCRxFrame, RxFrame_proofs proves it for all constants.                  *)
(*                                                                         *)
(* ReaderInv is what exanic_receive_frame and the capture program's copy   *)
(* of it have in common; IInv adds the sentinel.                           *)
(***************************************************************************)
EXTENDS RxFrame, RxRingInv

ScanInv == pc = "scan" => ScanFound

(* The call in progress.                                                   *)

\* The info word in hand: the chunk it came from may be overwritten since.
InfoInv ==
    /\ pc \in {"copy", "spin", "check"} =>
           /\ Before(u.lap, u.chunk, hw.lap, hw.chunk)
           /\ buffer[u.chunk].lap = u.lap => buffer[u.chunk].info = u.tag
           /\ Continues(NextLap(u.lap, u.chunk), NextChunk(u.chunk), u.tag)
           /\ TagFits(u.tag) /\ StartsAt(u.tag, Pos(u.lap, u.chunk))
    /\ pc = "copy" => rx.generation = u.lap /\ rx.next_chunk = u.chunk
    /\ pc \in {"spin", "check"} => /\ rx.generation = NextLap(u.lap, u.chunk)
                                   /\ rx.next_chunk = NextChunk(u.chunk)
                                   /\ IsEnd(u.tag) <=> pc = "check"

\* The first chunk of the frame, and with it all that the call has read, is not
\* overwritten.
Ahead == rx.aligned /\ CardPos < ReaderPos - size + N

CopiedSoFar ==
    \A i \in 1 .. size : /\ rx_buf[i].frame = u.tag.frame
                         /\ rx_buf[i].k = i
                         /\ ~IsEnd(rx_buf[i])

CopyInv ==
    /\ pc \in {"idle", "call"} =>
           /\ size = 0
           /\ rx.aligned => FrameStarts(rx.generation, rx.next_chunk)
    /\ pc = "call" => rx_buf = <<>>
    /\ pc = "copy" => u.tag.k > size /\ (rx.aligned => u.tag.k = size + 1)
    /\ pc = "spin" => size > 0 /\ u.tag.k >= size /\ (rx.aligned => u.tag.k = size)
    /\ pc \in {"copy", "spin"} /\ size <= BufChunks =>
           /\ Len(rx_buf) = size
           /\ Ahead => CopiedSoFar
    /\ pc = "check" /\ Ahead => /\ WholeFrame(rx_buf) /\ Len(rx_buf) = size
                                /\ rx_buf[Len(rx_buf)] = u.tag
                                /\ rx_buf[1].frame = u.tag.frame

RetInv ==
    /\ pc \in {"acquire", "call", "copy", "spin", "check"} => ret = "none"
    /\ pc = "scan" => ret \in {"acquired", "swovfl"}

ReaderInv == TypeOK /\ RingInv /\ PlaceInv /\ ScanInv /\ InfoInv /\ CopyInv /\ RetInv

\* The sentinel is before the first chunk of the frame being taken.
SentinelInv ==
    pc # "scan" => Pos(rx.sentinel_generation, rx.sentinel_chunk) < ReaderPos - size

LagInv == WithinLag(OldestInUse)

IInv == /\ ReaderInv /\ SentinelInv /\ LagInv
        /\ pc = "idle" => NoTornFrame /\ StatusOfTheData

-----------------------------------------------------------------------------
(* What holds besides if frames are short in relation to the ring and to   *)
(* the buffer.                                                             *)

AlignedInv == rx.aligned /\ (pc = "scan" => NoEndYet)

\* No frame is truncated.
RoomyBuffer == BufChunks >= MaxFrame

\* Every chunk before the reader's place has been handed over or reported lost:
\* the frame being taken starts after the sentinel, and a catch-up does not go
\* back beyond it.
TightInv ==
    /\ pc # "scan" => Pos(rx.sentinel_generation, rx.sentinel_chunk) + 1 = ReaderPos - size
    /\ pc = "acquire" \/ (pc = "scan" /\ ret = "acquired") => ReaderPos - size = Pos(G, 0)
    /\ pc = "scan" /\ ret = "swovfl" =>
           /\ CardPos >= ReaderPos - size + N
           /\ scan.left < N => Pos(scan.break_gen, scan.break_chunk) >= ReaderPos - size
           /\ scan.eof_found => Pos(scan.eof_gen, scan.eof_chunk) >= ReaderPos - size
=============================================================================
