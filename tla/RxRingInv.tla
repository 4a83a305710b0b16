------------------------------ MODULE RxRingInv ------------------------------
(***************************************************************************)
(* What is invariantly true of the ring of RxRing, and of a catch-up over  *)
(* it, whatever calls the reader makes.  The invariants of the modules     *)
(* over the ring are built from it.                                        *)
(***************************************************************************)
EXTENDS RxRing

(* The ring.  Chunks behind the card carry its lap, the others the lap     *)
(* before.  Payload and info word agree except in the chunk being written, *)
(* and consecutive chunks hold consecutive pieces of the stream, except    *)
(* across the card's position.                                             *)

Follows(s, t) == IF IsEnd(s) THEN t.k = 1 ELSE t.frame = s.frame /\ t.k = s.k + 1

LapsInv == \A c \in Chunks : buffer[c].lap = IF c < hw.chunk THEN hw.lap ELSE hw.lap - 1

DataInv ==
    /\ \A c \in Chunks : (hw.writing => c # hw.chunk) => buffer[c].payload = buffer[c].info
    /\ \A c \in Chunks : NextChunk(c) # hw.chunk =>
           Follows(buffer[c].info, buffer[NextChunk(c)].info)
    /\ \A c \in Chunks : NextChunk(c) = hw.chunk =>
           IF hw.writing THEN Follows(buffer[c].info, hw.tag)
                         ELSE hw.tag = buffer[c].info
    /\ hw.writing => buffer[hw.chunk].payload = hw.tag

\* A frame has at most MaxFrame chunks, and a tag names the place where its
\* frame starts.
TagFits(t) == t.k <= MaxFrame /\ (IsEnd(t) \/ t.k < MaxFrame)
StartsAt(t, pos) == Pos(t.frame[1], t.frame[2]) + t.k = pos + 1

FramesInv ==
    /\ \A c \in Chunks :
           /\ TagFits(buffer[c].info)
           /\ IF buffer[c].lap >= G THEN StartsAt(buffer[c].info, Pos(buffer[c].lap, c))
                                    ELSE buffer[c].info = BlankTag
    /\ TagFits(hw.tag)
    /\ hw.writing => StartsAt(hw.tag, CardPos)
    /\ ~hw.writing /\ ~IsEnd(hw.tag) => StartsAt(hw.tag, CardPos - 1)

RingInv == hw.lap >= G /\ LapsInv /\ DataInv /\ FramesInv

(* What a reader may rely on.                                              *)

\* No lap in the ring is so far from the oldest one in use that their
\* generations could be confused.
WithinLag(oldest) ==
    /\ \A c \in Chunks : buffer[c].lap <= oldest + MaxLag
    /\ hw.writing => hw.lap <= oldest + MaxLag

\* What is, or will be, written at a place that the card has not passed again
\* is what comes after tag s.  Any end of frame will do for "a frame starts".
SameSpot(s, t) == IF IsEnd(s) THEN IsEnd(t)
                              ELSE ~IsEnd(t) /\ t.frame = s.frame /\ t.k = s.k
Continues(lap, chunk, s) ==
    /\ buffer[chunk].lap = lap => Follows(s, buffer[chunk].info)
    /\ hw.lap = lap /\ hw.chunk = chunk =>
           IF hw.writing THEN Follows(s, hw.tag) ELSE SameSpot(s, hw.tag)

FrameStarts(lap, chunk) == Continues(lap, chunk, BlankTag)

\* The reader's place: not beyond the card, its sentinel behind it, and no chunk
\* that was never written is taken for a frame.
PlaceInv == PositionsOrdered /\ rx.generation >= G

(* A catch-up.  What it has found is behind the card and not older than    *)
(* the lap before the one it began in; after its end of frame a frame      *)
(* starts.                                                                 *)

Found(gen, chunk) ==
    /\ scan.floor <= gen
    /\ Before(gen, chunk, hw.lap, hw.chunk)
    /\ G <= NextLap(gen, chunk)

ScanFound ==
    /\ G - 1 <= scan.floor /\ scan.floor < hw.lap
    /\ scan.left = N => ~scan.before_break
    /\ scan.left < N =>
           /\ Found(scan.break_gen, scan.break_chunk)
           /\ scan.left <= scan.break_chunk
           /\ scan.break_gen < G => scan.eof_found /\ ~scan.before_break
    /\ scan.eof_found =>
           /\ scan.left < N
           /\ Found(scan.eof_gen, scan.eof_chunk)
           /\ FrameStarts(NextLap(scan.eof_gen, scan.eof_chunk), NextChunk(scan.eof_chunk))

\* A ring of as many chunks, whatever laps they are of, holds an end of frame.
RoomyRing == N > (MaxLag + 1) * (MaxFrame - 1)

\* As long as no end of frame is found, each lap read so far has contributed
\* at most the chunks of one frame.
NoEndYet ==
    scan.left < N /\ ~scan.eof_found =>
        /\ N - 1 - scan.break_chunk <= (scan.break_gen - scan.floor) * (MaxFrame - 1)
        /\ scan.break_gen <= scan.floor + MaxLag
        /\ scan.break_chunk - scan.left < MaxFrame - 1
        /\ buffer[scan.left].lap = scan.break_gen =>
               /\ ~IsEnd(buffer[scan.left].info) /\ ~IsEnd(buffer[scan.break_chunk].info)
               /\ buffer[scan.break_chunk].info.k =
                      buffer[scan.left].info.k + (scan.break_chunk - scan.left)
=============================================================================
