----------------------------- MODULE RxChunkInv -----------------------------
(***************************************************************************)
(* The inductive invariant of RxChunk, proved for all constants in         *)
(* RxChunk_proofs: where a frame being put together stands in the stream,  *)
(* and what is known of the chunk in hand while the card may overwrite it. *)
(***************************************************************************)
EXTENDS RxChunk, RxRingInv

\* b is the beginning of the frame of tag t, up to and with t, or up to but
\* without t.
Piece(b, t) == \A i \in 1 .. Len(b) : b[i].frame = t.frame /\ b[i].k = i
Taken(b, t) ==
    /\ b # <<>> /\ b[Len(b)] = t
    /\ Piece(b, t) /\ \A i \in 1 .. Len(b) - 1 : ~IsEnd(b[i])
Leads(b, t) == Len(b) + 1 = t.k /\ Piece(b, t) /\ \A i \in 1 .. Len(b) : ~IsEnd(b[i])

InHand == {"copy", "check", "hold", "recheck"}

\* Between chunks: the reader's place is the first chunk of a frame, or the next
\* one of the frame being taken.
BetweenInv ==
    pc \in {"idle", "read"} /\ rx.aligned =>
        /\ ~in_frame => FrameStarts(rx.generation, rx.next_chunk)
        /\ in_frame /\ ~caught =>
               /\ Taken(frame, frame[Len(frame)]) /\ ~IsEnd(frame[Len(frame)])
               /\ Continues(rx.generation, rx.next_chunk, frame[Len(frame)])

\* The info word in hand: its chunk may be overwritten since, the reader's place
\* is after it.
InfoInv ==
    pc \in InHand =>
        /\ Before(u.lap, u.chunk, hw.lap, hw.chunk)
        /\ buffer[u.chunk].lap = u.lap => buffer[u.chunk].info = u.tag
        /\ rx.generation = NextLap(u.lap, u.chunk) /\ rx.next_chunk = NextChunk(u.chunk)
        /\ Continues(rx.generation, rx.next_chunk, u.tag)

\* The payload in hand: it is the one the info word was read for if the card has
\* not come round to its chunk when the call looks.
PayloadInv ==
    rx.aligned /\ ~caught =>
        /\ pc \in {"copy", "hold"} => Leads(frame, u.tag)
        /\ pc = "check" /\ CardPos < Pos(u.lap, u.chunk) + N => Taken(frame, u.tag)
        /\ pc = "recheck" /\ buffer[u.chunk].lap = u.lap
                          /\ ~(hw.writing /\ hw.chunk = u.chunk) => Taken(frame, u.tag)

\* The sentinel that decides whether a copy is good is before the chunk copied,
\* and not so old that its generation could have come round.
SentinelInv ==
    /\ pc = "read" /\ api \in Copying => rx.generation - rx.sentinel_generation <= MaxStale
    /\ pc \in {"copy", "check"} =>
           /\ Before(old.generation, old.chunk, u.lap, u.chunk)
           /\ rx.generation - old.generation <= MaxStale + 1

\* What the out parameters and the caller know.
CallInv ==
    /\ pc = "read" => (~in_frame => frame = <<>> /\ ~caught)
    /\ pc \in {"hold", "recheck"} =>
           /\ chunk_id = (u.lap % G) * N + u.chunk
           /\ in_frame = ~IsEnd(u.tag) /\ more_chunks = in_frame /\ ~Reports(u)
    /\ pc \notin {"idle", "scan"} => ret = "none"
    /\ pc = "scan" => ret \in {"acquired", "swovfl"} /\ ~in_frame

ScanInv == pc = "scan" => ScanFound

ChunkInv ==
    /\ TypeOK /\ RingInv /\ PlaceInv /\ ScanInv /\ WithinLag(OldestInUse)
    /\ BetweenInv /\ InfoInv /\ PayloadInv /\ SentinelInv /\ CallInv /\ AssembledWhole
=============================================================================
