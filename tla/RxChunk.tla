------------------------------- MODULE RxChunk -------------------------------
(***************************************************************************)
(* The chunk calls of libs/exanic/fifo_rx.{c,h}: a caller takes a frame    *)
(* off the ring of RxRing chunk by chunk, through a copy                   *)
(* (exanic_receive_chunk, _ex) or through a pointer into the ring          *)
(* (exanic_receive_chunk_inplace, _ex) that it rechecks after use, and may *)
(* skip the rest of a frame (exanic_receive_abort).                        *)
(*                                                                         *)
(* The copying calls move the sentinel, the others leave it behind, and    *)
(* one caller may mix them.                                                *)
(***************************************************************************)
EXTENDS RxRing

CONSTANTS
    Apis,       \* the calls the caller uses
    MaxStale    \* bound: laps the sentinel is behind when a copying call starts

Copying == {"chunk", "chunk_ex"}
Ex      == {"chunk_ex", "inplace_ex"}     \* these leave frame_status to the caller

ASSUME ChunkAssumption ==
    /\ Apis \subseteq Copying \cup Ex \cup {"inplace"}
    /\ MaxStale \in Nat
    /\ MaxLag + MaxStale + 1 < G

VARIABLES
    pc,             \* where the caller's thread is
    api,            \* the chunk call in progress
    u,              \* the info word read last, with its chunk
    old,            \* the sentinel as it was before the call moved it
    more_chunks,    \* the out parameter
    chunk_id,       \* the out parameter, for exanic_receive_chunk_recheck
    ret,            \* what the last call returned, "none" during a call
    frame,          \* caller: the chunks of the frame taken so far
    in_frame,       \* caller: the last chunk of the frame has not been taken
    caught          \* ghost: the card was inside a chunk of frame when rechecked

callVars == <<pc, api, u, old, more_chunks, chunk_id, ret, frame, in_frame, caught>>
vars == <<ringVars, callVars>>

NoInfo == [tag |-> BlankTag, lap |-> G - 1, chunk |-> 0]
NoOld  == [chunk |-> 0, generation |-> G - 1]

Init ==
    /\ RingInit
    /\ pc = "acquire" /\ api = "none" /\ u = NoInfo /\ old = NoOld
    /\ more_chunks = FALSE /\ chunk_id = 0 /\ ret = "none"
    /\ frame = <<>> /\ in_frame = FALSE /\ caught = FALSE

TypeOK ==
    /\ RingTypeOK
    /\ pc \in {"acquire", "idle", "read", "copy", "check", "hold", "recheck", "abort", "scan"}
    /\ api \in Apis \cup {"none"}
    /\ u \in [tag : Tag, lap : Laps, chunk : Chunks]
    /\ old \in [chunk : Chunks, generation : Laps]
    /\ more_chunks \in BOOLEAN /\ in_frame \in BOOLEAN /\ caught \in BOOLEAN
    /\ chunk_id \in 0 .. G * N - 1
    /\ ret \in {"none", "acquired", "empty", "swovfl", "chunk", "last", "error",
                "overwritten", "skipped", "skipped error"}
    /\ frame \in Seq(Tag)

-----------------------------------------------------------------------------
\* Leave the call with result r; the locals, and the chunk id, are done with.
Forget    == api' = "none" /\ u' = NoInfo /\ old' = NoOld /\ chunk_id' = 0
Return(r) == pc' = "idle" /\ ret' = r /\ Forget

\* __exanic_rx_catchup; the call returns r after it, and the frame is lost.
CatchUp(r) ==
    /\ CatchupBegin
    /\ pc' = "scan" /\ ret' = r /\ in_frame' = FALSE
    /\ Forget
    /\ UNCHANGED <<buffer, hw, rx, more_chunks, frame, caught>>

Acquire == pc = "acquire" /\ CatchUp("acquired")

ReceiveChunk(a) ==
    /\ pc = "idle"
    /\ a \in Copying => rx.generation - rx.sentinel_generation <= MaxStale
    /\ pc' = "read" /\ api' = a /\ ret' = "none"
    /\ frame' = IF in_frame THEN frame ELSE <<>>
    /\ caught' = (in_frame /\ caught)
    /\ UNCHANGED <<ringVars, u, old, more_chunks, chunk_id, in_frame>>

NoNewData ==
    /\ pc = "read" /\ ~IsNext /\ IsOld
    /\ Return("empty")
    /\ UNCHANGED <<ringVars, more_chunks, frame, in_frame, caught>>

\* Mutant: skipping does not notice an overrun and goes on looking.
LappedInRead ==
    /\ ~IsNext /\ ~IsOld
    /\ \/ pc = "read" /\ CatchUp("swovfl")
       \/ pc = "abort" /\ UNCHANGED vars

Lapped == pc \in {"read", "abort"} /\ ~IsNext /\ ~IsOld /\ CatchUp("swovfl")

\* What a chunk with info word i makes the call return and store.  Its last
\* chunk ends the frame; a call that reports its error leaves more_chunks alone.
Reports(i) == IsEnd(i.tag) /\ i.tag.status = "error" /\ api \notin Ex
Took(i) ==
    /\ in_frame' = ~IsEnd(i.tag)
    /\ more_chunks' = IF Reports(i) THEN more_chunks ELSE ~IsEnd(i.tag)
Outcome(i) == IF Reports(i) THEN "error" ELSE IF IsEnd(i.tag) THEN "last" ELSE "chunk"

-----------------------------------------------------------------------------
(* exanic_receive_chunk and exanic_receive_chunk_ex                        *)

MovedSentinel == [Advanced EXCEPT !.sentinel_chunk = rx.next_chunk,
                                  !.sentinel_generation = Info.lap]

TakeChunk ==
    /\ pc = "read" /\ api \in Copying /\ IsNext
    /\ u' = Info
    /\ old' = [chunk |-> rx.sentinel_chunk, generation |-> rx.sentinel_generation]
    /\ rx' = MovedSentinel
    /\ pc' = "copy"
    /\ UNCHANGED <<buffer, hw, scan, api, more_chunks, chunk_id, ret, frame, in_frame, caught>>

CopyChunk ==
    /\ pc = "copy"
    /\ frame' = Append(frame, buffer[u.chunk].payload)
    /\ pc' = "check"
    /\ UNCHANGED <<ringVars, api, u, old, more_chunks, chunk_id, ret, in_frame, caught>>

\* Mutants: the sentinel just moved is checked; its chunk is, with the
\* generation of the one before.
NewIntact  == SameGen(buffer[rx.sentinel_chunk].lap, rx.sentinel_generation)
HalfIntact == SameGen(buffer[rx.sentinel_chunk].lap, old.generation)

OldIntact == SameGen(buffer[old.chunk].lap, old.generation)

ChunkCopied ==
    /\ pc = "check" /\ OldIntact
    /\ Took(u) /\ Return(Outcome(u))
    /\ UNCHANGED <<ringVars, frame, caught>>

Overwritten == pc = "check" /\ ~OldIntact /\ CatchUp("swovfl")

-----------------------------------------------------------------------------
(* exanic_receive_chunk_inplace and _ex, and exanic_receive_chunk_recheck  *)

\* On an error the caller gets no size and has nothing to look at.
TakePointer ==
    /\ pc = "read" /\ api \notin Copying /\ IsNext
    /\ rx' = Advanced
    /\ Took(Info)
    /\ IF Reports(Info)
       THEN Return("error")
       ELSE /\ u' = Info
            /\ chunk_id' = (rx.generation % G) * N + rx.next_chunk
            /\ pc' = "hold"
            /\ UNCHANGED <<api, old, ret>>
    /\ UNCHANGED <<buffer, hw, scan, frame, caught>>

\* The caller looks at the chunk, through the pointer it was given.
LookAtChunk ==
    /\ pc = "hold"
    /\ frame' = Append(frame, buffer[chunk_id % N].payload)
    /\ pc' = "recheck"
    /\ UNCHANGED <<ringVars, api, u, old, more_chunks, chunk_id, ret, in_frame, caught>>

Valid == SameGen(buffer[chunk_id % N].lap, chunk_id \div N)

\* A caller whose chunk was overwritten drops the frame and skips its rest.
Recheck ==
    /\ pc = "recheck"
    /\ IF Valid \/ ~in_frame
       THEN Return(IF Valid THEN Outcome(u) ELSE "overwritten")
       ELSE pc' = "abort" /\ ret' = "none" /\ Forget
    /\ caught' = (caught \/ (hw.writing /\ hw.chunk = chunk_id % N))
    /\ UNCHANGED <<ringVars, more_chunks, frame, in_frame>>

-----------------------------------------------------------------------------
(* exanic_receive_abort, "preceded by a call in which more_chunks was set" *)

Abort ==
    /\ pc = "idle" /\ in_frame
    /\ pc' = "abort" /\ ret' = "none"
    /\ UNCHANGED <<ringVars, api, u, old, more_chunks, chunk_id, frame, in_frame, caught>>

SkipChunk ==
    /\ pc = "abort" /\ IsNext
    /\ rx' = Advanced
    /\ in_frame' = ~IsEnd(Info.tag)
    /\ IF IsEnd(Info.tag)
       THEN Return(IF Info.tag.status = "ok" THEN "skipped" ELSE "skipped error")
       ELSE UNCHANGED <<pc, api, u, old, chunk_id, ret>>
    /\ UNCHANGED <<buffer, hw, scan, more_chunks, frame, caught>>

CatchUpStep ==
    /\ pc = "scan"
    /\ \/ CatchupRead /\ UNCHANGED callVars
       \/ /\ CatchupEnd /\ Return(ret)
          /\ UNCHANGED <<more_chunks, frame, in_frame, caught>>

-----------------------------------------------------------------------------
OldestInUse == CASE pc = "acquire" -> hw.lap
                 [] pc = "scan"    -> scan.floor
                 [] OTHER          -> rx.generation

Card == (HwPayload(OldestInUse) \/ HwInfo) /\ UNCHANGED callVars
FinishFrame == ((~IsEnd(hw.tag) /\ HwPayload(OldestInUse)) \/ HwInfo) /\ UNCHANGED callVars

InCall == NoNewData \/ Lapped \/ TakeChunk \/ CopyChunk \/ ChunkCopied \/ Overwritten
          \/ TakePointer \/ LookAtChunk \/ Recheck \/ SkipChunk \/ CatchUpStep

Next == Card \/ Acquire \/ (\E a \in Apis : ReceiveChunk(a)) \/ Abort \/ InCall

Spec == Init /\ [][Next]_vars

\* The card finishes the frame it is receiving and a call takes its steps.
FairSpec == Spec /\ WF_vars(FinishFrame) /\ WF_vars(InCall)

-----------------------------------------------------------------------------
\* A frame put together by chunk calls, whichever and in whatever mixture, is
\* one whole frame when its last chunk is handed over: the frames before it
\* that failed, were given up or were skipped leave the reader at a frame's
\* start, and no chunk was overwritten unnoticed.  The exception is a chunk
\* used in place into which the card was writing when it was rechecked.  And
\* more_chunks tells the caller where the frame ends, unless it ends in an error:
\* then the frame is taken off the ring and more_chunks left as it was.
AssembledWhole ==
    /\ ret = "last" /\ pc = "idle" /\ rx.aligned /\ ~caught => WholeFrame(frame)
    /\ ret \in {"chunk", "last"} => more_chunks = in_frame

\* "One or more frames were lost due to software overflow", "chunks were missed by
\* software": when a call answers that, the card has come round to the chunk the
\* call has in hand or waits for.
AwaitedPos == IF pc = "check" THEN Pos(u.lap, u.chunk) ELSE ReaderPos
OverflowMeansMissed == [][ret' = "swovfl" /\ ret = "none" => CardPos >= AwaitedPos + N]_vars

\* The same, but for a copying call whose sentinel is not the chunk just before
\* the one it copies: calls that do not move the sentinel have left it behind.
SentinelLeftBehind == pc = "check" /\ Pos(old.generation, old.chunk) + 1 < Pos(u.lap, u.chunk)
OverflowMeansMissedIfFresh ==
    [][ret' = "swovfl" /\ ret = "none" /\ ~SentinelLeftBehind => CardPos >= AwaitedPos + N]_vars

\* A chunk call or exanic_receive_abort returns: skipping the rest of a frame
\* ends because the card finishes the frame or overwrites the chunk awaited.
ChunkCallsReturn == pc \notin {"acquire", "idle"} ~> pc = "idle"
=============================================================================
