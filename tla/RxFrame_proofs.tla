---------------------------- MODULE RxFrame_proofs ----------------------------
(***************************************************************************)
(* Proofs about RxFrame, for every ring size, generation width, frame      *)
(* size, buffer size and bound.  The first half is about the steps that    *)
(* exanic_receive_frame shares with the capture program's copy of it.      *)
(***************************************************************************)
EXTENDS MCRxFrame, RxRing_proofs

-----------------------------------------------------------------------------
(* Type correctness.                                                       *)

\* An info word not read yet has the type of the others.
LEMMA NoInfoType == NoInfo \in [tag : Tag, lap : Laps, chunk : Chunks]
BY BlankTagType DEF NoInfo

\* The parts of the info word in hand.
LEMMA InfoTypes ==
    ASSUME TypeOK
    PROVE  /\ RingTypeOK /\ u.lap \in Laps /\ u.lap \in Nat /\ u.chunk \in Chunks
           /\ u.tag \in Tag /\ u.tag.k \in Nat /\ size \in Nat
BY TagTypes DEF TypeOK, Laps

\* The initial state is in its types.
LEMMA TypeInit == Init => TypeOK
BY RingInitially, NoInfoType DEF Init, TypeOK, Locations, Returns

\* Leaving a call keeps the call's variables in their types.
LEMMA ReturnType ==
    ASSUME NEW r \in Returns, Return(r)
    PROVE  /\ pc' \in Locations /\ size' \in Nat /\ ret' \in Returns
           /\ u' \in [tag : Tag, lap : Laps, chunk : Chunks]
<1> USE DEF Return
<1>1. pc' \in Locations /\ ret' \in Returns /\ size' \in Nat
    BY DEF Locations
<1>2. u' = NoInfo
    OBVIOUS
<1> QED
    BY <1>1, <1>2, NoInfoType

\* The steps of the card and of the reader that both routines have keep every
\* variable in its type.
LEMMA TypeShared ==
    ASSUME TypeOK, hw.lap >= G, NEW oldest,
           \/ (HwPayload(oldest) \/ HwInfo) /\ UNCHANGED callVars
           \/ Acquire \/ Call \/ ReadNext \/ NoNewFrame \/ Lapped \/ CopyMore \/ Truncate
           \/ Catchup \/ UNCHANGED vars
    PROVE  TypeOK'
<1> USE DEF TypeOK
<1>1. CASE (HwPayload(oldest) \/ HwInfo) /\ UNCHANGED callVars
    BY <1>1, HwPayloadType, HwInfoType DEF callVars
<1>2. CASE Acquire
    BY <1>2, CatchupBeginType DEF Acquire, Locations, Returns, RingTypeOK
<1>3. CASE Call
    BY <1>3 DEF Call, ringVars, Locations, Returns, RingTypeOK
<1>4. CASE ReadNext
    BY <1>4 DEF ReadNext, Info, ringVars, Locations, RingTypeOK, PlaceType
<1>5. CASE NoNewFrame
    BY <1>5, ReturnType DEF NoNewFrame, ringVars, Returns, RingTypeOK
<1>6. CASE Lapped
    BY <1>6, CatchupBeginType DEF Lapped, Locations, Returns, RingTypeOK
<1>7. CASE CopyMore
    <2>1. rx_buf' \in Seq(Tag)
        BY <1>7 DEF CopyMore, RingTypeOK
    <2> QED
        BY <1>7, <2>1, AdvancedType DEF CopyMore, Locations, RingTypeOK
<1>8. CASE Truncate
    BY <1>8, AdvancedType, ReturnType DEF Truncate, Returns, RingTypeOK
<1>9. CASE Catchup
    <2>1. CASE CatchupRead /\ UNCHANGED callVars
        BY <2>1, CatchupReadType DEF callVars
    <2>2. CASE CatchupEnd /\ Return(ret) /\ UNCHANGED rx_buf
        BY <2>2, CatchupEndType, ReturnType
    <2> QED
        BY <1>9, <2>1, <2>2 DEF Catchup
<1>10. CASE UNCHANGED vars
    BY <1>10 DEF vars, ringVars, callVars, RingTypeOK
<1> QED
    BY <1>1, <1>2, <1>3, <1>4, <1>5, <1>6, <1>7, <1>8, <1>9, <1>10

\* Every step keeps every variable in its type; the card is past lap 0 when a
\* catch-up takes the lap before the card's.
LEMMA TypeNext == TypeOK /\ hw.lap >= G /\ [Next]_vars => TypeOK'
<1> SUFFICES ASSUME TypeOK, hw.lap >= G, [Next]_vars
             PROVE  TypeOK'
    OBVIOUS
<1> USE DEF TypeOK
<1>1. CASE CopyLast
    <2>1. rx_buf' \in Seq(Tag)
        BY <1>1 DEF CopyLast, RingTypeOK
    <2> QED
        BY <1>1, <2>1, AdvancedType DEF CopyLast, Locations, RingTypeOK
<1>2. CASE Deliver
    <2>1. rx' \in PlaceType
        BY <1>2 DEF Deliver, MovedSentinel, PlaceType, RingTypeOK
    <2> QED
        BY <1>2, <2>1, ReturnType DEF Deliver, Returns, RingTypeOK
<1>3. CASE Overwritten
    <2>1. rx' \in PlaceType
        BY <1>3 DEF Overwritten, MovedSentinel, PlaceType, RingTypeOK
    <2> QED
        BY <1>3, <2>1, CatchupBeginType DEF Overwritten, Locations, Returns, RingTypeOK
<1> HIDE DEF TypeOK
<1>4. CASE Card \/ ~(CopyLast \/ Deliver \/ Overwritten)
    BY <1>4, TypeShared DEF Next, Card, Receive
<1> QED
    BY <1>1, <1>2, <1>3, <1>4

-----------------------------------------------------------------------------
(* Steps of the card keep the invariant.                                   *)

\* While a call has a chunk in hand, the card leaves what is known of it.
LEMMA InfoCard ==
    ASSUME ReaderInv, NEW oldest, HwPayload(oldest) \/ HwInfo, UNCHANGED callVars
    PROVE  InfoInv'
<1>1. TypeOK /\ RingTypeOK /\ RingInv
    BY DEF ReaderInv, TypeOK
<1>2. UNCHANGED <<rx, scan, pc, u, rx_buf, size, ret>>
    BY <1>1, CardKeepsChunks DEF callVars
<1> SUFFICES ASSUME pc \in {"copy", "spin", "check"}
             PROVE  /\ Before(u.lap, u.chunk, hw'.lap, hw'.chunk)
                    /\ buffer'[u.chunk].lap = u.lap => buffer'[u.chunk].info = u.tag
                    /\ Continues(NextLap(u.lap, u.chunk), NextChunk(u.chunk), u.tag)'
    BY <1>2 DEF ReaderInv, InfoInv
<1>3. /\ Before(u.lap, u.chunk, hw.lap, hw.chunk)
      /\ buffer[u.chunk].lap = u.lap => buffer[u.chunk].info = u.tag
      /\ Continues(NextLap(u.lap, u.chunk), NextChunk(u.chunk), u.tag)
    BY DEF ReaderInv, InfoInv
<1>4. u.lap \in Laps /\ u.chunk \in Chunks
    BY <1>1, InfoTypes
<1>5. /\ Before(u.lap, u.chunk, hw'.lap, hw'.chunk)
      /\ buffer'[u.chunk].lap = u.lap => buffer'[u.chunk].info = u.tag
    BY <1>1, <1>3, <1>4, CardKeepsChunks
<1> DEFINE l == NextLap(u.lap, u.chunk)
           c == NextChunk(u.chunk)
<1>6. /\ l \in Laps /\ c \in Chunks
      /\ Before(l, c, hw.lap, hw.chunk) \/ (l = hw.lap /\ c = hw.chunk)
    BY <1>1, <1>3, <1>4, NextChunkFacts, PlaceAfter
<1>7. l' = l /\ c' = c /\ u' = u
    BY <1>2
<1>8. Continues(l, c, u.tag)
    BY <1>3
<1> HIDE DEF l, c
<1>9. Continues(l, c, u.tag)'
    BY <1>1, <1>6, <1>7, <1>8, ContinuesKept DEF Continues
<1> QED
    BY <1>5, <1>9 DEF l, c

\* A frame that starts at the reader's place goes on starting there.
LEMMA StartsCard ==
    ASSUME ReaderInv, NEW oldest, HwPayload(oldest) \/ HwInfo,
           FrameStarts(rx.generation, rx.next_chunk)
    PROVE  FrameStarts(rx.generation, rx.next_chunk)'
<1> DEFINE l == rx.generation
           c == rx.next_chunk
<1>1. TypeOK /\ RingTypeOK /\ RingInv /\ PlaceInv
    BY DEF ReaderInv, TypeOK
<1>2. l \in Laps /\ c \in Chunks /\ l' = l /\ c' = c
    BY <1>1, CardKeepsChunks, RingTypes
<1>3. Before(l, c, hw.lap, hw.chunk) \/ (l = hw.lap /\ c = hw.chunk)
    BY <1>1 DEF PlaceInv, PositionsOrdered, AtCard
<1>4. Continues(l, c, BlankTag)
    BY DEF FrameStarts
<1> HIDE DEF l, c
<1>5. Continues(l, c, BlankTag)'
    BY <1>1, <1>2, <1>3, <1>4, ContinuesKept DEF Continues
<1> QED
    BY <1>5 DEF FrameStarts, l, c

\* A step of the card: the ring stays in order, what was behind the card stays
\* behind it, and a chunk whose lap changes is no longer claimed to hold what
\* was read.
LEMMA CardKeeps ==
    ASSUME ReaderInv, NEW oldest, HwPayload(oldest) \/ HwInfo, UNCHANGED callVars
    PROVE  /\ ReaderInv' /\ UNCHANGED <<rx, scan, pc, u, rx_buf, size, ret>>
           /\ Ahead' => Ahead
           /\ CardPos \in Nat /\ CardPos' \in Nat /\ CardPos <= CardPos'
<1>1. TypeOK /\ RingTypeOK /\ RingInv /\ PlaceInv
    BY DEF ReaderInv, TypeOK
<1>2. /\ UNCHANGED <<rx, scan, pc, u, rx_buf, size, ret>>
      /\ CardPos \in Nat /\ CardPos' \in Nat /\ CardPos <= CardPos'
    BY <1>1, CardKeepsChunks DEF callVars
<1>3. TypeOK'
    BY <1>1, TypeShared DEF RingInv
<1>4. RingInv' /\ PlaceInv'
    BY <1>1, RingPayload, RingInfo, PlaceCard
<1>5. ScanInv'
    BY <1>1, <1>2, ScanCard DEF ReaderInv, ScanInv
<1>6. ReaderPos \in Nat /\ N \in Nat /\ size \in Nat /\ ReaderPos' = ReaderPos
    BY <1>1, <1>2, RingTypes, PosFacts, InfoTypes, RingAssumption DEF ReaderPos
<1>7. Ahead' => Ahead
    BY <1>2, <1>6 DEF Ahead
<1>8. CopyInv'
    <2>1. pc \in {"idle", "call"} /\ rx.aligned => FrameStarts(rx.generation, rx.next_chunk)'
        BY StartsCard DEF ReaderInv, CopyInv
    <2> QED
        BY <1>2, <1>7, <2>1 DEF ReaderInv, CopyInv, CopiedSoFar, WholeFrame
<1>9. RetInv'
    BY <1>2 DEF ReaderInv, RetInv
<1> QED
    BY <1>2, <1>3, <1>4, <1>5, <1>7, <1>8, <1>9, InfoCard DEF ReaderInv

-----------------------------------------------------------------------------
(* Steps of the reader keep the invariant.                                 *)

\* Entering the catch-up from wherever the reader is.
LEMMA ScanEnter ==
    ASSUME ReaderInv, TypeOK', PlaceInv', CatchupBegin, UNCHANGED <<buffer, hw>>,
           pc' = "scan", ret' \in {"acquired", "swovfl"}
    PROVE  ReaderInv' /\ NoEndYet' /\ WithinLag(scan.floor)'
<1>1. TypeOK /\ RingTypeOK /\ RingInv
    BY DEF ReaderInv, TypeOK
<1>2. /\ ScanFound' /\ NoEndYet' /\ scan'.floor = hw.lap - 1
      /\ WithinLag(hw.lap - 1)
    BY <1>1, ScanBegin
<1>3. WithinLag(scan.floor)'
    BY <1>2 DEF WithinLag
<1>4. RingInv'
    BY <1>1, RingUntouched
<1>5. ScanInv' /\ InfoInv' /\ CopyInv' /\ RetInv'
    BY <1>2 DEF ScanInv, InfoInv, CopyInv, RetInv
<1> QED
    BY <1>2, <1>3, <1>4, <1>5 DEF ReaderInv

\* Looking for a place to start leaves the ring and the place alone.
LEMMA AcquireKeeps ==
    ASSUME ReaderInv, TypeOK', Acquire
    PROVE  ReaderInv' /\ NoEndYet' /\ WithinLag(scan.floor)'
<1>1. PlaceInv'
    BY PlaceUntouched DEF ReaderInv, Acquire
<1> QED
    BY <1>1, ScanEnter DEF Acquire

\* So does finding out that the card is a lap ahead.
LEMMA LappedKeeps ==
    ASSUME ReaderInv, TypeOK', Lapped
    PROVE  ReaderInv' /\ NoEndYet' /\ WithinLag(scan.floor)'
<1>1. PlaceInv'
    BY PlaceUntouched DEF ReaderInv, Lapped
<1> QED
    BY <1>1, ScanEnter DEF Lapped

\* A new call starts at the beginning of a frame.
LEMMA CallKeeps ==
    ASSUME ReaderInv, TypeOK', Call
    PROVE  ReaderInv'
<1> USE DEF Call, ringVars
<1>1. RingInv' /\ PlaceInv'
    BY RingUntouched, PlaceUntouched DEF ReaderInv
<1>2. ScanInv' /\ InfoInv' /\ RetInv'
    BY DEF ScanInv, InfoInv, RetInv
<1>3. FrameStarts(rx.generation, rx.next_chunk) => FrameStarts(rx.generation, rx.next_chunk)'
    BY DEF FrameStarts, Continues
<1>4. CopyInv'
    BY <1>3 DEF ReaderInv, CopyInv
<1> QED
    BY <1>1, <1>2, <1>4 DEF ReaderInv

\* A call that found nothing leaves the reader where it was.
LEMMA NoNewFrameKeeps ==
    ASSUME ReaderInv, TypeOK', NoNewFrame
    PROVE  ReaderInv'
<1> USE DEF NoNewFrame, Return, ringVars
<1>1. RingInv' /\ PlaceInv'
    BY RingUntouched, PlaceUntouched DEF ReaderInv
<1>2. ScanInv' /\ InfoInv' /\ RetInv'
    BY DEF ScanInv, InfoInv, RetInv
<1>3. FrameStarts(rx.generation, rx.next_chunk) => FrameStarts(rx.generation, rx.next_chunk)'
    BY DEF FrameStarts, Continues
<1>4. CopyInv'
    BY <1>3 DEF ReaderInv, CopyInv
<1> QED
    BY <1>1, <1>2, <1>4 DEF ReaderInv

\* The chunk read next continues the frame the call is taking, or begins one.
LEMMA ReadNextKeeps ==
    ASSUME ReaderInv, TypeOK', ReadNext, WithinLag(rx.generation), MaxLag + 1 < G
    PROVE  ReaderInv'
<1> USE DEF ReadNext, ringVars
<1> DEFINE c == rx.next_chunk
           g == rx.generation
<1>1. TypeOK /\ RingTypeOK /\ RingInv /\ PlaceInv /\ c \in Chunks /\ g \in Nat
    BY RingTypes DEF ReaderInv, TypeOK
<1>2. buffer[c].lap = g /\ Before(g, c, hw.lap, hw.chunk) /\ g >= G
    BY <1>1, GenerationsTell DEF PlaceInv
<1>3. u'.lap = g /\ u'.chunk = c /\ u'.tag = buffer[c].info
    BY <1>2 DEF Info
<1>4. RingInv' /\ PlaceInv'
    BY <1>1, RingUntouched, PlaceUntouched
<1>5. ScanInv' /\ RetInv'
    BY DEF ReaderInv, ScanInv, RetInv
<1>6. TagFits(buffer[c].info) /\ StartsAt(buffer[c].info, Pos(g, c))
    BY <1>1, <1>2 DEF RingInv, FramesInv
<1>7. Continues(NextLap(g, c), NextChunk(c), buffer[c].info)
    BY <1>1, <1>2, ContinuesChunk
<1>8. InfoInv'
    <2>1. Continues(NextLap(u.lap, u.chunk), NextChunk(u.chunk), u.tag)'
        BY <1>3, <1>7 DEF Continues
    <2>2. u'.tag = buffer'[u'.chunk].info /\ rx' = rx /\ hw' = hw /\ pc' = "copy"
        BY <1>3
    <2>3. TagFits(u'.tag) /\ StartsAt(u'.tag, Pos(u'.lap, u'.chunk))
        BY <1>3, <1>6
    <2> QED
        BY <1>2, <1>3, <2>1, <2>2, <2>3 DEF InfoInv
<1>9. buffer[c].info.k \in Nat /\ buffer[c].info.k > 0 /\ size \in Nat /\ u.tag.k \in Nat
    BY <1>1, RingTypes, TagTypes, InfoTypes
<1>10. CopyInv'
    <2>1. CASE pc = "call"
        <3>1. size = 0 /\ rx_buf = <<>> /\ (rx.aligned => FrameStarts(g, c))
            BY <2>1 DEF ReaderInv, CopyInv
        <3>2. FrameStarts(g, c) => buffer[c].info.k = 1
            BY <1>2, BlankTagType DEF FrameStarts, Continues, Follows
        <3>3. CopiedSoFar'
            BY <3>1 DEF CopiedSoFar
        <3> QED
            BY <1>3, <1>9, <3>1, <3>2, <3>3 DEF CopyInv
    <2>2. CASE pc = "spin"
        <3>1. /\ Continues(g, c, u.tag) /\ ~IsEnd(u.tag)
              /\ u.tag.k >= size /\ (rx.aligned => u.tag.k = size)
            BY <2>2 DEF ReaderInv, InfoInv, CopyInv
        <3>2. u'.tag.frame = u.tag.frame /\ u'.tag.k = u.tag.k + 1
            BY <1>2, <1>3, <3>1 DEF Continues, Follows
        <3>3. Ahead' => Ahead
            BY DEF Ahead, CardPos, ReaderPos
        <3>4. CopiedSoFar => CopiedSoFar'
            BY <3>2 DEF CopiedSoFar
        <3> QED
            BY <1>9, <2>2, <3>1, <3>2, <3>3, <3>4 DEF ReaderInv, CopyInv
    <2> QED
        BY <2>1, <2>2
<1> QED
    BY <1>4, <1>5, <1>8, <1>10 DEF ReaderInv

\* While the frame is not overwritten, the payload of the chunk in hand is the
\* one its info word was read for.
LEMMA PayloadInHand ==
    ASSUME ReaderInv, pc = "copy", Ahead
    PROVE  buffer[u.chunk].payload = u.tag
<1>1. /\ TypeOK /\ RingTypeOK /\ LapsInv /\ DataInv
      /\ u.lap \in Laps /\ u.chunk \in Chunks /\ size \in Nat
    BY InfoTypes DEF ReaderInv, RingInv
<1>2. /\ Before(u.lap, u.chunk, hw.lap, hw.chunk)
      /\ buffer[u.chunk].lap = u.lap => buffer[u.chunk].info = u.tag
      /\ ReaderPos = Pos(u.lap, u.chunk)
    BY DEF ReaderInv, InfoInv, ReaderPos
<1>3. CardPos < Pos(u.lap, u.chunk) + N
    <2>1. CardPos \in Nat /\ Pos(u.lap, u.chunk) \in Nat /\ N \in Nat
        BY <1>1, RingTypes, PosFacts, RingAssumption DEF CardPos
    <2> QED
        BY <1>1, <1>2, <2>1 DEF Ahead
<1>4. buffer[u.chunk].lap = u.lap /\ u.chunk # hw.chunk
    BY <1>1, <1>2, <1>3, StillThere
<1> QED
    BY <1>1, <1>2, <1>4 DEF DataInv

\* The place moves past the chunk in hand, which the card has written.
LEMMA AdvanceKeeps ==
    ASSUME ReaderInv, pc = "copy", rx' = Advanced, UNCHANGED <<buffer, hw>>
    PROVE  /\ RingInv' /\ PlaceInv'
           /\ rx'.next_chunk = NextChunk(u.chunk) /\ rx'.generation = NextLap(u.lap, u.chunk)
           /\ rx'.sentinel_chunk = rx.sentinel_chunk
           /\ rx'.sentinel_generation = rx.sentinel_generation
           /\ rx'.aligned = rx.aligned
           /\ IsEnd(u.tag) => FrameStarts(rx.generation, rx.next_chunk)'
           /\ CardPos \in Nat /\ ReaderPos \in Nat /\ CardPos' = CardPos /\ ReaderPos' = ReaderPos + 1
           /\ ReaderPos = Pos(u.lap, u.chunk)
           /\ rx.generation <= rx'.generation
<1>1. /\ TypeOK /\ RingTypeOK /\ RingInv /\ PlaceInv
    BY InfoTypes DEF ReaderInv
<1>2. /\ rx.generation = u.lap /\ rx.next_chunk = u.chunk
      /\ Before(u.lap, u.chunk, hw.lap, hw.chunk)
      /\ Continues(NextLap(u.lap, u.chunk), NextChunk(u.chunk), u.tag)
      /\ ReaderPos = Pos(u.lap, u.chunk)
    BY DEF ReaderInv, InfoInv, ReaderPos
<1>3. /\ rx'.next_chunk = NextChunk(u.chunk) /\ rx'.generation = NextLap(u.lap, u.chunk)
      /\ rx'.sentinel_chunk = rx.sentinel_chunk
      /\ rx'.sentinel_generation = rx.sentinel_generation
      /\ rx'.aligned = rx.aligned
    BY <1>1, <1>2, AdvancedFields
<1>4. PlaceInv' /\ ReaderPos' = ReaderPos + 1 /\ rx.generation <= rx'.generation
    BY <1>1, <1>2, <1>3, PlaceAdvanced
<1>5. RingInv'
    BY <1>1, RingUntouched
<1>6. CardPos' = CardPos
    BY DEF CardPos
<1>7. IsEnd(u.tag) => FrameStarts(rx.generation, rx.next_chunk)'
    BY <1>2, <1>3, FollowsFacts, BlankTagType DEF Continues, FrameStarts
<1>8. CardPos \in Nat /\ ReaderPos \in Nat
    BY <1>1, RingTypes, PosFacts DEF CardPos, ReaderPos
<1> QED
    BY <1>2, <1>3, <1>4, <1>5, <1>6, <1>7, <1>8

\* A chunk that is not the last is copied, if there is room for it.
LEMMA CopyMoreKeeps ==
    ASSUME ReaderInv, TypeOK', CopyMore
    PROVE  ReaderInv'
<1> USE DEF CopyMore
<1>1. /\ TypeOK /\ size \in Nat /\ BufChunks \in Nat /\ rx_buf \in Seq(Tag)
      /\ u.tag \in Tag /\ u.tag.k \in Nat
    BY InfoTypes, BufAssumption DEF ReaderInv, TypeOK
<1>2. /\ RingInv' /\ PlaceInv'
      /\ rx'.next_chunk = NextChunk(u.chunk) /\ rx'.generation = NextLap(u.lap, u.chunk)
      /\ rx'.aligned = rx.aligned
      /\ CardPos \in Nat /\ ReaderPos \in Nat
      /\ CardPos' = CardPos /\ ReaderPos' = ReaderPos + 1
    BY AdvanceKeeps
<1>3. ScanInv' /\ RetInv'
    BY DEF ReaderInv, ScanInv, RetInv
<1>4. InfoInv'
    BY <1>2 DEF ReaderInv, InfoInv, Continues
<1>5. u.tag.k > size /\ (rx.aligned => u.tag.k = size + 1)
    BY DEF ReaderInv, CopyInv
<1>6. Ahead' => Ahead
    BY <1>1, <1>2, RingAssumption DEF Ahead
<1>7. size' <= BufChunks => Len(rx_buf') = size'
    <2>1. size' <= BufChunks => size < BufChunks /\ Len(rx_buf) = size
        BY <1>1 DEF ReaderInv, CopyInv
    <2>2. ASSUME size < BufChunks
          PROVE  Len(rx_buf') = Len(rx_buf) + 1
        BY <1>1, <2>2
    <2> QED
        BY <2>1, <2>2
<1>8. ASSUME size' <= BufChunks, Ahead'
      PROVE  CopiedSoFar'
    <2>1. CopiedSoFar /\ Len(rx_buf) = size /\ size < BufChunks /\ Ahead
        BY <1>1, <1>6, <1>8 DEF ReaderInv, CopyInv
    <2>2. rx_buf' = Append(rx_buf, u.tag) /\ u.tag.k = size + 1
        BY <1>5, <2>1, PayloadInHand DEF Ahead
    <2>3. /\ Len(rx_buf') = size + 1
          /\ \A i \in 1 .. size + 1 :
                 rx_buf'[i] = IF i = size + 1 THEN u.tag ELSE rx_buf[i]
        BY <1>1, <2>1, <2>2 DEF CopiedSoFar
    <2> QED
        BY <1>1, <2>1, <2>2, <2>3 DEF CopiedSoFar
<1>9. CopyInv'
    BY <1>1, <1>2, <1>5, <1>7, <1>8 DEF CopyInv
<1> QED
    BY <1>2, <1>3, <1>4, <1>9 DEF ReaderInv

\* The last chunk of a frame that is not overwritten completes it.
LEMMA LastCopied ==
    ASSUME ReaderInv, pc = "copy", IsEnd(u.tag), size < BufChunks, Ahead,
           NEW b, b = Append(rx_buf, buffer[u.chunk].payload)
    PROVE  /\ WholeFrame(b) /\ Len(b) = size + 1 /\ b[Len(b)] = u.tag
           /\ b[1].frame = u.tag.frame
<1>1. /\ TypeOK /\ size \in Nat /\ BufChunks \in Nat /\ rx_buf \in Seq(Tag)
      /\ u.tag \in Tag
    BY InfoTypes, BufAssumption DEF ReaderInv, TypeOK
<1>2. CopiedSoFar /\ Len(rx_buf) = size /\ u.tag.k = size + 1
    BY <1>1 DEF ReaderInv, CopyInv, Ahead
<1>3. b = Append(rx_buf, u.tag)
    BY PayloadInHand
<1>4. /\ b # <<>> /\ Len(b) = size + 1
      /\ \A i \in 1 .. size + 1 : b[i] = IF i = size + 1 THEN u.tag ELSE rx_buf[i]
    BY <1>1, <1>2, <1>3 DEF CopiedSoFar
<1>5. ASSUME NEW i \in 1 .. size + 1
      PROVE  /\ b[i].frame = u.tag.frame
             /\ b[i].k = i
             /\ IsEnd(b[i]) <=> i = size + 1
    BY <1>1, <1>2, <1>4 DEF CopiedSoFar
<1>6. 1 \in 1 .. size + 1 /\ size + 1 \in 1 .. size + 1
    BY <1>1
<1> QED
    BY <1>1, <1>4, <1>5, <1>6 DEF WholeFrame

\* A frame that does not fit leaves the reader after it.
LEMMA TruncateKeeps ==
    ASSUME ReaderInv, TypeOK', Truncate
    PROVE  ReaderInv'
<1> USE DEF Truncate, Return
<1>1. RingInv' /\ PlaceInv' /\ FrameStarts(rx.generation, rx.next_chunk)'
    BY AdvanceKeeps
<1>2. ScanInv' /\ InfoInv' /\ RetInv' /\ CopyInv'
    BY <1>1 DEF ScanInv, InfoInv, RetInv, CopyInv
<1> QED
    BY <1>1, <1>2 DEF ReaderInv

\* Whatever the card writes meanwhile, what the catch-up notes is behind it.
LEMMA CatchupReadKeeps ==
    ASSUME ReaderInv, TypeOK', pc = "scan", CatchupRead, UNCHANGED callVars
    PROVE  ReaderInv' /\ UNCHANGED <<buffer, hw, rx, pc, u, rx_buf, size, ret>>
           /\ scan'.floor = scan.floor
<1>1. TypeOK /\ RingTypeOK /\ RingInv /\ PlaceInv /\ ScanFound
    BY DEF ReaderInv, TypeOK, ScanInv
<1>2. UNCHANGED <<buffer, hw, rx, pc, u, rx_buf, size, ret>> /\ scan'.floor = scan.floor
    BY DEF CatchupRead, callVars
<1>3. RingInv' /\ PlaceInv' /\ ScanFound'
    BY <1>1, <1>2, RingUntouched, PlaceUntouched, ScanRead
<1>4. ScanInv' /\ InfoInv' /\ CopyInv' /\ RetInv'
    BY <1>2, <1>3 DEF ReaderInv, ScanInv, InfoInv, CopyInv, RetInv
<1> QED
    BY <1>2, <1>3, <1>4 DEF ReaderInv

\* A catch-up leaves the reader where a frame starts, if it found an end.
LEMMA CatchupEndKeeps ==
    ASSUME ReaderInv, TypeOK', pc = "scan", CatchupEnd, Return(ret), UNCHANGED rx_buf
    PROVE  ReaderInv'
<1> USE DEF Return
<1>1. TypeOK /\ RingTypeOK /\ RingInv /\ ScanFound
    BY DEF ReaderInv, TypeOK, ScanInv
<1>2. /\ PlaceInv' /\ UNCHANGED <<buffer, hw>>
      /\ rx'.aligned => FrameStarts(rx.generation, rx.next_chunk)'
    BY <1>1, ScanEnd
<1>3. RingInv'
    BY <1>1, <1>2, RingUntouched
<1>4. ScanInv' /\ InfoInv' /\ CopyInv' /\ RetInv'
    BY <1>2 DEF ScanInv, InfoInv, CopyInv, RetInv
<1> QED
    BY <1>2, <1>3, <1>4 DEF ReaderInv

\* Steps that change nothing.
LEMMA StutterKeeps ==
    ASSUME ReaderInv, UNCHANGED vars
    PROVE  ReaderInv'
<1> USE DEF vars, ringVars, callVars
<1>1. TypeOK'
    BY TypeShared, RingAssumption DEF ReaderInv, RingInv
<1>2. RingInv' /\ PlaceInv'
    BY RingUntouched, PlaceUntouched DEF ReaderInv
<1>3. ScanInv'
    BY DEF ReaderInv, ScanInv, ScanFound, Found, FrameStarts, Continues
<1>4. InfoInv'
    BY DEF ReaderInv, InfoInv, Continues
<1>5. CopyInv'
    <2>1. FrameStarts(rx.generation, rx.next_chunk) => FrameStarts(rx.generation, rx.next_chunk)'
        BY DEF FrameStarts, Continues
    <2>2. Ahead' <=> Ahead
        BY DEF Ahead, CardPos, ReaderPos
    <2> QED
        BY <2>1, <2>2 DEF ReaderInv, CopyInv, CopiedSoFar, WholeFrame
<1>6. RetInv'
    BY DEF ReaderInv, RetInv
<1> QED
    BY <1>1, <1>2, <1>3, <1>4, <1>5, <1>6 DEF ReaderInv

-----------------------------------------------------------------------------
(* The sentinel.                                                           *)

\* Copying the last chunk: if the frame is not overwritten the copy is whole.
LEMMA CopyLastKeeps ==
    ASSUME ReaderInv, TypeOK', CopyLast
    PROVE  ReaderInv'
<1> USE DEF CopyLast
<1>1. TypeOK /\ size \in Nat
    BY InfoTypes DEF ReaderInv
<1>2. /\ RingInv' /\ PlaceInv'
      /\ rx'.next_chunk = NextChunk(u.chunk) /\ rx'.generation = NextLap(u.lap, u.chunk)
      /\ rx'.aligned = rx.aligned
      /\ CardPos \in Nat /\ ReaderPos \in Nat
      /\ CardPos' = CardPos /\ ReaderPos' = ReaderPos + 1
    BY AdvanceKeeps
<1>3. ScanInv' /\ RetInv'
    BY DEF ReaderInv, ScanInv, RetInv
<1>4. InfoInv'
    BY <1>2 DEF ReaderInv, InfoInv, Continues
<1>5. Ahead' => Ahead
    BY <1>1, <1>2, RingAssumption DEF Ahead
<1>6. Ahead => /\ WholeFrame(rx_buf') /\ Len(rx_buf') = size'
               /\ rx_buf'[Len(rx_buf')] = u.tag /\ rx_buf'[1].frame = u.tag.frame
    BY LastCopied
<1>7. CopyInv'
    BY <1>5, <1>6 DEF CopyInv, WholeFrame
<1> QED
    BY <1>2, <1>3, <1>4, <1>7 DEF ReaderInv

\* The sentinel moves to the last chunk of the frame.
LEMMA MovedKeeps ==
    ASSUME ReaderInv, pc = "check", rx' = MovedSentinel, UNCHANGED <<buffer, hw>>
    PROVE  /\ RingInv' /\ PlaceInv'
           /\ rx'.next_chunk = rx.next_chunk /\ rx'.generation = rx.generation
           /\ rx'.sentinel_chunk = u.chunk /\ rx'.sentinel_generation = u.lap
           /\ rx'.aligned = rx.aligned
           /\ CardPos' = CardPos /\ ReaderPos' = ReaderPos
           /\ Pos(u.lap, u.chunk) + 1 = ReaderPos
           /\ Continues(rx.generation, rx.next_chunk, u.tag) /\ IsEnd(u.tag)
           /\ rx'.aligned => FrameStarts(rx.generation, rx.next_chunk)'
<1>1. /\ TypeOK /\ RingTypeOK /\ RingInv /\ PlaceInv
      /\ u.lap \in Laps /\ u.chunk \in Chunks
    BY InfoTypes DEF ReaderInv
<1>2. /\ rx'.next_chunk = rx.next_chunk /\ rx'.generation = rx.generation
      /\ rx'.sentinel_chunk = u.chunk /\ rx'.sentinel_generation = u.lap
      /\ rx'.aligned = rx.aligned
    BY <1>1 DEF MovedSentinel, RingTypeOK, PlaceType
<1>3. /\ Before(u.lap, u.chunk, hw.lap, hw.chunk)
      /\ rx.generation = NextLap(u.lap, u.chunk) /\ rx.next_chunk = NextChunk(u.chunk)
      /\ Continues(rx.generation, rx.next_chunk, u.tag) /\ IsEnd(u.tag)
    BY DEF ReaderInv, InfoInv
<1>4. Pos(u.lap, u.chunk) + 1 = ReaderPos
    BY <1>1, <1>3, PosFacts DEF ReaderPos
<1>5. CardPos' = CardPos /\ ReaderPos' = ReaderPos
    BY <1>2 DEF CardPos, ReaderPos
<1>6. PlaceInv'
    BY <1>1, <1>2, <1>3, PlaceAfter DEF PlaceInv, PositionsOrdered, AtCard
<1>7. RingInv'
    BY <1>1, RingUntouched
<1>8. FrameStarts(rx.generation, rx.next_chunk)'
    BY <1>2, <1>3, FollowsFacts, BlankTagType DEF Continues, FrameStarts
<1> QED
    BY <1>2, <1>3, <1>4, <1>5, <1>6, <1>7, <1>8

\* Returning a frame leaves the reader where the next one starts.
LEMMA DeliverKeeps ==
    ASSUME ReaderInv, TypeOK', Deliver
    PROVE  ReaderInv'
<1> USE DEF Deliver, Return
<1>1. RingInv' /\ PlaceInv' /\ (rx'.aligned => FrameStarts(rx.generation, rx.next_chunk)')
    BY MovedKeeps
<1>2. ScanInv' /\ InfoInv' /\ RetInv' /\ CopyInv'
    BY <1>1 DEF ScanInv, InfoInv, RetInv, CopyInv
<1> QED
    BY <1>1, <1>2 DEF ReaderInv

\* A copy that was overwritten is given up, the sentinel moved all the same.
LEMMA OverwrittenKeeps ==
    ASSUME ReaderInv, TypeOK', Overwritten
    PROVE  ReaderInv' /\ NoEndYet' /\ WithinLag(scan.floor)'
<1>1. PlaceInv'
    BY MovedKeeps DEF Overwritten
<1> QED
    BY <1>1, ScanEnter DEF Overwritten

\* The sentinel check tells whether the card has come round to the sentinel.
LEMMA SentinelTells ==
    ASSUME RingTypeOK, RingInv, PlaceInv, WithinLag(rx.sentinel_generation), MaxLag < G
    PROVE  LET pos == Pos(rx.sentinel_generation, rx.sentinel_chunk)
           IN  /\ SentinelIntact => CardPos <= pos + N
               /\ ~SentinelIntact => CardPos > pos + N
<1> DEFINE c == rx.sentinel_chunk
           l == rx.sentinel_generation
           b == buffer[c].lap
<1>1. /\ c \in Chunks /\ l \in Laps /\ l \in Nat /\ b \in Nat /\ G \in Nat /\ MaxLag \in Nat
      /\ hw.lap \in Laps /\ hw.lap \in Nat /\ hw.chunk \in Chunks /\ rx.generation \in Laps
      /\ rx.generation \in Nat /\ rx.next_chunk \in Chunks /\ N \in Nat
    BY RingTypes, RingAssumption
<1>2. Before(l, c, hw.lap, hw.chunk)
    BY <1>1 DEF PlaceInv, PositionsOrdered, AtCard, Before, Chunks
<1>3. LapsInv /\ b <= l + MaxLag
    BY <1>1 DEF RingInv, WithinLag
<1>4. b >= l /\ (b > l => CardPos > Pos(l, c) + N)
    BY <1>1, <1>2, <1>3, LapBehind, LapAtPlace
<1>5. SentinelIntact <=> SameGen(b, l)
    BY DEF SentinelIntact
<1> HIDE DEF b
<1> HIDE DEF c, l
<1>6. SentinelIntact => b = l
    <2>1. b - l < G /\ l - b < G
        BY <1>1, <1>3, <1>4
    <2> QED
        BY <1>1, <1>5, <2>1, SameGenEqual
<1>7. b = l => SentinelIntact
    BY <1>5 DEF SameGen
<1>8. b = l => CardPos <= Pos(l, c) + N
    <2> SUFFICES ASSUME b = l
                 PROVE  CardPos <= Pos(l, c) + N
        OBVIOUS
    <2>1. l = IF c < hw.chunk THEN hw.lap ELSE hw.lap - 1
        BY <1>1, <1>3 DEF LapsInv, b
    <2>2. l + 1 \in Laps /\ Pos(l + 1, c) = Pos(l, c) + N
        <3>1. l + 1 \in Laps
            BY <1>1 DEF Laps
        <3> QED
            BY <1>1, <3>1, PosFacts
    <2>3. ~Before(l + 1, c, hw.lap, hw.chunk)
        BY <1>1, <2>1 DEF Before, Chunks
    <2> QED
        BY <1>1, <2>2, <2>3, PosFacts DEF CardPos
<1> QED
    BY <1>1, <1>4, <1>6, <1>7, <1>8 DEF c, l

\* The assumption on the lag, in the form the proofs use it.
LagBound == MaxLag + 2 <= G

\* During a call nothing in the ring is too far ahead of the place either.
LEMMA LagAtPlace ==
    ASSUME IInv, pc \notin {"acquire", "scan"}
    PROVE  WithinLag(rx.generation) /\ WithinLag(rx.sentinel_generation)
<1>1. TypeOK /\ RingTypeOK /\ RingInv /\ PlaceInv
    BY DEF IInv, ReaderInv, TypeOK
<1>2. /\ rx.sentinel_generation \in Nat /\ rx.generation \in Nat
      /\ rx.sentinel_generation <= rx.generation
    BY <1>1, RingTypes DEF PlaceInv, PositionsOrdered, Before
<1>3. WithinLag(rx.sentinel_generation)
    BY DEF IInv, LagInv, OldestInUse
<1> QED
    BY <1>1, <1>2, <1>3, LagNewer

\* The card waits before it gets too far ahead of the oldest lap in use, and
\* what was returned stays what it was.
LEMMA CardIInv ==
    ASSUME IInv, Card
    PROVE  IInv'
<1>1. TypeOK /\ RingTypeOK /\ RingInv /\ ReaderInv
    BY DEF IInv, ReaderInv, TypeOK
<1>2. ReaderInv' /\ UNCHANGED <<rx, scan, pc, u, rx_buf, size, ret>>
    BY <1>1, CardKeeps DEF Card
<1>3. SentinelInv'
    BY <1>2 DEF IInv, SentinelInv, ReaderPos
<1>4. LagInv'
    <2>1. CASE pc = "acquire"
        <3>1. \A c \in Chunks : buffer'[c].lap <= hw'.lap /\ buffer'[c].lap \in Nat
            BY <1>2 DEF ReaderInv, RingInv, LapsInv, TypeOK, RingTypeOK, Laps
        <3>2. hw'.lap \in Nat
            BY <1>2 DEF ReaderInv, TypeOK, RingTypeOK, Laps
        <3>3. OldestInUse' = hw'.lap
            BY <1>2, <2>1 DEF OldestInUse
        <3> QED
            BY <3>1, <3>2, <3>3, RingAssumption DEF LagInv, WithinLag
    <2>2. CASE pc # "acquire"
        <3> DEFINE o == OldestInUse
        <3>1. o \in Nat /\ o' = o
            BY <1>1, <1>2, <2>2, RingTypes DEF OldestInUse
        <3>2. WithinLag(o)
            BY DEF IInv, LagInv
        <3>3. HwPayload(o) \/ HwInfo
            BY DEF Card
        <3> HIDE DEF o
        <3>4. WithinLag(o)'
            BY <1>1, <3>1, <3>2, <3>3, LagCard DEF WithinLag
        <3> QED
            BY <3>4 DEF LagInv, o
    <2> QED
        BY <2>1, <2>2
<1>5. (NoTornFrame <=> NoTornFrame') /\ (StatusOfTheData <=> StatusOfTheData')
    BY <1>2 DEF NoTornFrame, StatusOfTheData, WholeFrame
<1> QED
    BY <1>2, <1>3, <1>4, <1>5 DEF IInv

\* Steps of a call that stay clear of the sentinel.
LEMMA CallIInv ==
    ASSUME IInv, TypeOK', LagBound,
           Call \/ ReadNext \/ NoNewFrame \/ CopyMore \/ Truncate \/ CopyLast
    PROVE  IInv'
<1>1. /\ TypeOK /\ RingTypeOK /\ RingInv /\ PlaceInv /\ ReaderInv
      /\ ReaderPos \in Nat /\ size \in Nat
    BY RingTypes, PosFacts DEF IInv, ReaderInv, TypeOK, ReaderPos
<1>2. pc \notin {"acquire", "scan"} /\ pc' \notin {"acquire", "scan"}
    BY DEF Call, ReadNext, NoNewFrame, CopyMore, Truncate, CopyLast, Return
<1>3. WithinLag(rx.generation) /\ WithinLag(rx.sentinel_generation) /\ MaxLag + 1 < G
    BY <1>2, LagAtPlace, RingAssumption DEF LagBound
<1>4. ReaderInv'
    BY <1>1, <1>3, CallKeeps, ReadNextKeeps, NoNewFrameKeeps, CopyMoreKeeps, TruncateKeeps,
       CopyLastKeeps
<1>5. /\ UNCHANGED <<buffer, hw>>
      /\ rx'.sentinel_chunk = rx.sentinel_chunk
      /\ rx'.sentinel_generation = rx.sentinel_generation
    BY <1>1, AdvancedFields
       DEF Call, ReadNext, NoNewFrame, CopyMore, Truncate, CopyLast, Return, ringVars
<1>6. LagInv'
    BY <1>2, <1>3, <1>5 DEF LagInv, OldestInUse, WithinLag
<1>7. SentinelInv'
    <2>1. Pos(rx.sentinel_generation, rx.sentinel_chunk) \in Nat
        BY <1>1, RingTypes, PosFacts
    <2>2. Pos(rx.sentinel_generation, rx.sentinel_chunk) < ReaderPos - size
        BY <1>2 DEF IInv, SentinelInv
    <2>3. /\ pc = "call" => size = 0
          /\ \/ ReaderPos' = ReaderPos /\ size' \in {size, 0} /\ (size' # size => pc = "call")
             \/ ReaderPos' = ReaderPos + 1 /\ size' \in {size + 1, 0}
        <3>1. pc = "call" => size = 0
            BY <1>1 DEF ReaderInv, CopyInv
        <3>2. CASE Call \/ ReadNext \/ NoNewFrame
            BY <3>1, <3>2 DEF Call, ReadNext, NoNewFrame, Return, ringVars, ReaderPos
        <3>3. CASE CopyMore \/ Truncate \/ CopyLast
            BY <1>1, <3>1, <3>3, AdvanceKeeps DEF CopyMore, Truncate, CopyLast, Return
        <3> QED
            BY <3>1, <3>2, <3>3
    <2>4. Pos(rx.sentinel_generation, rx.sentinel_chunk) < ReaderPos' - size'
        BY <1>1, <2>1, <2>2, <2>3
    <2> QED
        BY <1>5, <2>4 DEF SentinelInv
<1>8. pc' = "idle" => NoTornFrame' /\ StatusOfTheData'
    BY DEF Call, ReadNext, NoNewFrame, CopyMore, Truncate, CopyLast, Return,
           NoTornFrame, StatusOfTheData
<1> QED
    BY <1>4, <1>6, <1>7, <1>8 DEF IInv

\* An untouched sentinel means the frame before the place is not overwritten.
LEMMA IntactAhead ==
    ASSUME IInv, LagBound, pc = "check", SentinelIntact, rx.aligned
    PROVE  Ahead
<1>1. /\ TypeOK /\ RingTypeOK /\ RingInv /\ PlaceInv /\ ReaderInv
      /\ ReaderPos \in Nat /\ CardPos \in Nat /\ size \in Nat
    BY RingTypes, PosFacts DEF IInv, ReaderInv, TypeOK, ReaderPos, CardPos
<1>2. WithinLag(rx.sentinel_generation) /\ MaxLag < G /\ N \in Nat
    BY LagAtPlace, RingAssumption DEF LagBound
<1>3. CardPos <= Pos(rx.sentinel_generation, rx.sentinel_chunk) + N
    BY <1>1, <1>2, SentinelTells
<1>4. Pos(rx.sentinel_generation, rx.sentinel_chunk) < ReaderPos - size
    BY DEF IInv, SentinelInv
<1>5. Pos(rx.sentinel_generation, rx.sentinel_chunk) \in Nat
    BY <1>1, RingTypes, PosFacts
<1> QED
    BY <1>1, <1>2, <1>3, <1>4, <1>5 DEF Ahead

\* The sentinel check: only a whole frame with the status in hand is returned.
LEMMA DeliverIInv ==
    ASSUME IInv, TypeOK', LagBound, Deliver
    PROVE  IInv'
<1> USE DEF Deliver, Return
<1>1. /\ TypeOK /\ RingTypeOK /\ RingInv /\ PlaceInv /\ ReaderInv
      /\ u.lap \in Laps /\ u.lap \in Nat /\ u.chunk \in Chunks /\ size \in Nat
      /\ ReaderPos \in Nat
    BY InfoTypes, RingTypes, PosFacts DEF IInv, ReaderInv, ReaderPos
<1>2. ReaderInv'
    BY <1>1, DeliverKeeps
<1>3. /\ rx'.sentinel_chunk = u.chunk /\ rx'.sentinel_generation = u.lap
      /\ rx'.aligned = rx.aligned /\ ReaderPos' = ReaderPos
      /\ Pos(u.lap, u.chunk) + 1 = ReaderPos
    BY <1>1, MovedKeeps
<1>4. Pos(u.lap, u.chunk) \in Nat
    BY <1>1, PosFacts
<1>5. SentinelInv'
    BY <1>1, <1>3, <1>4 DEF SentinelInv
<1>6. WithinLag(u.lap)
    <2>1. Pos(rx.sentinel_generation, rx.sentinel_chunk) < ReaderPos - size
        BY DEF IInv, SentinelInv
    <2>2. /\ rx.sentinel_generation \in Nat /\ rx.sentinel_generation \in Laps
          /\ rx.sentinel_chunk \in Chunks
          /\ Pos(rx.sentinel_generation, rx.sentinel_chunk) \in Nat
        BY <1>1, RingTypes, PosFacts
    <2>3. ~(Pos(u.lap, u.chunk) < Pos(rx.sentinel_generation, rx.sentinel_chunk))
        BY <1>1, <1>3, <1>4, <2>1, <2>2
    <2>4. rx.sentinel_generation <= u.lap
        BY <1>1, <2>2, <2>3, PosFacts DEF Before
    <2> QED
        BY <1>1, <2>2, <2>4, LagAtPlace, LagNewer
<1>7. LagInv'
    BY <1>3, <1>6 DEF LagInv, OldestInUse, WithinLag
<1>8. rx.aligned => WholeFrame(rx_buf) /\ rx_buf[Len(rx_buf)] = u.tag
    BY <1>1, IntactAhead DEF ReaderInv, CopyInv
<1>9. NoTornFrame'
    BY <1>3, <1>8 DEF NoTornFrame, WholeFrame
<1>10. StatusOfTheData'
    BY <1>3, <1>8 DEF StatusOfTheData
<1> QED
    BY <1>2, <1>5, <1>7, <1>9, <1>10 DEF IInv

\* Entering the catch-up, and the catch-up itself.
LEMMA CatchupIInv ==
    ASSUME IInv, TypeOK', Acquire \/ Lapped \/ Overwritten \/ Catchup
    PROVE  IInv'
<1>1. /\ TypeOK /\ RingTypeOK /\ RingInv /\ ReaderInv
    BY DEF IInv, ReaderInv, TypeOK
<1>2. CASE Acquire \/ Lapped \/ Overwritten
    <2>1. ReaderInv' /\ WithinLag(scan.floor)'
        BY <1>1, <1>2, AcquireKeeps, LappedKeeps, OverwrittenKeeps
    <2>2. pc' = "scan"
        BY <1>2 DEF Acquire, Lapped, Overwritten
    <2>3. LagInv' /\ SentinelInv'
        BY <2>1, <2>2 DEF LagInv, OldestInUse, SentinelInv, WithinLag
    <2> QED
        BY <2>1, <2>2, <2>3 DEF IInv
<1>3. CASE pc = "scan" /\ CatchupRead /\ UNCHANGED callVars
    <2>1. /\ ReaderInv' /\ UNCHANGED <<buffer, hw, rx, pc, u, rx_buf, size, ret>>
          /\ scan'.floor = scan.floor
        BY <1>1, <1>3, CatchupReadKeeps
    <2>2. LagInv' /\ SentinelInv'
        BY <1>3, <2>1 DEF IInv, LagInv, OldestInUse, SentinelInv, WithinLag
    <2> QED
        BY <1>3, <2>1, <2>2 DEF IInv
<1>4. CASE pc = "scan" /\ CatchupEnd /\ Return(ret) /\ UNCHANGED rx_buf
    <2>1. ReaderInv'
        BY <1>1, <1>4, CatchupEndKeeps
    <2>2. /\ UNCHANGED <<buffer, hw>>
          /\ scan.floor <= rx'.sentinel_generation
          /\ rx'.sentinel_generation \in Nat
          /\ Pos(rx'.sentinel_generation, rx'.sentinel_chunk) + 1 = ReaderPos'
        BY <1>1, <1>4, ScanEnd DEF ReaderInv, ScanInv
    <2>3. pc' = "idle" /\ size' = 0 /\ ret' = ret /\ ret \in {"acquired", "swovfl"}
        BY <1>1, <1>4 DEF Return, ReaderInv, RetInv
    <2>4. WithinLag(scan.floor) /\ scan.floor \in Nat
        BY <1>1, <1>4, RingTypes DEF IInv, LagInv, OldestInUse
    <2>5. LagInv'
        <3> DEFINE o == rx'.sentinel_generation
        <3>1. WithinLag(o)
            BY <1>1, <2>2, <2>4, LagNewer
        <3> QED
            BY <2>2, <2>3, <3>1 DEF LagInv, OldestInUse, WithinLag
    <2>6. SentinelInv'
        <3>1. /\ Pos(rx'.sentinel_generation, rx'.sentinel_chunk) \in Int
            BY <2>1, RingAssumption
               DEF ReaderInv, TypeOK, RingTypeOK, PlaceType, Laps, Chunks, Pos
        <3> QED
            BY <2>2, <2>3, <3>1 DEF SentinelInv
    <2> QED
        BY <2>1, <2>3, <2>5, <2>6 DEF IInv, NoTornFrame, StatusOfTheData
<1> QED
    BY <1>2, <1>3, <1>4 DEF Catchup

\* What both routines rely on holds initially.
LEMMA InitReader == Init => ReaderInv
<1> SUFFICES ASSUME Init PROVE ReaderInv
    OBVIOUS
<1> USE DEF Init
<1>1. TypeOK /\ RingTypeOK /\ RingInv
    BY TypeInit, RingInitially
<1>2. PlaceInv
    BY RingAssumption DEF RingInit, PlaceInv, PositionsOrdered, AtCard, Before
<1> QED
    BY <1>1, <1>2 DEF ReaderInv, ScanInv, InfoInv, CopyInv, RetInv

\* The inductive invariant holds initially.
LEMMA InitIInv == Init => IInv
<1> SUFFICES ASSUME Init PROVE IInv
    OBVIOUS
<1> USE DEF Init
<1>1. ReaderInv /\ TypeOK /\ RingTypeOK /\ RingInv
    BY InitReader, RingInitially DEF ReaderInv
<1>2. LagInv
    <2>1. hw.lap \in Nat /\ hw.lap >= hw.lap - 1
        BY <1>1, RingTypes
    <2> QED
        BY <1>1, <2>1, LagOfCard DEF LagInv, OldestInUse
<1>3. SentinelInv
    <2>1. /\ rx.sentinel_generation = G - 1 /\ rx.sentinel_chunk = N - 1
          /\ rx.generation = G /\ rx.next_chunk = 0 /\ size = 0
        BY DEF RingInit
    <2>2. G - 1 \in Laps /\ N - 1 \in Chunks /\ G \in Laps /\ 0 \in Chunks
        BY RingAssumption DEF Laps, Chunks
    <2>3. Before(G - 1, N - 1, G, 0)
        BY RingAssumption DEF Before
    <2>4. Pos(G - 1, N - 1) < Pos(G, 0) /\ Pos(G, 0) \in Nat
        BY <2>2, <2>3, PosFacts
    <2> QED
        BY <2>1, <2>4 DEF SentinelInv, ReaderPos
<1> QED
    BY <1>1, <1>2, <1>3 DEF IInv

\* Every step of the card and of the reader keeps the inductive invariant.
LEMMA NextIInv == LagBound /\ IInv /\ [Next]_vars => IInv'
<1> SUFFICES ASSUME LagBound, IInv, [Next]_vars
             PROVE  IInv'
    OBVIOUS
<1>1. TypeOK'
    BY TypeNext DEF IInv, ReaderInv, RingInv
<1>2. CASE Card
    BY <1>2, CardIInv
<1>3. CASE Call \/ ReadNext \/ NoNewFrame \/ CopyMore \/ Truncate \/ CopyLast
    BY <1>1, <1>3, CallIInv
<1>4. CASE Deliver
    BY <1>1, <1>4, DeliverIInv
<1>5. CASE Acquire \/ Lapped \/ Overwritten \/ Catchup
    BY <1>1, <1>5, CatchupIInv
<1>6. CASE UNCHANGED vars
    <2>1. ReaderInv'
        BY <1>6, StutterKeeps DEF IInv
    <2> USE <1>6 DEF vars, ringVars, callVars
    <2>2. LagInv' /\ SentinelInv'
        BY DEF IInv, LagInv, OldestInUse, WithinLag, SentinelInv, ReaderPos
    <2>3. (NoTornFrame <=> NoTornFrame') /\ (StatusOfTheData <=> StatusOfTheData')
        BY DEF NoTornFrame, StatusOfTheData, WholeFrame
    <2> QED
        BY <2>1, <2>2, <2>3 DEF IInv
<1> QED
    BY <1>2, <1>3, <1>4, <1>5, <1>6 DEF Next, Receive

-----------------------------------------------------------------------------
(* The theorems.                                                           *)

\* The inductive invariant holds as long as the card does not get so far ahead
\* that its generations wrap onto the reader's.
THEOREM Invariance == LagBound => (Spec => []IInv)
<1> SUFFICES ASSUME LagBound
             PROVE  Spec => []IInv
    OBVIOUS
<1>1. Init => IInv
    BY InitIInv
<1>2. IInv /\ [Next]_vars => IInv'
    BY NextIInv
<1> QED
    BY <1>1, <1>2, PTL DEF Spec

\* The ring stays in order, and every variable in its type, however far the
\* card gets ahead of the reader.
THEOREM RingInOrder == Spec => [](TypeOK /\ RingInv)
<1>1. Init => TypeOK /\ RingInv
    BY InitIInv DEF IInv, ReaderInv
<1>2. TypeOK /\ RingInv /\ [Next]_vars => (TypeOK /\ RingInv)'
    <2> SUFFICES ASSUME TypeOK, RingInv, [Next]_vars
                 PROVE  TypeOK' /\ RingInv'
        OBVIOUS
    <2>1. TypeOK' /\ RingTypeOK
        BY TypeNext DEF RingInv, TypeOK
    <2>2. CASE Card
        BY <2>1, <2>2, RingPayload, RingInfo DEF Card
    <2>3. CASE UNCHANGED <<buffer, hw>>
        BY <2>1, <2>3, RingUntouched
    <2>4. Card \/ UNCHANGED <<buffer, hw>>
        BY DEF Next, Acquire, Call, Receive, ReadNext, NoNewFrame, Lapped, CopyMore, Truncate,
               CopyLast, Deliver, Overwritten, Catchup, CatchupRead, CatchupEnd, vars, ringVars
    <2> QED
        BY <2>1, <2>2, <2>3, <2>4
<1> QED
    BY <1>1, <1>2, PTL DEF Spec

\* Every variable keeps its type: no index leaves the ring, no result is other
\* than those exanic_receive_frame documents.
THEOREM TypeCorrect == Spec => []TypeOK
BY RingInOrder, PTL

\* exanic_receive_frame returns only whole frames, wherever the card's writes
\* fall between its reads, if its catch-ups found an end of frame.
THEOREM NoTornFrameHolds == LagBound => (Spec => []NoTornFrame)
<1>1. IInv => NoTornFrame
    BY DEF IInv, ReaderInv, RetInv, TypeOK, Locations, NoTornFrame
<1> QED
    BY <1>1, Invariance, PTL

\* The status returned is the one of the frame in the buffer.
THEOREM StatusHolds == LagBound => (Spec => []StatusOfTheData)
<1>1. IInv => StatusOfTheData
    BY DEF IInv, ReaderInv, RetInv, TypeOK, Locations, StatusOfTheData
<1> QED
    BY <1>1, Invariance, PTL

\* Card, reader and sentinel stay in order.
THEOREM PositionsHold == LagBound => (Spec => []PositionsOrdered)
<1>1. IInv => PositionsOrdered
    BY DEF IInv, ReaderInv, PlaceInv
<1> QED
    BY <1>1, Invariance, PTL

\* "No frame is available" is only ever said when the card has not written the
\* chunk awaited.
THEOREM EmptyHolds == LagBound => (Spec => EmptyMeansEmpty)
<1> SUFFICES ASSUME LagBound
             PROVE  Spec => EmptyMeansEmpty
    OBVIOUS
<1>1. IInv /\ [Next]_vars => (ret' = "empty" /\ ret # "empty" => AtCard)
    <2> SUFFICES ASSUME IInv, [Next]_vars, ret' = "empty", ret # "empty"
                 PROVE  AtCard
        OBVIOUS
    <2>1. NoNewFrame
        BY DEF Next, Card, Acquire, Call, Receive, ReadNext, Lapped, CopyMore, Truncate,
               CopyLast, Deliver, Overwritten, Catchup, Return, vars, ringVars, callVars
    <2>2. WithinLag(rx.generation) /\ MaxLag + 1 < G
        BY <2>1, LagAtPlace, RingAssumption DEF NoNewFrame, LagBound
    <2> QED
        BY <2>1, <2>2, GenerationsTell DEF NoNewFrame, IInv, ReaderInv, TypeOK
<1> QED
    BY <1>1, Invariance, PTL DEF Spec, EmptyMeansEmpty

-----------------------------------------------------------------------------
(* A ring with room for frames of every lap in it always shows an end.     *)

\* Every step keeps NoEndYet during a catch-up, so that it finds an end.
LEMMA NextAligned ==
    LagBound /\ RoomyRing /\ IInv /\ AlignedInv /\ IInv' /\ [Next]_vars => AlignedInv'
<1> SUFFICES ASSUME LagBound, RoomyRing, IInv, AlignedInv, IInv', [Next]_vars
             PROVE  AlignedInv'
    OBVIOUS
<1>1. /\ TypeOK /\ RingTypeOK /\ RingInv /\ PlaceInv /\ ReaderInv
      /\ TypeOK' /\ RingTypeOK' /\ RingInv'
    BY DEF IInv, ReaderInv, TypeOK
<1>2. CASE Card
    <2>1. UNCHANGED <<rx, pc, scan>>
        BY <1>1, <1>2, CardKeeps DEF Card
    <2>2. ASSUME pc = "scan"
          PROVE  NoEndYet'
        BY <1>1, <1>2, <2>2, NoEndCard DEF Card, AlignedInv, ReaderInv, ScanInv
    <2> QED
        BY <2>1, <2>2 DEF AlignedInv
<1>3. CASE Acquire \/ Lapped \/ Overwritten
    <2>1. NoEndYet'
        BY <1>1, <1>3, AcquireKeeps, LappedKeeps, OverwrittenKeeps
    <2>2. rx'.aligned = rx.aligned
        BY <1>1, <1>3, MovedKeeps DEF Acquire, Lapped, Overwritten
    <2> QED
        BY <2>1, <2>2 DEF AlignedInv
<1>4. CASE Call \/ ReadNext \/ NoNewFrame
    BY <1>4 DEF Call, ReadNext, NoNewFrame, Return, ringVars, AlignedInv
<1>5. CASE CopyMore \/ Truncate \/ CopyLast
    <2>1. rx'.aligned = rx.aligned
        BY <1>1, <1>5, AdvanceKeeps DEF CopyMore, Truncate, CopyLast
    <2> QED
        BY <1>5, <2>1 DEF CopyMore, Truncate, CopyLast, Return, AlignedInv
<1>6. CASE Deliver
    BY <1>1, <1>6, MovedKeeps DEF Deliver, Return, AlignedInv
<1>7. CASE pc = "scan" /\ CatchupRead /\ UNCHANGED callVars
    <2>1. UNCHANGED <<rx, pc>>
        BY <1>1, <1>7, CatchupReadKeeps
    <2>2. WithinLag(scan.floor) /\ MaxLag < G
        BY <1>7, RingAssumption DEF IInv, LagInv, OldestInUse, LagBound
    <2>3. NoEndYet'
        BY <1>1, <1>7, <2>2, NoEndRead DEF AlignedInv, ReaderInv, ScanInv
    <2> QED
        BY <2>1, <2>3 DEF AlignedInv
<1>8. CASE pc = "scan" /\ CatchupEnd /\ Return(ret)
    <2>1. ScanFound /\ NoEndYet
        BY <1>1, <1>8 DEF AlignedInv, ReaderInv, ScanInv
    <2>2. rx'.aligned
        BY <1>1, <1>8, <2>1, EndFound, ScanEnd
    <2> QED
        BY <1>8, <2>2 DEF Return, AlignedInv
<1>9. CASE UNCHANGED vars
    BY <1>9 DEF vars, ringVars, callVars, AlignedInv, NoEndYet
<1> QED
    BY <1>2, <1>3, <1>4, <1>5, <1>6, <1>7, <1>8, <1>9 DEF Next, Receive, Catchup

\* A catch-up never has to start in the middle of a frame, if the ring has room
\* for more chunks than the laps it holds can be without an end of frame.
THEOREM FallbackUnusedHolds == LagBound /\ RoomyRing => (Spec => []FallbackUnused)
<1> SUFFICES ASSUME LagBound, RoomyRing
             PROVE  Spec => []FallbackUnused
    OBVIOUS
<1>1. Init => AlignedInv
    BY DEF Init, RingInit, AlignedInv
<1>2. IInv /\ AlignedInv /\ IInv' /\ [Next]_vars => AlignedInv'
    BY NextAligned
<1>3. AlignedInv => FallbackUnused
    BY DEF AlignedInv, FallbackUnused
<1> QED
    BY <1>1, <1>2, <1>3, Invariance, PTL DEF Spec

-----------------------------------------------------------------------------
(* With buffers that hold any frame, only overflows lose frames.           *)

\* No frame is too long for the buffer.
LEMMA NoTruncate ==
    ASSUME IInv, RoomyBuffer
    PROVE  ~Truncate
<1> SUFFICES ASSUME Truncate
             PROVE  FALSE
    OBVIOUS
<1>1. u.tag.k > size /\ u.tag.k <= MaxFrame /\ size >= BufChunks
    BY DEF Truncate, IInv, ReaderInv, InfoInv, CopyInv, TagFits
<1>2. size \in Nat /\ u.tag.k \in Nat
    BY InfoTypes DEF IInv, ReaderInv
<1> QED
    BY <1>1, <1>2, BufAssumption, RingAssumption DEF RoomyBuffer

\* The reader finds itself overrun only when the card has come round to the
\* first chunk of the frame being taken.
LEMMA OverrunMeansLapped ==
    ASSUME IInv, TightInv, LagBound, Lapped \/ Overwritten
    PROVE  CardPos >= ReaderPos - size + N
<1>1. /\ TypeOK /\ RingTypeOK /\ RingInv /\ PlaceInv
      /\ CardPos \in Nat /\ ReaderPos \in Nat /\ size \in Nat /\ N \in Nat
      /\ Pos(rx.sentinel_generation, rx.sentinel_chunk) \in Nat
    BY InfoTypes, RingTypes, PosFacts, RingAssumption DEF IInv, ReaderInv, CardPos, ReaderPos
<1>2. /\ WithinLag(rx.generation) /\ WithinLag(rx.sentinel_generation)
      /\ MaxLag + 1 < G /\ MaxLag < G
    BY LagAtPlace, RingAssumption DEF Lapped, Overwritten, LagBound
<1>3. CASE Lapped
    <2>1. CardPos > ReaderPos + N
        BY <1>1, <1>2, <1>3, GenerationsTell DEF Lapped
    <2> QED
        BY <1>1, <2>1
<1>4. CASE Overwritten
    <2>1. CardPos > Pos(rx.sentinel_generation, rx.sentinel_chunk) + N
        BY <1>1, <1>2, <1>4, SentinelTells DEF Overwritten
    <2>2. Pos(rx.sentinel_generation, rx.sentinel_chunk) + 1 = ReaderPos - size
        BY <1>4 DEF TightInv, Overwritten
    <2> QED
        BY <1>1, <2>1, <2>2
<1> QED
    BY <1>3, <1>4

\* What a catch-up reads was written in the last lap before the card.
LEMMA ReadIsRecent ==
    ASSUME RingTypeOK, LapsInv, NEW c \in Chunks
    PROVE  CardPos <= Pos(buffer[c].lap, c) + N
<1>1. /\ hw.lap \in Laps /\ hw.lap \in Nat /\ hw.chunk \in Chunks
      /\ buffer[c].lap \in Laps /\ buffer[c].lap \in Nat
      /\ buffer[c].lap = IF c < hw.chunk THEN hw.lap ELSE hw.lap - 1
    BY RingTypes DEF LapsInv
<1> DEFINE l == buffer[c].lap
<1> HIDE DEF l
<1>2. l + 1 \in Laps /\ Pos(l + 1, c) = Pos(l, c) + N
    <2>1. l \in Laps /\ l + 1 \in Laps
        BY <1>1 DEF l, Laps
    <2> QED
        BY <2>1, PosFacts
<1>3. ~Before(l + 1, c, hw.lap, hw.chunk)
    BY <1>1 DEF Before, l, Chunks
<1>4. ~(Pos(l + 1, c) < CardPos) /\ Pos(l + 1, c) \in Nat /\ CardPos \in Nat
    BY <1>1, <1>2, <1>3, PosFacts DEF CardPos
<1> QED
    BY <1>2, <1>4 DEF l

\* Every step keeps the sentinel next to the frame being taken, and a catch-up
\* after an overflow beyond its first chunk.
LEMMA NextTight ==
    LagBound /\ RoomyBuffer /\ IInv /\ TightInv /\ IInv' /\ [Next]_vars => TightInv'
<1> SUFFICES ASSUME LagBound, RoomyBuffer, IInv, TightInv, IInv', [Next]_vars
             PROVE  TightInv'
    OBVIOUS
<1>1. /\ TypeOK /\ TypeOK' /\ RingTypeOK /\ RingInv /\ LapsInv /\ PlaceInv /\ ReaderInv
      /\ CardPos \in Nat /\ ReaderPos \in Nat /\ size \in Nat /\ N \in Nat
      /\ CardPos' \in Nat /\ ReaderPos' \in Nat /\ size' \in Nat
    <2>1. TypeOK /\ TypeOK' /\ RingTypeOK /\ RingInv /\ LapsInv /\ PlaceInv /\ ReaderInv
        BY DEF IInv, ReaderInv, TypeOK, RingInv
    <2>2. CardPos \in Nat /\ ReaderPos \in Nat /\ size \in Nat /\ N \in Nat
        BY <2>1, InfoTypes, RingTypes, PosFacts, RingAssumption DEF CardPos, ReaderPos
    <2>3. CardPos' \in Nat /\ ReaderPos' \in Nat /\ size' \in Nat
        BY <2>1, PosFacts DEF TypeOK, RingTypeOK, PlaceType, CardPos, ReaderPos
    <2> QED
        BY <2>1, <2>2, <2>3
<1>2. CASE Card
    <2>1. /\ UNCHANGED <<rx, scan, pc, u, rx_buf, size, ret>>
          /\ CardPos <= CardPos' /\ ReaderPos' = ReaderPos
        BY <1>1, <1>2, CardKeeps DEF Card, ReaderPos
    <2> QED
        BY <1>1, <2>1 DEF TightInv
<1>3. CASE Acquire
    <2>1. UNCHANGED <<rx, size>> /\ ReaderPos' = ReaderPos /\ ret' = "acquired" /\ pc' = "scan"
        BY <1>3 DEF Acquire, ReaderPos
    <2> QED
        BY <1>1, <1>3, <2>1 DEF TightInv, Acquire
<1>4. CASE Lapped \/ Overwritten
    <2>1. CardPos >= ReaderPos - size + N
        BY <1>4, OverrunMeansLapped
    <2>2. /\ pc' = "scan" /\ ret' = "swovfl" /\ size' = size
          /\ CardPos' = CardPos /\ ReaderPos' = ReaderPos
        BY <1>1, <1>4, MovedKeeps DEF Lapped, Overwritten, CardPos, ReaderPos
    <2>3. scan'.left = N /\ ~scan'.eof_found
        BY <1>1, <1>4, ScanBegin DEF Lapped, Overwritten
    <2> QED
        BY <1>1, <2>1, <2>2, <2>3 DEF TightInv
<1>5. CASE Call \/ ReadNext \/ NoNewFrame
    <2>1. size' = size
        BY <1>1, <1>5 DEF Call, ReadNext, NoNewFrame, Return, ReaderInv, CopyInv
    <2>2. /\ UNCHANGED rx /\ ReaderPos' = ReaderPos
          /\ pc \notin {"acquire", "scan"} /\ pc' \notin {"acquire", "scan"}
        BY <1>5 DEF Call, ReadNext, NoNewFrame, Return, ringVars, ReaderPos
    <2> QED
        BY <2>1, <2>2 DEF TightInv
<1>6. CASE CopyMore \/ CopyLast
    <2>1. /\ rx'.sentinel_chunk = rx.sentinel_chunk
          /\ rx'.sentinel_generation = rx.sentinel_generation
          /\ ReaderPos' = ReaderPos + 1
        BY <1>1, <1>6, AdvanceKeeps DEF CopyMore, CopyLast
    <2>2. pc = "copy" /\ pc' \notin {"acquire", "scan"} /\ size' = size + 1
        BY <1>6 DEF CopyMore, CopyLast
    <2> QED
        BY <1>1, <2>1, <2>2 DEF TightInv
<1>7. CASE Deliver
    <2>1. /\ rx'.sentinel_chunk = u.chunk /\ rx'.sentinel_generation = u.lap
          /\ ReaderPos' = ReaderPos /\ Pos(u.lap, u.chunk) + 1 = ReaderPos
        BY <1>1, <1>7, MovedKeeps DEF Deliver
    <2>2. pc' = "idle" /\ size' = 0
        BY <1>7 DEF Deliver, Return
    <2> QED
        BY <1>1, <2>1, <2>2 DEF TightInv
<1>8. CASE pc = "scan" /\ CatchupRead /\ UNCHANGED callVars
    <2> DEFINE c == scan.left - 1
               d == scan'.break_chunk
               l == scan'.break_gen
               e == scan'.eof_chunk
               m == scan'.eof_gen
    <2>1. /\ UNCHANGED <<hw, rx, pc, size, ret>> /\ CardPos' = CardPos /\ ReaderPos' = ReaderPos
        BY <1>1, <1>8, CatchupReadKeeps DEF CardPos, ReaderPos
    <2>2. SUFFICES ASSUME ret = "swovfl"
                   PROVE  /\ Pos(l, d) >= ReaderPos - size
                          /\ scan'.eof_found => Pos(m, e) >= ReaderPos - size
        BY <1>1, <1>8, <2>1 DEF TightInv
    <2>3. /\ CardPos >= ReaderPos - size + N
          /\ scan.left < N => Pos(scan.break_gen, scan.break_chunk) >= ReaderPos - size
          /\ scan.eof_found => Pos(scan.eof_gen, scan.eof_chunk) >= ReaderPos - size
        BY <1>8, <2>2 DEF TightInv
    <2>4. c \in Chunks /\ (c # N - 1 => scan.left < N)
        BY <1>1, <1>8, RingTypes, RingAssumption DEF CatchupRead, Chunks
    <2>5. Pos(buffer[c].lap, c) >= ReaderPos - size
        <3>1. CardPos <= Pos(buffer[c].lap, c) + N /\ Pos(buffer[c].lap, c) \in Nat
            BY <1>1, <2>4, ReadIsRecent, RingTypes, PosFacts
        <3> QED
            BY <1>1, <2>3, <3>1
    <2>6. \/ l = buffer[c].lap /\ d = c
          \/ c # N - 1 /\ l = scan.break_gen /\ d = scan.break_chunk
        BY <1>8 DEF CatchupRead
    <2>7. scan'.eof_found => \/ m = buffer[c].lap /\ e = c
                             \/ scan.eof_found /\ m = scan.eof_gen /\ e = scan.eof_chunk
        BY <1>8 DEF CatchupRead
    <2> QED
        BY <2>3, <2>4, <2>5, <2>6, <2>7
<1>9. CASE pc = "scan" /\ CatchupEnd /\ Return(ret)
    <2>1. Pos(rx'.sentinel_generation, rx'.sentinel_chunk) + 1 = ReaderPos'
        BY <1>1, <1>9, ScanEnd DEF ReaderInv, ScanInv
    <2>2. pc' = "idle" /\ size' = 0
        BY <1>9 DEF Return
    <2> QED
        BY <1>1, <2>1, <2>2 DEF TightInv
<1>10. CASE UNCHANGED vars
    BY <1>10 DEF vars, ringVars, callVars, TightInv, ReaderPos, CardPos
<1> QED
    BY <1>2, <1>3, <1>4, <1>5, <1>6, <1>7, <1>8, <1>9, <1>10, NoTruncate
       DEF Next, Receive, Catchup

\* Initially the sentinel is the chunk before the first.
LEMMA InitTight == Init => TightInv
<1> SUFFICES ASSUME Init PROVE TightInv
    OBVIOUS
<1>1. /\ rx.sentinel_generation = G - 1 /\ rx.sentinel_chunk = N - 1 /\ pc = "acquire"
      /\ rx.generation = G /\ rx.next_chunk = 0 /\ size = 0
    BY DEF Init, RingInit
<1>2. /\ G - 1 \in Laps /\ N - 1 \in Chunks
      /\ NextLap(G - 1, N - 1) = G /\ NextChunk(N - 1) = 0
    BY RingAssumption DEF Laps, Chunks, NextLap, NextChunk
<1>3. Pos(G - 1, N - 1) + 1 = Pos(G, 0) /\ Pos(G, 0) \in Nat
    BY <1>2, PosFacts, NextChunkFacts
<1> QED
    BY <1>1, <1>3 DEF TightInv, ReaderPos

\* The stronger invariant, for buffers that hold any frame.
THEOREM TightInvariance == LagBound /\ RoomyBuffer => (Spec => [](IInv /\ TightInv))
<1> SUFFICES ASSUME LagBound, RoomyBuffer
             PROVE  Spec => [](IInv /\ TightInv)
    OBVIOUS
<1>1. Init => TightInv
    BY InitTight
<1>2. IInv /\ TightInv /\ IInv' /\ [Next]_vars => TightInv'
    BY NextTight
<1> QED
    BY <1>1, <1>2, Invariance, PTL DEF Spec

\* An overflow report is never a false alarm: the card had come round to the
\* first chunk of the frame the call was taking.
THEOREM OverflowHolds == LagBound /\ RoomyBuffer => (Spec => OverflowMeansLapped)
<1> SUFFICES ASSUME LagBound, RoomyBuffer
             PROVE  Spec => OverflowMeansLapped
    OBVIOUS
<1>1. IInv /\ TightInv /\ [Next]_vars =>
          (ret' = "swovfl" /\ ret = "none" => CardPos >= ReaderPos - size + N)
    <2> SUFFICES ASSUME IInv, TightInv, [Next]_vars, ret' = "swovfl", ret = "none"
                 PROVE  CardPos >= ReaderPos - size + N
        OBVIOUS
    <2>1. Lapped \/ Overwritten
        BY DEF Next, Card, Acquire, Call, Receive, ReadNext, NoNewFrame, CopyMore, Truncate,
               CopyLast, Deliver, Catchup, Return, vars, ringVars, callVars
    <2> QED
        BY <2>1, OverrunMeansLapped
<1> QED
    BY <1>1, TightInvariance, PTL DEF Spec, OverflowMeansLapped

-----------------------------------------------------------------------------
(* The refinement of FrameStream: what each step does to the stream.       *)

\* The stream's variables, as the refinement reads them off the state.
StreamPos == ReaderPos - size
StreamRet == IF pc = "scan" THEN "none" ELSE ret

\* A step that leaves the place of the call and its result alone.
LEMMA StreamStutters ==
    ASSUME CardPos' = CardPos, StreamPos' = StreamPos, StreamRet' = StreamRet,
           Returned' = Returned
    PROVE  UNCHANGED Stream!streamVars
BY DEF Stream!streamVars, StreamPos, StreamRet

\* A whole frame returned is the next one of the stream, and nothing of it was
\* overwritten when the card was looked at last.
LEMMA DeliverTakes ==
    ASSUME IInv, IInv', LagBound, rx.aligned, Deliver
    PROVE  \E n \in 1 .. MaxFrame : Stream!Take(n)
<1>1. /\ TypeOK /\ RingTypeOK /\ RingInv /\ PlaceInv /\ ReaderInv
      /\ CardPos \in Nat /\ ReaderPos \in Nat /\ size \in Nat /\ N \in Nat
      /\ u.lap \in Laps /\ u.chunk \in Chunks /\ u.tag \in Tag /\ rx_buf \in Seq(Tag)
    BY InfoTypes, RingTypes, PosFacts, RingAssumption
       DEF IInv, ReaderInv, CardPos, ReaderPos, TypeOK
<1>2. Ahead /\ CardPos < ReaderPos - size + N
    BY <1>1, IntactAhead DEF Deliver, Ahead
<1>3. /\ WholeFrame(rx_buf) /\ Len(rx_buf) = size
      /\ rx_buf[Len(rx_buf)] = u.tag /\ rx_buf[1].frame = u.tag.frame
    BY <1>1, <1>2 DEF ReaderInv, CopyInv, Deliver
<1>4. size > 0 /\ u.tag.k = size
    BY <1>1, <1>3 DEF WholeFrame
<1>5. size \in 1 .. MaxFrame
    BY <1>1, <1>4, RingAssumption DEF ReaderInv, InfoInv, TagFits, Deliver
<1>6. Pos(u.tag.frame[1], u.tag.frame[2]) = ReaderPos - size
    <2>1. Pos(u.tag.frame[1], u.tag.frame[2]) + u.tag.k = Pos(u.lap, u.chunk) + 1
        BY <1>1 DEF ReaderInv, InfoInv, StartsAt, Deliver
    <2>2. Pos(u.lap, u.chunk) + 1 = ReaderPos
        BY <1>1, MovedKeeps DEF Deliver
    <2>3. Pos(u.tag.frame[1], u.tag.frame[2]) \in Nat
        BY <1>1, TagTypes
    <2> QED
        BY <1>1, <1>4, <2>1, <2>2, <2>3
<1>7. /\ ReaderPos' = ReaderPos /\ CardPos' = CardPos /\ size' = 0 /\ rx_buf' = rx_buf
      /\ pc' = "idle" /\ ret' \in {"frame", "error"}
    BY <1>1, MovedKeeps DEF Deliver, Return
<1>8. ReaderPos <= CardPos
    BY <1>1, PlaceBehind
<1>9. pc = "check" /\ ret = "none"
    BY <1>1 DEF Deliver, ReaderInv, RetInv
<1>10. Returned' = <<ReaderPos - size, size>>
    BY <1>3, <1>6, <1>7 DEF Returned
<1> DEFINE p == ReaderPos - size
<1>11. p + size = ReaderPos /\ ReaderPos' - size' = ReaderPos
    BY <1>1, <1>7
<1> QED
    BY <1>1, <1>2, <1>5, <1>7, <1>8, <1>9, <1>10, <1>11 DEF Stream!Take

\* A catch-up leaves the call at a later place that the card has reached, and
\* if there was an overflow past the first chunk of the frame being taken.
LEMMA CatchupReports ==
    ASSUME IInv, IInv', TightInv, TightInv',
           pc = "scan", CatchupEnd, Return(ret), UNCHANGED rx_buf
    PROVE  Stream!Attach \/ Stream!Overflow
<1>1. /\ TypeOK /\ TypeOK' /\ RingTypeOK /\ RingInv /\ PlaceInv' /\ ReaderInv /\ ScanFound
      /\ CardPos \in Nat /\ ReaderPos \in Nat /\ size \in Nat /\ N \in Nat
    BY InfoTypes, RingTypes, PosFacts, RingAssumption
       DEF IInv, ReaderInv, CardPos, ReaderPos, TypeOK, ScanInv
<1>2. /\ UNCHANGED <<buffer, hw>> /\ CardPos' = CardPos
      /\ Pos(rx'.sentinel_generation, rx'.sentinel_chunk) + 1 = ReaderPos'
      /\ \/ /\ rx'.sentinel_generation = scan.eof_gen /\ rx'.sentinel_chunk = scan.eof_chunk
            /\ scan.eof_found
         \/ /\ rx'.sentinel_generation = scan.break_gen
            /\ rx'.sentinel_chunk = scan.break_chunk
            /\ scan.left < N
    BY <1>1, ScanEnd DEF CardPos
<1>3. pc' = "idle" /\ ret' = ret /\ size' = 0 /\ ret \in {"acquired", "swovfl"}
    BY <1>1 DEF Return, ReaderInv, RetInv
<1>4. ReaderPos' \in Nat /\ CardPos' \in Nat /\ ReaderPos' <= CardPos'
    <2>1. /\ rx'.generation \in Laps /\ rx'.next_chunk \in Chunks
          /\ hw'.lap \in Laps /\ hw'.chunk \in Chunks
        BY <1>1 DEF TypeOK, RingTypeOK, PlaceType
    <2>2. \/ rx'.generation = hw'.lap /\ rx'.next_chunk = hw'.chunk
          \/ Before(rx'.generation, rx'.next_chunk, hw'.lap, hw'.chunk)
        BY <1>1 DEF PlaceInv, PositionsOrdered, AtCard
    <2>3. /\ Pos(rx'.generation, rx'.next_chunk) \in Nat /\ Pos(hw'.lap, hw'.chunk) \in Nat
          /\ Pos(rx'.generation, rx'.next_chunk) <= Pos(hw'.lap, hw'.chunk)
        BY <2>1, <2>2, PosFacts
    <2> QED
        BY <2>3 DEF ReaderPos, CardPos
<1>5. Returned' = Returned /\ Returned = <<0, 0>>
    BY <1>3 DEF Returned
<1>6. ReaderPos' - size' = ReaderPos'
    <2>1. ReaderPos' \in Nat
        BY <1>4
    <2>2. size' = 0
        BY <1>3
    <2>3. \A n \in Nat : n - 0 = n
        OBVIOUS
    <2> QED
        BY <2>1, <2>2, <2>3, Zenon
<1> DEFINE p == ReaderPos - size
<1>7. CASE ret = "acquired"
    <2>1. p = Pos(G, 0)
        BY <1>7 DEF TightInv
    <2>2. G \in Laps /\ 0 \in Chunks /\ Pos(G, 0) \in Nat
        BY RingAssumption, PosFacts DEF Laps, Chunks
    <2>3. rx'.generation >= G /\ rx'.generation \in Laps /\ rx'.next_chunk \in Chunks
        BY <1>1 DEF PlaceInv, TypeOK, RingTypeOK, PlaceType
    <2>4. ~Before(rx'.generation, rx'.next_chunk, G, 0)
        BY <2>3, RingAssumption DEF Before, Laps, Chunks
    <2>5. ~(ReaderPos' < Pos(G, 0))
        BY <2>2, <2>3, <2>4, PosFacts DEF ReaderPos
    <2>6. ReaderPos' \in p .. CardPos
        BY <1>1, <1>2, <1>4, <2>1, <2>2, <2>5
    <2> QED
        BY <1>2, <1>3, <1>5, <1>6, <1>7, <2>6 DEF Stream!Attach
<1>8. CASE ret = "swovfl"
    <2>1. CardPos >= p + N
        BY <1>8 DEF TightInv
    <2>2. Pos(rx'.sentinel_generation, rx'.sentinel_chunk) >= p
        BY <1>2, <1>8 DEF TightInv
    <2>3. Pos(rx'.sentinel_generation, rx'.sentinel_chunk) \in Nat
        BY <1>1, PosFacts DEF TypeOK, RingTypeOK, PlaceType
    <2>4. ReaderPos' \in p + 1 .. CardPos
        BY <1>1, <1>2, <1>4, <2>2, <2>3
    <2> QED
        BY <1>2, <1>3, <1>5, <1>6, <1>8, <2>1, <2>4 DEF Stream!Overflow
<1> QED
    BY <1>3, <1>7, <1>8

\* Every step of the card and of the reader is a step of the stream, or none.
LEMMA NextStream ==
    LagBound /\ RoomyBuffer /\ rx.aligned /\ IInv /\ TightInv /\ IInv' /\ TightInv' /\ [Next]_vars
        => [Stream!StreamNext]_(Stream!streamVars)
<1> SUFFICES ASSUME LagBound, RoomyBuffer, rx.aligned, IInv, TightInv, IInv', TightInv',
                    [Next]_vars
             PROVE  Stream!StreamNext \/ UNCHANGED Stream!streamVars
    OBVIOUS
<1> USE DEF Stream!StreamNext
<1>1. /\ TypeOK /\ TypeOK' /\ RingTypeOK /\ RingInv /\ PlaceInv /\ ReaderInv
      /\ CardPos \in Nat /\ ReaderPos \in Nat /\ size \in Nat
    BY InfoTypes, RingTypes, PosFacts DEF IInv, ReaderInv, CardPos, ReaderPos
<1>2. CASE HwPayload(OldestInUse) /\ UNCHANGED callVars
    <2>1. CardPos' = CardPos /\ ReaderPos' = ReaderPos
        BY <1>1, <1>2, HwPayloadEffect DEF CardPos, ReaderPos
    <2>2. UNCHANGED <<pc, size, ret, rx_buf>>
        BY <1>2 DEF callVars
    <2> QED
        BY <2>1, <2>2, StreamStutters DEF StreamPos, StreamRet, Returned
<1>3. CASE HwInfo /\ UNCHANGED callVars
    <2>1. CardPos' = CardPos + 1 /\ ReaderPos' = ReaderPos
        BY <1>1, <1>3, HwInfoEffect DEF ReaderPos
    <2>2. UNCHANGED <<pc, size, ret, rx_buf>> /\ Returned' = Returned
        BY <1>3 DEF callVars, Returned
    <2> QED
        BY <2>1, <2>2 DEF Stream!Produce
<1>4. CASE Acquire \/ Lapped \/ Overwritten \/ ReadNext
    <2>1. CardPos' = CardPos /\ ReaderPos' = ReaderPos /\ size' = size /\ rx_buf' = rx_buf
        BY <1>1, <1>4, MovedKeeps
           DEF Acquire, Lapped, Overwritten, ReadNext, ringVars, CardPos, ReaderPos
    <2>2. StreamRet = "none" /\ StreamRet' = "none"
        BY <1>1, <1>4 DEF Acquire, Lapped, Overwritten, ReadNext, StreamRet, IInv, ReaderInv, RetInv
    <2>3. Returned = <<0, 0>> /\ Returned' = <<0, 0>>
        BY <1>1, <1>4
           DEF Acquire, Lapped, Overwritten, ReadNext, Returned, IInv, ReaderInv, RetInv
    <2> QED
        BY <2>1, <2>2, <2>3, StreamStutters DEF StreamPos
<1>5. CASE Call
    <2>1. CardPos' = CardPos /\ ReaderPos' = ReaderPos /\ size' = size
        BY <1>5 DEF Call, ringVars, CardPos, ReaderPos
    <2>2. ret' = "none" /\ pc' = "call" /\ Returned' = <<0, 0>>
        BY <1>5 DEF Call, Returned
    <2> QED
        BY <2>1, <2>2 DEF Stream!Invoke, Stream!Nothing
<1>6. CASE NoNewFrame
    <2>1. /\ CardPos' = CardPos /\ ReaderPos' = ReaderPos /\ size = 0 /\ size' = 0
          /\ ret = "none" /\ ret' = "empty" /\ pc = "call" /\ pc' = "idle"
        BY <1>1, <1>6
           DEF NoNewFrame, Return, ringVars, CardPos, ReaderPos, ReaderInv, CopyInv, RetInv
    <2>2. Returned' = <<0, 0>> /\ Returned = <<0, 0>>
        BY <2>1 DEF Returned
    <2>3. AtCard
        <3>1. WithinLag(rx.generation) /\ MaxLag + 1 < G
            BY <2>1, LagAtPlace, RingAssumption DEF LagBound
        <3> QED
            BY <1>1, <1>6, <3>1, GenerationsTell DEF NoNewFrame
    <2>4. ReaderPos - size = CardPos
        BY <1>1, <2>1, <2>3 DEF AtCard, CardPos, ReaderPos
    <2> QED
        BY <2>1, <2>2, <2>4 DEF Stream!Empty
<1>7. CASE CopyMore \/ CopyLast
    <2>1. CardPos' = CardPos /\ ReaderPos' = ReaderPos + 1 /\ size' = size + 1
        BY <1>1, <1>7, AdvanceKeeps DEF CopyMore, CopyLast
    <2>2. ret = "none" /\ ret' = "none" /\ pc # "scan" /\ pc' # "scan"
        BY <1>1, <1>7 DEF CopyMore, CopyLast, ReaderInv, RetInv
    <2>3. Returned' = Returned
        BY <2>2 DEF Returned
    <2>4. StreamPos' = StreamPos
        BY <1>1, <2>1 DEF StreamPos
    <2> QED
        BY <2>1, <2>2, <2>3, <2>4, StreamStutters DEF StreamRet
<1>8. CASE Deliver
    BY <1>8, DeliverTakes
<1>9. CASE pc = "scan" /\ CatchupRead /\ UNCHANGED callVars
    <2>1. UNCHANGED <<hw, rx, pc, u, rx_buf, size, ret>>
        BY <1>1, <1>9, CatchupReadKeeps
    <2>2. CardPos' = CardPos /\ ReaderPos' = ReaderPos
        BY <2>1 DEF CardPos, ReaderPos
    <2> QED
        BY <2>1, <2>2, StreamStutters DEF StreamPos, StreamRet, Returned
<1>10. CASE pc = "scan" /\ CatchupEnd /\ Return(ret) /\ UNCHANGED rx_buf
    BY <1>10, CatchupReports
<1>11. CASE UNCHANGED vars
    <2>1. CardPos' = CardPos /\ ReaderPos' = ReaderPos
        BY <1>11 DEF vars, ringVars, CardPos, ReaderPos
    <2> QED
        BY <1>11, <2>1, StreamStutters
           DEF vars, ringVars, callVars, StreamPos, StreamRet, Returned
<1> QED
    BY <1>2, <1>3, <1>4, <1>5, <1>6, <1>7, <1>8, <1>9, <1>10, <1>11, NoTruncate
       DEF Next, Card, Receive, Catchup

\* exanic_receive_frame implements the promise FrameStream makes, in a ring with
\* room for frames of all laps in it and with buffers that hold any frame.
THEOREM StreamRefinedHolds ==
    LagBound /\ RoomyRing /\ RoomyBuffer => (Spec => StreamRefined)
<1> SUFFICES ASSUME LagBound, RoomyRing, RoomyBuffer
             PROVE  Spec => StreamRefined
    OBVIOUS
<1>1. Init => Stream!StreamInit
    <2> SUFFICES ASSUME Init
                 PROVE  Stream!StreamInit
        OBVIOUS
    <2>1. /\ CardPos = Pos(G, 0) /\ ReaderPos = Pos(G, 0) /\ size = 0 /\ pc = "acquire"
          /\ ret = "none"
        BY DEF Init, RingInit, CardPos, ReaderPos
    <2>2. Pos(G, 0) \in Nat
        BY PosFacts, RingAssumption DEF Laps, Chunks
    <2>3. ReaderPos - size = Pos(G, 0) /\ Returned = <<0, 0>>
        BY <2>1, <2>2 DEF Returned
    <2> QED
        BY <2>1, <2>3 DEF Stream!StreamInit, Stream!Nothing
<1>2. FallbackUnused /\ IInv /\ TightInv /\ IInv' /\ TightInv' /\ [Next]_vars
          => [Stream!StreamNext]_(Stream!streamVars)
    BY NextStream DEF FallbackUnused
<1> QED
    BY <1>1, <1>2, FallbackUnusedHolds, TightInvariance, PTL
       DEF Spec, StreamRefined, Stream!StreamSpec
=============================================================================
