---------------------------- MODULE RxChunk_proofs ----------------------------
(***************************************************************************)
(* Proofs about RxChunk, for every ring size, generation width, frame      *)
(* size, set of calls and bound, from the lemmas about the ring of         *)
(* RxRing_proofs.                                                          *)
(***************************************************************************)
EXTENDS RxChunkInv, RxRing_proofs

-----------------------------------------------------------------------------
(* Chunk ids.                                                              *)

\* Dividing a chunk id by the ring's size gives back its two halves.
LEMMA ChunkId ==
    ASSUME NEW q \in Nat, NEW c \in Chunks
    PROVE  (q * N + c) % N = c /\ (q * N + c) \div N = q /\ q * N + c \in Nat
<1> DEFINE x == q * N + c
           d == x \div N
<1>1. N \in Nat /\ N > 0 /\ c \in Nat /\ c < N /\ q * N \in Nat
    BY RingAssumption DEF Chunks
<1>2. x \in Nat
    BY <1>1
<1> HIDE DEF x
<1>3. d \in Int /\ x = N * d + (x % N) /\ x % N \in Int /\ 0 <= x % N /\ x % N < N
    BY <1>1, <1>2
<1> HIDE DEF d
<1>4. N * (d - q) = c - (x % N)
    BY <1>1, <1>2, <1>3 DEF x
<1>5. d - q >= 1 => N * (d - q) >= N
    BY <1>1, <1>3
<1>6. d - q <= -1 => N * (d - q) <= -N
    BY <1>1, <1>3
<1>7. d = q
    BY <1>1, <1>3, <1>4, <1>5, <1>6
<1>8. x % N = c
    BY <1>1, <1>2, <1>3, <1>7 DEF x
<1> QED
    BY <1>2, <1>7, <1>8 DEF x, d

\* A chunk id of a generation and a chunk is in its range.
LEMMA ChunkIdType ==
    ASSUME NEW g \in Nat, NEW c \in Chunks
    PROVE  (g % G) * N + c \in 0 .. G * N - 1 /\ g % G \in Nat
<1>1. N \in Nat /\ G \in Nat /\ G > 0 /\ c \in Nat /\ c < N
    BY RingAssumption DEF Chunks
<1> DEFINE q == g % G
<1>2. q \in Nat /\ q < G
    BY <1>1
<1> HIDE DEF q
<1>3. q * N + N <= G * N /\ q * N \in Nat /\ G * N \in Nat
    BY <1>1, <1>2, TimesMonotone
<1>4. q * N + c \in 0 .. G * N - 1
    BY <1>1, <1>3
<1> QED
    BY <1>2, <1>4 DEF q

\* It always names a chunk of the ring.
LEMMA ChunkIdChunk ==
    ASSUME NEW x \in 0 .. G * N - 1
    PROVE  x % N \in Chunks
<1>1. N \in Nat /\ N > 0 /\ G \in Nat
    BY RingAssumption
<1>2. G * N \in Nat
    BY <1>1
<1>3. x \in Nat
    BY <1>2
<1>4. x % N \in 0 .. N - 1
    BY <1>1, <1>3
<1> QED
    BY <1>4 DEF Chunks

-----------------------------------------------------------------------------
(* Type correctness.                                                       *)

\* Chunks put together are a sequence of tags.
LEMMA FrameType == <<>> \in Seq(Tag) /\ \A b \in Seq(Tag), t \in Tag : Append(b, t) \in Seq(Tag)
OBVIOUS

\* The locals that are not in use have their types.
LEMMA ForgetType ==
    ASSUME Forget
    PROVE  /\ api' = "none" /\ u' \in [tag : Tag, lap : Laps, chunk : Chunks]
           /\ old' \in [chunk : Chunks, generation : Laps]
           /\ chunk_id' \in 0 .. G * N - 1
<1>1. NoInfo \in [tag : Tag, lap : Laps, chunk : Chunks]
    BY BlankTagType DEF NoInfo
<1>2. NoOld \in [chunk : Chunks, generation : Laps]
    BY BlankTagType DEF NoOld
<1>3. 0 \in 0 .. G * N - 1
    <2>1. 0 \in Nat /\ 0 \in Chunks /\ 0 % G = 0
        BY RingAssumption DEF Chunks
    <2>2. (0 % G) * N + 0 \in 0 .. G * N - 1
        BY <2>1, ChunkIdType
    <2> QED
        BY <2>1, <2>2, RingAssumption
<1> QED
    BY <1>1, <1>2, <1>3 DEF Forget

\* The parts of the chunk in hand.
LEMMA HandTypes ==
    ASSUME TypeOK
    PROVE  /\ RingTypeOK /\ u.lap \in Laps /\ u.lap \in Nat /\ u.chunk \in Chunks
           /\ u.tag \in Tag /\ old.generation \in Laps /\ old.generation \in Nat
           /\ old.chunk \in Chunks /\ frame \in Seq(Tag)
           /\ in_frame \in BOOLEAN /\ caught \in BOOLEAN /\ more_chunks \in BOOLEAN
BY DEF TypeOK, Laps

\* The initial state is in its types.
LEMMA TypeInit == Init => TypeOK
<1> SUFFICES ASSUME Init PROVE TypeOK
    OBVIOUS
<1> USE DEF Init
<1>1. RingTypeOK
    BY RingInitially
<1>2. u \in [tag : Tag, lap : Laps, chunk : Chunks]
    BY BlankTagType DEF NoInfo
<1>3. old \in [chunk : Chunks, generation : Laps]
    BY BlankTagType DEF NoOld
<1>4. 0 \in 0 .. G * N - 1
    <2>1. 0 \in Nat /\ 0 \in Chunks /\ 0 % G = 0
        BY RingAssumption DEF Chunks
    <2>2. (0 % G) * N + 0 \in 0 .. G * N - 1
        BY <2>1, ChunkIdType
    <2> QED
        BY <2>1, <2>2, RingAssumption
<1> QED
    BY <1>1, <1>2, <1>3, <1>4, FrameType DEF TypeOK

\* Every step keeps every variable in its type.
LEMMA TypeNext == TypeOK /\ hw.lap >= G /\ [Next]_vars => TypeOK'
<1> SUFFICES ASSUME TypeOK, hw.lap >= G, [Next]_vars
             PROVE  TypeOK'
    OBVIOUS
<1> USE DEF TypeOK
<1>1. CASE Card
    BY ZenonT(60), <1>1, HwPayloadType, HwInfoType DEF Card, callVars
<1>2. CASE Acquire \/ Lapped \/ Overwritten
    <2>1. \E r \in {"acquired", "swovfl"} : CatchUp(r)
        BY <1>2 DEF Acquire, Lapped, Overwritten
    <2> QED
        BY <2>1, CatchupBeginType, ForgetType DEF CatchUp, RingTypeOK
<1>3. CASE \E a \in Apis : ReceiveChunk(a)
    <2> PICK a \in Apis : ReceiveChunk(a)
        BY <1>3
    <2>1. /\ pc' = "read" /\ api' = a /\ ret' = "none"
          /\ frame' = (IF in_frame THEN frame ELSE <<>>) /\ caught' = (in_frame /\ caught)
          /\ UNCHANGED <<buffer, hw, rx, scan, u, old, more_chunks, chunk_id, in_frame>>
        BY DEF ReceiveChunk, ringVars
    <2>2. frame' \in Seq(Tag)
        BY <2>1, FrameType
    <2>3. caught' \in BOOLEAN
        BY <2>1
    <2> QED
        BY <2>1, <2>2, <2>3 DEF RingTypeOK
<1>4. CASE NoNewData
    BY <1>4, ForgetType DEF NoNewData, Return, ringVars, RingTypeOK
<1>5. CASE TakeChunk
    <2>1. rx' \in PlaceType
        BY <1>5, AdvancedType, RingTypes DEF TakeChunk, MovedSentinel, Info, PlaceType
    <2>2. u' \in [tag : Tag, lap : Laps, chunk : Chunks]
        BY <1>5, RingTypes DEF TakeChunk, Info
    <2>3. old' \in [chunk : Chunks, generation : Laps]
        BY <1>5, RingTypes DEF TakeChunk
    <2> QED
        BY <1>5, <2>1, <2>2, <2>3 DEF TakeChunk, RingTypeOK
<1>6. CASE CopyChunk
    <2>1. buffer[u.chunk].payload \in Tag
        BY HandTypes, RingTypes
    <2>2. frame' \in Seq(Tag)
        BY <1>6, <2>1, FrameType DEF CopyChunk
    <2> QED
        BY <1>6, <2>2 DEF CopyChunk, ringVars, RingTypeOK
<1>7. CASE ChunkCopied
    BY <1>7, ForgetType DEF ChunkCopied, Return, Took, Outcome, ringVars, RingTypeOK
<1>8. CASE TakePointer
    <2>1. rx' \in PlaceType /\ UNCHANGED <<buffer, hw, scan, frame, caught>>
        BY <1>8, AdvancedType DEF TakePointer
    <2>2. in_frame' \in BOOLEAN /\ more_chunks' \in BOOLEAN
        BY <1>8 DEF TakePointer, Took
    <2>3. CASE Reports(Info)
        BY <1>8, <2>1, <2>2, <2>3, ForgetType DEF TakePointer, Return, RingTypeOK
    <2>4. CASE ~Reports(Info)
        <3>1. /\ u' = Info /\ chunk_id' = (rx.generation % G) * N + rx.next_chunk
              /\ pc' = "hold" /\ UNCHANGED <<api, old, ret>>
            BY <1>8, <2>4 DEF TakePointer
        <3>2. Info \in [tag : Tag, lap : Laps, chunk : Chunks]
            BY RingTypes DEF Info
        <3>3. chunk_id' \in 0 .. G * N - 1
            BY <3>1, RingTypes, ChunkIdType
        <3> QED
            BY <2>1, <2>2, <3>1, <3>2, <3>3 DEF RingTypeOK
    <2> QED
        BY <2>3, <2>4
<1>9. CASE LookAtChunk
    <2>1. buffer[chunk_id % N].payload \in Tag
        BY ChunkIdChunk, RingTypes
    <2>2. frame' \in Seq(Tag)
        BY <1>9, <2>1, FrameType DEF LookAtChunk
    <2> QED
        BY <1>9, <2>2 DEF LookAtChunk, ringVars, RingTypeOK
<1>10. CASE Recheck
    BY <1>10, ForgetType DEF Recheck, Return, Outcome, ringVars, RingTypeOK
<1>11. CASE Abort
    BY <1>11 DEF Abort, ringVars, RingTypeOK
<1>12. CASE SkipChunk
    BY <1>12, AdvancedType, ForgetType DEF SkipChunk, Return, RingTypeOK
<1>13. CASE pc = "scan" /\ CatchupRead /\ UNCHANGED callVars
    BY <1>13, CatchupReadType DEF callVars
<1>14. CASE /\ pc = "scan" /\ CatchupEnd /\ Return(ret)
            /\ UNCHANGED <<more_chunks, frame, in_frame, caught>>
    BY <1>14, CatchupEndType, ForgetType DEF Return
<1>15. CASE UNCHANGED vars
    BY ZenonT(60), <1>15 DEF vars, ringVars, callVars, RingTypeOK
<1> QED
    BY <1>1, <1>2, <1>3, <1>4, <1>5, <1>6, <1>7, <1>8, <1>9, <1>10, <1>11, <1>12, <1>13,
       <1>14, <1>15 DEF Next, InCall, CatchUpStep

-----------------------------------------------------------------------------
(* Frames put together chunk by chunk.                                     *)

\* The chunk after the beginning of a frame makes it longer by that chunk.
LEMMA LeadsTaken ==
    ASSUME NEW b \in Seq(Tag), NEW t \in Tag, Leads(b, t)
    PROVE  Taken(Append(b, t), t)
<1> DEFINE n == Len(b)
           c == Append(b, t)
<1>1. n \in Nat /\ t.k = n + 1 /\ Len(c) = n + 1 /\ c # <<>>
      /\ \A i \in 1 .. n + 1 : c[i] = IF i = n + 1 THEN t ELSE b[i]
    BY DEF Leads
<1>2. \A i \in 1 .. n : b[i].frame = t.frame /\ b[i].k = i /\ ~IsEnd(b[i])
    BY DEF Leads, Piece
<1> HIDE DEF n, c
<1>3. c[n + 1] = t /\ \A i \in 1 .. n + 1 : i # n + 1 => c[i] = b[i] /\ i \in 1 .. n
    BY <1>1
<1>4. Piece(c, t)
    BY <1>1, <1>2, <1>3 DEF Piece
<1>5. \A i \in 1 .. n + 1 - 1 : ~IsEnd(c[i])
    BY <1>1, <1>2, <1>3
<1> QED
    BY <1>1, <1>3, <1>4, <1>5 DEF Taken, c

\* With its last chunk the frame is whole.
LEMMA TakenWhole ==
    ASSUME NEW b \in Seq(Tag), NEW t \in Tag, Taken(b, t), IsEnd(t)
    PROVE  WholeFrame(b)
<1> DEFINE n == Len(b)
<1>1. n \in Nat /\ n > 0 /\ b # <<>> /\ b[n] = t
    BY DEF Taken
<1>2. \A i \in 1 .. n : b[i].frame = t.frame /\ b[i].k = i /\ (i # n => ~IsEnd(b[i]))
    BY <1>1 DEF Taken, Piece
<1>3. 1 \in 1 .. n
    BY <1>1
<1> QED
    BY <1>1, <1>2, <1>3 DEF WholeFrame

\* Without it, the chunk that follows is the next of the frame.
LEMMA TakenLeads ==
    ASSUME NEW b \in Seq(Tag), NEW s \in Tag, NEW t \in Tag,
           Taken(b, s), ~IsEnd(s), Follows(s, t)
    PROVE  Leads(b, t)
<1> DEFINE n == Len(b)
<1>1. n \in Nat /\ n > 0 /\ b[n] = s /\ n \in 1 .. n
    BY DEF Taken
<1>2. \A i \in 1 .. n : b[i].frame = s.frame /\ b[i].k = i /\ ~IsEnd(b[i])
    BY <1>1 DEF Taken, Piece
<1>3. s.k = n
    BY <1>1, <1>2
<1>4. t.frame = s.frame /\ t.k = n + 1
    BY <1>3 DEF Follows
<1> QED
    BY <1>1, <1>2, <1>4 DEF Leads, Piece

\* A chunk that starts a frame follows no others.
LEMMA StartLeads ==
    ASSUME NEW t \in Tag, Follows(BlankTag, t)
    PROVE  Leads(<<>>, t)
BY BlankTagType DEF Follows, Leads, Piece

-----------------------------------------------------------------------------
(* Steps of the card keep the invariant.                                   *)

\* What continues at the reader's place goes on continuing there.
LEMMA PlaceContinues ==
    ASSUME TypeOK, RingInv, PlaceInv, NEW oldest, HwPayload(oldest) \/ HwInfo,
           UNCHANGED rx, NEW s, Continues(rx.generation, rx.next_chunk, s)
    PROVE  Continues(rx.generation, rx.next_chunk, s)'
<1> DEFINE l == rx.generation
           c == rx.next_chunk
<1>1. RingTypeOK /\ l \in Laps /\ c \in Chunks /\ l' = l /\ c' = c
    BY HandTypes, RingTypes
<1>2. Before(l, c, hw.lap, hw.chunk) \/ (l = hw.lap /\ c = hw.chunk)
    BY DEF PlaceInv, PositionsOrdered, AtCard
<1>3. Continues(l, c, s)
    OBVIOUS
<1> HIDE DEF l, c
<1>4. Continues(l, c, s)'
    BY <1>1, <1>2, <1>3, ContinuesKept DEF Continues
<1> QED
    BY <1>4 DEF l, c

\* The card waits before it gets too far ahead of the reader's lap; what it
\* overwrites is no longer claimed to be what was read.
LEMMA CardKeeps ==
    ASSUME ChunkInv, TypeOK', Card
    PROVE  ChunkInv'
<1>1. TypeOK /\ RingTypeOK /\ RingInv /\ PlaceInv
    BY DEF ChunkInv, TypeOK
<1>2. PICK oldest : oldest = OldestInUse
    OBVIOUS
<1>3. HwPayload(oldest) \/ HwInfo
    BY <1>2 DEF Card
<1>4. /\ UNCHANGED <<rx, scan>>
      /\ UNCHANGED <<pc, api, u, old, more_chunks, chunk_id, ret, frame, in_frame, caught>>
      /\ CardPos \in Nat /\ CardPos' \in Nat /\ CardPos <= CardPos'
    BY <1>1, <1>3, CardKeepsChunks DEF Card, callVars
<1>5. RingInv' /\ PlaceInv'
    BY <1>1, <1>3, RingPayload, RingInfo, PlaceCard
<1>6. ScanInv'
    BY <1>1, <1>3, <1>4, ScanCard DEF ChunkInv, ScanInv
<1>7. WithinLag(OldestInUse)'
    <2>1. CASE pc = "acquire"
        <3>1. \A c \in Chunks : buffer'[c].lap <= hw'.lap /\ buffer'[c].lap \in Nat
            <4>1. RingTypeOK'
                BY DEF TypeOK
            <4> QED
                BY <1>5, <4>1 DEF RingInv, LapsInv, RingTypeOK, Laps
        <3>2. hw'.lap \in Nat
            BY DEF TypeOK, RingTypeOK, Laps
        <3>3. OldestInUse' = hw'.lap
            BY <1>4, <2>1 DEF OldestInUse
        <3> QED
            BY <3>1, <3>2, <3>3, RingAssumption DEF WithinLag
    <2>2. CASE pc # "acquire"
        <3> DEFINE o == OldestInUse
        <3>1. o \in Nat /\ o' = o
            BY <1>1, <1>4, <2>2, RingTypes DEF OldestInUse
        <3>2. WithinLag(o)
            BY DEF ChunkInv
        <3>3. HwPayload(o) \/ HwInfo
            BY DEF Card
        <3> HIDE DEF o
        <3>4. WithinLag(o)'
            BY <1>1, <3>1, <3>2, <3>3, LagCard DEF WithinLag
        <3> QED
            BY <3>4 DEF o
    <2> QED
        BY <2>1, <2>2
<1>8. BetweenInv'
    <2>1. FrameStarts(rx.generation, rx.next_chunk)
              => FrameStarts(rx.generation, rx.next_chunk)'
        BY <1>1, <1>3, <1>4, PlaceContinues DEF FrameStarts
    <2> DEFINE s == frame[Len(frame)]
    <2>2. s' = s
        BY <1>4
    <2> HIDE DEF s
    <2>3. Continues(rx.generation, rx.next_chunk, s)
              => Continues(rx.generation, rx.next_chunk, s)'
        BY <1>1, <1>3, <1>4, <2>2, PlaceContinues DEF Continues
    <2> QED
        BY <1>4, <2>1, <2>3 DEF ChunkInv, BetweenInv, s, Taken, Piece
<1>9. ASSUME pc \in InHand
      PROVE  /\ Before(u.lap, u.chunk, hw.lap, hw.chunk)
             /\ Before(u.lap, u.chunk, hw'.lap, hw'.chunk)
             /\ buffer'[u.chunk].lap = u.lap =>
                    /\ buffer[u.chunk].lap = u.lap
                    /\ buffer'[u.chunk].info = buffer[u.chunk].info
             /\ u.lap \in Laps /\ u.chunk \in Chunks
    <2>1. Before(u.lap, u.chunk, hw.lap, hw.chunk) /\ u.lap \in Laps /\ u.chunk \in Chunks
        BY <1>1, <1>9, HandTypes DEF ChunkInv, InfoInv
    <2> QED
        BY <1>1, <1>3, <2>1, CardKeepsChunks
<1>10. InfoInv'
    <2> DEFINE s == u.tag
    <2>1. s' = s
        BY <1>4
    <2> HIDE DEF s
    <2>2. Continues(rx.generation, rx.next_chunk, s)
              => Continues(rx.generation, rx.next_chunk, s)'
        BY <1>1, <1>3, <1>4, <2>1, PlaceContinues DEF Continues
    <2> QED
        BY <1>4, <1>9, <2>2 DEF ChunkInv, InfoInv, s
<1>11. PayloadInv'
    <2>1. CASE pc \in {"copy", "hold"}
        BY <1>4, <2>1 DEF ChunkInv, PayloadInv, Leads, Piece
    <2>2. CASE pc = "check"
        <3>1. N \in Nat /\ Pos(u.lap, u.chunk) \in Nat
            BY <1>1, HandTypes, PosFacts, RingAssumption
        <3>2. CardPos' < Pos(u.lap, u.chunk) + N => CardPos < Pos(u.lap, u.chunk) + N
            BY <1>4, <3>1
        <3> QED
            BY <1>4, <2>2, <3>2 DEF ChunkInv, PayloadInv, Taken, Piece
    <2>3. CASE pc = "recheck"
        <3>1. ASSUME buffer'[u.chunk].lap = u.lap, ~(hw'.writing /\ hw'.chunk = u.chunk)
              PROVE  buffer[u.chunk].lap = u.lap /\ ~(hw.writing /\ hw.chunk = u.chunk)
            <4>1. pc \in InHand
                BY <2>3 DEF InHand
            <4>2. buffer[u.chunk].lap = u.lap
                BY <1>9, <3>1, <4>1
            <4>3. CASE HwPayload(oldest)
                BY <1>1, <3>1, <4>2, <4>3, HwPayloadEffect
            <4>4. CASE HwInfo
                <5>1. hw.chunk = u.chunk => buffer'[u.chunk].lap = hw.lap /\ u.lap < hw.lap
                    BY <1>1, <1>9, <4>1, <4>4, HwInfoEffect, RingTypes DEF Before, Chunks
                <5>2. u.lap \in Nat /\ hw.lap \in Nat
                    BY <1>1, HandTypes, RingTypes
                <5> QED
                    BY <3>1, <4>2, <5>1, <5>2
            <4> QED
                BY <1>3, <4>3, <4>4
        <3> QED
            BY <1>4, <2>3, <3>1 DEF ChunkInv, PayloadInv, Taken, Piece
    <2>4. CASE pc \notin {"copy", "hold", "check", "recheck"}
        BY <1>4, <2>4 DEF PayloadInv
    <2> QED
        BY <2>1, <2>2, <2>3, <2>4
<1>12. SentinelInv' /\ CallInv'
    BY <1>4 DEF ChunkInv, SentinelInv, CallInv, Reports
<1>13. AssembledWhole'
    BY <1>4 DEF ChunkInv, AssembledWhole, WholeFrame
<1> QED
    BY <1>5, <1>6, <1>7, <1>8, <1>10, <1>11, <1>12, <1>13 DEF ChunkInv

-----------------------------------------------------------------------------
(* Catch-ups.                                                              *)

\* Entering a catch-up from wherever the caller is: the frame is given up.
LEMMA CatchUpEnter ==
    ASSUME ChunkInv, TypeOK', NEW r \in {"acquired", "swovfl"}, CatchUp(r)
    PROVE  ChunkInv'
<1> USE DEF CatchUp
<1>1. TypeOK /\ RingTypeOK /\ RingInv /\ PlaceInv
    BY DEF ChunkInv, TypeOK
<1>2. RingInv' /\ PlaceInv'
    BY <1>1, RingUntouched, PlaceUntouched
<1>3. ScanFound' /\ scan'.floor = hw.lap - 1 /\ WithinLag(hw.lap - 1)
    BY <1>1, ScanBegin
<1>4. WithinLag(OldestInUse)'
    BY <1>3 DEF OldestInUse, WithinLag
<1>5. ScanInv' /\ BetweenInv' /\ InfoInv' /\ PayloadInv' /\ SentinelInv' /\ CallInv'
    BY <1>3 DEF ScanInv, BetweenInv, InfoInv, PayloadInv, SentinelInv, CallInv, InHand
<1>6. AssembledWhole'
    BY DEF AssembledWhole
<1> QED
    BY <1>2, <1>4, <1>5, <1>6 DEF ChunkInv

\* A read of the catch-up.
LEMMA CatchupReadKeeps ==
    ASSUME ChunkInv, TypeOK', pc = "scan", CatchupRead, UNCHANGED callVars
    PROVE  ChunkInv'
<1>1. TypeOK /\ RingTypeOK /\ RingInv /\ PlaceInv /\ ScanFound
    BY DEF ChunkInv, TypeOK, ScanInv
<1>2. /\ UNCHANGED <<buffer, hw, rx>> /\ scan'.floor = scan.floor
      /\ UNCHANGED <<pc, api, u, old, more_chunks, chunk_id, ret, frame, in_frame, caught>>
    BY DEF CatchupRead, callVars
<1>3. RingInv' /\ PlaceInv' /\ ScanFound'
    BY <1>1, <1>2, RingUntouched, PlaceUntouched, ScanRead
<1>4. WithinLag(OldestInUse)'
    BY <1>2 DEF ChunkInv, OldestInUse, WithinLag
<1>5. ScanInv' /\ BetweenInv' /\ InfoInv' /\ PayloadInv' /\ SentinelInv'
    BY <1>2, <1>3 DEF ScanInv, BetweenInv, InfoInv, PayloadInv, SentinelInv, InHand
<1>6. CallInv' /\ AssembledWhole'
    BY <1>2 DEF ChunkInv, CallInv, AssembledWhole
<1> QED
    BY <1>3, <1>4, <1>5, <1>6 DEF ChunkInv

\* Its end leaves the reader where a frame starts, if it found an end of frame.
LEMMA CatchupEndKeeps ==
    ASSUME ChunkInv, TypeOK', pc = "scan", CatchupEnd, Return(ret),
           UNCHANGED <<more_chunks, frame, in_frame, caught>>
    PROVE  ChunkInv'
<1> USE DEF Return
<1>1. TypeOK /\ RingTypeOK /\ RingInv /\ ScanFound
    BY DEF ChunkInv, TypeOK, ScanInv
<1>2. /\ PlaceInv' /\ UNCHANGED <<buffer, hw>>
      /\ rx'.aligned => FrameStarts(rx.generation, rx.next_chunk)'
      /\ scan.floor <= rx'.sentinel_generation
      /\ rx'.sentinel_generation <= rx'.generation
      /\ rx'.sentinel_generation \in Nat /\ rx'.generation \in Nat
    BY <1>1, ScanEnd
<1>3. RingInv'
    BY <1>1, <1>2, RingUntouched
<1>4. WithinLag(OldestInUse)'
    <2>1. WithinLag(scan.floor) /\ scan.floor \in Nat
        BY <1>1, RingTypes DEF ChunkInv, OldestInUse
    <2>2. scan.floor <= rx'.generation
        BY <1>2, <2>1
    <2>3. WithinLag(rx'.generation)
        BY <1>1, <1>2, <2>1, <2>2, LagNewer
    <2> QED
        BY <1>2, <2>3 DEF OldestInUse, WithinLag
<1>5. ret \in {"acquired", "swovfl"} /\ ~in_frame
    BY DEF ChunkInv, CallInv
<1>6. ScanInv' /\ BetweenInv' /\ InfoInv' /\ PayloadInv' /\ SentinelInv' /\ CallInv'
    BY <1>2, <1>5 DEF ScanInv, BetweenInv, InfoInv, PayloadInv, SentinelInv, CallInv, InHand
<1>7. AssembledWhole'
    BY <1>5 DEF AssembledWhole
<1> QED
    BY <1>2, <1>3, <1>4, <1>6, <1>7 DEF ChunkInv

-----------------------------------------------------------------------------
(* Beginning and ending calls.                                             *)

\* Steps that leave ring and place alone, and do not look at them.
LEMMA RingKept ==
    ASSUME ChunkInv, UNCHANGED ringVars, pc \notin {"acquire", "scan"},
           pc' \notin {"acquire", "scan"}
    PROVE  RingInv' /\ PlaceInv' /\ WithinLag(OldestInUse)' /\ ScanInv'
<1>1. RingInv' /\ PlaceInv'
    BY RingUntouched, PlaceUntouched DEF ChunkInv, ringVars
<1>2. WithinLag(rx.generation)
    BY DEF ChunkInv, OldestInUse
<1>3. WithinLag(OldestInUse)'
    BY <1>2 DEF OldestInUse, WithinLag, ringVars
<1> QED
    BY <1>1, <1>3 DEF ScanInv

\* A call begins; the caller forgets the last frame when it wants a new one.
LEMMA ReceiveChunkKeeps ==
    ASSUME ChunkInv, TypeOK', NEW a \in Apis, ReceiveChunk(a)
    PROVE  ChunkInv'
<1> USE DEF ReceiveChunk
<1>1. RingInv' /\ PlaceInv' /\ WithinLag(OldestInUse)' /\ ScanInv'
    BY RingKept
<1>2. /\ UNCHANGED <<buffer, hw, rx, in_frame>> /\ pc = "idle" /\ pc' = "read" /\ ret' = "none"
      /\ in_frame => frame' = frame /\ (caught' <=> caught)
      /\ ~in_frame => frame' = <<>> /\ ~caught'
      /\ api' = a /\ (a \in Copying => rx.generation - rx.sentinel_generation <= MaxStale)
    BY DEF ringVars
<1>3. BetweenInv'
    <2>1. ASSUME in_frame, ~caught', rx.aligned
          PROVE  /\ Taken(frame', frame'[Len(frame')]) /\ ~IsEnd(frame'[Len(frame')])
                 /\ Continues(rx.generation, rx.next_chunk, frame[Len(frame)])'
        BY <1>2, <2>1 DEF ChunkInv, BetweenInv, Continues
    <2>2. ASSUME ~in_frame, rx.aligned
          PROVE  FrameStarts(rx.generation, rx.next_chunk)'
        BY <1>2, <2>2 DEF ChunkInv, BetweenInv, FrameStarts, Continues
    <2> QED
        BY <1>2, <2>1, <2>2 DEF BetweenInv
<1>4. InfoInv' /\ PayloadInv' /\ SentinelInv' /\ CallInv' /\ AssembledWhole'
    BY <1>2 DEF InfoInv, PayloadInv, SentinelInv, CallInv, AssembledWhole, InHand
<1> QED
    BY <1>1, <1>3, <1>4 DEF ChunkInv

\* A call that found nothing leaves the caller where it was.
LEMMA NoNewDataKeeps ==
    ASSUME ChunkInv, TypeOK', NoNewData
    PROVE  ChunkInv'
<1> USE DEF NoNewData, Return
<1>1. RingInv' /\ PlaceInv' /\ WithinLag(OldestInUse)' /\ ScanInv'
    BY RingKept
<1>2. /\ UNCHANGED <<buffer, hw, rx, in_frame, frame, caught>>
      /\ pc = "read" /\ pc' = "idle" /\ ret' = "empty"
    BY DEF ringVars
<1>3. BetweenInv'
    BY <1>2 DEF ChunkInv, BetweenInv, FrameStarts, Continues
<1>4. InfoInv' /\ PayloadInv' /\ SentinelInv' /\ CallInv' /\ AssembledWhole'
    BY <1>2 DEF InfoInv, PayloadInv, SentinelInv, CallInv, AssembledWhole, InHand
<1> QED
    BY <1>1, <1>3, <1>4 DEF ChunkInv

\* Giving up a frame.
LEMMA AbortKeeps ==
    ASSUME ChunkInv, TypeOK', Abort
    PROVE  ChunkInv'
<1> USE DEF Abort
<1>1. RingInv' /\ PlaceInv' /\ WithinLag(OldestInUse)' /\ ScanInv'
    BY RingKept
<1>2. BetweenInv' /\ InfoInv' /\ PayloadInv' /\ SentinelInv' /\ CallInv' /\ AssembledWhole'
    BY DEF BetweenInv, InfoInv, PayloadInv, SentinelInv, CallInv, AssembledWhole, InHand
<1> QED
    BY <1>1, <1>2 DEF ChunkInv

\* Steps that change nothing.
LEMMA StutterKeeps ==
    ASSUME ChunkInv, UNCHANGED vars
    PROVE  ChunkInv'
<1> USE DEF vars, ringVars, callVars
<1>1. TypeOK'
    BY TypeNext DEF ChunkInv, RingInv
<1>2. RingInv' /\ PlaceInv'
    BY RingUntouched, PlaceUntouched DEF ChunkInv
<1>3. ScanInv'
    BY DEF ChunkInv, ScanInv, ScanFound, Found, FrameStarts, Continues
<1>4. WithinLag(OldestInUse)'
    BY DEF ChunkInv, OldestInUse, WithinLag
<1>5. BetweenInv'
    BY DEF ChunkInv, BetweenInv, FrameStarts, Continues, Taken, Piece
<1>6. InfoInv'
    BY DEF ChunkInv, InfoInv, Continues
<1>7. PayloadInv'
    BY DEF ChunkInv, PayloadInv, Taken, Leads, Piece, CardPos
<1>8. SentinelInv' /\ CallInv' /\ AssembledWhole'
    BY DEF ChunkInv, SentinelInv, CallInv, Reports, AssembledWhole, WholeFrame
<1> QED
    BY <1>1, <1>2, <1>3, <1>4, <1>5, <1>6, <1>7, <1>8 DEF ChunkInv

-----------------------------------------------------------------------------
(* What the generations tell a call.                                       *)

\* Where a chunk is at hand, the reader's place is one the card has passed.
LEMMA ReadFacts ==
    ASSUME ChunkInv, pc \in {"read", "abort"}
    PROVE  /\ IsNext => /\ Info.lap = rx.generation /\ Info.tag = buffer[rx.next_chunk].info
                        /\ Info.chunk = rx.next_chunk
                        /\ Before(rx.generation, rx.next_chunk, hw.lap, hw.chunk)
           /\ ~IsNext /\ ~IsOld => CardPos > ReaderPos + N
           /\ Info.tag \in Tag
<1>1. RingTypeOK /\ RingInv /\ PlaceInv
    BY DEF ChunkInv, TypeOK
<1>2. WithinLag(rx.generation)
    BY DEF ChunkInv, OldestInUse
<1>3. MaxLag + 1 < G
    BY RingAssumption, ChunkAssumption
<1>4. /\ IsNext => /\ buffer[rx.next_chunk].lap = rx.generation
                   /\ Before(rx.generation, rx.next_chunk, hw.lap, hw.chunk)
      /\ ~IsNext /\ ~IsOld => CardPos > ReaderPos + N
    BY <1>1, <1>2, <1>3, GenerationsTell
<1>5. buffer[rx.next_chunk].info \in Tag
    BY <1>1, RingTypes
<1> QED
    BY <1>4, <1>5 DEF Info

\* The chunk at hand is the next of the frame the caller is putting together.
LEMMA ReadLeads ==
    ASSUME ChunkInv, pc = "read", IsNext, rx.aligned, ~caught
    PROVE  Leads(frame, Info.tag)
<1>1. /\ Info.tag = buffer[rx.next_chunk].info /\ Info.tag \in Tag
      /\ buffer[rx.next_chunk].lap = rx.generation
    BY ReadFacts DEF Info
<1>2. BetweenInv /\ CallInv /\ frame \in Seq(Tag)
    BY HandTypes DEF ChunkInv
<1>3. CASE ~in_frame
    <2>1. frame = <<>> /\ FrameStarts(rx.generation, rx.next_chunk)
        BY <1>2, <1>3 DEF BetweenInv, CallInv
    <2>2. Follows(BlankTag, Info.tag)
        BY <1>1, <2>1 DEF FrameStarts, Continues
    <2> QED
        BY <1>1, <2>1, <2>2, StartLeads
<1>4. CASE in_frame
    <2> DEFINE s == frame[Len(frame)]
    <2>1. /\ Taken(frame, s) /\ ~IsEnd(s)
          /\ Continues(rx.generation, rx.next_chunk, s)
        BY <1>2, <1>4 DEF BetweenInv
    <2>2. s \in Tag
        <3>1. Len(frame) \in 1 .. Len(frame)
            BY <1>2, <2>1 DEF Taken
        <3> QED
            BY <1>2, <3>1
    <2> HIDE DEF s
    <2>3. Follows(s, Info.tag)
        BY <1>1, <2>1 DEF Continues
    <2> QED
        BY <1>1, <1>2, <2>1, <2>2, <2>3, TakenLeads
<1> QED
    BY <1>3, <1>4

\* The check of a chunk's generation tells whether the card has come round to it,
\* if the chunk is not too many laps old.
LEMMA IntactTells ==
    ASSUME RingTypeOK, RingInv, NEW l \in Laps, NEW c \in Chunks,
           Before(l, c, hw.lap, hw.chunk), buffer[c].lap - l < G
    PROVE  /\ SameGen(buffer[c].lap, l) => CardPos <= Pos(l, c) + N /\ buffer[c].lap = l
           /\ ~SameGen(buffer[c].lap, l) => CardPos > Pos(l, c) + N
<1> DEFINE b == buffer[c].lap
<1>1. /\ l \in Nat /\ b \in Nat /\ G \in Nat /\ G > 0
      /\ hw.lap \in Laps /\ hw.lap \in Nat /\ hw.chunk \in Chunks /\ N \in Nat
    BY RingTypes, RingAssumption DEF Laps
<1>2. LapsInv
    BY DEF RingInv
<1>3. b >= l /\ (b > l => CardPos > Pos(l, c) + N)
    BY <1>2, LapBehind, LapAtPlace
<1>4. b = IF c < hw.chunk THEN hw.lap ELSE hw.lap - 1
    BY <1>2 DEF LapsInv
<1>5. b - l < G
    OBVIOUS
<1> HIDE DEF b
<1>6. SameGen(b, l) => b = l
    <2>1. l - b < G
        BY <1>1, <1>3
    <2> QED
        BY <1>1, <1>5, <2>1, SameGenEqual
<1>7. b = l => SameGen(b, l)
    BY DEF SameGen
<1>8. b = l => CardPos <= Pos(l, c) + N
    <2> SUFFICES ASSUME b = l
                 PROVE  CardPos <= Pos(l, c) + N
        OBVIOUS
    <2>1. l + 1 \in Laps
        BY <1>1 DEF Laps
    <2>2. Pos(l + 1, c) = Pos(l, c) + N
        BY <1>1, PosFacts
    <2>3. ~Before(l + 1, c, hw.lap, hw.chunk)
        BY <1>1, <1>4 DEF Before, Chunks
    <2>4. ~(Pos(l + 1, c) < CardPos)
        BY <1>1, <2>1, <2>3, PosFacts DEF CardPos
    <2>5. Pos(l + 1, c) \in Nat /\ CardPos \in Nat
        BY <1>1, <2>1, PosFacts DEF CardPos
    <2> QED
        BY <2>2, <2>4, <2>5
<1>9. SameGen(b, l) => CardPos <= Pos(l, c) + N /\ b = l
    BY <1>6, <1>8
<1>10. ~SameGen(b, l) => CardPos > Pos(l, c) + N
    BY <1>1, <1>3, <1>7
<1> QED
    BY <1>9, <1>10 DEF b

\* The sentinel as it was before the call.
LEMMA OldTells ==
    ASSUME ChunkInv, pc = "check"
    PROVE  /\ OldIntact => CardPos <= Pos(old.generation, old.chunk) + N
           /\ ~OldIntact => CardPos > Pos(old.generation, old.chunk) + N
<1>1. RingTypeOK /\ RingInv /\ WithinLag(rx.generation)
    BY DEF ChunkInv, TypeOK, OldestInUse
<1>2. /\ u.lap \in Laps /\ u.chunk \in Chunks /\ old.generation \in Laps /\ old.chunk \in Chunks
      /\ u.lap \in Nat /\ old.generation \in Nat /\ rx.generation \in Nat
    BY <1>1, HandTypes, RingTypes DEF ChunkInv
<1>3. /\ Before(old.generation, old.chunk, u.lap, u.chunk)
      /\ Before(u.lap, u.chunk, hw.lap, hw.chunk)
      /\ rx.generation - old.generation <= MaxStale + 1
    BY DEF ChunkInv, SentinelInv, InfoInv, InHand
<1>4. hw.lap \in Nat /\ hw.chunk \in Chunks
    BY <1>1, RingTypes
<1>5. Before(old.generation, old.chunk, hw.lap, hw.chunk)
    BY <1>2, <1>3, <1>4 DEF Before, Chunks
<1>6. buffer[old.chunk].lap <= rx.generation + MaxLag /\ buffer[old.chunk].lap \in Nat
    BY <1>1, <1>2, RingTypes DEF WithinLag
<1>7. buffer[old.chunk].lap - old.generation < G
    BY <1>2, <1>3, <1>6, RingAssumption, ChunkAssumption
<1> QED
    BY <1>1, <1>2, <1>5, <1>7, IntactTells DEF OldIntact

-----------------------------------------------------------------------------
(* Taking a chunk.                                                         *)

\* Moving on past the chunk at hand: the place is after it, and continues it.
LEMMA MovesOn ==
    ASSUME ChunkInv, pc \in {"read", "abort"}, IsNext, UNCHANGED <<buffer, hw, scan>>,
           pc' \notin {"acquire", "scan"},
           rx' = Advanced \/ rx' = MovedSentinel
    PROVE  /\ RingInv' /\ PlaceInv' /\ WithinLag(OldestInUse)' /\ ScanInv'
           /\ rx'.aligned = rx.aligned
           /\ rx'.generation = NextLap(Info.lap, Info.chunk)
           /\ rx'.next_chunk = NextChunk(Info.chunk)
           /\ rx'.generation \in Nat /\ rx'.generation <= rx.generation + 1
           /\ Continues(rx'.generation, rx'.next_chunk, Info.tag)
           /\ Before(Info.lap, Info.chunk, hw.lap, hw.chunk)
           /\ Info.tag = buffer[Info.chunk].info /\ Info.lap = rx.generation
           /\ Info.chunk = rx.next_chunk /\ Info.tag \in Tag
<1>1. RingTypeOK /\ RingInv /\ PlaceInv /\ WithinLag(rx.generation)
    BY DEF ChunkInv, TypeOK, OldestInUse
<1>2. /\ Info.lap = rx.generation /\ Info.chunk = rx.next_chunk
      /\ Info.tag = buffer[rx.next_chunk].info /\ Info.tag \in Tag
      /\ buffer[rx.next_chunk].lap = rx.generation
      /\ Before(rx.generation, rx.next_chunk, hw.lap, hw.chunk)
    BY ReadFacts DEF Info
<1>3. /\ rx.generation \in Nat /\ rx.next_chunk \in Chunks
    BY <1>1, RingTypes
<1>4. /\ rx'.next_chunk = NextChunk(rx.next_chunk)
      /\ rx'.generation = NextLap(rx.generation, rx.next_chunk)
      /\ rx'.aligned = rx.aligned
      /\ \/ /\ rx'.sentinel_chunk = rx.sentinel_chunk
            /\ rx'.sentinel_generation = rx.sentinel_generation
         \/ /\ rx'.sentinel_chunk = rx.next_chunk
            /\ rx'.sentinel_generation = rx.generation
    <2>1. CASE rx' = Advanced
        BY <1>1, <2>1, AdvancedFields
    <2>2. CASE rx' = MovedSentinel
        <3>1. /\ MovedSentinel.next_chunk = Advanced.next_chunk
              /\ MovedSentinel.generation = Advanced.generation
              /\ MovedSentinel.aligned = Advanced.aligned
              /\ MovedSentinel.sentinel_chunk = rx.next_chunk
              /\ MovedSentinel.sentinel_generation = Info.lap
            BY <1>1, AdvancedType DEF MovedSentinel, PlaceType
        <3> QED
            BY <1>1, <1>2, <2>2, <3>1, AdvancedFields
    <2> QED
        BY <2>1, <2>2
<1>5. PlaceInv' /\ rx.generation <= rx'.generation
    BY <1>1, <1>2, <1>4, PlaceAdvanced
<1>6. RingInv'
    BY <1>1, RingUntouched
<1>7. rx'.generation \in Nat /\ rx'.generation <= rx.generation + 1
    BY <1>3, <1>4 DEF NextLap
<1>8. WithinLag(rx'.generation)
    BY <1>1, <1>3, <1>5, <1>7, LagNewer
<1>9. WithinLag(OldestInUse)'
    <2>1. OldestInUse' = rx'.generation
        BY DEF OldestInUse
    <2> QED
        BY <1>8, <2>1 DEF WithinLag
<1>10. Continues(rx'.generation, rx'.next_chunk, Info.tag)
    BY <1>1, <1>2, <1>3, <1>4, ContinuesChunk
<1> QED
    BY <1>2, <1>4, <1>5, <1>6, <1>7, <1>9, <1>10 DEF ScanInv

\* A copying call takes the info word and moves place and sentinel.
LEMMA TakeChunkKeeps ==
    ASSUME ChunkInv, TypeOK', TakeChunk
    PROVE  ChunkInv'
<1> DEFINE i == Info
<1>1. /\ pc = "read" /\ api \in Copying /\ IsNext /\ u' = i /\ pc' = "copy"
      /\ old'.chunk = rx.sentinel_chunk /\ old'.generation = rx.sentinel_generation
      /\ rx' = MovedSentinel
      /\ UNCHANGED <<buffer, hw, scan, ret, frame, in_frame, caught>>
    BY DEF TakeChunk
<1>2. /\ RingInv' /\ PlaceInv' /\ WithinLag(OldestInUse)' /\ ScanInv'
      /\ rx'.aligned = rx.aligned
      /\ rx'.generation = NextLap(i.lap, i.chunk) /\ rx'.next_chunk = NextChunk(i.chunk)
      /\ rx'.generation \in Nat /\ rx'.generation <= rx.generation + 1
      /\ Continues(rx'.generation, rx'.next_chunk, i.tag)
      /\ Before(i.lap, i.chunk, hw.lap, hw.chunk)
      /\ i.tag = buffer[i.chunk].info /\ i.lap = rx.generation /\ i.chunk = rx.next_chunk
    BY <1>1, MovesOn
<1>3. rx.aligned /\ ~caught => Leads(frame, i.tag)
    BY <1>1, ReadLeads
<1> HIDE DEF i
<1>4. BetweenInv' /\ AssembledWhole' /\ CallInv'
    BY <1>1 DEF ChunkInv, BetweenInv, AssembledWhole, CallInv
<1>5. InfoInv'
    BY <1>1, <1>2 DEF InfoInv, Continues
<1>6. PayloadInv'
    BY <1>1, <1>2, <1>3 DEF PayloadInv, Leads, Piece
<1>7. SentinelInv'
    <2>1. rx.generation - rx.sentinel_generation <= MaxStale
        BY <1>1 DEF ChunkInv, SentinelInv
    <2>2. /\ rx.generation \in Nat /\ rx.sentinel_generation \in Nat /\ MaxStale \in Nat
        BY ChunkAssumption, RingTypes DEF ChunkInv, TypeOK
    <2>3. Before(rx.sentinel_generation, rx.sentinel_chunk, rx.generation, rx.next_chunk)
        BY DEF ChunkInv, PlaceInv, PositionsOrdered
    <2>4. rx'.generation - old'.generation <= MaxStale + 1
        BY <1>1, <1>2, <2>1, <2>2
    <2> QED
        BY <1>1, <1>2, <2>3, <2>4 DEF SentinelInv
<1> QED
    BY <1>2, <1>4, <1>5, <1>6, <1>7 DEF ChunkInv

\* The payload is copied.  If the card has not come round to the chunk by now, it
\* is the one the info word was read for.
LEMMA CopyChunkKeeps ==
    ASSUME ChunkInv, TypeOK', CopyChunk
    PROVE  ChunkInv'
<1>1. /\ pc = "copy" /\ pc' = "check" /\ frame' = Append(frame, buffer[u.chunk].payload)
      /\ UNCHANGED <<buffer, hw, rx, scan, u, old, ret, in_frame, caught, more_chunks>>
    BY DEF CopyChunk, ringVars
<1>2. /\ RingTypeOK /\ RingInv /\ u.lap \in Laps /\ u.chunk \in Chunks /\ u.tag \in Tag
      /\ frame \in Seq(Tag) /\ InfoInv
    BY HandTypes DEF ChunkInv
<1>3. RingInv' /\ PlaceInv' /\ WithinLag(OldestInUse)' /\ ScanInv'
    BY <1>1, RingKept DEF ringVars
<1>4. BetweenInv' /\ AssembledWhole' /\ CallInv'
    BY <1>1 DEF ChunkInv, BetweenInv, AssembledWhole, CallInv
<1>5. InfoInv'
    <2>1. pc \in InHand
        BY <1>1 DEF InHand
    <2> QED
        BY <1>1, <1>2, <2>1 DEF InfoInv, Continues
<1>6. SentinelInv'
    BY <1>1 DEF ChunkInv, SentinelInv
<1>7. ASSUME rx.aligned, ~caught, CardPos < Pos(u.lap, u.chunk) + N
      PROVE  Taken(frame', u.tag)
    <2>1. Leads(frame, u.tag)
        BY <1>1, <1>7 DEF ChunkInv, PayloadInv
    <2>2. Before(u.lap, u.chunk, hw.lap, hw.chunk)
          /\ (buffer[u.chunk].lap = u.lap => buffer[u.chunk].info = u.tag)
        BY <1>1, <1>2 DEF InfoInv, InHand
    <2>3. buffer[u.chunk].lap = u.lap /\ u.chunk # hw.chunk
        BY <1>2, <1>7, <2>2, StillThere DEF RingInv
    <2>4. buffer[u.chunk].payload = u.tag
        BY <1>2, <2>2, <2>3 DEF RingInv, DataInv
    <2> QED
        BY <1>1, <1>2, <2>1, <2>4, LeadsTaken
<1>8. PayloadInv'
    BY <1>1, <1>7 DEF PayloadInv, Taken, Piece, CardPos
<1> QED
    BY <1>3, <1>4, <1>5, <1>6, <1>8 DEF ChunkInv

\* What follows a chunk that was taken: the next of its frame, or a frame's start.
LEMMA AfterTaken ==
    ASSUME NEW l, NEW c, NEW t, Continues(l, c, t)
    PROVE  IsEnd(t) => FrameStarts(l, c)
BY ContinuesEnd

\* The sentinel was intact after the copy, so the card was not at the chunk
\* copied.
LEMMA ChunkCopiedKeeps ==
    ASSUME ChunkInv, TypeOK', ChunkCopied
    PROVE  ChunkInv'
<1>1. /\ pc = "check" /\ OldIntact /\ pc' = "idle" /\ ret' = Outcome(u)
      /\ in_frame' = ~IsEnd(u.tag)
      /\ more_chunks' = IF Reports(u) THEN more_chunks ELSE ~IsEnd(u.tag)
      /\ UNCHANGED <<buffer, hw, rx, scan, frame, caught>>
    BY DEF ChunkCopied, Return, Took, ringVars
<1>2. /\ RingTypeOK /\ u.lap \in Laps /\ u.chunk \in Chunks /\ u.tag \in Tag
      /\ frame \in Seq(Tag) /\ old.generation \in Laps /\ old.chunk \in Chunks
    BY HandTypes DEF ChunkInv
<1>3. RingInv' /\ PlaceInv' /\ WithinLag(OldestInUse)' /\ ScanInv'
    BY <1>1, RingKept DEF ringVars
<1>4. Continues(rx.generation, rx.next_chunk, u.tag)
    BY <1>1 DEF ChunkInv, InfoInv, InHand
<1>5. ASSUME rx.aligned, ~caught
      PROVE  Taken(frame, u.tag)
    <2>1. CardPos <= Pos(old.generation, old.chunk) + N
        BY <1>1, OldTells
    <2>2. Before(old.generation, old.chunk, u.lap, u.chunk)
        BY <1>1 DEF ChunkInv, SentinelInv
    <2>3. /\ Pos(old.generation, old.chunk) < Pos(u.lap, u.chunk)
          /\ Pos(old.generation, old.chunk) \in Nat /\ Pos(u.lap, u.chunk) \in Nat
        BY <1>2, <2>2, PosFacts
    <2>4. CardPos \in Nat /\ N \in Nat
        BY <1>2, RingTypes, PosFacts, RingAssumption DEF CardPos
    <2>5. CardPos < Pos(u.lap, u.chunk) + N
        BY <2>1, <2>3, <2>4
    <2> QED
        BY <1>1, <1>5, <2>5 DEF ChunkInv, PayloadInv
<1>6. BetweenInv'
    <2>1. ASSUME ~in_frame', rx.aligned
          PROVE  FrameStarts(rx.generation, rx.next_chunk)
        BY <1>1, <1>4, <2>1, AfterTaken
    <2>2. ASSUME in_frame', ~caught, rx.aligned
          PROVE  /\ Taken(frame, frame[Len(frame)]) /\ ~IsEnd(frame[Len(frame)])
                 /\ Continues(rx.generation, rx.next_chunk, frame[Len(frame)])
        <3>1. Taken(frame, u.tag) /\ frame[Len(frame)] = u.tag
            BY <1>5, <2>2 DEF Taken
        <3> QED
            BY <1>1, <1>4, <2>2, <3>1
    <2> QED
        BY <1>1, <2>1, <2>2 DEF BetweenInv, FrameStarts, Continues, Taken, Piece
<1>7. AssembledWhole'
    <2>1. ret' = "last" => IsEnd(u.tag)
        BY <1>1 DEF Outcome
    <2>2. ret' \in {"chunk", "last"} => (more_chunks' = in_frame')
        BY <1>1 DEF Outcome
    <2>3. rx.aligned /\ ~caught /\ IsEnd(u.tag) => WholeFrame(frame)
        BY <1>2, <1>5, TakenWhole
    <2> QED
        BY <1>1, <2>1, <2>2, <2>3 DEF AssembledWhole, WholeFrame
<1>8. InfoInv' /\ PayloadInv' /\ SentinelInv' /\ CallInv'
    BY <1>1 DEF InfoInv, PayloadInv, SentinelInv, CallInv, InHand
<1> QED
    BY <1>3, <1>6, <1>7, <1>8 DEF ChunkInv

\* A call in place hands out a pointer, or reports the error of a last chunk.
LEMMA TakePointerKeeps ==
    ASSUME ChunkInv, TypeOK', TakePointer
    PROVE  ChunkInv'
<1> DEFINE i == Info
<1>1. /\ pc = "read" /\ api \notin Copying /\ IsNext /\ rx' = Advanced
      /\ in_frame' = ~IsEnd(i.tag)
      /\ more_chunks' = IF Reports(i) THEN more_chunks ELSE ~IsEnd(i.tag)
      /\ UNCHANGED <<buffer, hw, scan, frame, caught>>
    BY DEF TakePointer, Took
<1>2. pc' \in {"idle", "hold"}
    BY DEF TakePointer, Return
<1>3. /\ RingInv' /\ PlaceInv' /\ WithinLag(OldestInUse)' /\ ScanInv'
      /\ rx'.aligned = rx.aligned
      /\ rx'.generation = NextLap(i.lap, i.chunk) /\ rx'.next_chunk = NextChunk(i.chunk)
      /\ Continues(rx'.generation, rx'.next_chunk, i.tag)
      /\ Before(i.lap, i.chunk, hw.lap, hw.chunk)
      /\ i.tag = buffer[i.chunk].info /\ i.lap = rx.generation /\ i.chunk = rx.next_chunk
    BY <1>1, <1>2, MovesOn
<1>4. rx.aligned /\ ~caught => Leads(frame, i.tag)
    BY <1>1, ReadLeads
<1>5. ret = "none"
    BY <1>1 DEF ChunkInv, CallInv
<1>6. CASE Reports(i)
    <2>1. pc' = "idle" /\ ret' = "error" /\ IsEnd(i.tag) /\ ~in_frame'
        BY <1>1, <1>6 DEF TakePointer, Return, Reports
    <2>2. FrameStarts(rx'.generation, rx'.next_chunk)
        BY <1>3, <2>1, AfterTaken
    <2>3. BetweenInv'
        BY <1>1, <2>1, <2>2 DEF BetweenInv, FrameStarts, Continues
    <2>4. AssembledWhole' /\ InfoInv' /\ PayloadInv' /\ SentinelInv' /\ CallInv'
        BY <2>1 DEF AssembledWhole, InfoInv, PayloadInv, SentinelInv, CallInv, InHand
    <2> QED
        BY <1>3, <2>3, <2>4 DEF ChunkInv
<1>7. CASE ~Reports(i)
    <2>1. /\ u' = i /\ pc' = "hold" /\ UNCHANGED <<api, old, ret>>
          /\ chunk_id' = (rx.generation % G) * N + rx.next_chunk
        BY <1>7 DEF TakePointer
    <2> HIDE DEF i
    <2>2. chunk_id' = (u'.lap % G) * N + u'.chunk
        BY <1>3, <2>1
    <2>3. ~Reports(u)'
        BY <1>7, <2>1 DEF Reports
    <2>4. more_chunks' = in_frame' /\ in_frame' = ~IsEnd(u'.tag)
        BY <1>1, <1>7, <2>1
    <2>5. CallInv'
        BY <1>5, <2>1, <2>2, <2>3, <2>4 DEF CallInv
    <2>6. InfoInv'
        BY <1>1, <1>3, <2>1 DEF InfoInv, Continues
    <2>7. PayloadInv'
        BY <1>1, <1>3, <1>4, <2>1 DEF PayloadInv, Leads, Piece
    <2>8. BetweenInv' /\ AssembledWhole' /\ SentinelInv'
        BY <1>5, <2>1 DEF BetweenInv, AssembledWhole, SentinelInv
    <2> QED
        BY <1>3, <2>5, <2>6, <2>7, <2>8 DEF ChunkInv
<1> QED
    BY <1>6, <1>7

\* A chunk id names the chunk in hand.
LEMMA IdOfHand ==
    ASSUME ChunkInv, pc \in {"hold", "recheck"}
    PROVE  chunk_id % N = u.chunk /\ chunk_id \div N = u.lap % G
<1>1. u.lap \in Nat /\ u.chunk \in Chunks /\ chunk_id = (u.lap % G) * N + u.chunk
    BY HandTypes DEF ChunkInv, CallInv
<1> DEFINE q == u.lap % G
<1>2. q \in Nat
    BY <1>1, RingAssumption
<1> HIDE DEF q
<1>3. chunk_id = q * N + u.chunk
    BY <1>1 DEF q
<1>4. chunk_id % N = u.chunk /\ chunk_id \div N = q
    BY <1>1, <1>2, <1>3, ChunkId
<1> QED
    BY <1>4 DEF q

\* The caller looks.  What it sees is what the info word was read for, unless the
\* card overwrites the chunk, or is in it.
LEMMA LookAtChunkKeeps ==
    ASSUME ChunkInv, TypeOK', LookAtChunk
    PROVE  ChunkInv'
<1>1. /\ pc = "hold" /\ pc' = "recheck"
      /\ UNCHANGED <<buffer, hw, rx, scan, api, u, old, chunk_id, ret, in_frame, caught,
                     more_chunks>>
    BY DEF LookAtChunk, ringVars
<1>2. /\ RingTypeOK /\ RingInv /\ u.lap \in Laps /\ u.chunk \in Chunks /\ u.tag \in Tag
      /\ frame \in Seq(Tag) /\ InfoInv
    BY HandTypes DEF ChunkInv
<1>3. frame' = Append(frame, buffer[u.chunk].payload)
    BY <1>1, IdOfHand DEF LookAtChunk
<1>4. RingInv' /\ PlaceInv' /\ WithinLag(OldestInUse)' /\ ScanInv'
    BY <1>1, RingKept DEF ringVars
<1>5. BetweenInv' /\ AssembledWhole' /\ SentinelInv'
    BY <1>1 DEF ChunkInv, BetweenInv, AssembledWhole, SentinelInv, CallInv
<1>6. CallInv'
    BY <1>1 DEF ChunkInv, CallInv, Reports
<1>7. pc \in InHand
    BY <1>1 DEF InHand
<1>8. InfoInv'
    BY <1>1, <1>2, <1>7 DEF InfoInv, Continues
<1>9. ASSUME rx.aligned, ~caught, buffer[u.chunk].lap = u.lap, ~(hw.writing /\ hw.chunk = u.chunk)
      PROVE  Taken(frame', u.tag)
    <2>1. Leads(frame, u.tag)
        BY <1>1, <1>9 DEF ChunkInv, PayloadInv
    <2>2. buffer[u.chunk].info = u.tag
        BY <1>2, <1>7, <1>9 DEF InfoInv
    <2>3. buffer[u.chunk].payload = u.tag
        BY <1>2, <1>9, <2>2 DEF RingInv, DataInv
    <2> QED
        BY <1>2, <1>3, <2>1, <2>3, LeadsTaken
<1>10. PayloadInv'
    BY <1>1, <1>9 DEF PayloadInv, Taken, Piece
<1> QED
    BY <1>4, <1>5, <1>6, <1>8, <1>10 DEF ChunkInv

\* The recheck compares the chunk's generation with the one in its id: equal
\* generations are equal laps here too.
LEMMA ValidTells ==
    ASSUME ChunkInv, pc = "recheck", Valid
    PROVE  buffer[u.chunk].lap = u.lap
<1> DEFINE b == buffer[u.chunk].lap
           l == u.lap
<1>1. /\ RingTypeOK /\ l \in Nat /\ l \in Laps /\ u.chunk \in Chunks
    BY HandTypes DEF ChunkInv
<1>2. b \in Nat /\ rx.generation \in Nat /\ G \in Nat /\ G > 0
    BY <1>1, RingTypes, RingAssumption
<1>3. SameGen(b, l)
    <2>1. SameGen(b, l % G)
        BY IdOfHand DEF Valid
    <2>2. (l % G) % G = l % G
        BY <1>1, <1>2
    <2> QED
        BY <2>1, <2>2 DEF SameGen
<1>4. /\ Before(l, u.chunk, hw.lap, hw.chunk) /\ rx.generation = NextLap(l, u.chunk)
      /\ RingInv /\ WithinLag(rx.generation)
    BY DEF ChunkInv, InfoInv, InHand, OldestInUse
<1>5. b >= l
    BY <1>1, <1>4, LapBehind DEF RingInv
<1>6. b <= rx.generation + MaxLag
    BY <1>1, <1>4 DEF WithinLag
<1>7. rx.generation <= l + 1
    BY <1>1, <1>4 DEF NextLap
<1> HIDE DEF b, l
<1>8. b - l < G /\ l - b < G
    BY <1>1, <1>2, <1>5, <1>6, <1>7, RingAssumption, ChunkAssumption
<1>9. b = l
    BY <1>1, <1>2, <1>3, <1>8, SameGenEqual
<1> QED
    BY <1>9 DEF b, l

\* The caller rechecks the chunk it has used, and drops the frame if the card has
\* come round to it.
LEMMA RecheckKeeps ==
    ASSUME ChunkInv, TypeOK', Recheck
    PROVE  ChunkInv'
<1>1. /\ pc = "recheck"
      /\ UNCHANGED <<buffer, hw, rx, scan, more_chunks, frame, in_frame>>
    BY DEF Recheck, ringVars
<1>2. /\ in_frame = ~IsEnd(u.tag) /\ more_chunks = in_frame
      /\ u.tag \in Tag /\ u.chunk \in Chunks /\ frame \in Seq(Tag) /\ in_frame \in BOOLEAN
      /\ Continues(rx.generation, rx.next_chunk, u.tag) /\ ~Reports(u)
    BY <1>1, HandTypes DEF ChunkInv, CallInv, InfoInv, InHand
<1>3. pc' \in {"idle", "abort"}
    BY DEF Recheck, Return
<1>4. RingInv' /\ PlaceInv' /\ WithinLag(OldestInUse)' /\ ScanInv'
    BY <1>1, <1>3, RingKept DEF ringVars
<1>5. InfoInv' /\ PayloadInv' /\ SentinelInv'
    BY <1>3 DEF InfoInv, PayloadInv, SentinelInv, InHand
<1>6. ~caught' => ~caught /\ ~(hw.writing /\ hw.chunk = u.chunk)
    BY <1>1, IdOfHand DEF Recheck
<1>7. ASSUME Valid, rx.aligned, ~caught'
      PROVE  Taken(frame, u.tag)
    BY <1>1, <1>6, <1>7, ValidTells DEF ChunkInv, PayloadInv
<1>8. ~in_frame => FrameStarts(rx.generation, rx.next_chunk)
    BY <1>2, AfterTaken
<1>9. CASE Valid \/ ~in_frame
    <2>1. pc' = "idle" /\ ret' = IF Valid THEN Outcome(u) ELSE "overwritten"
        BY <1>9 DEF Recheck, Return
    <2>2. BetweenInv'
        <3>1. ASSUME in_frame, ~caught', rx.aligned
              PROVE  /\ Taken(frame, frame[Len(frame)]) /\ ~IsEnd(frame[Len(frame)])
                     /\ Continues(rx.generation, rx.next_chunk, frame[Len(frame)])
            <4>1. Taken(frame, u.tag) /\ frame[Len(frame)] = u.tag
                BY <1>7, <1>9, <3>1 DEF Taken
            <4> QED
                BY <1>2, <3>1, <4>1
        <3> QED
            BY <1>1, <1>8, <3>1 DEF BetweenInv, FrameStarts, Continues, Taken, Piece
    <2>3. ASSUME ret' = "last", rx.aligned, ~caught'
          PROVE  WholeFrame(frame)
        <3>1. Valid /\ IsEnd(u.tag)
            BY <2>1, <2>3 DEF Outcome
        <3> QED
            BY <1>2, <1>7, <2>3, <3>1, TakenWhole
    <2>4. AssembledWhole'
        BY <1>1, <1>2, <2>3 DEF AssembledWhole, WholeFrame
    <2>5. CallInv'
        BY <2>1 DEF CallInv
    <2> QED
        BY <1>4, <1>5, <2>2, <2>4, <2>5 DEF ChunkInv
<1>10. CASE ~(Valid \/ ~in_frame)
    <2>1. pc' = "abort" /\ ret' = "none"
        BY <1>10 DEF Recheck
    <2>2. BetweenInv' /\ AssembledWhole' /\ CallInv'
        BY <2>1 DEF BetweenInv, AssembledWhole, CallInv
    <2> QED
        BY <1>4, <1>5, <2>2 DEF ChunkInv
<1> QED
    BY <1>9, <1>10

\* Skipping a chunk; the last one of the frame leaves the reader at the next.
LEMMA SkipChunkKeeps ==
    ASSUME ChunkInv, TypeOK', SkipChunk
    PROVE  ChunkInv'
<1> DEFINE i == Info
<1>1. /\ pc = "abort" /\ IsNext /\ rx' = Advanced /\ in_frame' = ~IsEnd(i.tag)
      /\ UNCHANGED <<buffer, hw, scan, more_chunks, frame, caught>>
    BY DEF SkipChunk
<1>2. /\ pc' \in {"idle", "abort"} /\ (pc' = "idle" => IsEnd(i.tag))
      /\ pc' = "idle" => ret' \in {"skipped", "skipped error"}
      /\ pc' = "abort" => ret' = ret
    BY <1>1 DEF SkipChunk, Return
<1>3. /\ RingInv' /\ PlaceInv' /\ WithinLag(OldestInUse)' /\ ScanInv'
      /\ Continues(rx'.generation, rx'.next_chunk, i.tag)
    BY <1>1, <1>2, MovesOn
<1>4. ret = "none"
    BY <1>1 DEF ChunkInv, CallInv
<1>5. IsEnd(i.tag) => FrameStarts(rx'.generation, rx'.next_chunk)
    BY <1>3, AfterTaken
<1> HIDE DEF i
<1>6. BetweenInv'
    BY <1>1, <1>2, <1>5 DEF BetweenInv, FrameStarts, Continues
<1>7. AssembledWhole' /\ InfoInv' /\ PayloadInv' /\ SentinelInv' /\ CallInv'
    BY <1>2, <1>4 DEF AssembledWhole, InfoInv, PayloadInv, SentinelInv, CallInv, InHand
<1> QED
    BY <1>3, <1>6, <1>7 DEF ChunkInv

-----------------------------------------------------------------------------
(* The invariant.                                                          *)

\* It holds before anything is received.
LEMMA InitChunk == Init => ChunkInv
<1> SUFFICES ASSUME Init PROVE ChunkInv
    OBVIOUS
<1>1. TypeOK /\ RingTypeOK
    BY TypeInit DEF TypeOK
<1>2. RingInv
    BY RingInitially DEF Init
<1>3. PlaceInv
    BY RingAssumption DEF Init, RingInit, PlaceInv, PositionsOrdered, AtCard, Before
<1>4. WithinLag(OldestInUse)
    <2>1. hw.lap \in Nat
        BY <1>1, RingTypes
    <2>2. WithinLag(hw.lap)
        BY <1>1, <1>2, <2>1, LagOfCard
    <2> QED
        BY <2>2 DEF OldestInUse, Init
<1>5. ScanInv /\ BetweenInv /\ InfoInv /\ PayloadInv /\ SentinelInv /\ CallInv /\ AssembledWhole
    BY DEF Init, ScanInv, BetweenInv, InfoInv, PayloadInv, SentinelInv, CallInv,
           AssembledWhole, InHand
<1> QED
    BY <1>1, <1>2, <1>3, <1>4, <1>5 DEF ChunkInv

\* Every step keeps it.
LEMMA NextChunkInv == ChunkInv /\ [Next]_vars => ChunkInv'
<1> SUFFICES ASSUME ChunkInv, [Next]_vars
             PROVE  ChunkInv'
    OBVIOUS
<1>1. TypeOK'
    BY TypeNext DEF ChunkInv, RingInv
<1>2. CASE Card
    BY <1>1, <1>2, CardKeeps
<1>3. CASE Acquire
    BY <1>1, <1>3, CatchUpEnter DEF Acquire
<1>4. CASE \E a \in Apis : ReceiveChunk(a)
    BY <1>1, <1>4, ReceiveChunkKeeps
<1>5. CASE Abort
    BY <1>1, <1>5, AbortKeeps
<1>6. CASE NoNewData
    BY <1>1, <1>6, NoNewDataKeeps
<1>7. CASE Lapped
    BY <1>1, <1>7, CatchUpEnter DEF Lapped
<1>8. CASE TakeChunk
    BY <1>1, <1>8, TakeChunkKeeps
<1>9. CASE CopyChunk
    BY <1>1, <1>9, CopyChunkKeeps
<1>10. CASE ChunkCopied
    BY <1>1, <1>10, ChunkCopiedKeeps
<1>11. CASE Overwritten
    BY <1>1, <1>11, CatchUpEnter DEF Overwritten
<1>12. CASE TakePointer
    BY <1>1, <1>12, TakePointerKeeps
<1>13. CASE LookAtChunk
    BY <1>1, <1>13, LookAtChunkKeeps
<1>14. CASE Recheck
    BY <1>1, <1>14, RecheckKeeps
<1>15. CASE SkipChunk
    BY <1>1, <1>15, SkipChunkKeeps
<1>16. CASE CatchUpStep
    BY <1>1, <1>16, CatchupReadKeeps, CatchupEndKeeps DEF CatchUpStep
<1>17. CASE UNCHANGED vars
    BY <1>17, StutterKeeps
<1> QED
    BY <1>2, <1>3, <1>4, <1>5, <1>6, <1>7, <1>8, <1>9, <1>10, <1>11, <1>12, <1>13, <1>14,
       <1>15, <1>16, <1>17 DEF Next, InCall

\* The invariant holds of the chunk calls, used in any order and mixture, over a
\* ring the card writes meanwhile.  No assumption is needed beyond those on the
\* constants.
THEOREM ChunkInvariance == Spec => []ChunkInv
<1>1. Init => ChunkInv
    BY InitChunk
<1>2. ChunkInv /\ [Next]_vars => ChunkInv'
    BY NextChunkInv
<1> QED
    BY <1>1, <1>2, PTL DEF Spec

\* Every variable keeps its type; in particular a chunk id is below G * N, which
\* the code keeps in a uint32_t.
THEOREM ChunkTypeCorrect == Spec => []TypeOK
<1>1. ChunkInv => TypeOK
    BY DEF ChunkInv
<1> QED
    BY <1>1, ChunkInvariance, PTL

\* A frame put together from chunks, by whichever of the calls, is one whole
\* frame when its last chunk is handed over, and more_chunks says where it ends.
THEOREM AssembledWholeHolds == Spec => []AssembledWhole
<1>1. ChunkInv => AssembledWhole
    BY DEF ChunkInv
<1> QED
    BY <1>1, ChunkInvariance, PTL

\* A call that begins a catch-up because of what it read of the ring: when the
\* chunk awaited was overwritten the card is more than a lap past it; when the
\* sentinel was, the card is more than a lap past the sentinel, and if that is the
\* chunk just before the one copied then the card has come round to the latter.
LEMMA OverflowStep ==
    ASSUME ChunkInv, [Next]_vars, ret' = "swovfl", ret = "none", ~SentinelLeftBehind
    PROVE  CardPos >= AwaitedPos + N
<1>1. RingTypeOK /\ PlaceInv
    BY DEF ChunkInv, TypeOK
<1>2. Lapped \/ Overwritten
    <2>1. ~UNCHANGED vars /\ ~Card
        BY DEF Card, vars, callVars
    <2>2. ~Acquire /\ ~(\E a \in Apis : ReceiveChunk(a)) /\ ~Abort
        BY DEF Acquire, CatchUp, ReceiveChunk, Abort
    <2>3. ~NoNewData /\ ~TakeChunk /\ ~CopyChunk /\ ~LookAtChunk /\ ~SkipChunk
        BY DEF NoNewData, Return, TakeChunk, CopyChunk, LookAtChunk, SkipChunk
    <2>4. ~ChunkCopied /\ ~TakePointer /\ ~Recheck
        BY DEF ChunkCopied, TakePointer, Recheck, Return, Outcome
    <2>5. ~CatchUpStep
        BY DEF CatchUpStep, Return, callVars, ChunkInv, CallInv
    <2> QED
        BY <2>1, <2>2, <2>3, <2>4, <2>5 DEF Next, InCall
<1>3. CASE Lapped
    <2>1. CardPos > ReaderPos + N /\ pc # "check"
        BY <1>3, ReadFacts DEF Lapped
    <2>2. ReaderPos \in Nat /\ CardPos \in Nat /\ N \in Nat
        BY <1>1, RingTypes, PosFacts, RingAssumption DEF ReaderPos, CardPos
    <2> QED
        BY <2>1, <2>2 DEF AwaitedPos
<1>4. CASE Overwritten
    <2>1. pc = "check" /\ CardPos > Pos(old.generation, old.chunk) + N
        BY <1>4, OldTells DEF Overwritten
    <2>2. /\ u.lap \in Laps /\ u.chunk \in Chunks
          /\ old.generation \in Laps /\ old.chunk \in Chunks
        BY <1>1, HandTypes DEF ChunkInv
    <2>3. /\ Pos(u.lap, u.chunk) \in Nat /\ Pos(old.generation, old.chunk) \in Nat
          /\ CardPos \in Nat /\ N \in Nat
        <3>1. hw.lap \in Laps /\ hw.chunk \in Chunks
            BY <1>1, RingTypes
        <3> QED
            BY <2>2, <3>1, PosFacts, RingAssumption DEF CardPos
    <2>4. Pos(old.generation, old.chunk) + 1 >= Pos(u.lap, u.chunk)
        BY <2>1, <2>3 DEF SentinelLeftBehind
    <2> QED
        BY <2>1, <2>3, <2>4 DEF AwaitedPos
<1> QED
    BY <1>2, <1>3, <1>4

\* A call answers that chunks were missed only when the card has come round to the
\* chunk the call has in hand or waits for, unless calls that do not move the
\* sentinel have left it behind the chunk copied.
THEOREM ChunkOverflowHolds == Spec => OverflowMeansMissedIfFresh
<1>1. ChunkInv /\ [Next]_vars
          => [ret' = "swovfl" /\ ret = "none" /\ ~SentinelLeftBehind
                  => CardPos >= AwaitedPos + N]_vars
    BY OverflowStep
<1> QED
    BY <1>1, ChunkInvariance, PTL DEF Spec, OverflowMeansMissedIfFresh
=============================================================================
