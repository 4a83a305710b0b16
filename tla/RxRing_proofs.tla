---------------------------- MODULE RxRing_proofs ----------------------------
(***************************************************************************)
(* Proofs about the ring of RxRing and the catch-up over it, for every     *)
(* ring size, generation width and frame size: the lemmas from which the   *)
(* proofs about the calls of RxFrame, CaptureRx and RxChunk are made.      *)
(***************************************************************************)
EXTENDS RxRingInv, TLAPS

-----------------------------------------------------------------------------
(* Arithmetic of the ring.                                                 *)

\* Two numbers less than G apart with the same remainder are equal: this is
\* what an 8-bit generation comparison can and cannot tell.
LEMMA SameGenEqual ==
    ASSUME NEW a \in Nat, NEW b \in Nat, a - b < G, b - a < G, SameGen(a, b)
    PROVE  a = b
<1>1. G \in Nat /\ G > 0
    BY RingAssumption
<1>2. a = G * (a \div G) + (a % G) /\ b = G * (b \div G) + (b % G)
    BY <1>1
<1>3. a % G = b % G
    BY DEF SameGen
<1> DEFINE q == a \div G
           r == b \div G
<1>4. q \in Int /\ r \in Int
    BY <1>1
<1>5. a - b = G * (q - r)
    BY <1>1, <1>2, <1>3, <1>4
<1>6. q - r >= 1 => G * (q - r) >= G
    BY <1>1, <1>4
<1>7. q - r <= -1 => G * (q - r) <= -G
    BY <1>1, <1>4
<1>8. q = r
    BY <1>1, <1>4, <1>5, <1>6, <1>7
<1> QED
    BY <1>2, <1>3, <1>8 DEF q, r

\* The successor of a chunk is a chunk, no two chunks have the same one, and
\* the lap carries when it is the first.
LEMMA NextChunkFacts ==
    /\ \A c \in Chunks : NextChunk(c) \in Chunks /\ NextChunk(c) # c
    /\ \A c, d \in Chunks : NextChunk(c) = NextChunk(d) => c = d
    /\ \A l \in Laps, c \in Chunks : NextLap(l, c) \in Laps
BY RingAssumption DEF Chunks, Laps, NextChunk, NextLap

\* A larger factor gives a product larger by as much.
LEMMA TimesMonotone ==
    ASSUME NEW a \in Nat, NEW b \in Nat, NEW n \in Nat, a < b
    PROVE  a * n + n <= b * n
<1>1. PICK d \in Nat : b = a + 1 + d
    <2>1. b - a - 1 \in Nat /\ b = a + 1 + (b - a - 1)
        OBVIOUS
    <2> QED
        BY <2>1
<1>2. b * n = a * n + n + d * n
    BY <1>1
<1>3. d * n \in Nat /\ a * n \in Nat
    OBVIOUS
<1> QED
    BY <1>2, <1>3

\* Places in the stream are ordered as the card reaches them, the next chunk is
\* the next place, and a lap is N places.
LEMMA PosFacts ==
    ASSUME NEW l \in Laps, NEW c \in Chunks
    PROVE  /\ Pos(l, c) \in Nat
           /\ Pos(NextLap(l, c), NextChunk(c)) = Pos(l, c) + 1
           /\ Pos(l + 1, c) = Pos(l, c) + N
           /\ \A m \in Laps, d \in Chunks :
                  /\ Before(l, c, m, d) <=> Pos(l, c) < Pos(m, d)
                  /\ Pos(l, c) = Pos(m, d) => l = m /\ c = d
<1>1. N \in Nat /\ N >= 2 /\ l \in Nat /\ c \in Nat /\ c < N
    BY RingAssumption DEF Laps, Chunks
<1>2. l * N \in Nat /\ (l + 1) * N = l * N + N
    BY <1>1
<1>3. Pos(l, c) = l * N + c /\ Pos(l + 1, c) = l * N + N + c
    BY <1>2 DEF Pos
<1>4. Pos(NextLap(l, c), NextChunk(c)) = Pos(l, c) + 1
    BY <1>1, <1>2, <1>3 DEF Pos, NextLap, NextChunk
<1>5. ASSUME NEW m \in Laps, NEW d \in Chunks
      PROVE  /\ Before(l, c, m, d) <=> Pos(l, c) < Pos(m, d)
             /\ Pos(l, c) = Pos(m, d) => l = m /\ c = d
    <2>1. m \in Nat /\ d \in Nat /\ d < N /\ m * N \in Nat
        BY <1>1 DEF Laps, Chunks
    <2>2. l < m => l * N + N <= m * N
        BY <1>1, <2>1, TimesMonotone
    <2>3. m < l => m * N + N <= l * N
        BY <1>1, <2>1, TimesMonotone
    <2>4. Pos(m, d) = m * N + d
        BY DEF Pos
    <2> HIDE DEF Pos
    <2>5. CASE l < m
        BY <1>1, <1>2, <1>3, <2>1, <2>2, <2>4, <2>5 DEF Before
    <2>6. CASE m < l
        BY <1>1, <1>2, <1>3, <2>1, <2>3, <2>4, <2>6 DEF Before
    <2>7. CASE l = m
        BY <1>1, <1>2, <1>3, <2>1, <2>4, <2>7 DEF Before
    <2> QED
        BY <1>1, <2>1, <2>5, <2>6, <2>7
<1> QED
    BY <1>1, <1>2, <1>3, <1>4, <1>5

-----------------------------------------------------------------------------
(* Types.                                                                  *)

\* The types of the parts of the ring, one by one.
LEMMA RingTypes ==
    ASSUME RingTypeOK
    PROVE  /\ hw.lap \in Nat /\ hw.lap \in Laps /\ hw.chunk \in Chunks
           /\ hw.tag \in Tag /\ hw.writing \in BOOLEAN
           /\ rx.generation \in Nat /\ rx.generation \in Laps /\ rx.next_chunk \in Chunks
           /\ rx.sentinel_generation \in Nat /\ rx.sentinel_generation \in Laps
           /\ rx.sentinel_chunk \in Chunks /\ rx.aligned \in BOOLEAN
           /\ scan.left \in 0 .. N /\ scan.floor \in Nat
           /\ scan.break_gen \in Nat /\ scan.break_gen \in Laps /\ scan.break_chunk \in Chunks
           /\ scan.eof_gen \in Nat /\ scan.eof_gen \in Laps /\ scan.eof_chunk \in Chunks
           /\ scan.eof_found \in BOOLEAN /\ scan.before_break \in BOOLEAN
           /\ \A c \in Chunks : /\ buffer[c].lap \in Nat /\ buffer[c].lap \in Laps
                                /\ buffer[c].info \in Tag /\ buffer[c].payload \in Tag
BY DEF RingTypeOK, PlaceType, ScanType, Laps

\* The parts of a tag.
LEMMA TagTypes ==
    ASSUME NEW t \in Tag
    PROVE  /\ t.k \in Nat /\ t.k > 0 /\ t.status \in Status
           /\ t.frame[1] \in Nat /\ t.frame[2] \in Chunks
           /\ Pos(t.frame[1], t.frame[2]) \in Nat
<1>1. t.k \in Nat /\ t.k > 0 /\ t.status \in Status /\ t.frame \in Laps \X Chunks
    BY DEF Tag
<1>2. t.frame[1] \in Laps /\ t.frame[2] \in Chunks
    BY <1>1
<1> QED
    BY <1>1, <1>2, PosFacts DEF Laps

\* A chunk nothing was written to yet has the type of the others.
LEMMA BlankTagType == BlankTag \in Tag /\ IsEnd(BlankTag) /\ G - 1 \in Laps /\ 0 \in Chunks
BY RingAssumption DEF BlankTag, Tag, Laps, Chunks, Status, IsEnd

\* The locals of a catch-up that is not running are in their types.
LEMMA NoScanType ==
    NoScan \in ScanType
BY RingAssumption DEF NoScan, Laps, Chunks, ScanType

\* A catch-up begins with its loop variable and its floor in range.
LEMMA CatchupBeginType ==
    ASSUME RingTypeOK, CatchupBegin, hw.lap >= G
    PROVE  scan' \in ScanType
<1>1. N \in 0 .. N /\ hw.lap - 1 \in Laps
    BY RingAssumption, RingTypes DEF Laps
<1> QED
    BY <1>1, NoScanType DEF CatchupBegin, ScanType

\* Moving the place on by one chunk, wrapping, leaves it in the ring.
LEMMA AdvancedType ==
    ASSUME RingTypeOK
    PROVE  Advanced \in PlaceType
BY NextChunkFacts DEF Advanced, RingTypeOK, PlaceType

\* The card writes tags and laps, to chunks of the ring.
LEMMA HwPayloadType ==
    ASSUME RingTypeOK, NEW oldest, HwPayload(oldest)
    PROVE  RingTypeOK'
<1>1. PICK s \in Status : LET t == FollowingTag(hw.tag, s)
                          IN  /\ hw' = [hw EXCEPT !.tag = t, !.writing = TRUE]
                              /\ buffer' = [buffer EXCEPT ![hw.chunk].payload = t]
    BY DEF HwPayload
<1>2. FollowingTag(hw.tag, s) \in Tag
    BY DEF FollowingTag, Tag, RingTypeOK
<1> QED
    BY ZenonT(60), <1>1, <1>2 DEF HwPayload, RingTypeOK

\* The info word has the tag and the lap of the card.
LEMMA HwInfoType ==
    ASSUME RingTypeOK, HwInfo
    PROVE  RingTypeOK'
<1>1. buffer' \in [Chunks -> [payload : Tag, info : Tag, lap : Laps]]
    BY DEF HwInfo, RingTypeOK
<1>2. hw' \in [chunk : Chunks, lap : Laps, tag : Tag, writing : BOOLEAN]
    BY NextChunkFacts DEF HwInfo, RingTypeOK
<1> QED
    BY <1>1, <1>2 DEF HwInfo, RingTypeOK

\* A read of the catch-up notes laps and chunks of the ring.
LEMMA CatchupReadType ==
    ASSUME RingTypeOK, CatchupRead
    PROVE  RingTypeOK'
<1>1. scan.left - 1 \in Chunks /\ scan.left - 1 \in 0 .. N
    BY RingAssumption, RingTypes DEF CatchupRead, Chunks
<1> DEFINE c      == scan.left - 1
           gen    == buffer[c].lap
           first  == c = N - 1
           break  == ~first /\ ~SameGen(gen, scan.break_gen)
           before == scan.before_break \/ break
           end    == IsEnd(buffer[c].info)
           take   == end /\ (before \/ ~scan.eof_found)
<1>2. gen \in Laps
    BY <1>1, RingTypes
<1>3. /\ (IF end /\ before THEN 0 ELSE c) \in 0 .. N
      /\ (IF first \/ break THEN gen ELSE scan.break_gen) \in Laps
      /\ (IF first \/ break THEN c ELSE scan.break_chunk) \in Chunks
      /\ before \in BOOLEAN
      /\ (scan.eof_found \/ end) \in BOOLEAN
      /\ (IF take THEN gen ELSE scan.eof_gen) \in Laps
      /\ (IF take THEN c ELSE scan.eof_chunk) \in Chunks
      /\ scan.floor \in Laps
    BY <1>1, <1>2, RingTypes, RingAssumption DEF Laps
<1>4. scan' \in ScanType
    BY <1>3 DEF CatchupRead, ScanType
<1> QED
    BY <1>4 DEF CatchupRead, RingTypeOK

\* The place it finds is in the ring.
LEMMA CatchupEndType ==
    ASSUME RingTypeOK, CatchupEnd
    PROVE  RingTypeOK'
<1>1. rx' \in PlaceType
    BY NextChunkFacts, RingTypes DEF CatchupEnd, PlaceType
<1> QED
    BY <1>1, NoScanType DEF CatchupEnd, RingTypeOK

-----------------------------------------------------------------------------
(* What a step of the card does.                                           *)

\* Writing a payload: the info words stay, and the tag continues the stream.
LEMMA HwPayloadEffect ==
    ASSUME RingTypeOK, NEW oldest, HwPayload(oldest)
    PROVE  /\ ~hw.writing /\ hw.lap - oldest <= MaxLag
           /\ hw'.chunk = hw.chunk /\ hw'.lap = hw.lap /\ hw'.writing
           /\ Follows(hw.tag, hw'.tag)
           /\ IsEnd(hw.tag) => hw'.tag.frame = <<hw.lap, hw.chunk>>
           /\ ~IsEnd(hw'.tag) => hw'.tag.k < MaxFrame
           /\ \A c \in Chunks : /\ buffer'[c].info = buffer[c].info
                                /\ buffer'[c].lap = buffer[c].lap
                                /\ c # hw.chunk => buffer'[c].payload = buffer[c].payload
           /\ buffer'[hw.chunk].payload = hw'.tag
           /\ UNCHANGED <<rx, scan>>
<1>1. PICK s \in Status : LET t == FollowingTag(hw.tag, s)
                          IN  /\ s = "more" => t.k < MaxFrame
                              /\ hw' = [hw EXCEPT !.tag = t, !.writing = TRUE]
                              /\ buffer' = [buffer EXCEPT ![hw.chunk].payload = t]
    BY DEF HwPayload
<1>2. /\ Follows(hw.tag, FollowingTag(hw.tag, s))
      /\ IsEnd(hw.tag) => FollowingTag(hw.tag, s).frame = <<hw.lap, hw.chunk>>
      /\ IsEnd(FollowingTag(hw.tag, s)) <=> s # "more"
    BY DEF Follows, FollowingTag, IsEnd
<1> QED
    BY <1>1, <1>2 DEF HwPayload, RingTypeOK

\* Writing an info word: the chunk gets the card's lap, the card moves on.
LEMMA HwInfoEffect ==
    ASSUME RingTypeOK, HwInfo
    PROVE  /\ hw.writing
           /\ hw'.chunk = NextChunk(hw.chunk) /\ hw'.lap = NextLap(hw.lap, hw.chunk)
           /\ ~hw'.writing /\ hw'.tag = hw.tag
           /\ \A c \in Chunks : c # hw.chunk => buffer'[c] = buffer[c]
           /\ buffer'[hw.chunk].payload = buffer[hw.chunk].payload
           /\ buffer'[hw.chunk].info = hw.tag
           /\ buffer'[hw.chunk].lap = hw.lap
           /\ CardPos' = CardPos + 1
           /\ hw.lap <= hw'.lap /\ hw'.lap \in Nat
           /\ UNCHANGED <<rx, scan>>
<1>1. /\ hw'.chunk = NextChunk(hw.chunk) /\ hw'.lap = NextLap(hw.lap, hw.chunk)
      /\ hw.lap \in Laps /\ hw.chunk \in Chunks /\ hw.lap \in Nat
    BY RingTypes DEF HwInfo, RingTypeOK
<1>2. CardPos' = CardPos + 1
    BY <1>1, PosFacts DEF CardPos
<1>3. hw.lap <= hw'.lap /\ hw'.lap \in Nat
    BY <1>1 DEF NextLap
<1>4. /\ hw.writing /\ ~hw'.writing /\ hw'.tag = hw.tag
      /\ \A c \in Chunks : c # hw.chunk => buffer'[c] = buffer[c]
      /\ buffer'[hw.chunk].payload = buffer[hw.chunk].payload
      /\ buffer'[hw.chunk].info = hw.tag
      /\ buffer'[hw.chunk].lap = hw.lap
      /\ UNCHANGED <<rx, scan>>
    BY DEF HwInfo, RingTypeOK
<1> QED
    BY <1>1, <1>2, <1>3, <1>4

\* The card only moves forward.
LEMMA HwForward ==
    ASSUME RingTypeOK, HwInfo, NEW l \in Laps, NEW c \in Chunks,
           Before(l, c, hw.lap, hw.chunk) \/ (l = hw.lap /\ c = hw.chunk)
    PROVE  Before(l, c, hw'.lap, hw'.chunk)
<1>1. hw.chunk \in Chunks /\ hw.lap \in Laps
    BY RingTypes
<1>2. hw'.chunk = NextChunk(hw.chunk) /\ hw'.lap = NextLap(hw.lap, hw.chunk)
    BY HwInfoEffect
<1> QED
    BY <1>1, <1>2, RingAssumption DEF Before, NextChunk, NextLap, Chunks, Laps

-----------------------------------------------------------------------------
(* The ring.                                                               *)

\* What the tags in the ring say of their frames.
LEMMA FramesPayload ==
    ASSUME RingTypeOK, RingInv, NEW oldest, HwPayload(oldest)
    PROVE  FramesInv'
<1>1. /\ hw.lap \in Laps /\ hw.chunk \in Chunks /\ hw.tag \in Tag /\ hw'.tag \in Tag
      /\ CardPos \in Nat
    BY RingTypes, HwPayloadType, PosFacts DEF RingTypeOK, CardPos
<1>2. /\ ~hw.writing /\ hw'.writing /\ Follows(hw.tag, hw'.tag)
      /\ IsEnd(hw.tag) => hw'.tag.frame = <<hw.lap, hw.chunk>>
      /\ ~IsEnd(hw'.tag) => hw'.tag.k < MaxFrame
      /\ CardPos' = CardPos
    BY HwPayloadEffect DEF CardPos
<1>3. \A c \in Chunks : buffer'[c].info = buffer[c].info /\ buffer'[c].lap = buffer[c].lap
    BY HwPayloadEffect
<1>4. /\ TagFits(hw.tag) /\ (~IsEnd(hw.tag) => StartsAt(hw.tag, CardPos - 1))
    BY <1>2 DEF RingInv, FramesInv
<1>5. hw.tag.k \in Nat /\ hw'.tag.k \in Nat /\ Pos(hw.tag.frame[1], hw.tag.frame[2]) \in Nat
    BY <1>1, TagTypes
<1>6. TagFits(hw'.tag)
    BY <1>2, <1>4, <1>5, RingAssumption DEF TagFits, Follows
<1>7. StartsAt(hw'.tag, CardPos)
    <2>1. CASE IsEnd(hw.tag)
        <3>1. hw'.tag.frame[1] = hw.lap /\ hw'.tag.frame[2] = hw.chunk /\ hw'.tag.k = 1
            BY <1>2, <2>1 DEF Follows
        <3> QED
            BY <1>1, <3>1 DEF StartsAt, CardPos
    <2>2. CASE ~IsEnd(hw.tag)
        <3>1. hw'.tag.frame = hw.tag.frame /\ hw'.tag.k = hw.tag.k + 1
            BY <1>2, <2>2 DEF Follows
        <3>2. Pos(hw.tag.frame[1], hw.tag.frame[2]) + hw.tag.k = CardPos - 1 + 1
            BY <1>4, <2>2 DEF StartsAt
        <3> QED
            BY <1>1, <1>5, <3>1, <3>2 DEF StartsAt
    <2> QED
        BY <2>1, <2>2
<1> QED
    BY <1>2, <1>3, <1>6, <1>7 DEF RingInv, FramesInv

\* The card keeps the ring in order, payload before info word.
LEMMA RingPayload ==
    ASSUME RingTypeOK, RingInv, NEW oldest, HwPayload(oldest)
    PROVE  RingInv'
<1> USE HwPayloadEffect
<1>1. hw'.lap >= G /\ LapsInv'
    BY DEF RingInv, LapsInv
<1>2. \A c \in Chunks : (hw'.writing => c # hw'.chunk) => buffer'[c].payload = buffer'[c].info
    BY DEF RingInv, DataInv
<1>3. \A c \in Chunks : NextChunk(c) # hw'.chunk =>
          Follows(buffer'[c].info, buffer'[NextChunk(c)].info)
    BY NextChunkFacts DEF RingInv, DataInv
<1>4. \A c \in Chunks : NextChunk(c) = hw'.chunk => Follows(buffer'[c].info, hw'.tag)
    BY DEF RingInv, DataInv
<1> QED
    BY <1>1, <1>2, <1>3, <1>4, FramesPayload DEF RingInv, DataInv

\* The info word completes the chunk, and the card's position moves past it.
LEMMA RingInfo ==
    ASSUME RingTypeOK, RingInv, HwInfo
    PROVE  RingInv'
<1> USE HwInfoEffect
<1>0. hw.chunk \in Chunks /\ hw.lap \in Laps /\ hw.lap \in Nat
    BY RingTypes
<1>1. hw'.lap >= G
    BY <1>0, RingAssumption DEF RingInv
<1>2. LapsInv'
    <2> SUFFICES ASSUME NEW c \in Chunks
                 PROVE  buffer'[c].lap = IF c < hw'.chunk THEN hw'.lap ELSE hw'.lap - 1
        BY DEF LapsInv
    <2>1. buffer[c].lap = IF c < hw.chunk THEN hw.lap ELSE hw.lap - 1
        BY DEF RingInv, LapsInv
    <2>3. hw'.chunk = NextChunk(hw.chunk) /\ hw'.lap = NextLap(hw.lap, hw.chunk)
        OBVIOUS
    <2>4. buffer'[c].lap = IF c = hw.chunk THEN hw.lap ELSE buffer[c].lap
        OBVIOUS
    <2> HIDE HwInfoEffect
    <2> QED
        BY <1>0, <2>1, <2>3, <2>4, RingAssumption DEF NextChunk, NextLap, Chunks, Laps
<1>3. \A c \in Chunks : buffer'[c].payload = buffer'[c].info
    BY DEF RingInv, DataInv
<1>4. ASSUME NEW c \in Chunks, NextChunk(c) # hw'.chunk
      PROVE  Follows(buffer'[c].info, buffer'[NextChunk(c)].info)
    <2>1. c # hw.chunk /\ NextChunk(c) \in Chunks
        BY <1>4, NextChunkFacts
    <2>2. CASE NextChunk(c) = hw.chunk
        BY <2>1, <2>2 DEF RingInv, DataInv
    <2>3. CASE NextChunk(c) # hw.chunk
        BY <2>1, <2>3 DEF RingInv, DataInv
    <2> QED
        BY <2>2, <2>3
<1>5. ASSUME NEW c \in Chunks, NextChunk(c) = hw'.chunk
      PROVE  hw'.tag = buffer'[c].info
    <2>2. c = hw.chunk
        BY <1>0, <1>5, NextChunkFacts
    <2> QED
        BY <2>2
<1>6. FramesInv'
    <2>1. CardPos \in Nat /\ CardPos' = CardPos + 1 /\ CardPos = Pos(hw.lap, hw.chunk)
        BY <1>0, PosFacts DEF CardPos
    <2>2. TagFits(hw.tag) /\ StartsAt(hw.tag, CardPos)
        BY DEF RingInv, FramesInv
    <2>3. \A c \in Chunks :
              /\ TagFits(buffer'[c].info)
              /\ IF buffer'[c].lap >= G THEN StartsAt(buffer'[c].info, Pos(buffer'[c].lap, c))
                                        ELSE buffer'[c].info = BlankTag
        BY <1>0, <2>1, <2>2 DEF RingInv, FramesInv
    <2>4. StartsAt(hw.tag, CardPos' - 1)
        BY <2>1, <2>2 DEF StartsAt
    <2> QED
        BY <2>2, <2>3, <2>4 DEF FramesInv
<1> QED
    BY <1>1, <1>2, <1>3, <1>4, <1>5, <1>6 DEF RingInv, DataInv

\* A step of the reader leaves the ring alone.
LEMMA RingUntouched ==
    ASSUME RingInv, UNCHANGED <<buffer, hw>>
    PROVE  RingInv'
BY DEF RingInv, LapsInv, DataInv, FramesInv, CardPos

\* The ring is in order before anything is received.
LEMMA RingInitially ==
    ASSUME RingInit
    PROVE  RingTypeOK /\ RingInv
<1> USE DEF RingInit
<1>1. RingTypeOK
    BY RingAssumption, BlankTagType, NoScanType DEF RingTypeOK, PlaceType, Chunks, Laps
<1>2. hw.lap >= G /\ LapsInv
    BY RingAssumption DEF LapsInv, Chunks
<1>3. Follows(BlankTag, BlankTag)
    BY DEF Follows, BlankTag, IsEnd
<1>4. DataInv
    BY <1>3, NextChunkFacts DEF DataInv
<1>5. TagFits(BlankTag) /\ IsEnd(BlankTag)
    BY RingAssumption DEF TagFits, BlankTag, IsEnd
<1>6. FramesInv
    BY <1>5, RingAssumption DEF FramesInv
<1> QED
    BY <1>1, <1>2, <1>4, <1>6 DEF RingInv

-----------------------------------------------------------------------------
(* What the laps in the ring tell a reader.                                *)

\* A chunk behind the card holds what was written there, or something newer.
LEMMA LapBehind ==
    ASSUME RingTypeOK, LapsInv, NEW l \in Laps, NEW c \in Chunks,
           Before(l, c, hw.lap, hw.chunk)
    PROVE  buffer[c].lap >= l
<1>1. buffer[c].lap = IF c < hw.chunk THEN hw.lap ELSE hw.lap - 1
    BY DEF LapsInv
<1> QED
    BY <1>1, RingTypes DEF Before, Chunks, Laps

\* The chunk of a lap l at a place the card has reached is of lap l or newer, or
\* of the lap before if the card has yet to write it.
LEMMA LapAtPlace ==
    ASSUME RingTypeOK, LapsInv, NEW l \in Laps, NEW c \in Chunks,
           Before(l, c, hw.lap, hw.chunk) \/ (l = hw.lap /\ c = hw.chunk)
    PROVE  /\ buffer[c].lap >= l - 1
           /\ buffer[c].lap = l => Before(l, c, hw.lap, hw.chunk)
           /\ buffer[c].lap = l - 1 => l = hw.lap /\ c = hw.chunk
           /\ buffer[c].lap > l => CardPos > Pos(l, c) + N
<1>1. buffer[c].lap = IF c < hw.chunk THEN hw.lap ELSE hw.lap - 1
    BY DEF LapsInv
<1>2. hw.lap \in Nat /\ hw.chunk \in Chunks /\ l \in Nat /\ hw.lap \in Laps
    BY RingTypes DEF Laps
<1>3. buffer[c].lap > l => Before(l + 1, c, hw.lap, hw.chunk)
    BY <1>1, <1>2 DEF Before, Chunks
<1>4. l + 1 \in Laps /\ Pos(l + 1, c) = Pos(l, c) + N
    BY <1>2, PosFacts DEF Laps
<1>5. Before(l + 1, c, hw.lap, hw.chunk) <=> Pos(l + 1, c) < Pos(hw.lap, hw.chunk)
    BY <1>2, <1>4, PosFacts
<1>6. Pos(l, c) \in Nat /\ Pos(hw.lap, hw.chunk) \in Nat /\ N \in Nat
    BY <1>2, PosFacts, RingAssumption
<1>7. buffer[c].lap > l => CardPos > Pos(l, c) + N
    BY <1>3, <1>4, <1>5, <1>6 DEF CardPos
<1>8. /\ buffer[c].lap >= l - 1
      /\ buffer[c].lap = l => Before(l, c, hw.lap, hw.chunk)
      /\ buffer[c].lap = l - 1 => l = hw.lap /\ c = hw.chunk
    BY <1>1, <1>2 DEF Before, Chunks
<1> QED
    BY <1>7, <1>8

\* A chunk that the card has written and not come round to again is there, and
\* is not being written.
LEMMA StillThere ==
    ASSUME RingTypeOK, LapsInv, NEW l \in Laps, NEW c \in Chunks,
           Before(l, c, hw.lap, hw.chunk), CardPos < Pos(l, c) + N
    PROVE  buffer[c].lap = l /\ c # hw.chunk
<1>1. buffer[c].lap = IF c < hw.chunk THEN hw.lap ELSE hw.lap - 1
    BY DEF LapsInv
<1>2. hw.lap \in Nat /\ hw.chunk \in Chunks /\ l \in Nat /\ hw.lap \in Laps
    BY RingTypes DEF Laps
<1>3. l + 1 \in Laps /\ Pos(l + 1, c) = Pos(l, c) + N
    BY <1>2, PosFacts DEF Laps
<1>4. Before(hw.lap, hw.chunk, l + 1, c)
    BY <1>2, <1>3, PosFacts DEF CardPos
<1> QED
    BY <1>1, <1>2, <1>4 DEF Before, Chunks

\* A step of the card moves no lap back and leaves what is not overwritten.
LEMMA CardKeepsChunks ==
    ASSUME RingTypeOK, RingInv, NEW oldest, HwPayload(oldest) \/ HwInfo
    PROVE  /\ \A l \in Laps, c \in Chunks :
                  Before(l, c, hw.lap, hw.chunk) =>
                      /\ Before(l, c, hw'.lap, hw'.chunk)
                      /\ buffer'[c].lap = l =>
                             buffer[c].lap = l /\ buffer'[c].info = buffer[c].info
           /\ CardPos \in Nat /\ CardPos' \in Nat /\ CardPos' >= CardPos
           /\ hw'.lap \in Nat /\ hw'.lap >= hw.lap
           /\ UNCHANGED <<rx, scan>>
<1>0. /\ hw.lap \in Nat /\ hw.lap \in Laps /\ hw.chunk \in Chunks /\ CardPos \in Nat
    BY RingTypes, PosFacts DEF CardPos
<1>1. CASE HwPayload(oldest)
    BY <1>0, <1>1, HwPayloadEffect DEF CardPos
<1>2. CASE HwInfo
    <2>1. /\ \A c \in Chunks : c # hw.chunk => buffer'[c] = buffer[c]
          /\ buffer'[hw.chunk].lap = hw.lap
          /\ CardPos' = CardPos + 1 /\ hw'.lap \in Nat /\ hw'.lap >= hw.lap
          /\ UNCHANGED <<rx, scan>>
        BY <1>2, HwInfoEffect
    <2>2. ASSUME NEW l \in Laps, NEW c \in Chunks, Before(l, c, hw.lap, hw.chunk)
          PROVE  /\ Before(l, c, hw'.lap, hw'.chunk)
                 /\ buffer'[c].lap = l => buffer[c] = buffer'[c]
        <3>1. Before(l, c, hw'.lap, hw'.chunk)
            BY <1>2, <2>2, HwForward
        <3>2. c = hw.chunk => l < hw.lap
            BY <1>0, <2>2 DEF Before, Chunks, Laps
        <3> QED
            BY <1>0, <2>1, <3>1, <3>2 DEF Laps
    <2> QED
        BY <1>0, <2>1, <2>2
<1> QED
    BY <1>1, <1>2

-----------------------------------------------------------------------------
(* What comes next in the stream.                                          *)

\* What follows an end of frame is the same for all of them, and a tag in the
\* same spot is followed by the same.
LEMMA FollowsFacts ==
    /\ \A s, t : IsEnd(s) => (Follows(s, t) <=> Follows(BlankTag, t))
    /\ \A s, t : IsEnd(s) => (SameSpot(s, t) <=> SameSpot(BlankTag, t))
    /\ \A s, t, v : SameSpot(s, t) /\ Follows(t, v) => Follows(s, v)
BY BlankTagType DEF Follows, SameSpot

\* After any end of frame a frame starts.
LEMMA ContinuesEnd ==
    ASSUME NEW lap, NEW chunk, NEW s, IsEnd(s)
    PROVE  Continues(lap, chunk, s) <=> FrameStarts(lap, chunk)
BY FollowsFacts DEF Continues, FrameStarts

\* After a chunk in the ring comes what continues its frame.
LEMMA ContinuesChunk ==
    ASSUME RingTypeOK, RingInv, NEW c \in Chunks
    PROVE  Continues(NextLap(buffer[c].lap, c), NextChunk(c), buffer[c].info)
<1> DEFINE d == NextChunk(c)
           l == buffer[c].lap
           m == NextLap(l, c)
<1>1. d \in Chunks /\ hw.chunk \in Chunks /\ hw.lap \in Nat /\ l \in Nat
    BY RingTypes, NextChunkFacts
<1>2. /\ l = IF c < hw.chunk THEN hw.lap ELSE hw.lap - 1
      /\ buffer[d].lap = IF d < hw.chunk THEN hw.lap ELSE hw.lap - 1
    BY <1>1 DEF RingInv, LapsInv
<1>3. buffer[d].lap = m => d # hw.chunk
    BY <1>1, <1>2, RingAssumption DEF NextChunk, NextLap, Chunks
<1>4. buffer[d].lap = m => Follows(buffer[c].info, buffer[d].info)
    BY <1>3 DEF RingInv, DataInv
<1>5. hw.chunk = d => IF hw.writing THEN Follows(buffer[c].info, hw.tag)
                                    ELSE SameSpot(buffer[c].info, hw.tag)
    BY DEF RingInv, DataInv, SameSpot
<1> QED
    BY <1>4, <1>5 DEF Continues

\* A step of the card keeps what is known of a place it has reached.
LEMMA ContinuesKept ==
    ASSUME RingTypeOK, RingInv, NEW oldest, HwPayload(oldest) \/ HwInfo,
           NEW l \in Laps, NEW c \in Chunks, NEW s, Continues(l, c, s),
           Before(l, c, hw.lap, hw.chunk) \/ (l = hw.lap /\ c = hw.chunk)
    PROVE  Continues(l, c, s)'
<1>0. hw.chunk \in Chunks /\ hw.lap \in Nat /\ hw.lap \in Laps /\ l \in Nat
    BY RingTypes DEF Laps
<1>1. CASE HwPayload(oldest)
    <2>1. /\ ~hw.writing /\ hw'.chunk = hw.chunk /\ hw'.lap = hw.lap /\ hw'.writing
          /\ Follows(hw.tag, hw'.tag)
          /\ buffer'[c].info = buffer[c].info /\ buffer'[c].lap = buffer[c].lap
        BY <1>1, HwPayloadEffect
    <2> QED
        BY <2>1, FollowsFacts DEF Continues
<1>2. CASE HwInfo
    <2>1. /\ hw.writing
          /\ c # hw.chunk => buffer'[c] = buffer[c]
          /\ buffer'[hw.chunk].info = hw.tag
          /\ buffer'[hw.chunk].lap = hw.lap
        BY <1>2, HwInfoEffect
    <2>2. Before(l, c, hw'.lap, hw'.chunk)
        BY <1>2, HwForward
    <2>3. ~(hw'.lap = l /\ hw'.chunk = c)
        BY <1>0, <2>2 DEF Before, Chunks
    <2>4. c = hw.chunk /\ hw.lap = l => Follows(s, hw.tag)
        BY <2>1 DEF Continues
    <2>5. buffer'[c].lap = l => Follows(s, buffer'[c].info)
        <3>1. CASE c = hw.chunk
            BY <2>1, <2>4, <3>1
        <3>2. CASE c # hw.chunk
            BY <2>1, <3>2 DEF Continues
        <3> QED
            BY <3>1, <3>2
    <2> QED
        BY <2>3, <2>5 DEF Continues
<1> QED
    BY <1>1, <1>2

\* So does a step that leaves the ring alone.
LEMMA ContinuesUntouched ==
    ASSUME UNCHANGED <<buffer, hw>>, NEW l, NEW c, NEW s
    PROVE  Continues(l, c, s)' <=> Continues(l, c, s)
BY DEF Continues

-----------------------------------------------------------------------------
(* The reader's place.                                                     *)

\* The card's steps keep the order of sentinel, reader and card.
LEMMA PlaceCard ==
    ASSUME RingTypeOK, RingInv, PlaceInv, NEW oldest, HwPayload(oldest) \/ HwInfo
    PROVE  PlaceInv'
<1>1. rx.generation \in Laps /\ rx.next_chunk \in Chunks /\ UNCHANGED rx
    BY RingTypes, HwPayloadEffect, HwInfoEffect
<1>2. CASE HwPayload(oldest)
    BY <1>2, HwPayloadEffect DEF PlaceInv, PositionsOrdered, AtCard
<1>3. CASE HwInfo
    <2>1. AtCard \/ Before(rx.generation, rx.next_chunk, hw.lap, hw.chunk)
        BY DEF PlaceInv, PositionsOrdered
    <2>2. Before(rx.generation, rx.next_chunk, hw'.lap, hw'.chunk)
        BY <1>1, <1>3, <2>1, HwForward DEF AtCard
    <2> QED
        BY <1>1, <2>2 DEF PlaceInv, PositionsOrdered
<1> QED
    BY <1>2, <1>3

\* Steps that move neither reader nor card keep it.
LEMMA PlaceUntouched ==
    ASSUME PlaceInv, UNCHANGED <<hw, rx>>
    PROVE  PlaceInv'
BY DEF PlaceInv, PositionsOrdered, AtCard

\* The place is not ahead of the card.
LEMMA PlaceBehind ==
    ASSUME RingTypeOK, PlaceInv
    PROVE  CardPos \in Nat /\ ReaderPos \in Nat /\ ReaderPos <= CardPos
<1>1. /\ rx.generation \in Laps /\ rx.next_chunk \in Chunks
      /\ hw.lap \in Laps /\ hw.chunk \in Chunks
    BY RingTypes
<1>2. AtCard \/ Before(rx.generation, rx.next_chunk, hw.lap, hw.chunk)
    BY DEF PlaceInv, PositionsOrdered
<1>3. CardPos \in Nat /\ ReaderPos \in Nat
    BY <1>1, PosFacts DEF CardPos, ReaderPos
<1>4. CASE AtCard
    BY <1>3, <1>4 DEF AtCard, CardPos, ReaderPos
<1>5. CASE Before(rx.generation, rx.next_chunk, hw.lap, hw.chunk)
    BY <1>1, <1>3, <1>5, PosFacts DEF CardPos, ReaderPos
<1> QED
    BY <1>2, <1>3, <1>4, <1>5

\* A place just past a chunk the card has written.
LEMMA PlaceAfter ==
    ASSUME RingTypeOK, NEW l \in Laps, NEW c \in Chunks, Before(l, c, hw.lap, hw.chunk)
    PROVE  /\ Before(l, c, NextLap(l, c), NextChunk(c))
           /\ \/ NextLap(l, c) = hw.lap /\ NextChunk(c) = hw.chunk
              \/ Before(NextLap(l, c), NextChunk(c), hw.lap, hw.chunk)
BY RingTypes, RingAssumption DEF Before, NextLap, NextChunk, Chunks, Laps

\* Moving past a chunk that the card has written keeps reader and card in order.
LEMMA PlaceAdvanced ==
    ASSUME RingTypeOK, PlaceInv, Before(rx.generation, rx.next_chunk, hw.lap, hw.chunk),
           UNCHANGED hw,
           rx'.next_chunk = NextChunk(rx.next_chunk),
           rx'.generation = NextLap(rx.generation, rx.next_chunk),
           \/ /\ rx'.sentinel_chunk = rx.sentinel_chunk
              /\ rx'.sentinel_generation = rx.sentinel_generation
           \/ /\ rx'.sentinel_chunk = rx.next_chunk
              /\ rx'.sentinel_generation = rx.generation
    PROVE  PlaceInv' /\ ReaderPos' = ReaderPos + 1 /\ rx.generation <= rx'.generation
<1>1. /\ rx.generation \in Laps /\ rx.next_chunk \in Chunks /\ rx.generation \in Nat
      /\ rx.sentinel_generation \in Nat /\ rx.sentinel_chunk \in Chunks
    BY RingTypes
<1>2. /\ Before(rx.generation, rx.next_chunk, rx'.generation, rx'.next_chunk)
      /\ AtCard' \/ Before(rx'.generation, rx'.next_chunk, hw.lap, hw.chunk)
    BY <1>1, PlaceAfter DEF AtCard
<1>3. Before(rx.sentinel_generation, rx.sentinel_chunk, rx.generation, rx.next_chunk)
    BY DEF PlaceInv, PositionsOrdered
<1>4. rx'.generation \in Nat /\ rx'.next_chunk \in Chunks /\ rx.generation <= rx'.generation
    BY <1>1, NextChunkFacts DEF NextLap
<1>5. Before(rx.sentinel_generation, rx.sentinel_chunk, rx'.generation, rx'.next_chunk)
    BY <1>1, <1>2, <1>3, <1>4 DEF Before, Chunks
<1>6. rx.generation >= G /\ G \in Nat
    BY RingAssumption DEF PlaceInv
<1>7. PlaceInv'
    BY <1>1, <1>2, <1>4, <1>5, <1>6 DEF PlaceInv, PositionsOrdered
<1>8. ReaderPos' = ReaderPos + 1
    BY <1>1, PosFacts DEF ReaderPos
<1> QED
    BY <1>4, <1>7, <1>8

\* Advanced, field by field.
LEMMA AdvancedFields ==
    ASSUME RingTypeOK
    PROVE  /\ Advanced.next_chunk = NextChunk(rx.next_chunk)
           /\ Advanced.generation = NextLap(rx.generation, rx.next_chunk)
           /\ Advanced.sentinel_chunk = rx.sentinel_chunk
           /\ Advanced.sentinel_generation = rx.sentinel_generation
           /\ Advanced.aligned = rx.aligned
BY DEF Advanced, RingTypeOK, PlaceType

\* The generation at the reader's place tells whether the card has written it,
\* is just there, or has overwritten it: equal generations are equal laps as
\* long as the card is less than G - 1 laps ahead.
LEMMA GenerationsTell ==
    ASSUME RingTypeOK, RingInv, PlaceInv, WithinLag(rx.generation), MaxLag + 1 < G
    PROVE  /\ IsNext => /\ buffer[rx.next_chunk].lap = rx.generation
                        /\ Before(rx.generation, rx.next_chunk, hw.lap, hw.chunk)
           /\ IsOld => AtCard
           /\ ~IsNext /\ ~IsOld => CardPos > ReaderPos + N
<1> DEFINE c   == rx.next_chunk
           lap == buffer[c].lap
           g   == rx.generation
<1>1. c \in Chunks /\ lap \in Nat /\ g \in Nat /\ g \in Laps /\ MaxLag \in Nat /\ G \in Nat
    BY RingTypes, RingAssumption
<1>2. (g = hw.lap /\ c = hw.chunk) \/ Before(g, c, hw.lap, hw.chunk)
    BY DEF PlaceInv, PositionsOrdered, AtCard
<1>3. /\ lap >= g - 1
      /\ lap = g => Before(g, c, hw.lap, hw.chunk)
      /\ lap = g - 1 => g = hw.lap /\ c = hw.chunk
      /\ lap > g => CardPos > Pos(g, c) + N
    BY <1>1, <1>2, LapAtPlace DEF RingInv
<1>4. lap <= g + MaxLag
    BY <1>1 DEF WithinLag
<1>5. g >= 1 /\ g - 1 \in Nat
    BY <1>1, RingAssumption DEF PlaceInv
<1> HIDE DEF c, lap, g
<1>6. SameGen(lap, g) => lap = g
    BY <1>1, <1>3, <1>4, SameGenEqual
<1>7. SameGen(lap, g - 1) => lap = g - 1
    BY <1>1, <1>3, <1>4, <1>5, SameGenEqual
<1>8. lap = g => SameGen(lap, g)
    BY DEF SameGen
<1>9. lap = g - 1 => SameGen(lap, g - 1)
    BY DEF SameGen
<1>10. /\ IsNext <=> SameGen(lap, g)
       /\ IsOld <=> SameGen(lap, g - 1)
    BY DEF IsNext, IsOld, Info, c, lap, g
<1>11. ~IsNext /\ ~IsOld => lap > g
    BY <1>1, <1>3, <1>8, <1>9, <1>10
<1> QED
    BY <1>3, <1>6, <1>7, <1>10, <1>11 DEF c, lap, g, AtCard, ReaderPos

-----------------------------------------------------------------------------
(* How far ahead the card is.                                              *)

\* The card is ahead of its own lap by none.
LEMMA LagOfCard ==
    ASSUME RingTypeOK, RingInv, NEW oldest \in Nat, oldest >= hw.lap - 1
    PROVE  WithinLag(oldest)
<1>1. \A c \in Chunks : buffer[c].lap <= hw.lap /\ buffer[c].lap \in Nat
    BY RingTypes DEF RingInv, LapsInv
<1> QED
    BY <1>1, RingTypes, RingAssumption DEF WithinLag

\* A newer lap is less far behind.
LEMMA LagNewer ==
    ASSUME RingTypeOK, NEW old \in Nat, NEW new \in Nat, old <= new, WithinLag(old)
    PROVE  WithinLag(new)
<1>1. \A c \in Chunks : buffer[c].lap \in Nat /\ buffer[c].lap <= old + MaxLag
    BY RingTypes DEF WithinLag
<1> QED
    BY <1>1, RingTypes, RingAssumption DEF WithinLag

\* The card begins no chunk that would take it too far, so it completes none.
LEMMA LagCard ==
    ASSUME RingTypeOK, NEW oldest \in Nat, WithinLag(oldest), HwPayload(oldest) \/ HwInfo
    PROVE  WithinLag(oldest)'
<1>0. hw.lap \in Nat /\ hw.chunk \in Chunks /\ MaxLag \in Nat
    BY RingTypes, RingAssumption
<1>1. CASE HwPayload(oldest)
    <2>1. /\ hw.lap - oldest <= MaxLag /\ hw'.lap = hw.lap
          /\ \A c \in Chunks : buffer'[c].lap = buffer[c].lap
        BY <1>1, HwPayloadEffect
    <2> QED
        BY <1>0, <2>1 DEF WithinLag
<1>2. CASE HwInfo
    BY <1>0, <1>2, HwInfoEffect DEF WithinLag
<1> QED
    BY <1>1, <1>2

\* Steps of the reader do not move the card.
LEMMA LagUntouched ==
    ASSUME UNCHANGED <<buffer, hw>>, NEW oldest, WithinLag(oldest)
    PROVE  WithinLag(oldest)'
BY DEF WithinLag

-----------------------------------------------------------------------------
(* The catch-up.                                                           *)

\* It begins with nothing found, and with the lap before the card's for a floor.
LEMMA ScanBegin ==
    ASSUME RingTypeOK, RingInv, CatchupBegin, UNCHANGED <<buffer, hw>>
    PROVE  /\ ScanFound' /\ NoEndYet'
           /\ scan'.left = N /\ ~scan'.eof_found /\ scan'.floor = hw.lap - 1
           /\ WithinLag(hw.lap - 1)
<1>1. /\ scan'.left = N /\ ~scan'.eof_found /\ scan'.floor = hw.lap - 1
      /\ ~scan'.before_break
    BY DEF CatchupBegin, NoScan
<1>2. hw.lap \in Nat /\ hw.lap >= G /\ N \in Nat /\ G \in Nat /\ G >= 1
    BY RingAssumption, RingTypes DEF RingInv
<1>3. WithinLag(hw.lap - 1)
    BY <1>2, LagOfCard
<1> QED
    BY <1>1, <1>2, <1>3 DEF ScanFound, NoEndYet

\* The card's steps leave what it has found behind the card.
LEMMA ScanCard ==
    ASSUME RingTypeOK, RingInv, ScanFound, NEW oldest, HwPayload(oldest) \/ HwInfo
    PROVE  ScanFound'
<1>1. /\ scan.break_gen \in Laps /\ scan.break_chunk \in Chunks
      /\ scan.eof_gen \in Laps /\ scan.eof_chunk \in Chunks
      /\ scan.floor \in Nat /\ hw.lap \in Nat
    BY RingTypes
<1>2. /\ UNCHANGED scan /\ hw'.lap \in Nat /\ hw'.lap >= hw.lap
      /\ \A l \in Laps, c \in Chunks :
             Before(l, c, hw.lap, hw.chunk) => Before(l, c, hw'.lap, hw'.chunk)
    BY CardKeepsChunks
<1>3. scan.left < N => Found(scan.break_gen, scan.break_chunk)'
    BY <1>1, <1>2 DEF ScanFound, Found
<1>4. ASSUME scan.eof_found
      PROVE  /\ Found(scan.eof_gen, scan.eof_chunk)'
             /\ FrameStarts(NextLap(scan.eof_gen, scan.eof_chunk), NextChunk(scan.eof_chunk))'
    <2>1. Found(scan.eof_gen, scan.eof_chunk)
        BY <1>4 DEF ScanFound
    <2>2. Found(scan.eof_gen, scan.eof_chunk)'
        BY <1>1, <1>2, <2>1 DEF Found
    <2> DEFINE l == NextLap(scan.eof_gen, scan.eof_chunk)
               c == NextChunk(scan.eof_chunk)
    <2>3. l \in Laps /\ c \in Chunks
        BY <1>1, NextChunkFacts
    <2>4. Before(l, c, hw.lap, hw.chunk) \/ (l = hw.lap /\ c = hw.chunk)
        BY <1>1, <2>1, PlaceAfter DEF Found
    <2>5. Continues(l, c, BlankTag)
        BY <1>4 DEF ScanFound, FrameStarts
    <2>6. l' = l /\ c' = c
        BY <1>2
    <2> HIDE DEF l, c
    <2>7. Continues(l, c, BlankTag)'
        BY <2>3, <2>4, <2>5, <2>6, ContinuesKept DEF Continues
    <2> QED
        BY <2>2, <2>7 DEF FrameStarts, l, c
<1>5. G - 1 <= scan.floor /\ scan.floor < hw'.lap
    BY <1>1, <1>2 DEF ScanFound
<1> QED
    BY <1>2, <1>3, <1>4, <1>5 DEF ScanFound

\* Whatever the card writes meanwhile, what a read notes is behind the card and
\* not older than the floor, and a frame starts after an end of frame.
LEMMA ScanRead ==
    ASSUME RingTypeOK, RingInv, ScanFound, CatchupRead
    PROVE  ScanFound'
<1> DEFINE c      == scan.left - 1
           gen    == buffer[c].lap
           first  == c = N - 1
           break  == ~first /\ ~SameGen(gen, scan.break_gen)
           before == scan.before_break \/ break
           end    == IsEnd(buffer[c].info)
           take   == end /\ (before \/ ~scan.eof_found)
<1>1. /\ scan'.left         = (IF end /\ before THEN 0 ELSE c)
      /\ scan'.break_gen    = (IF first \/ break THEN gen ELSE scan.break_gen)
      /\ scan'.break_chunk  = (IF first \/ break THEN c ELSE scan.break_chunk)
      /\ scan'.before_break = before
      /\ scan'.eof_found    = (scan.eof_found \/ end)
      /\ scan'.eof_gen      = (IF take THEN gen ELSE scan.eof_gen)
      /\ scan'.eof_chunk    = (IF take THEN c ELSE scan.eof_chunk)
      /\ scan'.floor        = scan.floor
      /\ UNCHANGED <<buffer, hw>>
    BY DEF CatchupRead
<1>2. /\ c \in Chunks /\ c \in Nat /\ scan.left - 1 < N /\ N \in Nat /\ N > 0 /\ G \in Nat /\ G >= 1
      /\ scan.left = c + 1
    BY RingTypes, RingAssumption DEF CatchupRead, Chunks
<1>3. /\ scan.floor \in Nat /\ hw.lap \in Nat /\ hw.lap >= G /\ hw.chunk \in Chunks
      /\ gen \in Nat /\ gen \in Laps
      /\ scan.break_gen \in Laps /\ scan.break_gen \in Nat
      /\ scan.break_chunk \in Chunks /\ scan.break_chunk \in Nat
    BY <1>2, RingTypes DEF RingInv, Chunks
<1>4. G - 1 <= scan.floor /\ scan.floor < hw.lap
    BY DEF ScanFound
<1>5. gen = IF c < hw.chunk THEN hw.lap ELSE hw.lap - 1
    BY <1>2 DEF RingInv, LapsInv
<1>6. scan.floor <= gen /\ Before(gen, c, hw.lap, hw.chunk) /\ gen >= G - 1
    BY <1>2, <1>3, <1>4, <1>5 DEF Before, Chunks
<1>7. ~first => scan.left < N
    BY <1>2
<1>8. ~first => scan.break_gen <= gen
    <2> SUFFICES ASSUME ~first
                 PROVE  scan.break_gen <= gen
        OBVIOUS
    <2>1. Before(scan.break_gen, scan.break_chunk, hw.lap, hw.chunk) /\ c < scan.break_chunk
        BY <1>2, <1>3, <1>7 DEF ScanFound, Found
    <2> QED
        BY <1>2, <1>3, <1>5, <2>1 DEF Before, Chunks
<1>9. gen < G => IsEnd(buffer[c].info)
    BY <1>2, <1>3, BlankTagType DEF RingInv, FramesInv
<1>10. end => FrameStarts(NextLap(gen, c), NextChunk(c))
    BY <1>2, ContinuesChunk, ContinuesEnd
<1>11. /\ NextLap(gen, c) >= gen /\ NextLap(gen, c) \in Nat
       /\ gen < G /\ first => NextLap(gen, c) >= G
    BY <1>2, <1>3, <1>6 DEF NextLap
<1> HIDE DEF gen
<1>12. ~first /\ gen < G => /\ scan.break_gen < G /\ SameGen(gen, scan.break_gen)
                            /\ scan.eof_found /\ ~scan.before_break
    <2> SUFFICES ASSUME ~first, gen < G
                 PROVE  /\ scan.break_gen < G /\ SameGen(gen, scan.break_gen)
                        /\ scan.eof_found /\ ~scan.before_break
        OBVIOUS
    <2>1. scan.left < N /\ scan.break_gen >= scan.floor
        BY <1>7 DEF ScanFound, Found
    <2>2. scan.break_gen = gen /\ scan.break_gen < G
        BY <1>2, <1>3, <1>4, <1>6, <1>8, <2>1
    <2> QED
        BY <2>1, <2>2 DEF ScanFound, SameGen
<1>13. ASSUME gen >= G \/ first
       PROVE  Found(gen, c)
    BY <1>2, <1>3, <1>6, <1>11, <1>13 DEF Found
<1> HIDE DEF c, first, end, break, before, take
<1>15. break => gen >= G
    BY <1>3, <1>2, <1>12 DEF break
<1>16. take => gen >= G \/ first
    BY <1>2, <1>3, <1>12 DEF take, before, break
<1>17. scan'.left < N /\ scan'.left <= c
    BY <1>1, <1>2 DEF c
<1>18. /\ Found(scan'.break_gen, scan'.break_chunk)
       /\ scan'.left <= scan'.break_chunk
    <2>1. CASE first \/ break
        BY <1>1, <1>13, <1>15, <1>17, <2>1
    <2>2. CASE ~(first \/ break)
        <3>1. scan.left < N
            BY <1>7, <2>2
        <3>2. /\ Found(scan.break_gen, scan.break_chunk)
              /\ c < scan.break_chunk
            BY <1>2, <1>3, <3>1 DEF ScanFound
        <3> QED
            BY <1>1, <1>2, <1>3, <1>17, <2>2, <3>2, RingTypes, CatchupReadType
    <2> QED
        BY <2>1, <2>2
<1>19. scan'.break_gen < G => scan'.eof_found /\ ~scan'.before_break
    <2> SUFFICES ASSUME scan'.break_gen < G
                 PROVE  scan'.eof_found /\ ~scan'.before_break
        OBVIOUS
    <2>1. CASE first
        <3>1. gen < G /\ end
            BY <1>1, <1>9, <2>1 DEF gen, end
        <3>2. ~scan.before_break
            BY <1>2, <2>1 DEF ScanFound, first
        <3> QED
            BY <1>1, <3>1, <3>2, <2>1 DEF before, break
    <2>2. CASE ~first
        <3>1. ~break
            BY <1>1, <1>2, <1>3, <1>15, <2>2
        <3>2. scan.break_gen < G /\ scan.left < N
            BY <1>1, <1>7, <2>2, <3>1
        <3> QED
            BY <1>1, <3>1, <3>2 DEF ScanFound, before
    <2> QED
        BY <2>1, <2>2
<1>20. scan'.eof_found =>
           /\ Found(scan'.eof_gen, scan'.eof_chunk)
           /\ FrameStarts(NextLap(scan'.eof_gen, scan'.eof_chunk), NextChunk(scan'.eof_chunk))
    <2>1. CASE take
        BY <1>1, <1>10, <1>13, <1>16, <2>1 DEF take
    <2>2. CASE ~take
        BY <1>1, <2>2 DEF ScanFound, take
    <2> QED
        BY <2>1, <2>2
<1>21. /\ Found(scan.break_gen, scan.break_chunk)'
       /\ scan'.eof_found => /\ Found(scan.eof_gen, scan.eof_chunk)'
                             /\ FrameStarts(NextLap(scan.eof_gen, scan.eof_chunk),
                                            NextChunk(scan.eof_chunk))'
    <2>1. Found(scan.break_gen, scan.break_chunk)'
        BY <1>1, <1>18 DEF Found
    <2>2. scan'.eof_found => Found(scan.eof_gen, scan.eof_chunk)'
        BY <1>1, <1>20 DEF Found
    <2>3. scan'.eof_found => FrameStarts(NextLap(scan.eof_gen, scan.eof_chunk),
                                         NextChunk(scan.eof_chunk))'
        BY <1>1, <1>20 DEF FrameStarts, Continues
    <2> QED
        BY <2>1, <2>2, <2>3
<1>22. scan'.left < N /\ scan'.left # N
    BY <1>2, <1>17
<1> QED
    BY <1>1, <1>4, <1>18, <1>19, <1>21, <1>22 DEF ScanFound

\* It leaves the place behind the card, after an end of frame if it found one.
LEMMA ScanEnd ==
    ASSUME RingTypeOK, RingInv, ScanFound, CatchupEnd
    PROVE  /\ PlaceInv' /\ UNCHANGED <<buffer, hw>>
           /\ rx'.aligned = scan.eof_found
           /\ rx'.aligned => FrameStarts(rx.generation, rx.next_chunk)'
           /\ scan.floor <= rx'.sentinel_generation
           /\ rx'.sentinel_generation <= rx'.generation
           /\ rx'.generation \in Nat /\ rx'.sentinel_generation \in Nat
           /\ Pos(rx'.sentinel_generation, rx'.sentinel_chunk) + 1 = ReaderPos'
           /\ \/ rx'.sentinel_generation = scan.eof_gen /\ rx'.sentinel_chunk = scan.eof_chunk
                 /\ scan.eof_found
              \/ rx'.sentinel_generation = scan.break_gen /\ rx'.sentinel_chunk = scan.break_chunk
                 /\ scan.left < N
<1> DEFINE c   == IF scan.eof_found THEN scan.eof_chunk ELSE scan.break_chunk
           gen == IF scan.eof_found THEN scan.eof_gen ELSE scan.break_gen
<1>1. /\ rx'.next_chunk = NextChunk(c) /\ rx'.generation = NextLap(gen, c)
      /\ rx'.sentinel_chunk = c /\ rx'.sentinel_generation = gen
      /\ rx'.aligned = scan.eof_found /\ scan.left = 0 /\ UNCHANGED <<buffer, hw>>
    BY DEF CatchupEnd
<1>2. /\ c \in Chunks /\ gen \in Nat /\ gen \in Laps /\ scan.floor \in Nat /\ scan.left < N
    BY <1>1, RingTypes, RingAssumption
<1>3. Found(gen, c)
    BY <1>2 DEF ScanFound
<1>4. /\ Before(gen, c, NextLap(gen, c), NextChunk(c))
      /\ \/ NextLap(gen, c) = hw.lap /\ NextChunk(c) = hw.chunk
         \/ Before(NextLap(gen, c), NextChunk(c), hw.lap, hw.chunk)
    BY <1>2, <1>3, PlaceAfter DEF Found
<1>5. /\ scan.eof_found => FrameStarts(NextLap(gen, c), NextChunk(c))
      /\ \/ gen = scan.eof_gen /\ c = scan.eof_chunk /\ scan.eof_found
         \/ gen = scan.break_gen /\ c = scan.break_chunk
    BY DEF ScanFound
<1> HIDE DEF c, gen
<1>6. PlaceInv'
    BY <1>1, <1>3, <1>4 DEF PlaceInv, PositionsOrdered, AtCard, Found
<1>7. gen <= NextLap(gen, c) /\ NextLap(gen, c) \in Nat
    BY <1>2 DEF NextLap
<1>8. Pos(gen, c) + 1 = ReaderPos'
    BY <1>1, <1>2, PosFacts DEF ReaderPos
<1>9. rx'.aligned => FrameStarts(rx.generation, rx.next_chunk)'
    BY <1>1, <1>5 DEF FrameStarts, Continues
<1> QED
    BY <1>1, <1>2, <1>3, <1>5, <1>6, <1>7, <1>8, <1>9 DEF Found

-----------------------------------------------------------------------------
(* Why a catch-up finds an end of frame in a roomy ring.                   *)

\* The chunks of the run being read that are still there are in one piece.
LEMMA NoEndCard ==
    ASSUME RingTypeOK, RingTypeOK', RingInv, RingInv', ScanFound, NoEndYet,
           NEW oldest, HwPayload(oldest) \/ HwInfo
    PROVE  NoEndYet'
<1> SUFFICES ASSUME scan.left < N, ~scan.eof_found, buffer'[scan.left].lap = scan.break_gen
             PROVE  /\ buffer[scan.left].lap = scan.break_gen
                    /\ buffer'[scan.left].info = buffer[scan.left].info
                    /\ buffer'[scan.break_chunk].info = buffer[scan.break_chunk].info
    BY CardKeepsChunks DEF NoEndYet
<1> DEFINE c == scan.left
           d == scan.break_chunk
           l == scan.break_gen
<1>1. /\ c \in Chunks /\ c \in Nat /\ d \in Chunks /\ d \in Nat /\ l \in Laps /\ l \in Nat
      /\ hw.lap \in Nat /\ hw.chunk \in Chunks
    BY RingTypes, RingAssumption DEF Chunks
<1>2. Before(l, d, hw.lap, hw.chunk) /\ c <= d
    BY DEF ScanFound, Found
<1>3. Before(l, c, hw.lap, hw.chunk)
    BY <1>1, <1>2 DEF Before, Chunks
<1>4. Before(l, d, hw'.lap, hw'.chunk)
    BY <1>1, <1>2, CardKeepsChunks
<1>5. hw'.lap \in Nat /\ hw'.chunk \in Chunks
    BY DEF RingTypeOK, Laps
<1>6. /\ buffer'[c].lap = IF c < hw'.chunk THEN hw'.lap ELSE hw'.lap - 1
      /\ buffer'[d].lap = IF d < hw'.chunk THEN hw'.lap ELSE hw'.lap - 1
    BY <1>1 DEF RingInv, LapsInv
<1>7. buffer'[c].lap = l
    OBVIOUS
<1> HIDE DEF c, d, l
<1>8. buffer'[d].lap = l
    BY <1>1, <1>2, <1>4, <1>5, <1>6, <1>7 DEF Before, Chunks
<1>9. /\ buffer[c].lap = l /\ buffer'[c].info = buffer[c].info
      /\ buffer'[d].info = buffer[d].info
    BY <1>1, <1>2, <1>3, <1>7, <1>8, CardKeepsChunks
<1> QED
    BY <1>9 DEF c, d, l

\* One more chunk without an end of frame belongs to the run before it, or
\* begins the run of a newer lap.
LEMMA NoEndRead ==
    ASSUME RingTypeOK, RingInv, ScanFound, NoEndYet, CatchupRead,
           WithinLag(scan.floor), MaxLag < G
    PROVE  NoEndYet'
<1> DEFINE c      == scan.left - 1
           gen    == buffer[c].lap
           first  == c = N - 1
           break  == ~first /\ ~SameGen(gen, scan.break_gen)
           M      == MaxFrame - 1
           d      == scan.break_chunk
           l      == scan.break_gen
           fl     == scan.floor
<1> SUFFICES ASSUME ~scan.eof_found, ~IsEnd(buffer[c].info)
             PROVE  NoEndYet'
    BY DEF NoEndYet, CatchupRead
<1>1. /\ scan'.left = c /\ scan'.floor = fl
      /\ scan'.break_gen = (IF first \/ break THEN gen ELSE l)
      /\ scan'.break_chunk = (IF first \/ break THEN c ELSE d)
      /\ UNCHANGED <<buffer, hw>>
    BY DEF CatchupRead
<1>2. /\ c \in Chunks /\ c \in Nat /\ N \in Nat /\ N > 0 /\ scan.left = c + 1 /\ c < N
      /\ M \in Nat /\ MaxLag \in Nat /\ G \in Nat
    BY RingTypes, RingAssumption DEF CatchupRead, Chunks
<1>3. /\ fl \in Nat /\ hw.lap \in Nat /\ hw.chunk \in Chunks /\ gen \in Nat
      /\ l \in Nat /\ l \in Laps /\ d \in Chunks /\ d \in Nat /\ d < N
    BY <1>2, RingTypes DEF Chunks
<1>4. gen = IF c < hw.chunk THEN hw.lap ELSE hw.lap - 1
    BY <1>2 DEF RingInv, LapsInv
<1>5. fl <= gen /\ gen <= fl + MaxLag
    <2>1. fl < hw.lap
        BY DEF ScanFound
    <2> QED
        BY <1>2, <1>3, <1>4, <2>1 DEF WithinLag
<1>6. /\ buffer[c].info.k \in Nat /\ buffer[c].info.k > 0 /\ buffer[c].info.k <= M
    <2>1. TagFits(buffer[c].info) /\ buffer[c].info \in Tag
        BY <1>2, RingTypes DEF RingInv, FramesInv
    <2> QED
        BY <2>1, TagTypes, RingAssumption DEF TagFits
<1>7. ASSUME ~first
      PROVE  /\ N - 1 - d <= (l - fl) * M
             /\ fl <= l /\ l <= gen /\ l <= fl + MaxLag
             /\ d - scan.left < M /\ scan.left <= d
             /\ scan.left \in Chunks
    <2>1. scan.left < N
        BY <1>2, <1>7
    <2>2. /\ N - 1 - d <= (l - fl) * M /\ l <= fl + MaxLag /\ d - scan.left < M
        BY <2>1 DEF NoEndYet
    <2>3. fl <= l /\ Before(l, d, hw.lap, hw.chunk) /\ scan.left <= d
        BY <2>1 DEF ScanFound, Found
    <2>4. l <= gen
        BY <1>2, <1>3, <1>4, <2>3 DEF Before, Chunks
    <2> QED
        BY <1>2, <2>1, <2>2, <2>3, <2>4 DEF Chunks
<1>8. CASE first \/ break
    <2>1. N - 1 - c <= (gen - fl) * M
        <3>1. CASE first
            <4>1. gen - fl \in Nat
                BY <1>3, <1>5
            <4>2. (gen - fl) * M \in Nat
                BY <1>2, <4>1
            <4> QED
                BY <1>2, <3>1, <4>2
        <3>2. CASE break
            <4>1. l < gen
                BY <1>3, <1>7, <3>2 DEF SameGen
            <4>2. l - fl \in Nat /\ gen - fl \in Nat /\ l - fl < gen - fl
                BY <1>3, <1>5, <1>7, <3>2, <4>1
            <4>3. (l - fl) * M + M <= (gen - fl) * M
                BY <1>2, <4>2, TimesMonotone
            <4>4. (l - fl) * M \in Nat /\ (gen - fl) * M \in Nat
                BY <1>2, <4>2
            <4>5. N - 1 - d <= (l - fl) * M /\ d - (c + 1) < M
                BY <1>2, <1>7, <3>2
            <4> HIDE DEF c, d, l, fl, gen, M
            <4> QED
                BY <1>2, <1>3, <4>3, <4>4, <4>5
        <3> QED
            BY <1>8, <3>1, <3>2
    <2> QED
        BY <1>1, <1>2, <1>3, <1>5, <1>6, <1>8, <2>1 DEF NoEndYet
<1>9. CASE ~(first \/ break)
    <2>1. gen = l
        BY <1>2, <1>3, <1>5, <1>7, <1>9, SameGenEqual
    <2>2. /\ scan.left \in Chunks /\ NextChunk(c) = scan.left /\ scan.left = c + 1
          /\ scan.left <= d /\ scan.left < N
        BY <1>2, <1>7, <1>9 DEF NextChunk, Chunks
    <2>3. /\ buffer[scan.left].lap = IF scan.left < hw.chunk THEN hw.lap ELSE hw.lap - 1
          /\ buffer[scan.left].lap >= l
        <3>1. Before(l, d, hw.lap, hw.chunk)
            BY <2>2 DEF ScanFound, Found
        <3>2. Before(l, scan.left, hw.lap, hw.chunk)
            BY <1>2, <1>3, <2>2, <3>1 DEF Before, Chunks
        <3> QED
            BY <1>3, <2>2, <3>2, LapBehind DEF RingInv, LapsInv
    <2>4. buffer[scan.left].lap = l /\ scan.left # hw.chunk
        BY <1>2, <1>3, <1>4, <2>1, <2>2, <2>3 DEF Chunks
    <2>5. Follows(buffer[c].info, buffer[scan.left].info)
        BY <1>2, <2>2, <2>4 DEF RingInv, DataInv
    <2>6. buffer[scan.left].info.k = buffer[c].info.k + 1
        BY <2>5 DEF Follows
    <2>7. /\ ~IsEnd(buffer[d].info)
          /\ buffer[d].info.k = buffer[scan.left].info.k + (d - scan.left)
        BY <2>2, <2>4 DEF NoEndYet
    <2>8. buffer[d].info.k <= M /\ buffer[d].info.k \in Nat
        <3>1. TagFits(buffer[d].info) /\ buffer[d].info \in Tag
            BY <1>3, RingTypes DEF RingInv, FramesInv
        <3> QED
            BY <2>7, <3>1, TagTypes, RingAssumption DEF TagFits
    <2>9. buffer[d].info.k = buffer[c].info.k + (d - c)
        BY <1>2, <1>3, <1>6, <2>2, <2>6, <2>7
    <2>10. d - c < M
        BY <1>2, <1>3, <1>6, <2>8, <2>9
    <2> QED
        BY <1>1, <1>7, <1>9, <2>1, <2>7, <2>9, <2>10 DEF NoEndYet
<1> QED
    BY <1>8, <1>9

\* With all chunks read and no end of frame, the ring would be too small.
LEMMA EndFound ==
    ASSUME RingTypeOK, ScanFound, NoEndYet, CatchupEnd, RoomyRing
    PROVE  scan.eof_found
<1> SUFFICES ASSUME ~scan.eof_found
             PROVE  FALSE
    OBVIOUS
<1> DEFINE a == scan.break_gen - scan.floor
           M == MaxFrame - 1
           d == scan.break_chunk
<1>1. /\ scan.left = 0 /\ scan.left < N /\ N \in Nat /\ M \in Nat /\ MaxLag \in Nat
      /\ d \in Nat /\ scan.break_gen \in Nat /\ scan.floor \in Nat
    BY RingTypes, RingAssumption DEF CatchupEnd, Chunks
<1>2. /\ N - 1 - d <= a * M /\ scan.break_gen <= scan.floor + MaxLag /\ d < M
      /\ scan.floor <= scan.break_gen
    BY <1>1 DEF NoEndYet, ScanFound, Found
<1>3. a \in Nat /\ a < MaxLag + 1
    BY <1>1, <1>2
<1> HIDE DEF a, M, d
<1>4. a * M + M <= (MaxLag + 1) * M /\ a * M \in Nat /\ (MaxLag + 1) * M \in Nat
    BY <1>1, <1>3, TimesMonotone
<1>5. N > (MaxLag + 1) * M
    BY DEF RoomyRing, M
<1> QED
    BY <1>1, <1>2, <1>4, <1>5
=============================================================================
