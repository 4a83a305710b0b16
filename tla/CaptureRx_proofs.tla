--------------------------- MODULE CaptureRx_proofs ---------------------------
(***************************************************************************)
(* Proofs about CaptureRx: what remains true of the capture program's copy *)
(* of exanic_receive_frame although it does not look at the sentinel.      *)
(* The steps it shares with RxFrame keep ReaderInv by the lemmas of        *)
(* RxFrame_proofs.                                                         *)
(***************************************************************************)
EXTENDS CaptureRx, RxFrame_proofs

CaptureInv ==
    /\ ReaderInv
    /\ WithinLag(OldestRead)
    /\ pc = "idle" => WholeUnlessLapped

\* Returning the last chunk keeps every variable in its type.
LEMMA ReturnFrameType ==
    ASSUME TypeOK, ReturnFrame
    PROVE  TypeOK'
<1> USE DEF TypeOK
<1>1. rx_buf' \in Seq(Tag)
    BY DEF ReturnFrame, RingTypeOK
<1> QED
    BY <1>1, AdvancedType, ReturnType DEF ReturnFrame, Returns, RingTypeOK

\* Every step of the capture program keeps every variable in its type.
LEMMA CaptureTypeNext == TypeOK /\ hw.lap >= G /\ [CaptureNext]_vars => TypeOK'
BY ReturnFrameType, TypeShared DEF CaptureNext, CaptureCard, CaptureReceive

\* It leaves the reader where the next frame starts, like the check it leaves
\* out would.
LEMMA ReturnFrameKeeps ==
    ASSUME ReaderInv, TypeOK', ReturnFrame
    PROVE  ReaderInv'
<1> USE DEF ReturnFrame, Return
<1>1. RingInv' /\ PlaceInv' /\ FrameStarts(rx.generation, rx.next_chunk)'
    BY AdvanceKeeps
<1>2. ScanInv' /\ InfoInv' /\ RetInv' /\ CopyInv'
    BY <1>1 DEF ScanInv, InfoInv, RetInv, CopyInv
<1> QED
    BY <1>1, <1>2 DEF ReaderInv

\* The copy returned is whole if the card has not come round to its first chunk
\* when the last one is copied.
LEMMA ReturnFrameWhole ==
    ASSUME ReaderInv, TypeOK', ReturnFrame
    PROVE  WholeUnlessLapped'
<1> USE DEF ReturnFrame
<1>1. /\ TypeOK /\ size \in Nat /\ BufChunks \in Nat /\ rx_buf \in Seq(Tag) /\ N \in Nat
    BY InfoTypes, BufAssumption, RingAssumption DEF ReaderInv, TypeOK
<1>2. /\ CardPos \in Nat /\ ReaderPos \in Nat /\ CardPos' = CardPos
      /\ ReaderPos' = ReaderPos + 1 /\ rx'.aligned = rx.aligned
    BY AdvanceKeeps
<1>3. Len(rx_buf') = size + 1
    <2>1. Len(rx_buf) = size
        BY <1>1 DEF ReaderInv, CopyInv
    <2>2. Len(rx_buf') = Len(rx_buf) + 1
        BY <1>1
    <2> QED
        BY <2>1, <2>2
<1> SUFFICES ASSUME rx'.aligned, CardPos' < ReaderPos' - Len(rx_buf') + N
             PROVE  WholeFrame(rx_buf')
    BY DEF WholeUnlessLapped, WholeFrame
<1>4. CardPos < ReaderPos - size + N
    BY <1>1, <1>2, <1>3
<1> QED
    BY <1>2, <1>4, LastCopied DEF Ahead

\* The card waits before it gets too far ahead of the lap being read, and what
\* was returned is claimed whole for fewer and fewer positions of the card.
LEMMA CaptureCardKeeps ==
    ASSUME CaptureInv, CaptureCard
    PROVE  CaptureInv'
<1>1. TypeOK /\ RingTypeOK /\ RingInv /\ ReaderInv
    BY DEF CaptureInv, ReaderInv, TypeOK
<1>2. /\ ReaderInv' /\ UNCHANGED <<rx, scan, pc, u, rx_buf, size, ret>>
      /\ CardPos \in Nat /\ CardPos' \in Nat /\ CardPos <= CardPos'
    BY <1>1, CardKeeps DEF CaptureCard
<1>3. WithinLag(OldestRead)'
    <2>1. CASE pc = "acquire"
        <3>1. \A c \in Chunks : buffer'[c].lap <= hw'.lap /\ buffer'[c].lap \in Nat
            BY <1>2 DEF ReaderInv, RingInv, LapsInv, TypeOK, RingTypeOK, Laps
        <3>2. hw'.lap \in Nat
            BY <1>2 DEF ReaderInv, TypeOK, RingTypeOK, Laps
        <3>3. OldestRead' = hw'.lap
            BY <1>2, <2>1 DEF OldestRead
        <3> QED
            BY <3>1, <3>2, <3>3, RingAssumption DEF WithinLag
    <2>2. CASE pc # "acquire"
        <3> DEFINE o == OldestRead
        <3>1. o \in Nat /\ o' = o
            BY <1>1, <1>2, <2>2, RingTypes DEF OldestRead
        <3>2. WithinLag(o)
            BY DEF CaptureInv
        <3>3. HwPayload(o) \/ HwInfo
            BY DEF CaptureCard
        <3> HIDE DEF o
        <3>4. WithinLag(o)'
            BY <1>1, <3>1, <3>2, <3>3, LagCard DEF WithinLag
        <3> QED
            BY <3>4 DEF o
    <2> QED
        BY <2>1, <2>2
<1>4. ReaderPos \in Nat /\ ReaderPos' = ReaderPos /\ Len(rx_buf) \in Nat /\ N \in Nat
    <2>1. ReaderPos \in Nat /\ ReaderPos' = ReaderPos
        BY <1>1, <1>2, RingTypes, PosFacts DEF ReaderPos
    <2>2. rx_buf \in Seq(Tag)
        BY <1>1 DEF TypeOK
    <2> QED
        BY <2>1, <2>2, RingAssumption
<1>5. WholeUnlessLapped => WholeUnlessLapped'
    BY <1>2, <1>4 DEF WholeUnlessLapped, WholeFrame
<1> QED
    BY <1>2, <1>3, <1>5 DEF CaptureInv

\* Steps of a call: the lap being read never goes back.
LEMMA CaptureCallKeeps ==
    ASSUME CaptureInv, TypeOK', LagBound,
           Call \/ ReadNext \/ NoNewFrame \/ CopyMore \/ Truncate \/ ReturnFrame
    PROVE  CaptureInv'
<1>1. TypeOK /\ RingTypeOK /\ RingInv /\ PlaceInv /\ ReaderInv
    BY DEF CaptureInv, ReaderInv, TypeOK
<1>2. pc \notin {"acquire", "scan"} /\ pc' \notin {"acquire", "scan"}
    BY DEF Call, ReadNext, NoNewFrame, CopyMore, Truncate, ReturnFrame, Return
<1>3. WithinLag(rx.generation) /\ rx.generation \in Nat /\ MaxLag + 1 < G
    BY <1>1, <1>2, RingTypes, RingAssumption DEF CaptureInv, OldestRead, LagBound
<1>4. ReaderInv'
    BY <1>1, <1>3, CallKeeps, ReadNextKeeps, NoNewFrameKeeps, CopyMoreKeeps, TruncateKeeps,
       ReturnFrameKeeps
<1>5. UNCHANGED <<buffer, hw>>
    BY DEF Call, ReadNext, NoNewFrame, CopyMore, Truncate, ReturnFrame, ringVars
<1>6. rx.generation <= rx'.generation /\ rx'.generation \in Nat
    <2>1. rx'.generation \in Nat
        BY DEF TypeOK, RingTypeOK, PlaceType, Laps
    <2>2. CASE Call \/ ReadNext \/ NoNewFrame
        BY <1>3, <2>2 DEF Call, ReadNext, NoNewFrame, ringVars
    <2>3. CASE CopyMore \/ Truncate \/ ReturnFrame
        BY <1>1, <2>1, <2>3, AdvanceKeeps DEF CopyMore, Truncate, ReturnFrame
    <2> QED
        BY <2>1, <2>2, <2>3
<1>7. WithinLag(OldestRead)'
    <2>1. WithinLag(rx'.generation)
        BY <1>1, <1>3, <1>6, LagNewer
    <2> QED
        BY <1>2, <1>5, <2>1 DEF OldestRead, WithinLag
<1>8. pc' = "idle" => WholeUnlessLapped'
    <2>1. CASE ReturnFrame
        BY <1>1, <2>1, ReturnFrameWhole
    <2>2. CASE ~ReturnFrame
        BY <2>2 DEF Call, ReadNext, NoNewFrame, CopyMore, Truncate, Return, WholeUnlessLapped
    <2> QED
        BY <2>1, <2>2
<1> QED
    BY <1>4, <1>7, <1>8 DEF CaptureInv

\* Entering the catch-up, and the catch-up itself.
LEMMA CaptureCatchupKeeps ==
    ASSUME CaptureInv, TypeOK', Acquire \/ Lapped \/ Catchup
    PROVE  CaptureInv'
<1>1. TypeOK /\ RingTypeOK /\ RingInv /\ ReaderInv
    BY DEF CaptureInv, ReaderInv, TypeOK
<1>2. CASE Acquire \/ Lapped
    <2>1. ReaderInv' /\ WithinLag(scan.floor)' /\ pc' = "scan"
        BY <1>1, <1>2, AcquireKeeps, LappedKeeps DEF Acquire, Lapped
    <2> QED
        BY <2>1 DEF CaptureInv, OldestRead, WithinLag
<1>3. CASE pc = "scan" /\ CatchupRead /\ UNCHANGED callVars
    <2>1. /\ ReaderInv' /\ UNCHANGED <<buffer, hw, rx, pc, u, rx_buf, size, ret>>
          /\ scan'.floor = scan.floor
        BY <1>1, <1>3, CatchupReadKeeps
    <2> QED
        BY <1>3, <2>1 DEF CaptureInv, OldestRead, WithinLag
<1>4. CASE pc = "scan" /\ CatchupEnd /\ Return(ret) /\ UNCHANGED rx_buf
    <2>1. ReaderInv'
        BY <1>1, <1>4, CatchupEndKeeps
    <2>2. /\ UNCHANGED <<buffer, hw>>
          /\ scan.floor <= rx'.sentinel_generation
          /\ rx'.sentinel_generation <= rx'.generation
          /\ rx'.sentinel_generation \in Nat /\ rx'.generation \in Nat
        BY <1>1, <1>4, ScanEnd DEF ReaderInv, ScanInv
    <2>3. pc' = "idle" /\ ret' = ret /\ ret \in {"acquired", "swovfl"}
        BY <1>1, <1>4 DEF Return, ReaderInv, RetInv
    <2>4. WithinLag(scan.floor) /\ scan.floor \in Nat
        BY <1>1, <1>4, RingTypes DEF CaptureInv, OldestRead
    <2>5. WithinLag(rx'.generation)
        <3>1. scan.floor <= rx'.generation
            BY <2>2, <2>4
        <3> QED
            BY <1>1, <2>2, <2>4, <3>1, LagNewer
    <2>6. WithinLag(OldestRead)'
        BY <2>2, <2>3, <2>5 DEF OldestRead, WithinLag
    <2> QED
        BY <2>1, <2>3, <2>6 DEF CaptureInv, WholeUnlessLapped
<1> QED
    BY <1>2, <1>3, <1>4 DEF Catchup

\* The invariant holds initially.
LEMMA InitCapture == Init => CaptureInv
<1> SUFFICES ASSUME Init PROVE CaptureInv
    OBVIOUS
<1>1. ReaderInv /\ RingTypeOK /\ RingInv /\ pc = "acquire"
    BY InitReader, RingInitially DEF Init
<1>2. hw.lap \in Nat /\ hw.lap >= hw.lap - 1
    BY <1>1, RingTypes
<1> QED
    BY <1>1, <1>2, LagOfCard DEF CaptureInv, OldestRead

\* Every step of the card and of the capture program keeps the invariant.
LEMMA NextCapture == LagBound /\ CaptureInv /\ [CaptureNext]_vars => CaptureInv'
<1> SUFFICES ASSUME LagBound, CaptureInv, [CaptureNext]_vars
             PROVE  CaptureInv'
    OBVIOUS
<1>1. TypeOK'
    BY CaptureTypeNext DEF CaptureInv, ReaderInv, RingInv
<1>2. CASE CaptureCard
    BY <1>2, CaptureCardKeeps
<1>3. CASE Call \/ ReadNext \/ NoNewFrame \/ CopyMore \/ Truncate \/ ReturnFrame
    BY <1>1, <1>3, CaptureCallKeeps
<1>4. CASE Acquire \/ Lapped \/ Catchup
    BY <1>1, <1>4, CaptureCatchupKeeps
<1>5. CASE UNCHANGED vars
    <2>1. ReaderInv'
        BY <1>5, StutterKeeps DEF CaptureInv
    <2> USE <1>5 DEF vars, ringVars, callVars
    <2>2. WithinLag(OldestRead)'
        BY DEF CaptureInv, OldestRead, WithinLag
    <2>3. WholeUnlessLapped <=> WholeUnlessLapped'
        BY DEF WholeUnlessLapped, WholeFrame, CardPos, ReaderPos
    <2> QED
        BY <2>1, <2>2, <2>3 DEF CaptureInv
<1> QED
    BY <1>2, <1>3, <1>4, <1>5 DEF CaptureNext, CaptureReceive

\* The invariant of the capture program's receive routine.
THEOREM CaptureInvariance == LagBound => (CaptureSpec => []CaptureInv)
<1> SUFFICES ASSUME LagBound
             PROVE  CaptureSpec => []CaptureInv
    OBVIOUS
<1>1. Init => CaptureInv
    BY InitCapture
<1>2. CaptureInv /\ [CaptureNext]_vars => CaptureInv'
    BY NextCapture
<1> QED
    BY <1>1, <1>2, PTL DEF CaptureSpec

\* A frame exanic_receive_frame_ex returns before the card has come round to
\* its first chunk is whole: leaving the sentinel out costs no more than that.
THEOREM WholeUnlessLappedHolds == LagBound => (CaptureSpec => []WholeUnlessLapped)
<1>1. CaptureInv => WholeUnlessLapped
    BY DEF CaptureInv, ReaderInv, RetInv, TypeOK, Locations, WholeUnlessLapped
<1> QED
    BY <1>1, CaptureInvariance, PTL
=============================================================================
