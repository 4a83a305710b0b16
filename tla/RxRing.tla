------------------------------- MODULE RxRing -------------------------------
(***************************************************************************)
(* The RX ring an ExaNIC port shares with one reader, and the recovery     *)
(* routine __exanic_rx_catchup (libs/exanic/fifo_rx.c).                    *)
(*                                                                         *)
(* The card writes received frames into N fixed-size chunks in a circle.   *)
(* A frame is one or more consecutive chunks; only its last one has a      *)
(* non-zero length.  The card never waits for the reader: it stamps every  *)
(* chunk with a generation, a uint8_t that it increments at every lap, and *)
(* the reader finds out from the generations alone whether a chunk is new, *)
(* not yet written, or already overwritten.                                *)
(*                                                                         *)
(* Generations are kept here as laps, counted from G without wrapping.     *)
(* Every assignment of a generation in the code is a copy or an increment, *)
(* so the 8-bit value is always the lap modulo G, and SameGen is the only  *)
(* way the code's decisions look at one.                                   *)
(***************************************************************************)
EXTENDS Integers, Sequences

CONSTANTS
    N,          \* chunks in the ring (EXANIC_RX_NUM_CHUNKS, 16384)
    G,          \* generations before the counter wraps (2^8)
    MaxFrame,   \* most chunks a frame occupies
    MaxLag,     \* most laps the card gets ahead of the oldest chunk in use
    MaxLap,     \* bound: the lap at which the card stops receiving
    EndStatus   \* frame_status values of a last chunk, "ok" or "error"

ASSUME RingAssumption ==
    /\ N \in Nat /\ N >= 2
    /\ G \in Nat /\ G >= 3
    /\ MaxFrame \in Nat \ {0}
    /\ MaxLag \in Nat \ {0}
    /\ MaxLap \in Nat
    /\ EndStatus \subseteq {"ok", "error"} /\ "ok" \in EndStatus

VARIABLES
    buffer,     \* the chunks, written by the card only
    hw,         \* the card's write position
    rx,         \* exanic_rx_t: the reader's position
    scan        \* the locals of __exanic_rx_catchup

ringVars == <<buffer, hw, rx, scan>>

Chunks == 0 .. N - 1
Laps   == Nat
Status == {"more"} \cup EndStatus     \* "more" stands for length = 0

\* What a chunk carries: the frame (named by the lap and chunk where it
\* starts), which chunk of the frame this is, and length and frame_status.
Tag == [frame : Laps \X Chunks, k : Nat \ {0}, status : Status]

IsEnd(tag) == tag.status # "more"

\* Comparison of two uint8_t generations.
SameGen(a, b) == a % G = b % G

\* The position after chunk c of lap l.
NextChunkNoWrap(c) == c + 1        \* mutant: the ring's end is missed
NextChunk(c)  == IF c = N - 1 THEN 0 ELSE c + 1
NextLap(l, c) == IF c = N - 1 THEN l + 1 ELSE l

-----------------------------------------------------------------------------
(* The card.  The payload of a chunk is written before its info word, and  *)
(* the info word (generation, length, status) is written in one piece.     *)

\* The tag of the chunk after one tagged t, with status s.
FollowingTag(t, s) ==
    IF IsEnd(t) THEN [frame |-> <<hw.lap, hw.chunk>>, k |-> 1, status |-> s]
                ELSE [frame |-> t.frame, k |-> t.k + 1, status |-> s]

FinalChunk == hw.lap = MaxLap - 1 /\ hw.chunk = N - 1

\* "more" is possible while the frame may still grow.
HwPayload(oldest) ==
    /\ ~hw.writing
    /\ hw.lap < MaxLap
    /\ hw.lap - oldest <= MaxLag
    /\ \E s \in Status :
          LET t == FollowingTag(hw.tag, s)
          IN  /\ s = "more" => t.k < MaxFrame /\ ~FinalChunk
              /\ hw' = [hw EXCEPT !.tag = t, !.writing = TRUE]
              /\ buffer' = [buffer EXCEPT ![hw.chunk].payload = t]
    /\ UNCHANGED <<rx, scan>>

HwInfo ==
    /\ hw.writing
    /\ buffer' = [buffer EXCEPT ![hw.chunk] =
                      [payload |-> @.payload, info |-> hw.tag, lap |-> hw.lap]]
    /\ hw' = [hw EXCEPT !.chunk = NextChunk(hw.chunk),
                        !.lap = NextLap(hw.lap, hw.chunk),
                        !.writing = FALSE]
    /\ UNCHANGED <<rx, scan>>

-----------------------------------------------------------------------------
(* __exanic_rx_catchup: one read of the ring per step, from the last chunk *)
(* down, while the card goes on writing.  scan.left is the loop variable   *)
(* before the decrement.  scan.floor is a ghost: no chunk of a lap before  *)
(* it can be read from now on.                                             *)

NoScan == [left |-> 0, break_gen |-> 0, break_chunk |-> 0, before_break |-> FALSE,
           eof_found |-> FALSE, eof_gen |-> 0, eof_chunk |-> 0, floor |-> 0]

\* Mutant: only the first few chunks are looked at.
CatchupBeginShort == scan' = [NoScan EXCEPT !.left = MaxFrame, !.floor = hw.lap - 1]

CatchupBegin == scan' = [NoScan EXCEPT !.left = N, !.floor = hw.lap - 1]

CatchupRead ==
    LET c      == scan.left - 1
        gen    == buffer[c].lap
        first  == c = N - 1
        break  == ~first /\ ~SameGen(gen, scan.break_gen)
        before == scan.before_break \/ break
        end    == IsEnd(buffer[c].info)
        take   == end /\ (before \/ ~scan.eof_found)
    IN  /\ scan.left > 0
        /\ scan' = [left         |-> IF end /\ before THEN 0 ELSE c,
                    break_gen    |-> IF first \/ break THEN gen ELSE scan.break_gen,
                    break_chunk  |-> IF first \/ break THEN c ELSE scan.break_chunk,
                    before_break |-> before,
                    eof_found    |-> scan.eof_found \/ end,
                    eof_gen      |-> IF take THEN gen ELSE scan.eof_gen,
                    eof_chunk    |-> IF take THEN c ELSE scan.eof_chunk,
                    floor        |-> scan.floor]
        /\ UNCHANGED <<buffer, hw, rx>>

\* rx.aligned is a ghost: the last catch-up found an end of frame, so that
\* next_chunk is the first chunk of a frame.
CatchupEnd ==
    LET c   == IF scan.eof_found THEN scan.eof_chunk ELSE scan.break_chunk
        gen == IF scan.eof_found THEN scan.eof_gen ELSE scan.break_gen
    IN  /\ scan.left = 0
        /\ rx' = [next_chunk |-> NextChunk(c), generation |-> NextLap(gen, c),
                  sentinel_chunk |-> c, sentinel_generation |-> gen,
                  aligned |-> scan.eof_found]
        /\ scan' = NoScan
        /\ UNCHANGED <<buffer, hw>>

\* Mutant: the generation is not carried at the end of the ring.
AdvancedNoCarry == [rx EXCEPT !.next_chunk = NextChunk(@)]

\* next_chunk++, carrying into the generation at the end of the ring.
Advanced == [rx EXCEPT !.next_chunk = NextChunk(@),
                       !.generation = NextLap(@, rx.next_chunk)]

-----------------------------------------------------------------------------
(* What all calls do at the reader's place.                                *)

\* u.data = rx->buffer[rx->next_chunk].u.data, and the three-way test of the
\* generation that follows it.
Info == [tag |-> buffer[rx.next_chunk].info, lap |-> buffer[rx.next_chunk].lap,
         chunk |-> rx.next_chunk]
IsNext == SameGen(Info.lap, rx.generation)

\* Mutants: any generation but the one awaited is taken for an old one; the
\* difference is not cast back to uint8_t.
IsOldLoose    == ~IsNext
IsOldPromoted == Info.lap % G = (rx.generation % G) - 1

IsOld  == SameGen(Info.lap, rx.generation - 1)

-----------------------------------------------------------------------------
(* Where reader and card are, and what a frame is.                         *)

\* The order in which the card writes chunk c of lap l and chunk d of lap m.
Before(l, c, m, d) == l < m \/ (l = m /\ c < d)
AtCard == rx.generation = hw.lap /\ rx.next_chunk = hw.chunk

Pos(lap, chunk) == lap * N + chunk
CardPos   == Pos(hw.lap, hw.chunk)
ReaderPos == Pos(rx.generation, rx.next_chunk)

\* The reader's place is never ahead of the card and its sentinel is behind the
\* place: the laps the generations stand for stay in order through overflows,
\* truncated frames and catch-ups during which the card writes.
PositionsOrdered ==
    /\ AtCard \/ Before(rx.generation, rx.next_chunk, hw.lap, hw.chunk)
    /\ Before(rx.sentinel_generation, rx.sentinel_chunk, rx.generation, rx.next_chunk)

\* b is exactly one frame: all of its chunks, in order, and nothing else.
WholeFrame(b) ==
    /\ b # <<>>
    /\ \A i \in 1 .. Len(b) : /\ b[i].frame = b[1].frame
                              /\ b[i].k = i
                              /\ IsEnd(b[i]) <=> i = Len(b)

-----------------------------------------------------------------------------
(* Before the card has written them, all chunks look like ends of frame of *)
(* the generation before the first one.                                    *)

BlankTag == [frame |-> <<G - 1, 0>>, k |-> 1, status |-> "ok"]

RingInit ==
    /\ buffer = [c \in Chunks |-> [payload |-> BlankTag, info |-> BlankTag, lap |-> G - 1]]
    /\ hw = [chunk |-> 0, lap |-> G, tag |-> BlankTag, writing |-> FALSE]
    /\ rx = [next_chunk |-> 0, generation |-> G, sentinel_chunk |-> N - 1,
             sentinel_generation |-> G - 1, aligned |-> TRUE]
    /\ scan = NoScan

PlaceType == [next_chunk : Chunks, generation : Laps, sentinel_chunk : Chunks,
              sentinel_generation : Laps, aligned : BOOLEAN]

ScanType == [left : 0 .. N, break_gen : Laps, break_chunk : Chunks,
             before_break : BOOLEAN, eof_found : BOOLEAN, eof_gen : Laps,
             eof_chunk : Chunks, floor : Laps]

RingTypeOK ==
    /\ buffer \in [Chunks -> [payload : Tag, info : Tag, lap : Laps]]
    /\ hw \in [chunk : Chunks, lap : Laps, tag : Tag, writing : BOOLEAN]
    /\ rx \in PlaceType
    /\ scan \in ScanType
=============================================================================
