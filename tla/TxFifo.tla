------------------------------- MODULE TxFifo -------------------------------
(***************************************************************************)
(* The transmit FIFO of libs/exanic/fifo_tx.c: a region of card memory     *)
(* used as a ring of variable-size chunks, filled by one thread and        *)
(* emptied, in order, by the card.                                         *)
(*                                                                         *)
(* The card tells how far it has got by writing the sequence number of a   *)
(* chunk into a feedback word, but only for chunks whose sender asked for  *)
(* it.  The sender asks seldom, so it must be certain that, whenever it    *)
(* has to wait for space or sequence numbers, an answer is on its way.     *)
(*                                                                         *)
(* Offsets and sizes are counted in cache lines (CACHE_ALIGN); sequence    *)
(* numbers are uint16_t, that is, modulo SeqMod.                           *)
(***************************************************************************)
EXTENDS Integers, Sequences

CONSTANTS
    B,          \* buffer_size
    Interval,   \* FEEDBACK_INTERVAL
    Q,          \* queue_len
    SeqMod,     \* 2^16
    Sizes,      \* aligned chunk sizes the callers ask for
    MaxLate     \* bound: chunks still to be sent by a FIFO given up

ASSUME TxAssumption ==
    /\ B \in Nat /\ Interval \in Nat \ {0} /\ 2 * Interval < B
    /\ Q \in Nat \ {0} /\ SeqMod \in Nat \ {0} /\ SeqMod % Q = 0
    /\ Q + B < SeqMod + 1
    /\ Sizes \subseteq 1 .. B

VARIABLES
    tx,         \* exanic_tx_t
    feedback,   \* *tx->feedback, written by the card
    wire,       \* chunks handed to the card and not yet sent, oldest first
    pc,         \* where the sender is
    want,       \* aligned chunk size of the call in progress, else 0
    ret,        \* what the last call returned
    late,       \* history: acquired while the card still had chunks to send
    refused     \* history: a call has been refused for the size of its chunk

history == <<late, refused>>
vars == <<tx, feedback, wire, pc, want, ret, history>>

Seqs  == 0 .. SeqMod - 1
Chunk == [seq : Seqs, offset : 0 .. B, size : 1 .. B, reply : BOOLEAN]

TypeOK ==
    /\ tx \in [next_offset : 0 .. B, feedback_seq : Seqs, request_seq : Seqs,
               rollover_seq : Seqs, next_seq : Seqs, need_feedback : BOOLEAN,
               feedback_offsets : [0 .. Q - 1 -> 0 .. B]]
    /\ feedback \in Seqs
    /\ wire \in Seq(Chunk)
    /\ pc \in {"idle", "seqs", "space", "ready"}
    /\ want \in 0 .. B
    /\ ret \in {"none", "ok", "too large", "invalid"}
    /\ late \in BOOLEAN /\ refused \in BOOLEAN

\* exanic_acquire_tx_buffer
NewFifo ==
    [next_offset |-> 0, feedback_seq |-> 0, request_seq |-> 0,
     rollover_seq |-> 1, next_seq |-> 1, need_feedback |-> FALSE,
     feedback_offsets |-> [i \in 0 .. Q - 1 |-> IF i = 0 THEN B ELSE 0]]

Init ==
    /\ tx = NewFifo
    /\ feedback = 0 /\ wire = <<>>
    /\ pc = "idle" /\ want = 0 /\ ret = "none"
    /\ late = FALSE /\ refused = FALSE

-----------------------------------------------------------------------------
\* uint16_t difference
Since(seq) == (tx.next_seq - seq) % SeqMod
EndOf(seq) == tx.feedback_offsets[seq % Q]

MaxChunk == B \div 2 - Interval

Return(r) == pc' = "idle" /\ ret' = r /\ want' = 0

\* exanic_update_tx_feedback, on the state t of the FIFO.
UpdateFeedback(t) ==
    IF Since(feedback) <= Q
    THEN /\ tx' = [t EXCEPT !.feedback_seq = feedback]
         /\ UNCHANGED <<feedback, pc, want, ret>>
    ELSE /\ tx' = [t EXCEPT !.feedback_seq = (tx.next_seq - 1) % SeqMod]
         /\ feedback' = (tx.next_seq - 1) % SeqMod
         /\ Return("invalid")

\* A transmit or begin call; one chunk is prepared at a time.
Start(size) ==
    /\ pc = "idle"
    /\ pc' = "seqs" /\ want' = size /\ ret' = "none"
    /\ UNCHANGED <<tx, feedback, wire, history>>

WaitForSeqs ==
    /\ pc = "seqs" /\ Since(tx.feedback_seq) >= Q
    /\ UpdateFeedback(tx)
    /\ UNCHANGED <<wire, history>>

HaveSeqs ==
    /\ pc = "seqs" /\ Since(tx.feedback_seq) < Q
    /\ pc' = "space"
    /\ UNCHANGED <<tx, feedback, wire, want, ret, history>>

\* The card has reached the current lap of the buffer: all the rest is free.
CaughtUp == Since(tx.feedback_seq) <= Since(tx.rollover_seq)
RestFitsOver == CaughtUp /\ tx.next_offset + want <= B + 1      \* mutant: off by one
RestFits == CaughtUp /\ tx.next_offset + want <= B

\* Otherwise the space up to the last chunk known to be sent is, after
\* wrapping around if that had not been done.
Wrapped == IF CaughtUp THEN [tx EXCEPT !.next_offset = 0, !.rollover_seq = tx.next_seq]
                       ELSE tx

\* Mutant: space is free up to the last chunk on which feedback was requested.
FreedOnRequest == ~RestFits /\ Wrapped.next_offset + want <= EndOf(tx.request_seq)

FreedFits == ~RestFits /\ Wrapped.next_offset + want <= EndOf(tx.feedback_seq)

\* Mutant: no feedback is asked for by distance in the buffer.
NeedFeedbackSeldom(t) ==
    \/ Since(tx.request_seq) > Q \div 2
    \/ Since(tx.request_seq) > Since(t.rollover_seq)

\* Whether to ask for feedback on a chunk placed at t.next_offset: the last
\* request is too long ago in sequence numbers, in another lap, or too far back
\* (a difference of size_t: far back also when it is negative).
NeedFeedback(t) ==
    \/ Since(tx.request_seq) > Q \div 2
    \/ Since(tx.request_seq) > Since(t.rollover_seq)
    \/ t.next_offset + want - EndOf(tx.request_seq) \notin 0 .. Interval

Prepared(t) == tx' = [t EXCEPT !.need_feedback = NeedFeedback(t)] /\ pc' = "ready"

FindSpace ==
    /\ pc = "space"
    /\ \/ RestFits /\ Prepared(tx)
       \/ FreedFits /\ Prepared(Wrapped)
    /\ UNCHANGED <<feedback, wire, want, ret, history>>

TooLarge ==
    /\ pc = "space" /\ ~RestFits /\ ~FreedFits /\ want > MaxChunk
    /\ tx' = Wrapped
    /\ Return("too large")
    /\ refused' = TRUE
    /\ UNCHANGED <<feedback, wire, late>>

WaitForSpace ==
    /\ pc = "space" /\ ~RestFits /\ ~FreedFits /\ want <= MaxChunk
    /\ UpdateFeedback(Wrapped)
    /\ UNCHANGED <<wire, history>>

-----------------------------------------------------------------------------
\* exanic_send_tx_chunk, called by exanic_transmit_* for the size prepared and
\* by exanic_end_transmit_* for that size or less.  (The bound is for a FIFO
\* that believes the answers to an earlier one and would run ahead of the card.)
Send ==
    /\ pc = "ready" /\ (late => Len(wire) <= MaxLate)
    /\ \E size \in 1 .. want :
          /\ wire' = Append(wire, [seq |-> tx.next_seq, offset |-> tx.next_offset,
                                   size |-> size, reply |-> tx.need_feedback])
          /\ tx' = [tx EXCEPT
                !.next_offset = @ + size,
                !.feedback_offsets[tx.next_seq % Q] = tx.next_offset + size,
                !.request_seq = IF tx.need_feedback THEN tx.next_seq ELSE @,
                !.next_seq = (@ + 1) % SeqMod]
    /\ Return("ok")
    /\ UNCHANGED <<feedback, history>>

\* exanic_abort_transmit_frame, or EXA_FRAME_WARM: nothing is sent, and what
\* preparing the chunk did to the FIFO stays.
GiveUp ==
    /\ pc = "ready"
    /\ Return("ok")
    /\ UNCHANGED <<tx, feedback, wire, history>>

\* The card sends the oldest chunk and answers if asked to.
CardSends ==
    /\ wire # <<>>
    /\ wire' = Tail(wire)
    /\ feedback' = IF Head(wire).reply THEN Head(wire).seq ELSE feedback
    /\ UNCHANGED <<tx, pc, want, ret, history>>

\* Mutant: the feedback word is not cleared.
ReacquireUncleared ==
    /\ pc = "idle" /\ Len(wire) <= MaxLate
    /\ tx' = NewFifo
    /\ ret' = "none"
    /\ late' = (wire # <<>>) /\ refused' = FALSE
    /\ UNCHANGED <<feedback, wire, pc, want>>

\* exanic_release_tx_buffer, which waits for nothing, and a new
\* exanic_acquire_tx_buffer that is given the same memory and feedback slot.
Reacquire ==
    /\ pc = "idle" /\ Len(wire) <= MaxLate
    /\ tx' = NewFifo
    /\ feedback' = 0
    /\ ret' = "none"
    /\ late' = (wire # <<>>) /\ refused' = FALSE
    /\ UNCHANGED <<wire, pc, want>>

Prepare == WaitForSeqs \/ HaveSeqs \/ FindSpace \/ TooLarge \/ WaitForSpace

Next == \/ \E size \in Sizes : Start(size)
        \/ Prepare \/ Send \/ GiveUp \/ CardSends \/ Reacquire

Spec == Init /\ [][Next]_vars
FairSpec == Spec /\ WF_vars(Prepare) /\ WF_vars(CardSends)

-----------------------------------------------------------------------------
\* The space handed to the caller lies in the buffer and, unless the FIFO was
\* acquired over the chunks of an earlier one, overlaps no chunk the card has
\* still to read.
NoOverlap ==
    pc = "ready" =>
        /\ tx.next_offset + want <= B
        /\ late \/ \A i \in 1 .. Len(wire) :
              \/ wire[i].offset + wire[i].size <= tx.next_offset
              \/ tx.next_offset + want <= wire[i].offset

\* The feedback word is always recognised: sequence numbers outstanding never
\* outrun the window in which a uint16_t difference is accepted, and a FIFO
\* acquired anew does not find the answer to another.
FeedbackRecognised == late \/ (ret # "invalid" /\ Since(feedback) <= Q)

\* Whatever chunk the card answers for next, its end is still on record.
EndsOnRecord ==
    late \/ \A i \in 1 .. Len(wire) :
                EndOf(wire[i].seq) = wire[i].offset + wire[i].size

\* The sender can go on only when feedback_seq changes.
Waits ==
    \/ pc = "seqs" /\ Since(tx.feedback_seq) >= Q
    \/ pc = "space" /\ ~RestFits /\ ~FreedFits /\ want <= MaxChunk

\* "so that we don't end up waiting for a feedback that was never requested": when
\* the sender waits, the card has written an answer that it has not looked at, or
\* has a chunk to send that it will answer for, and the end of that chunk is on
\* record.  Not so once a chunk was refused for its size: the refusal has moved
\* the FIFO to a lap on which nothing is sent.
AnswerOnItsWay ==
    /\ EndsOnRecord
    /\ late \/ refused \/ ~Waits
         \/ feedback # tx.feedback_seq
         \/ \E i \in 1 .. Len(wire) : wire[i].reply

\* Therefore, a call waiting for space or for sequence numbers gets them.
PrepareReturns == pc \in {"seqs", "space"} ~> pc \in {"idle", "ready"}

\* That much does hold as long as no chunk is refused for its size.  The FIFO may
\* be released and acquired again, also over chunks still being sent.
PrepareReturnsUnlessRefused == [](ret # "too large") => PrepareReturns
=============================================================================
