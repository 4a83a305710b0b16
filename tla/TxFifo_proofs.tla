---------------------------- MODULE TxFifo_proofs ----------------------------
(***************************************************************************)
(* Proofs about TxFifo, for every size of the buffer, of the queue and of  *)
(* sequence numbers: no chunk is written over one that the card has still  *)
(* to read, and its feedback is recognised.                                *)
(***************************************************************************)
EXTENDS TxFifo, TLAPS

\* Since(seq), for the next sequence number n.
Ago(n, seq) == (n - seq) % SeqMod

\* Chunk seq was sent in the current lap of the buffer.
Current(seq) == Ago(tx.next_seq, seq) <= Ago(tx.next_seq, tx.rollover_seq)
SameLap(a, b) == Current(a) <=> Current(b)

\* The chunks known to be sent: to the card, and to the sender.
Known == {feedback, tx.feedback_seq}

End(i) == wire[i].offset + wire[i].size

\* The variables are of their types, and a chunk prepared ends in the buffer.
Typed ==
    /\ TypeOK
    /\ pc # "idle" => want \in 1 .. B
    /\ pc = "ready" => tx.next_offset + want <= B

\* The chunks on the wire are the last ones, the card's answer is the one before
\* them or older, and the sender's idea of it is that or older, but in the window.
Window ==
    /\ Ago(tx.next_seq, tx.feedback_seq) \in 1 .. Q
    /\ Ago(tx.next_seq, feedback) \in 1 .. Ago(tx.next_seq, tx.feedback_seq)
    /\ Len(wire) < Ago(tx.next_seq, feedback)
    /\ \A i \in 1 .. Len(wire) : Ago(tx.next_seq, wire[i].seq) = Len(wire) + 1 - i
    /\ Ago(tx.next_seq, tx.rollover_seq) <= tx.next_offset

\* In each lap chunks follow one another.
Layout ==
    /\ \A i \in 1 .. Len(wire) : Current(wire[i].seq) => End(i) <= tx.next_offset
    /\ \A i, j \in 1 .. Len(wire) :
          i < j /\ SameLap(wire[i].seq, wire[j].seq) => End(i) <= wire[j].offset
    /\ \A x \in Known, i \in 1 .. Len(wire) :
          SameLap(x, wire[i].seq) => EndOf(x) <= wire[i].offset
    /\ \A x \in Known : Current(x) => EndOf(x) <= tx.next_offset
    /\ \A i \in 1 .. Len(wire) : EndOf(wire[i].seq) = End(i)

\* A sequence number is left for the chunk being prepared, and its space is free.
Ready ==
    /\ pc \in {"space", "ready"} => Ago(tx.next_seq, tx.feedback_seq) < Q
    /\ pc = "ready" => \A i \in 1 .. Len(wire) : \/ End(i) <= tx.next_offset
                                                 \/ tx.next_offset + want <= wire[i].offset
    /\ ret # "invalid"

\* The invariant that the steps keep.
FifoInv == Typed /\ (late \/ (Window /\ Layout /\ Ready))

\* The last chunk that asks for feedback is the last request: it is on the wire, or
\* it is what the card has answered.
Answers ==
    /\ (\A i \in 1 .. Len(wire) : ~wire[i].reply) => feedback = tx.request_seq
    /\ \A i \in 1 .. Len(wire) :
          wire[i].reply /\ (\A j \in i + 1 .. Len(wire) : ~wire[j].reply)
             => wire[i].seq = tx.request_seq

\* The last request is near: in sequence numbers, and in the buffer either close
\* behind the next chunk or, when nothing has been sent in the current lap, far enough
\* into the lap before that its answer frees space for any chunk.
Asked ==
    /\ Ago(tx.next_seq, tx.request_seq) \in 1 .. Q \div 2 + 1
    /\ IF tx.rollover_seq = tx.next_seq
       THEN tx.next_offset = 0 /\ EndOf(tx.request_seq) >= MaxChunk
       ELSE Current(tx.request_seq) /\ tx.next_offset - EndOf(tx.request_seq) \in 0 .. Interval
    /\ pc = "ready" => (tx.need_feedback <=> NeedFeedback(tx))

\* What the steps keep beside it.
AskInv == late \/ (Answers /\ (refused \/ Asked))

-----------------------------------------------------------------------------
(* Sequence numbers                                                        *)

\* What the assumption says of the numbers.
LEMMA Numbers ==
    /\ B \in Nat /\ B >= 3 /\ Interval \in Nat \ {0} /\ Q \in Nat \ {0}
    /\ SeqMod \in Nat \ {0} /\ SeqMod > Q /\ SeqMod > B /\ Q + B <= SeqMod
    /\ SeqMod % Q = 0 /\ Sizes \subseteq 1 .. B
<1>1. /\ B \in Nat /\ Interval \in Nat \ {0} /\ 2 * Interval < B /\ Q \in Nat \ {0}
      /\ SeqMod \in Nat \ {0} /\ SeqMod % Q = 0 /\ Q + B < SeqMod + 1 /\ Sizes \subseteq 1 .. B
    BY TxAssumption
<1>2. B >= 3
    BY <1>1
<1> QED BY <1>1, <1>2

\* The difference of two sequence numbers.
LEMMA AgoFacts ==
    ASSUME NEW n \in Seqs, NEW a \in Seqs
    PROVE  /\ Ago(n, a) = IF a <= n THEN n - a ELSE n - a + SeqMod
           /\ Ago(n, a) \in Seqs
           /\ a = n <=> Ago(n, a) = 0
<1>1. SeqMod \in Nat \ {0}
    BY Numbers
<1>2. Ago(n, a) = IF a <= n THEN n - a ELSE n - a + SeqMod
    BY <1>1 DEF Ago, Seqs
<1> QED BY <1>1, <1>2 DEF Seqs

\* The next sequence number is one further from the others.
LEMMA NextAgo ==
    ASSUME NEW n \in Seqs
    PROVE  /\ (n + 1) % SeqMod \in Seqs
           /\ Ago((n + 1) % SeqMod, n) = 1
           /\ \A a \in Seqs : Ago(n, a) < SeqMod - 1 =>
                                 Ago((n + 1) % SeqMod, a) = Ago(n, a) + 1
<1>1. SeqMod \in Nat \ {0} /\ SeqMod > 1
    BY Numbers
<1> DEFINE m == (n + 1) % SeqMod
<1>2. m = IF n = SeqMod - 1 THEN 0 ELSE n + 1
    BY <1>1 DEF Seqs
<1>3. m \in Seqs
    BY <1>1, <1>2 DEF Seqs
<1> HIDE DEF m
<1>4. \A a \in Seqs : /\ Ago(n, a) = IF a <= n THEN n - a ELSE n - a + SeqMod
                      /\ Ago(m, a) = IF a <= m THEN m - a ELSE m - a + SeqMod
    BY <1>3, AgoFacts
<1>5. Ago(m, n) = 1
    BY <1>1, <1>2, <1>4 DEF Seqs
<1>6. \A a \in Seqs : Ago(n, a) < SeqMod - 1 => Ago(m, a) = Ago(n, a) + 1
    BY <1>1, <1>2, <1>4 DEF Seqs
<1> QED BY <1>3, <1>5, <1>6 DEF m

\* Numbers less than Q apart have feedback_offsets of their own.
LEMMA OwnOffset ==
    ASSUME NEW n \in Seqs, NEW a \in Seqs, Ago(n, a) \in 1 .. Q - 1
    PROVE  a % Q # n % Q
<1>1. Q \in Nat \ {0} /\ SeqMod \in Nat \ {0} /\ SeqMod % Q = 0
    BY Numbers
<1> DEFINE i == a \div Q
           j == n \div Q
           k == SeqMod \div Q
<1>2. i \in Int /\ j \in Int /\ k \in Int
    BY <1>1 DEF Seqs
<1>3. /\ a = Q * i + (a % Q) /\ n = Q * j + (n % Q) /\ SeqMod = Q * k
    BY <1>1 DEF Seqs
<1> SUFFICES ASSUME a % Q = n % Q PROVE FALSE
    OBVIOUS
<1> HIDE DEF i, j, k
<1>4. n - a = Q * (j - i) /\ n - a + SeqMod = Q * (j - i + k)
    BY <1>1, <1>2, <1>3 DEF Seqs
<1>5. \A d \in Int : Q * d \notin 1 .. Q - 1
    <2>1. \A d \in Int : d >= 1 => Q * d >= Q
        BY <1>1
    <2>2. \A d \in Int : d <= 0 => Q * d <= 0
        BY <1>1
    <2> QED BY <1>1, <2>1, <2>2
<1>6. Ago(n, a) = n - a \/ Ago(n, a) = n - a + SeqMod
    BY AgoFacts
<1>7. j - i \in Int /\ j - i + k \in Int
    BY <1>2
<1> QED BY <1>4, <1>5, <1>6, <1>7

-----------------------------------------------------------------------------
(* Types                                                                   *)

\* The FIFO's record.
Fifo == [next_offset : 0 .. B, feedback_seq : Seqs, request_seq : Seqs,
         rollover_seq : Seqs, next_seq : Seqs, need_feedback : BOOLEAN,
         feedback_offsets : [0 .. Q - 1 -> 0 .. B]]

\* The record of a new FIFO, and where a sequence number's offset is kept.
LEMMA NewFifoType == NewFifo \in Fifo /\ 0 \in Seqs /\ 1 \in Seqs
<1>1. 0 \in Seqs /\ 1 \in Seqs /\ 0 \in 0 .. B /\ B \in 0 .. B
    BY Numbers DEF Seqs
<1> QED BY <1>1 DEF NewFifo, Fifo

\* The end on record of any chunk lies in the buffer.
LEMMA EndOfType ==
    ASSUME Typed, NEW a \in Seqs
    PROVE  a % Q \in 0 .. Q - 1 /\ EndOf(a) \in 0 .. B
<1>1. a % Q \in 0 .. Q - 1
    BY Numbers DEF Seqs
<1>2. tx.feedback_offsets \in [0 .. Q - 1 -> 0 .. B]
    BY DEF Typed, TypeOK
<1> QED BY <1>1, <1>2 DEF EndOf

\* The record after a wrap.
LEMMA WrappedType ==
    ASSUME Typed
    PROVE  /\ Wrapped \in Fifo
           /\ Wrapped.next_seq = tx.next_seq /\ Wrapped.feedback_seq = tx.feedback_seq
           /\ Wrapped.feedback_offsets = tx.feedback_offsets
           /\ \/ Wrapped = tx
              \/ CaughtUp /\ Wrapped.next_offset = 0 /\ Wrapped.rollover_seq = tx.next_seq
           /\ CaughtUp => Wrapped.next_offset = 0
<1>1. tx \in Fifo
    BY DEF Typed, TypeOK, Fifo
<1>2. CASE CaughtUp
    <2>1. Wrapped = [tx EXCEPT !.next_offset = 0, !.rollover_seq = tx.next_seq]
        BY <1>2 DEF Wrapped
    <2>2. 0 \in 0 .. B /\ tx.next_seq \in Seqs
        BY <1>1, Numbers DEF Fifo
    <2>3. [tx EXCEPT !.next_offset = 0, !.rollover_seq = tx.next_seq] \in Fifo
        BY <1>1, <2>2 DEF Fifo
    <2>4. /\ Wrapped.next_offset = 0 /\ Wrapped.rollover_seq = tx.next_seq
          /\ Wrapped.next_seq = tx.next_seq /\ Wrapped.feedback_seq = tx.feedback_seq
          /\ Wrapped.feedback_offsets = tx.feedback_offsets
        BY <1>1, <2>1 DEF Fifo
    <2> QED BY <1>2, <2>1, <2>3, <2>4
<1>3. CASE ~CaughtUp
    BY <1>1, <1>3 DEF Wrapped
<1> QED BY <1>2, <1>3

\* A feedback word read.
LEMMA UpdateType ==
    ASSUME Typed, NEW t \in Fifo, UpdateFeedback(t)
    PROVE  /\ tx' \in Fifo /\ feedback' \in Seqs
           /\ UNCHANGED <<pc, want, ret>> \/ Return("invalid")
<1>1. (tx.next_seq - 1) % SeqMod \in Seqs
    <2>1. tx.next_seq \in Seqs
        BY DEF Typed, TypeOK
    <2>2. tx.next_seq \in Int /\ SeqMod \in Nat \ {0}
        BY <2>1, Numbers DEF Seqs
    <2> QED BY <2>2 DEF Seqs
<1>2. feedback \in Seqs
    BY DEF Typed, TypeOK
<1> QED BY <1>1, <1>2 DEF UpdateFeedback, Fifo

\* Every step keeps the types.
LEMMA TypedNext == Typed /\ [Next]_vars => Typed'
<1> SUFFICES ASSUME Typed, [Next]_vars PROVE Typed'
    OBVIOUS
<1>0. /\ tx \in Fifo /\ feedback \in Seqs /\ wire \in Seq(Chunk)
      /\ pc \in {"idle", "seqs", "space", "ready"} /\ want \in 0 .. B
      /\ ret \in {"none", "ok", "too large", "invalid"} /\ late \in BOOLEAN
      /\ refused \in BOOLEAN
    BY DEF Typed, TypeOK, Fifo
<1>b. B \in Nat /\ 0 \in 0 .. B /\ tx.next_offset \in 0 .. B /\ want \in 0 .. B
    <2>1. B \in Nat /\ 0 \in 0 .. B
        BY Numbers
    <2>2. tx.next_offset \in 0 .. B
        BY <1>0 DEF Fifo
    <2> QED BY <1>0, <2>1, <2>2
<1>c. wire \in Seq(Chunk)
    BY <1>0
<1>a. ASSUME tx' \in Fifo, feedback' \in Seqs, wire' \in Seq(Chunk),
             pc' \in {"idle", "seqs", "space", "ready"}, want' \in 0 .. B,
             ret' \in {"none", "ok", "too large", "invalid"}, late' \in BOOLEAN,
             refused' \in BOOLEAN,
             pc' # "idle" => want' \in 1 .. B,
             pc' = "ready" => tx'.next_offset + want' <= B
      PROVE  Typed'
    BY <1>a DEF Typed, TypeOK, Fifo, Seqs, Chunk
<1>1. CASE UNCHANGED vars
    BY <1>1 DEF vars, history, Typed, TypeOK, Seqs, Chunk
<1>2. ASSUME NEW size \in Sizes, Start(size) PROVE Typed'
    <2>1. want' \in 1 .. B /\ want' \in 0 .. B
        BY <1>2, Numbers DEF Start
    <2> QED BY <1>0, <1>2, <1>a, <2>1 DEF Start, history
<1>3. CASE WaitForSeqs
    <2>1. tx' \in Fifo /\ feedback' \in Seqs /\ (UNCHANGED <<pc, want, ret>> \/ Return("invalid"))
        BY <1>0, <1>3, UpdateType DEF WaitForSeqs
    <2> QED BY <1>0, <1>b, <1>3, <1>a, <2>1 DEF WaitForSeqs, history, Return, Typed
<1>4. CASE HaveSeqs
    BY <1>0, <1>4, <1>a DEF HaveSeqs, history, Typed
<1>5. CASE FindSpace
    <2>1. PICK t \in {tx, Wrapped} : Prepared(t) /\ t.next_offset + want <= B
        <3>1. CASE RestFits /\ Prepared(tx)
            BY <3>1 DEF RestFits
        <3>2. CASE FreedFits /\ Prepared(Wrapped)
            <4>1. EndOf(tx.feedback_seq) \in 0 .. B
                BY <1>0, EndOfType DEF Fifo
            <4>2. Wrapped.next_offset \in 0 .. B
                BY WrappedType DEF Fifo
            <4>3. Wrapped.next_offset + want <= B
                BY <1>b, <3>2, <4>1, <4>2 DEF FreedFits
            <4> QED BY <3>2, <4>3
        <3> QED BY <1>5, <3>1, <3>2 DEF FindSpace
    <2>2. t \in Fifo
        BY <1>0, WrappedType
    <2>3. tx' \in Fifo /\ tx'.next_offset = t.next_offset
        <3>1. NeedFeedback(t) \in BOOLEAN
            BY DEF NeedFeedback
        <3> QED BY <2>1, <2>2, <3>1 DEF Prepared, Fifo
    <2> QED BY <1>0, <1>5, <1>a, <2>1, <2>3 DEF FindSpace, history, Prepared, Typed
<1>6. CASE TooLarge
    BY <1>0, <1>b, <1>6, <1>a, WrappedType DEF TooLarge, Return
<1>7. CASE WaitForSpace
    <2>1. tx' \in Fifo /\ feedback' \in Seqs /\ (UNCHANGED <<pc, want, ret>> \/ Return("invalid"))
        BY <1>0, <1>7, UpdateType, WrappedType DEF WaitForSpace
    <2> QED BY <1>0, <1>b, <1>7, <1>a, <2>1 DEF WaitForSpace, history, Return, Typed
<1>8. CASE Send
    <2>1. PICK size \in 1 .. want :
              /\ wire' = Append(wire, [seq |-> tx.next_seq, offset |-> tx.next_offset,
                                       size |-> size, reply |-> tx.need_feedback])
              /\ tx' = [tx EXCEPT
                    !.next_offset = @ + size,
                    !.feedback_offsets[tx.next_seq % Q] = tx.next_offset + size,
                    !.request_seq = IF tx.need_feedback THEN tx.next_seq ELSE @,
                    !.next_seq = (@ + 1) % SeqMod]
        BY <1>8 DEF Send
    <2>2. tx.next_offset + want <= B /\ want \in 1 .. B
        BY <1>8 DEF Send, Typed
    <2>3. size \in 1 .. B /\ tx.next_offset + size \in 0 .. B
        BY <1>b, <2>2
    <2>4. (tx.next_seq + 1) % SeqMod \in Seqs
        BY <1>0, NextAgo DEF Fifo
    <2>5. [tx.feedback_offsets EXCEPT ![tx.next_seq % Q] = tx.next_offset + size]
              \in [0 .. Q - 1 -> 0 .. B]
        BY <1>0, <2>3 DEF Fifo
    <2>6. tx' \in Fifo
        BY <1>0, <2>1, <2>3, <2>4, <2>5 DEF Fifo
    <2>7. wire' \in Seq(Chunk)
        <3> DEFINE c == [seq |-> tx.next_seq, offset |-> tx.next_offset,
                         size |-> size, reply |-> tx.need_feedback]
        <3>1. c \in Chunk
            BY <1>0, <2>3 DEF Fifo, Chunk
        <3>2. wire' = Append(wire, c)
            BY <2>1
        <3> HIDE DEF c
        <3> QED BY <1>c, <3>1, <3>2
    <2> QED BY <1>0, <1>b, <1>8, <1>a, <2>6, <2>7 DEF Send, history, Return
<1>9. CASE GiveUp
    BY <1>0, <1>b, <1>9, <1>a DEF GiveUp, history, Return
<1>10. CASE CardSends
    <2>1. wire' \in Seq(Chunk) /\ feedback' \in Seqs
        <3>1. wire # <<>> /\ wire' = Tail(wire)
                /\ feedback' = IF Head(wire).reply THEN Head(wire).seq ELSE feedback
            BY <1>10 DEF CardSends
        <3>2. Head(wire) \in Chunk /\ Tail(wire) \in Seq(Chunk)
            <4>1. wire # <<>>
                BY <3>1
            <4> QED BY <1>c, <4>1
        <3>3. Head(wire).seq \in Seqs
            BY <3>2 DEF Chunk
        <3> QED BY <1>0, <3>1, <3>2, <3>3
    <2> QED BY <1>0, <1>10, <1>a, <2>1 DEF CardSends, history, Typed
<1>11. CASE Reacquire
    BY <1>0, <1>b, <1>11, <1>a, NewFifoType DEF Reacquire
<1> QED BY <1>1, <1>2, <1>3, <1>4, <1>5, <1>6, <1>7, <1>8, <1>9, <1>10, <1>11
        DEF Next, Prepare

-----------------------------------------------------------------------------
(* Order                                                                   *)

\* What the types say of the sequence numbers.
LEMMA SeqTypes ==
    ASSUME Typed
    PROVE  /\ tx \in Fifo /\ tx.next_seq \in Seqs /\ tx.feedback_seq \in Seqs
           /\ tx.rollover_seq \in Seqs /\ feedback \in Seqs
           /\ tx.next_offset \in 0 .. B /\ want \in 0 .. B /\ B \in Nat /\ Q \in Nat
           /\ wire \in Seq(Chunk) /\ Len(wire) \in Nat
           /\ \A i \in 1 .. Len(wire) : /\ wire[i] \in Chunk /\ wire[i].seq \in Seqs
                                        /\ wire[i].offset \in 0 .. B /\ wire[i].size \in 1 .. B
                                        /\ End(i) \in Nat
           /\ \A a \in Seqs : Since(a) = Ago(tx.next_seq, a) /\ Since(a) \in Nat
<1>1. tx \in Fifo /\ feedback \in Seqs /\ wire \in Seq(Chunk) /\ want \in 0 .. B
    BY DEF Typed, TypeOK, Fifo
<1>2. /\ tx.next_seq \in Seqs /\ tx.feedback_seq \in Seqs
      /\ tx.rollover_seq \in Seqs /\ tx.next_offset \in 0 .. B
    BY <1>1 DEF Fifo
<1>3. B \in Nat /\ Q \in Nat
    BY Numbers
<1>4. Len(wire) \in Nat /\ \A i \in 1 .. Len(wire) : wire[i] \in Chunk
    BY <1>1
<1>5. \A i \in 1 .. Len(wire) : /\ wire[i].seq \in Seqs
                                /\ wire[i].offset \in 0 .. B /\ wire[i].size \in 1 .. B
    BY <1>4 DEF Chunk
<1>6. \A i \in 1 .. Len(wire) : End(i) \in Nat
    BY <1>3, <1>5 DEF End
<1>7. \A a \in Seqs : Since(a) = Ago(tx.next_seq, a) /\ Since(a) \in Nat
    <2>1. \A a \in Seqs : Since(a) = Ago(tx.next_seq, a)
        BY DEF Since, Ago
    <2>2. \A a \in Seqs : Ago(tx.next_seq, a) \in Seqs
        BY <1>2, AgoFacts
    <2> QED BY <2>1, <2>2, Numbers DEF Seqs
<1> QED BY <1>1, <1>2, <1>3, <1>4, <1>5, <1>6, <1>7

\* What the sender knows of is older than all that is on the wire, and than the
\* card's answer.
LEMMA Ages ==
    ASSUME Typed, Window
    PROVE  /\ Known \subseteq Seqs
           /\ \A x \in Known : Ago(tx.next_seq, x) \in 1 .. Q
           /\ \A x \in Known, i \in 1 .. Len(wire) :
                 Ago(tx.next_seq, wire[i].seq) < Ago(tx.next_seq, x)
           /\ \A x \in Known : Ago(tx.next_seq, x) <= Ago(tx.next_seq, tx.feedback_seq)
           /\ \A i \in 1 .. Len(wire) : Ago(tx.next_seq, wire[i].seq) \in 1 .. Q - 1
<1>1. /\ tx.feedback_seq \in Seqs /\ feedback \in Seqs /\ Q \in Nat /\ Len(wire) \in Nat
    BY SeqTypes
<1> QED BY <1>1 DEF Window, Known

\* When the card has reached the current lap, all that matters is in it.
LEMMA AllCurrent ==
    ASSUME Typed, Window, CaughtUp
    PROVE  /\ \A x \in Known : Current(x)
           /\ \A i \in 1 .. Len(wire) : Current(wire[i].seq)
<1>1. Ago(tx.next_seq, tx.feedback_seq) <= Ago(tx.next_seq, tx.rollover_seq)
    BY SeqTypes DEF CaughtUp
<1>2. /\ Ago(tx.next_seq, tx.feedback_seq) \in Nat /\ Ago(tx.next_seq, tx.rollover_seq) \in Nat
      /\ tx.feedback_seq \in Known /\ Q \in Nat
    BY SeqTypes DEF Known
<1>3. \A x \in Known : Current(x)
    BY <1>1, <1>2, Ages DEF Current
<1>4. \A i \in 1 .. Len(wire) : Current(wire[i].seq)
    BY <1>1, <1>2, Ages DEF Current
<1> QED BY <1>3, <1>4

\* A step that sends nothing: the sender may learn of the card's answer, and may
\* begin a new lap.
LEMMA QuietStep ==
    ASSUME Typed, Window, Layout, wire' = wire, feedback' = feedback,
           tx'.next_seq = tx.next_seq, tx'.feedback_offsets = tx.feedback_offsets,
           tx'.feedback_seq \in Known,
           \/ tx'.next_offset = tx.next_offset /\ tx'.rollover_seq = tx.rollover_seq
           \/ CaughtUp /\ tx'.next_offset = 0 /\ tx'.rollover_seq = tx.next_seq
    PROVE  Window' /\ Layout'
<1>1. Known' \subseteq Known /\ feedback' \in Known /\ tx'.feedback_seq \in Known
    BY DEF Known
<1>2. \A a : EndOf(a)' = EndOf(a)
    BY DEF EndOf
<1>3. \A i : End(i)' = End(i)
    BY DEF End
<1>4. Ago(tx.next_seq, tx.next_seq) = 0 /\ tx.next_seq \in Seqs
    BY SeqTypes, AgoFacts
<1>5. Window'
    <2>1. Ago(tx'.next_seq, tx'.feedback_seq) \in 1 .. Q
        BY <1>1, Ages
    <2>2. Ago(tx'.next_seq, feedback') \in 1 .. Ago(tx'.next_seq, tx'.feedback_seq)
        BY <1>1, Ages DEF Known, Window
    <2>3. Ago(tx'.next_seq, tx'.rollover_seq) <= tx'.next_offset
        BY <1>4 DEF Window
    <2> QED BY <2>1, <2>2, <2>3 DEF Window
<1>6. CASE tx'.next_offset = tx.next_offset /\ tx'.rollover_seq = tx.rollover_seq
    <2>1. \A a : Current(a)' <=> Current(a)
        BY <1>6 DEF Current
    <2>2. \A a, b : SameLap(a, b)' <=> SameLap(a, b)
        BY <2>1 DEF SameLap
    <2>3. Layout'
        BY <1>1, <1>2, <1>3, <1>6, <2>1, <2>2 DEF Layout
    <2> QED BY <1>5, <2>3
<1>7. CASE CaughtUp /\ tx'.next_offset = 0 /\ tx'.rollover_seq = tx.next_seq
    <2>1. \A x \in Known : ~Current(x)' /\ Current(x)
        BY <1>4, <1>7, Ages, AllCurrent, SeqTypes DEF Current
    <2>2. \A i \in 1 .. Len(wire) : ~Current(wire[i].seq)' /\ Current(wire[i].seq)
        BY <1>4, <1>7, Ages, AllCurrent, SeqTypes DEF Current
    <2>3. \A i, j \in 1 .. Len(wire) : i < j => End(i) <= wire[j].offset
        BY <2>2 DEF Layout, SameLap
    <2>4. \A x \in Known, i \in 1 .. Len(wire) : EndOf(x) <= wire[i].offset
        BY <2>1, <2>2 DEF Layout, SameLap
    <2>5. /\ \A i \in 1 .. Len(wire') : Current(wire[i].seq)' => End(i)' <= tx'.next_offset
          /\ \A i, j \in 1 .. Len(wire') :
                i < j /\ SameLap(wire[i].seq, wire[j].seq)' => End(i)' <= wire'[j].offset
          /\ \A i \in 1 .. Len(wire') : EndOf(wire[i].seq)' = End(i)'
        BY <1>2, <1>3, <2>2, <2>3 DEF Layout
    <2>6. ASSUME NEW x \in Known'
          PROVE  /\ ~Current(x)'
                 /\ \A i \in 1 .. Len(wire') :
                       SameLap(x, wire[i].seq)' => EndOf(x)' <= wire'[i].offset
        BY <1>1, <1>2, <2>1, <2>4
    <2>7. Layout'
        BY <2>5, <2>6 DEF Layout
    <2> QED BY <1>5, <2>7
<1> QED BY <1>6, <1>7

\* The feedback word is recognised, and its answer taken over.
LEMMA UpdateStep ==
    ASSUME Typed, Window, NEW t, t.next_seq = tx.next_seq, t \in Fifo, UpdateFeedback(t)
    PROVE  /\ tx' = [t EXCEPT !.feedback_seq = feedback]
           /\ UNCHANGED feedback /\ UNCHANGED pc /\ UNCHANGED want /\ UNCHANGED ret
<1>1. Since(feedback) <= Q
    BY SeqTypes, Ages DEF Known
<1> QED BY <1>1 DEF UpdateFeedback

\* Steps before the chunk is prepared, and calls that begin and end.
LEMMA CallSteps ==
    ASSUME Typed, Window, Layout, Ready,
           (\E size \in Sizes : Start(size)) \/ HaveSeqs \/ GiveUp
    PROVE  Window' /\ Layout' /\ Ready'
<1>1. UNCHANGED <<tx, feedback, wire>>
    BY DEF Start, HaveSeqs, GiveUp
<1>2. Window' /\ Layout'
    BY <1>1, QuietStep DEF Known
<1>3. Ready'
    <2>1. CASE \E size \in Sizes : Start(size)
        BY <2>1 DEF Start, Ready
    <2>2. CASE HaveSeqs
        BY <1>1, <2>2, SeqTypes DEF HaveSeqs, Ready
    <2>3. CASE GiveUp
        BY <2>3 DEF GiveUp, Return, Ready
    <2> QED BY <2>1, <2>2, <2>3
<1> QED BY <1>2, <1>3

\* The sender waits, for sequence numbers or, in the next lap, for space.
LEMMA WaitSteps ==
    ASSUME Typed, Window, Layout, Ready, WaitForSeqs \/ WaitForSpace
    PROVE  Window' /\ Layout' /\ Ready'
<1>1. PICK t \in {tx, Wrapped} :
          /\ UpdateFeedback(t) /\ UNCHANGED wire
          /\ pc \in {"seqs", "space"}
    BY DEF WaitForSeqs, WaitForSpace
<1>2. /\ t \in Fifo /\ t.next_seq = tx.next_seq /\ t.feedback_offsets = tx.feedback_offsets
      /\ \/ t.next_offset = tx.next_offset /\ t.rollover_seq = tx.rollover_seq
         \/ CaughtUp /\ t.next_offset = 0 /\ t.rollover_seq = tx.next_seq
    BY WrappedType, SeqTypes
<1>3. /\ tx' = [t EXCEPT !.feedback_seq = feedback] /\ feedback' = feedback
      /\ pc' = pc /\ want' = want /\ ret' = ret
    BY <1>1, <1>2, UpdateStep
<1>4. /\ tx'.next_seq = tx.next_seq /\ tx'.feedback_offsets = tx.feedback_offsets
      /\ tx'.feedback_seq = feedback
      /\ tx'.next_offset = t.next_offset /\ tx'.rollover_seq = t.rollover_seq
    BY <1>2, <1>3 DEF Fifo
<1>5. Window' /\ Layout'
    BY <1>1, <1>2, <1>3, <1>4, QuietStep DEF Known
<1>6. Ready'
    <2>1. pc = "space" => Ago(tx.next_seq, feedback) < Q
        BY Ages, SeqTypes DEF Ready, Known
    <2> QED BY <1>1, <1>3, <1>4, <2>1 DEF Ready
<1> QED BY <1>5, <1>6

\* A call refused for its size has begun a lap.
LEMMA TooLargeStep ==
    ASSUME Typed, Window, Layout, Ready, TooLarge
    PROVE  Window' /\ Layout' /\ Ready'
<1>1. tx' = Wrapped /\ feedback' = feedback /\ wire' = wire
        /\ pc' = "idle" /\ ret' = "too large"
    BY DEF TooLarge, Return
<1>2. Window' /\ Layout'
    BY <1>1, WrappedType, QuietStep DEF Known
<1>3. Ready'
    BY <1>1 DEF Ready
<1> QED BY <1>2, <1>3

\* The space found overlaps nothing on the wire.
LEMMA FindSpaceStep ==
    ASSUME Typed, Window, Layout, Ready, FindSpace
    PROVE  Window' /\ Layout' /\ Ready'
<1>1. PICK t \in {tx, Wrapped} :
          /\ tx' = [t EXCEPT !.need_feedback = NeedFeedback(t)]
          /\ \/ t = tx /\ RestFits
             \/ t = Wrapped /\ FreedFits
    BY DEF FindSpace, Prepared
<1>2. /\ t \in Fifo /\ t.next_seq = tx.next_seq /\ t.feedback_offsets = tx.feedback_offsets
      /\ t.feedback_seq = tx.feedback_seq
      /\ \/ t.next_offset = tx.next_offset /\ t.rollover_seq = tx.rollover_seq
         \/ CaughtUp /\ t.next_offset = 0 /\ t.rollover_seq = tx.next_seq
    BY WrappedType, SeqTypes
<1>3. /\ tx'.next_seq = tx.next_seq /\ tx'.feedback_offsets = tx.feedback_offsets
      /\ tx'.feedback_seq = tx.feedback_seq
      /\ tx'.next_offset = t.next_offset /\ tx'.rollover_seq = t.rollover_seq
    BY <1>1, <1>2 DEF Fifo
<1>4. wire' = wire /\ feedback' = feedback /\ want' = want /\ ret' = ret /\ pc = "space"
    BY DEF FindSpace
<1>5. Window' /\ Layout'
    BY <1>2, <1>3, <1>4, QuietStep DEF Known
<1>6. ASSUME NEW i \in 1 .. Len(wire)
      PROVE  End(i) <= tx'.next_offset \/ tx'.next_offset + want <= wire[i].offset
    <2>1. CASE t = tx /\ RestFits
        <3>1. Current(wire[i].seq)
            BY <2>1, AllCurrent DEF RestFits
        <3> QED BY <1>3, <2>1, <3>1 DEF Layout
    <2>2. CASE t = Wrapped /\ FreedFits
        <3>1. Wrapped.next_offset + want <= EndOf(tx.feedback_seq)
            BY <2>2 DEF FreedFits
        <3>2. Wrapped.next_offset \in 0 .. B /\ EndOf(tx.feedback_seq) \in 0 .. B
            BY WrappedType, EndOfType, SeqTypes DEF Fifo
        <3>3. CASE SameLap(tx.feedback_seq, wire[i].seq)
            <4>1. EndOf(tx.feedback_seq) <= wire[i].offset
                BY <3>3 DEF Layout, Known
            <4> QED BY <1>3, <2>2, <3>1, <3>2, <4>1, SeqTypes
        <3>4. CASE ~SameLap(tx.feedback_seq, wire[i].seq)
            <4>1. ~CaughtUp
                BY <3>4, AllCurrent DEF SameLap, Known
            <4>2. ~Current(tx.feedback_seq)
                BY <4>1, SeqTypes DEF CaughtUp, Current
            <4>3. Current(wire[i].seq)
                BY <3>4, <4>2 DEF SameLap
            <4>4. Wrapped = tx
                BY <4>1 DEF Wrapped
            <4> QED BY <1>3, <2>2, <4>3, <4>4 DEF Layout
        <3> QED BY <3>3, <3>4
    <2> QED BY <1>1, <2>1, <2>2
<1>7. Ready'
    <2>1. \A i : End(i)' = End(i)
        BY <1>4 DEF End
    <2> QED BY <1>3, <1>4, <1>6, <2>1 DEF Ready
<1> QED BY <1>5, <1>7

\* A chunk is sent.
LEMMA SendStep ==
    ASSUME Typed, Window, Layout, Ready, Send
    PROVE  Window' /\ Layout' /\ Ready'
<1>1. PICK size \in 1 .. want :
          /\ wire' = Append(wire, [seq |-> tx.next_seq, offset |-> tx.next_offset,
                                   size |-> size, reply |-> tx.need_feedback])
          /\ tx' = [tx EXCEPT
                !.next_offset = @ + size,
                !.feedback_offsets[tx.next_seq % Q] = tx.next_offset + size,
                !.request_seq = IF tx.need_feedback THEN tx.next_seq ELSE @,
                !.next_seq = (@ + 1) % SeqMod]
    BY DEF Send
<1>0. PICK n \in Seqs, len \in Nat : n = tx.next_seq /\ len = Len(wire)
    BY SeqTypes
<1> DEFINE m == (n + 1) % SeqMod
<1>2. /\ pc = "ready" /\ pc' = "idle" /\ ret' = "ok" /\ feedback' = feedback
    BY DEF Send, Return
<1>3. /\ size \in 1 .. B /\ tx.next_offset + size <= B /\ tx.next_offset + size \in Nat
    BY SMTT(40), <1>2, SeqTypes DEF Typed
<1>4. /\ tx'.next_seq = m /\ tx'.feedback_seq = tx.feedback_seq
      /\ tx'.rollover_seq = tx.rollover_seq /\ tx'.next_offset = tx.next_offset + size
      /\ tx'.feedback_offsets = [tx.feedback_offsets EXCEPT ![n % Q] = tx.next_offset + size]
    BY <1>0, <1>1, SeqTypes DEF Fifo
<1>5. /\ Len(wire') = len + 1 /\ \A i \in 1 .. len : wire'[i] = wire[i]
      /\ wire'[len + 1].seq = n /\ wire'[len + 1].offset = tx.next_offset
      /\ wire'[len + 1].size = size
    BY <1>0, <1>1, SeqTypes
<1>6. /\ n \in Seqs /\ len \in Nat /\ tx.rollover_seq \in Seqs /\ Q \in Nat /\ B \in Nat
      /\ SeqMod \in Nat /\ Q <= SeqMod - 3 /\ B < SeqMod /\ tx.next_offset \in 0 .. B
    BY SeqTypes, Numbers
<1>7. /\ m \in Seqs /\ Ago(m, n) = 1
      /\ \A a \in Seqs : Ago(n, a) < SeqMod - 1 => Ago(m, a) = Ago(n, a) + 1
      /\ \A a \in Seqs : Ago(n, a) \in Nat
    <2>1. \A a \in Seqs : Ago(n, a) \in Nat
        <3>1. Seqs \subseteq Nat
            BY <1>0, <1>6 DEF Seqs
        <3> QED BY <1>0, <1>6, <3>1, AgoFacts
    <2> QED BY <1>0, <1>6, <2>1, NextAgo
<1> HIDE DEF m
<1>8. /\ \A x \in Known : x \in Seqs /\ Ago(n, x) \in 1 .. Q - 1 /\ Ago(m, x) = Ago(n, x) + 1
      /\ \A i \in 1 .. len : /\ wire[i].seq \in Seqs /\ Ago(n, wire[i].seq) \in 1 .. Q - 1
                             /\ Ago(m, wire[i].seq) = Ago(n, wire[i].seq) + 1
      /\ Ago(m, tx.rollover_seq) = Ago(n, tx.rollover_seq) + 1
    <2>1. \A x \in Known : x \in Seqs /\ Ago(n, x) \in 1 .. Q - 1
        BY <1>0, <1>2, <1>6, Ages, SeqTypes DEF Ready
    <2>2. \A i \in 1 .. len : wire[i].seq \in Seqs /\ Ago(n, wire[i].seq) \in 1 .. Q - 1
        BY <1>0, Ages, SeqTypes
    <2>3. Ago(n, tx.rollover_seq) < SeqMod - 1
        BY <1>0, <1>3, <1>6, <1>7 DEF Window
    <2> QED BY <1>0, <1>6, <1>7, <2>1, <2>2, <2>3
<1>9. /\ \A x \in Known : EndOf(x)' = EndOf(x)
      /\ \A i \in 1 .. len : EndOf(wire[i].seq)' = EndOf(wire[i].seq)
      /\ EndOf(n)' = tx.next_offset + size
    <2>1. \A a \in Seqs : a % Q \in 0 .. Q - 1
        BY EndOfType
    <2>2. tx.feedback_offsets \in [0 .. Q - 1 -> 0 .. B]
        BY SeqTypes DEF Fifo
    <2>3. \A a \in Seqs : Ago(n, a) \in 1 .. Q - 1 => a % Q # n % Q
        BY <1>0, <1>6, OwnOffset
    <2>4. \A a \in Seqs : EndOf(a)' = IF a % Q = n % Q THEN tx.next_offset + size ELSE EndOf(a)
        BY <1>0, <1>4, <1>6, <2>1, <2>2 DEF EndOf
    <2> QED BY <1>0, <1>5, <1>6, <1>8, <2>3, <2>4
<1>10. Window'
    <2>1. Known' = Known /\ feedback \in Known /\ tx.feedback_seq \in Known
        BY <1>0, <1>2, <1>4 DEF Known
    <2>2. /\ Ago(m, tx.feedback_seq) \in 1 .. Q
          /\ Ago(m, feedback) \in 1 .. Ago(m, tx.feedback_seq)
          /\ Len(wire') < Ago(m, feedback)
        BY <1>0, <1>5, <1>6, <1>8, <2>1 DEF Window
    <2>3. ASSUME NEW i \in 1 .. len + 1 PROVE Ago(m, wire'[i].seq) = Len(wire') + 1 - i
        <3>1. CASE i \in 1 .. len
            BY <1>0, <1>5, <1>6, <1>8, <3>1 DEF Window
        <3>2. CASE i = len + 1
            BY <1>0, <1>5, <1>6, <1>7, <3>2
        <3> QED BY <1>0, <1>6, <3>1, <3>2
    <2>4. Ago(m, tx.rollover_seq) <= tx.next_offset + size
        BY <1>0, <1>3, <1>6, <1>7, <1>8 DEF Window
    <2> QED BY <1>2, <1>4, <1>5, <2>2, <2>3, <2>4 DEF Window
<1>11. /\ \A x \in Known : Current(x)' <=> Current(x)
       /\ \A i \in 1 .. len : Current(wire[i].seq)' <=> Current(wire[i].seq)
       /\ Current(n)'
    <2>1. \A a : Current(a)' <=> Ago(m, a) <= Ago(m, tx.rollover_seq)
        BY <1>0, <1>4 DEF Current
    <2>2. \A a : Current(a) <=> Ago(n, a) <= Ago(n, tx.rollover_seq)
        BY <1>0 DEF Current
    <2> QED BY <1>0, <1>5, <1>6, <1>7, <1>8, <2>1, <2>2
<1>12. Layout'
    <2>1. Known' = Known
        BY <1>0, <1>2, <1>4 DEF Known
    <2>2. /\ \A i \in 1 .. len : End(i)' = End(i)
          /\ End(len + 1)' = tx.next_offset + size
        BY <1>0, <1>5, <1>6 DEF End
    <2>3. /\ \A x \in Known : EndOf(x) \in 0 .. B
          /\ \A i \in 1 .. len : End(i) \in Nat
        BY <1>0, <1>8, EndOfType, SeqTypes
    <2>4. Current(wire[len + 1].seq)' /\ EndOf(wire[len + 1].seq)' = tx.next_offset + size
        BY <1>5, <1>9, <1>11
    <2>5. ASSUME NEW i \in 1 .. len + 1
          PROVE  /\ Current(wire[i].seq)' => End(i)' <= tx'.next_offset
                 /\ EndOf(wire[i].seq)' = End(i)'
        <3>1. CASE i \in 1 .. len
            BY <1>0, <1>3, <1>4, <1>6, <1>9, <1>11, <2>2, <2>3, <3>1 DEF Layout
        <3>2. CASE i = len + 1
            BY <1>3, <1>4, <2>2, <2>4, <3>2
        <3> QED BY <1>0, <3>1, <3>2
    <2>6. ASSUME NEW i \in 1 .. len + 1, NEW j \in 1 .. len + 1, i < j,
                 SameLap(wire[i].seq, wire[j].seq)'
          PROVE  End(i)' <= wire'[j].offset
        <3>1. i \in 1 .. len
            BY <1>0, <2>6
        <3>2. CASE j \in 1 .. len
            <4>1. SameLap(wire[i].seq, wire[j].seq)
                BY <1>11, <2>6, <3>1, <3>2 DEF SameLap
            <4> QED BY <1>0, <1>5, <2>2, <2>6, <3>1, <3>2, <4>1 DEF Layout
        <3>3. CASE j = len + 1
            <4>1. Current(wire[i].seq)
                BY <1>11, <2>4, <2>6, <3>1, <3>3 DEF SameLap
            <4> QED BY <1>0, <1>5, <2>2, <3>1, <3>3, <4>1 DEF Layout
        <3> QED BY <1>0, <3>2, <3>3
    <2>7. ASSUME NEW x \in Known, NEW i \in 1 .. len + 1, SameLap(x, wire[i].seq)'
          PROVE  EndOf(x)' <= wire'[i].offset
        <3>1. CASE i \in 1 .. len
            <4>1. SameLap(x, wire[i].seq)
                BY <1>11, <2>7, <3>1 DEF SameLap
            <4> QED BY <1>0, <1>5, <1>9, <3>1, <4>1 DEF Layout
        <3>2. CASE i = len + 1
            <4>1. Current(x)
                BY <1>11, <2>4, <2>7, <3>2 DEF SameLap
            <4> QED BY <1>5, <1>9, <3>2, <4>1 DEF Layout
        <3> QED BY <1>0, <3>1, <3>2
    <2>8. \A x \in Known : Current(x)' => EndOf(x)' <= tx'.next_offset
        BY <1>3, <1>4, <1>6, <1>9, <1>11, <2>3 DEF Layout
    <2> QED BY <1>5, <2>1, <2>5, <2>6, <2>7, <2>8 DEF Layout
<1>13. Ready'
    BY <1>0, <1>2 DEF Ready
<1> QED BY <1>10, <1>12, <1>13

\* The card sends, and answers if it was asked to.
LEMMA CardStep ==
    ASSUME Typed, Window, Layout, Ready, CardSends
    PROVE  Window' /\ Layout' /\ Ready'
<1>0. PICK n \in Seqs, len \in Nat \ {0} : n = tx.next_seq /\ len = Len(wire)
    BY SeqTypes DEF CardSends
<1>1. /\ tx' = tx /\ pc' = pc /\ want' = want /\ ret' = ret
      /\ feedback' = IF wire[1].reply THEN wire[1].seq ELSE feedback
    BY SeqTypes DEF CardSends
<1>2. Len(wire') = len - 1 /\ \A i \in 1 .. len - 1 : wire'[i] = wire[i + 1]
    BY <1>0, SeqTypes DEF CardSends
<1>3. /\ \A i \in 1 .. len - 1 : i + 1 \in 1 .. len
      /\ \A i \in 1 .. len - 1 : End(i)' = End(i + 1)
      /\ \A a : Current(a)' <=> Current(a)
      /\ \A a, b : SameLap(a, b)' <=> SameLap(a, b)
      /\ \A a : EndOf(a)' = EndOf(a)
    BY <1>0, <1>1, <1>2 DEF End, Current, SameLap, EndOf
<1>4. 1 \in 1 .. len /\ wire[1].seq \in Seqs /\ Ago(n, wire[1].seq) = len
    BY <1>0, SeqTypes DEF Window
<1>5. Ago(n, tx.feedback_seq) \in 1 .. Q /\ Ago(n, feedback) \in 1 .. Ago(n, tx.feedback_seq)
        /\ len < Ago(n, feedback)
    BY <1>0 DEF Window
<1>6. Window'
    <2>1. /\ Ago(n, feedback') \in 1 .. Ago(n, tx.feedback_seq)
          /\ len - 1 < Ago(n, feedback')
        BY SMTT(40), <1>1, <1>4, <1>5, SeqTypes
    <2>2. \A i \in 1 .. len - 1 : Ago(n, wire'[i].seq) = Len(wire') + 1 - i
        BY <1>0, <1>2, <1>3 DEF Window
    <2> QED BY <1>0, <1>1, <1>2, <1>5, <2>1, <2>2 DEF Window
<1>7. Layout'
    <2>1. /\ \A i \in 1 .. len - 1 : Current(wire[i].seq)' => End(i)' <= tx'.next_offset
          /\ \A i, j \in 1 .. len - 1 :
                i < j /\ SameLap(wire[i].seq, wire[j].seq)' => End(i)' <= wire'[j].offset
          /\ \A i \in 1 .. len - 1 : EndOf(wire[i].seq)' = End(i)'
        <3>1. ASSUME NEW i \in 1 .. len - 1
              PROVE  /\ Current(wire[i].seq)' => End(i)' <= tx'.next_offset
                     /\ EndOf(wire[i].seq)' = End(i)'
            BY <1>0, <1>1, <1>2, <1>3 DEF Layout
        <3>2. ASSUME NEW i \in 1 .. len - 1, NEW j \in 1 .. len - 1, i < j,
                     SameLap(wire[i].seq, wire[j].seq)'
              PROVE  End(i)' <= wire'[j].offset
            <4>1. i + 1 \in 1 .. len /\ j + 1 \in 1 .. len /\ i + 1 < j + 1
                BY <1>0, <3>2
            <4>2. SameLap(wire[i + 1].seq, wire[j + 1].seq)
                BY <1>2, <1>3, <3>2
            <4>3. End(i + 1) <= wire[j + 1].offset
                BY <1>0, <4>1, <4>2 DEF Layout
            <4> QED BY <1>2, <1>3, <4>3
        <3> QED BY <3>1, <3>2
    <2>2. ASSUME NEW x \in Known'
          PROVE  /\ Current(x)' => EndOf(x)' <= tx'.next_offset
                 /\ \A i \in 1 .. len - 1 :
                       SameLap(x, wire[i].seq)' => EndOf(x)' <= wire'[i].offset
        <3>1. CASE x \in Known
            BY <1>0, <1>1, <1>2, <1>3, <3>1 DEF Layout
        <3>2. CASE x = wire[1].seq
            <4>1. EndOf(x) = End(1)
                BY <1>0, <1>4, <3>2 DEF Layout
            <4>2. Current(x) => End(1) <= tx.next_offset
                BY <1>0, <1>4, <3>2 DEF Layout
            <4>3. \A i \in 1 .. len - 1 :
                     SameLap(x, wire[i + 1].seq) => End(1) <= wire[i + 1].offset
                <5>1. \A i \in 1 .. len - 1 : i + 1 \in 1 .. len /\ 1 < i + 1
                    BY <1>0
                <5> QED BY <1>0, <1>4, <3>2, <5>1 DEF Layout
            <4> QED BY <1>1, <1>2, <1>3, <4>1, <4>2, <4>3
        <3>3. x \in Known \/ x = wire[1].seq
            BY <1>1, <2>2 DEF Known
        <3> QED BY <3>1, <3>2, <3>3
    <2> QED BY <1>2, <2>1, <2>2 DEF Layout
<1>8. Ready'
    BY <1>0, <1>1, <1>2, <1>3 DEF Ready
<1> QED BY <1>6, <1>7, <1>8

\* A FIFO that finds nothing on the wire.
LEMMA FreshFifo ==
    ASSUME tx' = NewFifo, feedback' = 0, wire' = <<>>, pc' = "idle", ret' = "none"
    PROVE  Window' /\ Layout' /\ Ready'
<1>1. /\ tx'.next_seq = 1 /\ tx'.feedback_seq = 0 /\ tx'.rollover_seq = 1 /\ tx'.next_offset = 0
    BY DEF NewFifo
<1>2. 0 \in Seqs /\ 1 \in Seqs /\ Q \in Nat \ {0} /\ SeqMod \in Nat /\ SeqMod > Q
    BY NewFifoType, Numbers
<1>3. Ago(1, 0) = 1 /\ Ago(1, 1) = 0
    BY <1>2, AgoFacts
<1>4. Window'
    BY <1>1, <1>2, <1>3 DEF Window
<1>5. Layout'
    BY <1>1, <1>3 DEF Layout, Known, Current
<1>6. Ready'
    BY DEF Ready
<1> QED BY <1>4, <1>5, <1>6

\* The FIFO is released and acquired again; the wire is empty, or it is late.
LEMMA ReacquireStep == Reacquire => late' \/ (Window' /\ Layout' /\ Ready')
BY FreshFifo DEF Reacquire

\* The invariant holds of the first FIFO.
LEMMA InitInv == Init => FifoInv
<1> SUFFICES ASSUME Init PROVE FifoInv
    OBVIOUS
<1>1. /\ tx.next_seq = 1 /\ tx.feedback_seq = 0 /\ tx.rollover_seq = 1 /\ tx.next_offset = 0
      /\ tx \in Fifo /\ feedback = 0 /\ wire = <<>> /\ pc = "idle" /\ want = 0 /\ ret = "none"
      /\ late = FALSE
    BY NewFifoType DEF Init, NewFifo
<1>2. 0 \in Seqs /\ 1 \in Seqs /\ Q \in Nat \ {0} /\ SeqMod \in Nat /\ SeqMod > Q
        /\ 0 \in 0 .. B
    BY NewFifoType, Numbers
<1>3. Ago(1, 0) = 1 /\ Ago(1, 1) = 0
    BY <1>2, AgoFacts
<1>4. Window
    BY <1>1, <1>2, <1>3 DEF Window
<1>5. Layout
    BY <1>1, <1>3 DEF Layout, Known, Current
<1>6. Ready
    BY <1>1 DEF Ready
<1>7. TypeOK
    <2>1. wire \in Seq(Chunk)
        BY <1>1
    <2> QED BY <1>1, <1>2, <2>1 DEF TypeOK, Fifo
<1>8. Typed
    BY <1>1, <1>7 DEF Typed
<1> QED BY <1>4, <1>5, <1>6, <1>8 DEF FifoInv

\* Every step keeps it.
LEMMA NextInv == FifoInv /\ [Next]_vars => FifoInv'
<1> SUFFICES ASSUME FifoInv, [Next]_vars PROVE FifoInv'
    OBVIOUS
<1>1. Typed /\ Typed'
    BY TypedNext DEF FifoInv
<1>2. CASE Reacquire
    BY <1>1, <1>2, ReacquireStep DEF FifoInv
<1>3. CASE ~Reacquire
    <2>1. late' = late
        BY <1>3 DEF Next, Prepare, Start, WaitForSeqs, HaveSeqs, FindSpace, TooLarge, WaitForSpace,
                    Send, GiveUp, CardSends, vars, history
    <2>2. CASE late
        BY <1>1, <2>1, <2>2 DEF FifoInv
    <2>3. CASE ~late
        <3>1. Window /\ Layout /\ Ready
            BY <2>3 DEF FifoInv
        <3>2. CASE UNCHANGED vars
            <4>1. Window' /\ Layout'
                BY <1>1, <3>1, <3>2, QuietStep DEF vars, Known
            <4>2. Ready'
                BY <3>1, <3>2 DEF vars, Ready, End
            <4> QED BY <1>1, <4>1, <4>2 DEF FifoInv
        <3>3. CASE Next
            <4>1. Window' /\ Layout' /\ Ready'
                BY <1>1, <1>3, <3>1, <3>3, CallSteps, WaitSteps, TooLargeStep, FindSpaceStep,
                   SendStep, CardStep DEF Next, Prepare
            <4> QED BY <1>1, <4>1 DEF FifoInv
        <3> QED BY <3>2, <3>3
    <2> QED BY <2>2, <2>3
<1> QED BY <1>2, <1>3

-----------------------------------------------------------------------------
(* Answers                                                                 *)

\* What the types say of the last request.
LEMMA RequestTypes ==
    ASSUME Typed
    PROVE  /\ tx.request_seq \in Seqs /\ EndOf(tx.request_seq) \in 0 .. B
           /\ tx.need_feedback \in BOOLEAN
           /\ Since(tx.request_seq) = Ago(tx.next_seq, tx.request_seq)
           /\ Ago(tx.next_seq, tx.request_seq) \in Nat
           /\ Since(tx.rollover_seq) = Ago(tx.next_seq, tx.rollover_seq)
           /\ Ago(tx.next_seq, tx.rollover_seq) \in Nat
           /\ tx.rollover_seq = tx.next_seq <=> Ago(tx.next_seq, tx.rollover_seq) = 0
<1>1. tx.request_seq \in Seqs /\ tx.need_feedback \in BOOLEAN
    BY SeqTypes DEF Fifo
<1>2. EndOf(tx.request_seq) \in 0 .. B
    BY <1>1, EndOfType
<1> QED BY <1>1, <1>2, SeqTypes, AgoFacts

\* The largest chunk that is not refused.
LEMMA HalfBuffer ==
    /\ B \div 2 \in Nat /\ 2 * (B \div 2) <= B /\ B < 2 * (B \div 2) + 2
    /\ MaxChunk = B \div 2 - Interval /\ MaxChunk \in Int /\ Interval \in Nat
BY Numbers DEF MaxChunk

\* A step that sends nothing and does not see the card do so.
LEMMA AnswersQuiet ==
    ASSUME Answers, wire' = wire, feedback' = feedback, tx'.request_seq = tx.request_seq
    PROVE  Answers'
BY DEF Answers

\* A lap that is begun in the second half of the buffer has a request there.
LEMMA AskedQuiet ==
    ASSUME Typed, Window, Asked, tx'.next_seq = tx.next_seq, tx'.request_seq = tx.request_seq,
           tx'.feedback_offsets = tx.feedback_offsets,
           \/ tx'.next_offset = tx.next_offset /\ tx'.rollover_seq = tx.rollover_seq
           \/ /\ CaughtUp /\ B \div 2 <= tx.next_offset
              /\ tx'.next_offset = 0 /\ tx'.rollover_seq = tx.next_seq,
           pc' = "ready" => (tx'.need_feedback <=> NeedFeedback(tx)')
    PROVE  Asked'
<1>1. EndOf(tx.request_seq)' = EndOf(tx.request_seq) /\ MaxChunk' = MaxChunk
    BY DEF EndOf, MaxChunk
<1>2. Ago(tx.next_seq, tx.request_seq) \in 1 .. Q \div 2 + 1
    BY DEF Asked
<1>3. CASE tx'.next_offset = tx.next_offset /\ tx'.rollover_seq = tx.rollover_seq
    <2>1. Current(tx.request_seq)' <=> Current(tx.request_seq)
        BY <1>3 DEF Current
    <2> QED BY <1>1, <1>3, <2>1 DEF Asked
<1>4. CASE /\ CaughtUp /\ B \div 2 <= tx.next_offset
           /\ tx'.next_offset = 0 /\ tx'.rollover_seq = tx.next_seq
    <2>1. tx.rollover_seq # tx.next_seq
        BY <1>4, SeqTypes, RequestTypes DEF CaughtUp, Window
    <2>2. tx.next_offset - EndOf(tx.request_seq) \in 0 .. Interval
        BY <2>1 DEF Asked
    <2>3. EndOf(tx.request_seq) >= MaxChunk
        <3>1. EndOf(tx.request_seq) \in 0 .. B /\ tx.next_offset \in 0 .. B /\ B \in Nat
            BY RequestTypes, SeqTypes
        <3> QED BY <1>4, <2>2, <3>1, HalfBuffer
    <2> QED BY <1>1, <1>2, <1>4, <2>3 DEF Asked
<1> QED BY <1>3, <1>4

\* Whoever begins a lap leaves none but the end of the buffer.
LEMMA WrapsLate ==
    ASSUME Typed, Window, Layout, pc = "space", ~RestFits, CaughtUp,
           want <= MaxChunk \/ FreedFits
    PROVE  B \div 2 <= tx.next_offset
<1>1. tx.next_offset + want > B /\ want \in 0 .. B /\ tx.next_offset \in 0 .. B /\ B \in Nat
    BY SeqTypes DEF RestFits
<1>2. CASE want <= MaxChunk
    BY <1>1, <1>2, HalfBuffer
<1>3. CASE FreedFits
    <2>1. Wrapped.next_offset = 0
        BY SeqTypes DEF Wrapped, Fifo
    <2>2. EndOf(tx.feedback_seq) <= tx.next_offset
        BY AllCurrent DEF Layout, Known
    <2>3. EndOf(tx.feedback_seq) \in 0 .. B
        BY SeqTypes, EndOfType
    <2>4. want <= EndOf(tx.feedback_seq)
        BY <1>1, <1>3, <2>1 DEF FreedFits
    <2> QED BY <1>1, <2>2, <2>3, <2>4, HalfBuffer
<1> QED BY <1>2, <1>3

\* Steps that neither prepare nor send.
LEMMA AskCallSteps ==
    ASSUME Typed, Window, Answers, refused \/ Asked,
           (\E size \in Sizes : Start(size)) \/ HaveSeqs \/ GiveUp \/ UNCHANGED vars
    PROVE  Answers' /\ (refused' \/ Asked')
<1>1. /\ UNCHANGED <<tx, feedback, wire, refused>>
      /\ pc' = "ready" => pc = "ready" /\ want' = want
    BY DEF Start, HaveSeqs, GiveUp, Return, vars, history
<1>2. Answers'
    BY <1>1, AnswersQuiet
<1>3. ASSUME Asked PROVE Asked'
    <2>1. pc' = "ready" => (tx'.need_feedback <=> NeedFeedback(tx)')
        BY <1>1, <1>3 DEF Asked, NeedFeedback, Since, EndOf
    <2> QED BY <1>1, <1>3, <2>1, AskedQuiet
<1> QED BY <1>1, <1>2, <1>3

\* The sender waits.
LEMMA AskWaitSteps ==
    ASSUME Typed, Window, Layout, Answers, refused \/ Asked, WaitForSeqs \/ WaitForSpace
    PROVE  Answers' /\ (refused' \/ Asked')
<1>1. PICK t \in {tx, Wrapped} :
          /\ UpdateFeedback(t) /\ UNCHANGED <<wire, refused>>
          /\ pc \in {"seqs", "space"}
          /\ t = tx \/ (t = Wrapped /\ WaitForSpace)
    BY DEF WaitForSeqs, WaitForSpace, history
<1>2. /\ t \in Fifo /\ t.next_seq = tx.next_seq /\ t.feedback_offsets = tx.feedback_offsets
      /\ t.request_seq = tx.request_seq
      /\ \/ t.next_offset = tx.next_offset /\ t.rollover_seq = tx.rollover_seq
         \/ CaughtUp /\ t = Wrapped /\ t.next_offset = 0 /\ t.rollover_seq = tx.next_seq
    BY WrappedType, SeqTypes DEF Wrapped, Fifo
<1>3. /\ tx' = [t EXCEPT !.feedback_seq = feedback] /\ feedback' = feedback /\ pc' = pc
    BY <1>1, <1>2, UpdateStep
<1>4. /\ tx'.next_seq = tx.next_seq /\ tx'.feedback_offsets = tx.feedback_offsets
      /\ tx'.request_seq = tx.request_seq
      /\ tx'.next_offset = t.next_offset /\ tx'.rollover_seq = t.rollover_seq
    BY <1>2, <1>3 DEF Fifo
<1>5. Answers'
    BY <1>1, <1>3, <1>4, AnswersQuiet
<1>6. ASSUME Asked PROVE Asked'
    <2>1. CASE t.next_offset = tx.next_offset /\ t.rollover_seq = tx.rollover_seq
        BY <1>1, <1>3, <1>4, <1>6, <2>1, AskedQuiet
    <2>2. CASE ~(t.next_offset = tx.next_offset /\ t.rollover_seq = tx.rollover_seq)
        <3>1. CaughtUp /\ t.next_offset = 0 /\ t.rollover_seq = tx.next_seq /\ t # tx
            BY <1>2, <2>2
        <3>2. pc = "space" /\ ~RestFits /\ want <= MaxChunk
            BY <1>1, <3>1 DEF WaitForSpace
        <3>3. B \div 2 <= tx.next_offset
            BY <3>1, <3>2, WrapsLate
        <3> QED BY <1>1, <1>3, <1>4, <1>6, <3>1, <3>3, AskedQuiet
    <2> QED BY <2>1, <2>2
<1> QED BY <1>1, <1>5, <1>6

\* A call is refused.
LEMMA AskTooLarge ==
    ASSUME Typed, Answers, TooLarge
    PROVE  Answers' /\ refused'
<1>1. Wrapped.request_seq = tx.request_seq
    BY SeqTypes DEF Wrapped, Fifo
<1> QED BY <1>1, AnswersQuiet DEF TooLarge

\* Space is found, and it is decided whether to ask.
LEMMA AskFindSpace ==
    ASSUME Typed, Window, Layout, Answers, refused \/ Asked, FindSpace
    PROVE  Answers' /\ (refused' \/ Asked')
<1>1. PICK t \in {tx, Wrapped} :
          /\ tx' = [t EXCEPT !.need_feedback = NeedFeedback(t)]
          /\ t = tx \/ (t = Wrapped /\ FreedFits)
    BY DEF FindSpace, Prepared
<1>2. /\ wire' = wire /\ feedback' = feedback /\ want' = want /\ refused' = refused
      /\ pc = "space"
    BY DEF FindSpace, history
<1>3. /\ t \in Fifo /\ t.next_seq = tx.next_seq /\ t.feedback_offsets = tx.feedback_offsets
      /\ t.request_seq = tx.request_seq
      /\ \/ t.next_offset = tx.next_offset /\ t.rollover_seq = tx.rollover_seq
         \/ CaughtUp /\ t = Wrapped /\ t.next_offset = 0 /\ t.rollover_seq = tx.next_seq
    BY WrappedType, SeqTypes DEF Wrapped, Fifo
<1>4. /\ tx'.next_seq = tx.next_seq /\ tx'.feedback_offsets = tx.feedback_offsets
      /\ tx'.request_seq = tx.request_seq
      /\ tx'.next_offset = t.next_offset /\ tx'.rollover_seq = t.rollover_seq
      /\ tx'.need_feedback = NeedFeedback(t)
    BY <1>1, <1>3 DEF Fifo
<1>5. Answers'
    BY <1>2, <1>4, AnswersQuiet
<1>6. tx'.need_feedback <=> NeedFeedback(tx)'
    <2>1. NeedFeedback(tx)' <=> NeedFeedback(t)
        BY <1>2, <1>3, <1>4 DEF NeedFeedback, Since, EndOf
    <2> QED BY <1>4, <2>1
<1>7. ASSUME Asked PROVE Asked'
    <2>1. CASE t.next_offset = tx.next_offset /\ t.rollover_seq = tx.rollover_seq
        BY <1>4, <1>6, <1>7, <2>1, AskedQuiet
    <2>2. CASE ~(t.next_offset = tx.next_offset /\ t.rollover_seq = tx.rollover_seq)
        <3>1. CaughtUp /\ t.next_offset = 0 /\ t.rollover_seq = tx.next_seq /\ FreedFits
            BY <1>1, <1>3, <2>2
        <3>2. ~RestFits
            BY <3>1 DEF FreedFits
        <3>3. B \div 2 <= tx.next_offset
            BY <1>2, <3>1, <3>2, WrapsLate
        <3> QED BY <1>4, <1>6, <1>7, <3>1, <3>3, AskedQuiet
    <2> QED BY <2>1, <2>2
<1> QED BY <1>2, <1>5, <1>7

\* A chunk is sent, and asks for feedback or does not.
LEMMA AskSend ==
    ASSUME Typed, Window, Answers, refused \/ Asked, Send
    PROVE  Answers' /\ (refused' \/ Asked')
<1>1. PICK size \in 1 .. want :
          /\ wire' = Append(wire, [seq |-> tx.next_seq, offset |-> tx.next_offset,
                                   size |-> size, reply |-> tx.need_feedback])
          /\ tx' = [tx EXCEPT
                !.next_offset = @ + size,
                !.feedback_offsets[tx.next_seq % Q] = tx.next_offset + size,
                !.request_seq = IF tx.need_feedback THEN tx.next_seq ELSE @,
                !.next_seq = (@ + 1) % SeqMod]
    BY DEF Send
<1>0. PICK n \in Seqs, asked \in Seqs, len \in Nat :
          n = tx.next_seq /\ asked = tx.request_seq /\ len = Len(wire)
    BY SeqTypes, RequestTypes
<1> DEFINE m == (n + 1) % SeqMod
<1>2. pc = "ready" /\ pc' = "idle" /\ feedback' = feedback /\ refused' = refused
    BY DEF Send, Return, history
<1>3. /\ size \in 1 .. want /\ want \in 1 .. B /\ tx.next_offset \in 0 .. B
      /\ tx.next_offset + want <= B /\ B \in Nat /\ Q \in Nat \ {0} /\ Interval \in Nat
    BY <1>2, SeqTypes, Numbers DEF Typed
<1>4. /\ tx'.next_seq = m /\ tx'.rollover_seq = tx.rollover_seq
      /\ tx'.next_offset = tx.next_offset + size
      /\ tx'.feedback_offsets = [tx.feedback_offsets EXCEPT ![n % Q] = tx.next_offset + size]
    BY <1>0, <1>1, SeqTypes DEF Fifo
<1>5. /\ tx.need_feedback => tx'.request_seq = n
      /\ ~tx.need_feedback => tx'.request_seq = asked
    BY <1>0, <1>1, SeqTypes DEF Fifo
<1>6. /\ Len(wire') = len + 1 /\ \A i \in 1 .. len : wire'[i] = wire[i]
      /\ wire'[len + 1].seq = n /\ wire'[len + 1].reply = tx.need_feedback
    BY <1>0, <1>1, SeqTypes
<1>7. Answers'
    <2>1. CASE tx.need_feedback
        <3>1. len + 1 \in 1 .. len + 1 /\ wire'[len + 1].reply
            BY <1>6, <2>1
        <3>2. ASSUME NEW i \in 1 .. len + 1, \A j \in i + 1 .. len + 1 : ~wire'[j].reply
              PROVE  wire'[i].seq = tx'.request_seq
            <4>1. i = len + 1
                BY <3>1, <3>2
            <4> QED BY <1>5, <1>6, <2>1, <4>1
        <3> QED BY <1>6, <3>1, <3>2 DEF Answers
    <2>2. CASE ~tx.need_feedback
        <3>1. ~wire'[len + 1].reply
            BY <1>6, <2>2
        <3>2. (\A i \in 1 .. len + 1 : ~wire'[i].reply) => feedback' = tx'.request_seq
            BY <1>0, <1>2, <1>5, <1>6, <2>2 DEF Answers
        <3>3. ASSUME NEW i \in 1 .. len + 1, wire'[i].reply,
                     \A j \in i + 1 .. len + 1 : ~wire'[j].reply
              PROVE  wire'[i].seq = tx'.request_seq
            <4>1. i \in 1 .. len
                BY <3>1, <3>3
            <4>2. wire[i].reply /\ \A j \in i + 1 .. len : ~wire[j].reply
                BY <1>6, <3>3, <4>1
            <4> QED BY <1>0, <1>5, <1>6, <2>2, <4>1, <4>2 DEF Answers
        <3> QED BY <1>6, <3>2, <3>3 DEF Answers
    <2> QED BY <2>1, <2>2
<1>8. /\ m \in Seqs /\ Ago(m, n) = 1
      /\ \A a \in Seqs : Ago(n, a) < SeqMod - 1 => Ago(m, a) = Ago(n, a) + 1
    BY NextAgo
<1>9. Ago(m, tx.rollover_seq) = Ago(n, tx.rollover_seq) + 1 /\ Ago(n, tx.rollover_seq) \in Nat
    <2>1. Ago(n, tx.rollover_seq) <= tx.next_offset /\ Ago(n, tx.rollover_seq) \in Nat
        BY <1>0, RequestTypes DEF Window
    <2>2. Ago(n, tx.rollover_seq) < SeqMod - 1
        BY <1>3, <2>1, Numbers
    <2> QED BY <1>0, <1>8, <2>1, <2>2, SeqTypes
<1> HIDE DEF m
<1>10. tx'.rollover_seq # tx'.next_seq
    <2>1. Ago(m, m) = 0
        BY <1>8, AgoFacts
    <2> QED BY <1>4, <1>9, <2>1
<1>11. \A a \in Seqs : EndOf(a)' = IF a % Q = n % Q THEN tx.next_offset + size ELSE EndOf(a)
    <2>1. \A a \in Seqs : a % Q \in 0 .. Q - 1
        BY EndOfType
    <2>2. tx.feedback_offsets \in [0 .. Q - 1 -> 0 .. B]
        BY SeqTypes DEF Fifo
    <2> QED BY <1>0, <1>4, <2>1, <2>2 DEF EndOf
<1>12. ASSUME Asked PROVE Asked'
    <2>1. CASE tx.need_feedback
        <3>1. tx'.request_seq = n /\ EndOf(n)' = tx.next_offset + size
            BY <1>5, <1>11, <2>1
        <3>2. Current(n)'
            BY <1>4, <1>8, <1>9 DEF Current
        <3>3. 1 \in 1 .. Q \div 2 + 1
            BY <1>3
        <3>4. tx'.next_offset - EndOf(n)' \in 0 .. Interval
            BY <1>3, <1>4, <3>1
        <3> QED BY <1>2, <1>4, <1>8, <1>10, <3>1, <3>2, <3>3, <3>4 DEF Asked
    <2>2. CASE ~tx.need_feedback
        <3>1. asked \in Seqs /\ Ago(n, asked) \in Nat /\ EndOf(asked) \in 0 .. B
            BY <1>0, RequestTypes
        <3>2. ~NeedFeedback(tx)
            BY <1>2, <1>12, <2>2 DEF Asked
        <3>3. /\ ~(Ago(n, asked) > Q \div 2)
              /\ ~(Ago(n, asked) > Ago(n, tx.rollover_seq))
              /\ tx.next_offset + want - EndOf(asked) \in 0 .. Interval
            BY <1>0, <3>2, RequestTypes DEF NeedFeedback
        <3>4. Ago(n, asked) >= 1
            BY <1>0, <1>12 DEF Asked
        <3>5. Q \div 2 \in Nat /\ Q \div 2 <= Q - 1 /\ Q \div 2 + 1 <= Q
            BY <1>3
        <3>6. Ago(n, asked) \in 1 .. Q - 1 /\ Ago(n, asked) \in 1 .. Q \div 2
            BY <1>3, <3>1, <3>3, <3>4, <3>5
        <3>7. Ago(m, asked) = Ago(n, asked) + 1
            BY <1>3, <1>8, <3>1, <3>6, Numbers
        <3>8. EndOf(asked)' = EndOf(asked)
            BY <1>11, <3>1, <3>6, OwnOffset
        <3>9. tx.next_offset - EndOf(asked) \in 0 .. Interval
            <4>1. tx.rollover_seq # tx.next_seq
                BY <1>0, <1>9, <3>1, <3>3, <3>4, RequestTypes
            <4> QED BY <1>0, <1>12, <4>1 DEF Asked
        <3>10. tx'.next_offset - EndOf(asked) \in 0 .. Interval
            BY <1>3, <1>4, <3>1, <3>3, <3>9
        <3>11. Current(asked)'
            BY <1>4, <1>9, <3>1, <3>3, <3>7 DEF Current
        <3>12. Ago(m, asked) \in 1 .. Q \div 2 + 1
            BY <3>5, <3>6, <3>7
        <3>13. tx'.request_seq = asked
            BY <1>5, <2>2
        <3> QED BY <1>2, <1>4, <1>10, <3>8, <3>10, <3>11, <3>12, <3>13 DEF Asked
    <2> QED BY <2>1, <2>2
<1> QED BY <1>2, <1>7, <1>12

\* The card sends a chunk; if no later one asks, its answer is the last.
LEMMA AskCard ==
    ASSUME Typed, Window, Answers, refused \/ Asked, CardSends
    PROVE  Answers' /\ (refused' \/ Asked')
<1>0. PICK len \in Nat \ {0} : len = Len(wire)
    BY SeqTypes DEF CardSends
<1>1. /\ tx' = tx /\ pc' = pc /\ want' = want /\ refused' = refused
      /\ wire[1].reply => feedback' = wire[1].seq
      /\ ~wire[1].reply => feedback' = feedback
    BY SeqTypes DEF CardSends, history
<1>2. Len(wire') = len - 1 /\ \A i \in 1 .. len - 1 : wire'[i] = wire[i + 1]
    BY <1>0, SeqTypes DEF CardSends
<1>3. ASSUME NEW k \in 0 .. len - 1, \A j \in k + 1 .. len - 1 : ~wire'[j].reply
      PROVE  \A j \in k + 2 .. len : ~wire[j].reply
    <2>1. \A j \in k + 2 .. len : j - 1 \in k + 1 .. len - 1 /\ j - 1 \in 1 .. len - 1
                                    /\ (j - 1) + 1 = j
        BY <1>0, <1>3
    <2> QED BY <1>2, <1>3, <2>1
<1>4. ASSUME \A i \in 1 .. len - 1 : ~wire'[i].reply PROVE feedback' = tx'.request_seq
    <2>1. \A j \in 2 .. len : ~wire[j].reply
        <3>1. 0 \in 0 .. len - 1 /\ 0 + 1 = 1 /\ 0 + 2 = 2
            BY <1>0
        <3> QED BY <1>3, <1>4, <3>1
    <2>2. CASE wire[1].reply
        <3>1. 1 \in 1 .. len /\ 1 + 1 = 2
            BY <1>0
        <3> QED BY <1>0, <1>1, <2>1, <2>2, <3>1 DEF Answers
    <2>3. CASE ~wire[1].reply
        <3>1. \A i \in 1 .. len : ~wire[i].reply
            BY <1>0, <2>1, <2>3
        <3> QED BY <1>0, <1>1, <2>3, <3>1 DEF Answers
    <2> QED BY <2>2, <2>3
<1>5. ASSUME NEW i \in 1 .. len - 1, wire'[i].reply,
             \A j \in i + 1 .. len - 1 : ~wire'[j].reply
      PROVE  wire'[i].seq = tx'.request_seq
    <2>1. i \in 0 .. len - 1 /\ i + 1 \in 1 .. len /\ (i + 1) + 1 = i + 2
        BY <1>0
    <2>2. \A j \in (i + 1) + 1 .. len : ~wire[j].reply
        BY <1>3, <1>5, <2>1
    <2> QED BY <1>0, <1>1, <1>2, <1>5, <2>1, <2>2 DEF Answers
<1>6. Answers'
    BY <1>2, <1>4, <1>5 DEF Answers
<1>7. Asked => Asked'
    <2>1. NeedFeedback(tx)' <=> NeedFeedback(tx)
        BY <1>1 DEF NeedFeedback, Since, EndOf
    <2>2. Asked => (pc' = "ready" => (tx'.need_feedback <=> NeedFeedback(tx)'))
        BY <1>1, <2>1 DEF Asked
    <2> QED BY <1>1, <2>2, AskedQuiet
<1> QED BY <1>1, <1>6, <1>7

\* Nothing has been asked of a card that has nothing to send.
LEMMA AskFresh ==
    /\ Init => Answers /\ Asked
    /\ Reacquire => late' \/ (Answers' /\ Asked')
<1>1. 0 \in Seqs /\ 1 \in Seqs /\ Q \in Nat \ {0} /\ 0 % Q = 0 /\ B \in Nat
    BY NewFifoType, Numbers
<1>2. /\ NewFifo.next_seq = 1 /\ NewFifo.request_seq = 0 /\ NewFifo.rollover_seq = 1
      /\ NewFifo.next_offset = 0 /\ NewFifo.feedback_offsets[0] = B
    BY <1>1 DEF NewFifo
<1>3. Ago(1, 0) = 1 /\ 1 \in 1 .. Q \div 2 + 1 /\ B >= MaxChunk
    BY <1>1, AgoFacts, HalfBuffer
<1>4. ASSUME Init PROVE Answers /\ Asked
    <2>1. EndOf(tx.request_seq) = B
        BY <1>1, <1>2, <1>4 DEF Init, EndOf
    <2> QED BY <1>2, <1>3, <1>4, <2>1 DEF Init, Answers, Asked
<1>5. ASSUME Reacquire, ~late' PROVE Answers' /\ Asked'
    <2>1. tx' = NewFifo /\ wire' = <<>> /\ feedback' = 0 /\ pc' = "idle"
        BY <1>5 DEF Reacquire
    <2>2. EndOf(tx.request_seq)' = B /\ MaxChunk' = MaxChunk
        BY <1>1, <1>2, <2>1 DEF EndOf, MaxChunk
    <2> QED BY <1>2, <1>3, <2>1, <2>2 DEF Answers, Asked
<1> QED BY <1>4, <1>5

\* Every step keeps it.
LEMMA NextAsk == FifoInv /\ AskInv /\ [Next]_vars => AskInv'
<1> SUFFICES ASSUME FifoInv, AskInv, [Next]_vars PROVE AskInv'
    OBVIOUS
<1>1. CASE Reacquire
    BY <1>1, AskFresh DEF AskInv
<1>2. CASE ~Reacquire
    <2>1. late' = late
        BY <1>2 DEF Next, Prepare, Start, WaitForSeqs, HaveSeqs, FindSpace, TooLarge, WaitForSpace,
                    Send, GiveUp, CardSends, vars, history
    <2>2. CASE late
        BY <2>1, <2>2 DEF AskInv
    <2>3. CASE ~late
        <3>1. Typed /\ Window /\ Layout /\ Answers /\ (refused \/ Asked)
            BY <2>3 DEF FifoInv, AskInv
        <3>2. Answers' /\ (refused' \/ Asked')
            BY <1>2, <3>1, AskCallSteps, AskWaitSteps, AskTooLarge, AskFindSpace, AskSend, AskCard
               DEF Next, Prepare
        <3> QED BY <3>2 DEF AskInv
    <2> QED BY <2>2, <2>3
<1> QED BY <1>1, <1>2

-----------------------------------------------------------------------------
(* Theorems                                                                *)

\* The invariant holds throughout.
LEMMA FifoInvariance == Spec => []FifoInv
BY InitInv, NextInv, PTL DEF Spec

\* The FIFO's offsets and sequence numbers stay in range (exanic_tx_t).
THEOREM TypeCorrect == Spec => []TypeOK
<1>1. FifoInv => TypeOK
    BY DEF FifoInv, Typed
<1> QED BY <1>1, FifoInvariance, PTL

\* exanic_prepare_tx_chunk hands out no space that the card has still to read, for
\* every size of the buffer, of the queue and of sequence numbers, also when the
\* numbers wrap around.
THEOREM NoOverlapHolds == Spec => []NoOverlap
<1>1. FifoInv => NoOverlap
    BY DEF FifoInv, Typed, Ready, NoOverlap, End
<1> QED BY <1>1, FifoInvariance, PTL

\* exanic_update_tx_feedback never meets a number that it takes for corrupted, unless
\* the FIFO was acquired over chunks of an earlier one.
THEOREM FeedbackRecognisedHolds == Spec => []FeedbackRecognised
<1>1. FifoInv => FeedbackRecognised
    <2> SUFFICES ASSUME FifoInv, ~late PROVE ret # "invalid" /\ Since(feedback) <= Q
        BY DEF FeedbackRecognised
    <2>1. Typed /\ Window /\ Ready
        BY DEF FifoInv
    <2> QED BY <2>1, SeqTypes, Ages DEF Known, Ready
<1> QED BY <1>1, FifoInvariance, PTL

\* The rules of exanic_prepare_tx_chunk for asking (fifo_tx.c:300-311) are enough: a
\* sender that waits, for sequence numbers or for space, waits for an answer that has
\* been asked for and whose end is on record, unless a chunk has been refused.  The
\* queue has more than two entries; the smallest that a region of a page has is eight.
THEOREM AnswerOnItsWayHolds == ASSUME Q > 2 PROVE Spec => []AnswerOnItsWay
<1>1. FifoInv /\ AskInv => AnswerOnItsWay
    <2> SUFFICES ASSUME FifoInv, AskInv PROVE AnswerOnItsWay
        OBVIOUS
    <2>1. EndsOnRecord
        BY DEF FifoInv, Layout, EndsOnRecord, End
    <2>2. ASSUME ~late, ~refused, Waits, feedback = tx.feedback_seq,
                 \A i \in 1 .. Len(wire) : ~wire[i].reply
          PROVE  FALSE
        <3>1. Typed /\ Window /\ Answers /\ Asked
            BY <2>2 DEF FifoInv, AskInv
        <3> DEFINE a == tx.request_seq
        <3>2. tx.feedback_seq = a
            BY <2>2, <3>1 DEF Answers
        <3>3. /\ a \in Seqs /\ EndOf(a) \in 0 .. B /\ Since(a) = Ago(tx.next_seq, a)
              /\ want \in 0 .. B /\ tx.next_offset \in 0 .. B /\ B \in Nat /\ Q \in Nat
              /\ Since(tx.rollover_seq) = Ago(tx.next_seq, tx.rollover_seq)
            BY <3>1, RequestTypes, SeqTypes
        <3>4. Ago(tx.next_seq, a) \in 1 .. Q \div 2 + 1
            BY <3>1 DEF Asked
        <3>5. ~(Since(tx.feedback_seq) >= Q)
            <4>1. Q \div 2 + 1 < Q
                BY <3>3
            <4> QED BY <3>2, <3>3, <3>4, <4>1
        <3>6. ~RestFits /\ ~FreedFits /\ want <= MaxChunk
            BY <2>2, <3>5 DEF Waits
        <3>7. CASE tx.rollover_seq = tx.next_seq
            <4>1. tx.next_offset = 0 /\ EndOf(a) >= MaxChunk
                BY <3>1, <3>7 DEF Asked
            <4>2. ~CaughtUp
                BY <3>1, <3>2, <3>3, <3>4, <3>7, RequestTypes DEF CaughtUp
            <4>3. Wrapped.next_offset = 0
                BY <4>1, <4>2 DEF Wrapped
            <4> QED BY <3>2, <3>3, <3>6, <4>1, <4>3, HalfBuffer DEF FreedFits
        <3>8. CASE tx.rollover_seq # tx.next_seq
            <4>1. Current(a) /\ tx.next_offset - EndOf(a) \in 0 .. Interval
                BY <3>1, <3>8 DEF Asked
            <4>2. CaughtUp
                BY <3>2, <3>3, <4>1 DEF CaughtUp, Current
            <4>3. tx.next_offset + want > B
                BY <3>3, <3>6, <4>2 DEF RestFits
            <4>4. Wrapped.next_offset = 0
                BY <3>1, <4>2, SeqTypes DEF Wrapped, Fifo
            <4>5. want <= EndOf(a)
                BY <3>3, <3>6, <4>1, <4>3, HalfBuffer
            <4> QED BY <3>2, <3>3, <3>6, <4>4, <4>5 DEF FreedFits
        <3> QED BY <3>7, <3>8
    <2> QED BY <2>1, <2>2 DEF AnswerOnItsWay
<1>2. Init => AskInv
    BY AskFresh DEF AskInv
<1> QED BY <1>1, <1>2, InitInv, NextInv, NextAsk, PTL DEF Spec
=============================================================================
