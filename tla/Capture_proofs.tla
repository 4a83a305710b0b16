--------------------------- MODULE Capture_proofs ---------------------------
(***************************************************************************)
(* Proofs about Capture: for any number of capture programs on one         *)
(* interface, any command lines, and any times, what is saved and where,   *)
(* and what the interface is left as.                                      *)
(*                                                                         *)
(* What holds of one program is said of its options o, its main's          *)
(* variables r and its streams s: no program touches those of another.     *)
(***************************************************************************)
EXTENDS Capture, TLAPS

Points == {"open", "start", "acquire", "query", "enable", "loop", "rotate", "reopen", "write",
           "disable", "release", "exit"}
Mains == [pc : Points, run : BOOLEAN, set_promisc : BOOLEAN, savefp : Nat \cup {NULL},
          file_no : Nat, now : Nat, next_rotation_time : Nat, taken : Nat, failed : BOOLEAN]
Frames == [n : Nat, at : Nat]
Streams == [opened : Nat, frames : Seq(Frames)]

\* What the variables hold.
Typed ==
    /\ opt \in [Progs -> Options]
    /\ prog \in [Progs -> Mains]
    /\ DOMAIN streams = Progs
    /\ promisc \in BOOLEAN /\ found \in BOOLEAN /\ clock \in Nat

\* The streams of a program are numbered from stdout up to the file opened last;
\* after an error it only releases what it holds.
Numbered(r, s) ==
    /\ DOMAIN s \subseteq 0 .. r.file_no
    /\ \A i \in DOMAIN s : s[i] \in Streams
    /\ r.failed => r.pc \in {"release", "exit"}
    /\ r.pc = "open" => r.savefp = NULL /\ r.file_no = 0

Receiving == {"start", "acquire", "query", "enable", "loop", "rotate", "reopen", "write", "disable"}

\* The file opened at start-up.
First(o, i) == o.save = "file" /\ i = 1

\* t is one of the N seconds that end when rotation is due.
InTurn(o, r, t) == t < r.next_rotation_time /\ r.next_rotation_time <= t + o.rotate_seconds

\* The stream in use is the last one, what it holds was taken up in the N seconds
\* before rotation is due, and these began when the file was opened or before;
\* stdout is left at once, as no time was set for it.
Rotating(o, r, s) ==
    /\ r.pc = "open" => DOMAIN s = {0} /\ r.next_rotation_time = 0
    /\ r.pc \in {"open", "start"} => \A i \in DOMAIN s : Len(s[i].frames) = 0
    /\ r.pc = "start" => First(o, r.savefp)
    /\ r.pc \in Receiving /\ o.save # "none" => r.savefp # NULL
    /\ r.pc \in {"rotate", "reopen", "write"} => r.savefp # NULL
    /\ r.pc = "reopen" => o.rotate_seconds > 0
    /\ r.pc \in Receiving /\ r.savefp # NULL =>
           /\ r.savefp \in DOMAIN s
           /\ \A i \in DOMAIN s : i <= r.savefp
           /\ r.savefp = 0 => r.next_rotation_time = 0
           /\ r.savefp # 0 =>
                  \/ r.next_rotation_time <= s[r.savefp].opened + o.rotate_seconds
                  \/ First(o, r.savefp)
           /\ o.rotate_seconds > 0 =>
                  \A j \in 1 .. Len(s[r.savefp].frames) : InTurn(o, r, s[r.savefp].frames[j].at)
    /\ r.pc = "write" /\ o.rotate_seconds > 0 => InTurn(o, r, r.now)

\* SavedUpTo of the streams s, in its two parts.
Has(s, last) ==
    \A n \in 1 .. last : \E i \in DOMAIN s : \E j \in DOMAIN s[i].frames :
        s[i].frames[j].n = n
InOrder(s, last) ==
    \A i \in DOMAIN s : \A j \in DOMAIN s[i].frames :
        /\ s[i].frames[j].n \in 1 .. last
        /\ \A k \in DOMAIN s : \A l \in DOMAIN s[k].frames :
               i < k \/ (i = k /\ j < l) => s[i].frames[j].n < s[k].frames[l].n
Saved(s, last) == Has(s, last) /\ InOrder(s, last)

\* How many of the frames taken are in the streams, by where the program is.
SavedSoFar(o, r, s) ==
    o.save # "none" =>
        /\ r.pc \in {"rotate", "reopen", "write"} => r.taken > 0 /\ Saved(s, r.taken - 1)
        /\ r.pc \notin {"rotate", "reopen", "write"} =>
               Saved(s, r.taken) \/ (r.failed /\ Saved(s, r.taken - 1))

Spans(o, s) ==
    o.rotate_seconds > 0 =>
        \A i \in DOMAIN s : \A j \in 1 .. Len(s[i].frames) :
            /\ \A k \in 1 .. Len(s[i].frames) :
                   s[i].frames[k].at < s[i].frames[j].at + o.rotate_seconds
            /\ s[i].frames[j].at < s[i].opened + o.rotate_seconds \/ First(o, i)

Good(o, r, s) == Numbered(r, s) /\ Rotating(o, r, s) /\ SavedSoFar(o, r, s) /\ Spans(o, s)

\* A program with the promiscuous flag to undo has set it, or found it clear.
MayUndo(r) ==
    /\ r.set_promisc
    /\ r.pc \in {"loop", "rotate", "reopen", "write", "disable"} \/ r.failed

\* If the flag was set before, nobody means to clear it; otherwise, if it is set,
\* somebody does.
FlagOwned ==
    /\ found => promisc /\ \A p \in Progs : ~prog[p].set_promisc
    /\ ~found /\ promisc => \E p \in Progs : MayUndo(prog[p])

\* The clock never goes back: what a program has read of it is past, and its next
\* rotation N seconds from now at most.
InTime(o, r, t) == r.now <= t /\ r.next_rotation_time <= t + o.rotate_seconds

AllGood ==
    \A p \in Progs : Good(opt[p], prog[p], streams[p]) /\ InTime(opt[p], prog[p], clock)

CaptureInv == Typed /\ FlagOwned /\ AllGood

-----------------------------------------------------------------------------
\* The command line of a program has the fields the code reads.
LEMMA OptionFields ==
    ASSUME NEW o \in Options
    PROVE  o.save \in {"none", "stdout", "file"} /\ o.rotate_seconds \in Nat /\ o.promisc \in BOOLEAN
BY CaptureAssumption

\* What SavedUpTo says of a program is what Saved says of its streams.
LEMMA SavedMeaning ==
    ASSUME NEW p, NEW last
    PROVE  SavedUpTo(p, last) <=> Saved(streams[p], last)
BY DEF SavedUpTo, Saved, Has, InOrder, Number

\* A step from r to c that takes up no frame and leaves the streams alone, between
\* two points of main where no frame is in hand.
Quiet(r, c) ==
    /\ c.taken = r.taken /\ c.file_no = r.file_no
    /\ c.next_rotation_time = r.next_rotation_time /\ c.now = r.now
    /\ r.failed => c.failed
    /\ c.failed => c.pc \in {"release", "exit"}
    /\ r.pc \notin {"open", "start", "rotate", "reopen", "write"}
    /\ c.pc \notin {"open", "start", "rotate", "reopen", "write"}
    /\ c.pc \in Receiving => r.pc \in Receiving /\ c.savefp = r.savefp

\* Such a step keeps all that holds of the program.
LEMMA QuietKeeps ==
    ASSUME NEW o \in Options, NEW r \in Mains, NEW c \in Mains, NEW s,
           Good(o, r, s), Quiet(r, c)
    PROVE  Good(o, c, s)
<1>1. Numbered(c, s)
  BY DEF Good, Numbered, Quiet
<1>2. Rotating(o, c, s)
  BY DEF Good, Rotating, InTurn, Quiet
<1>3. SavedSoFar(o, c, s)
  BY DEF Good, SavedSoFar, Quiet
<1>4. QED
  BY <1>1, <1>2, <1>3 DEF Good

\* The signal handler changes run, which none of it depends on.
LEMMA SignalKeeps ==
    ASSUME NEW o, NEW r \in Mains, NEW s, Good(o, r, s)
    PROVE  Good(o, [r EXCEPT !.run = FALSE], s)
<1> DEFINE c == [r EXCEPT !.run = FALSE]
<1>1. /\ c.pc = r.pc /\ c.savefp = r.savefp /\ c.file_no = r.file_no /\ c.now = r.now
      /\ c.next_rotation_time = r.next_rotation_time /\ c.taken = r.taken
      /\ c.failed = r.failed
  BY DEF Mains
<1> HIDE DEF c
<1>2. Good(o, c, s)
  BY <1>1 DEF Good, Numbered, Rotating, InTurn, SavedSoFar
<1>3. QED
  BY <1>2 DEF c

\* A frame received is in hand until it is written, if there is a stream for it.
LEMMA ReceiveKeeps ==
    ASSUME NEW o \in Options, NEW r \in Mains, NEW c \in Mains, NEW s,
           Good(o, r, s), r.pc = "loop",
           c = [r EXCEPT !.pc = IF r.savefp = NULL THEN "loop" ELSE "rotate",
                         !.taken = r.taken + 1]
    PROVE  Good(o, c, s)
<1>1. /\ c.savefp = r.savefp /\ c.file_no = r.file_no /\ c.failed = r.failed
      /\ c.next_rotation_time = r.next_rotation_time
      /\ c.taken = r.taken + 1 /\ r.taken \in Nat
      /\ r.savefp = NULL => c.pc = "loop"
      /\ r.savefp # NULL => c.pc = "rotate"
  BY DEF Mains
<1>2. ~r.failed
  BY DEF Good, Numbered
<1>3. Numbered(c, s)
  BY <1>1, <1>2 DEF Good, Numbered
<1>4. Rotating(o, c, s)
  BY <1>1 DEF Good, Rotating, InTurn, Receiving
<1>5. SavedSoFar(o, c, s)
  <2>1. SUFFICES ASSUME o.save # "none" PROVE SavedSoFar(o, c, s)
    BY DEF SavedSoFar
  <2>2. c.pc = "rotate"
    BY <1>1, <2>1 DEF Good, Rotating, Receiving
  <2>3. c.taken - 1 = r.taken /\ c.taken > 0
    BY <1>1
  <2>4. Saved(s, r.taken)
    BY <1>2, <2>1 DEF Good, SavedSoFar
  <2>5. QED
    BY <2>2, <2>3, <2>4 DEF SavedSoFar
<1>6. QED
  BY <1>3, <1>4, <1>5 DEF Good

-----------------------------------------------------------------------------
\* The streams after rotate_file: one more, empty, with the next number.
WithFile(s, no, t) ==
    [i \in DOMAIN s \cup {no} |->
        IF i = no THEN [opened |-> t, frames |-> <<>>] ELSE s[i]]

\* A new file holds nothing and takes the place of no other: the frames saved stay
\* saved, and in order.
LEMMA FileSaved ==
    ASSUME NEW s, NEW u, NEW no, NEW last, no \notin DOMAIN s, Saved(s, last),
           DOMAIN u = DOMAIN s \cup {no}, \A i \in DOMAIN s : u[i] = s[i],
           DOMAIN u[no].frames = {}
    PROVE  Saved(u, last)
<1>1. Has(u, last)
  BY DEF Saved, Has
<1>2. \A i \in DOMAIN u : \A j \in DOMAIN u[i].frames : i \in DOMAIN s /\ u[i] = s[i]
  OBVIOUS
<1>3. InOrder(u, last)
  BY <1>2 DEF Saved, InOrder
<1>4. QED
  BY <1>1, <1>3 DEF Saved

\* main's variables after rotate_file opened the file.
Rotated(r, no, next, time) ==
    [r EXCEPT !.pc = next, !.savefp = no, !.file_no = no, !.next_rotation_time = time]

\* Where main calls rotate_file, at the time t: at start-up, or with a frame in hand
\* that found rotation due at the time r.now.
Rotates(o, r, next, time, t) ==
    \/ /\ r.pc = "open" /\ o.save = "file"
       /\ next = (IF o.rotate_seconds > 0 THEN "start" ELSE "acquire")
       /\ time = r.next_rotation_time
    \/ /\ r.pc = "reopen" /\ next = "write"
       /\ time = r.now + o.rotate_seconds /\ r.now <= t

\* rotate_file when the file can be opened.
LEMMA RotatedKeeps ==
    ASSUME NEW o \in Options, NEW r \in Mains, NEW s, NEW t \in Nat, NEW next, NEW time,
           NEW no \in Nat, no = r.file_no + 1,
           Good(o, r, s), Rotates(o, r, next, time, t)
    PROVE  /\ Good(o, Rotated(r, no, next, time), WithFile(s, no, t))
           /\ Rotated(r, no, next, time) \in Mains
           /\ time <= t + o.rotate_seconds
<1> DEFINE c == Rotated(r, no, next, time)
           u == WithFile(s, no, t)
<1>1. o.rotate_seconds \in Nat /\ r.now \in Nat /\ r.file_no \in Nat
  BY OptionFields DEF Mains
<1>14. /\ time \in Nat /\ time <= t + o.rotate_seconds
       /\ next \in {"start", "acquire", "write"}
       /\ next = "start" => r.pc = "open" /\ First(o, no)
       /\ next = "write" => r.pc = "reopen" /\ time = r.now + o.rotate_seconds
       /\ next # "write" => r.pc = "open"
  <2>1. CASE r.pc = "open" /\ o.save = "file" /\ time = r.next_rotation_time
             /\ next = (IF o.rotate_seconds > 0 THEN "start" ELSE "acquire")
    <3>1. r.file_no = 0 /\ r.next_rotation_time = 0
      BY <2>1 DEF Good, Numbered, Rotating
    <3>2. QED
      BY <1>1, <2>1, <3>1 DEF First
  <2>2. CASE /\ r.pc = "reopen" /\ next = "write"
             /\ time = r.now + o.rotate_seconds /\ r.now <= t
    BY <1>1, <2>2
  <2>3. QED
    BY <2>1, <2>2 DEF Rotates
<1>2. c \in Mains
  <2>1. next \in Points
    BY <1>14 DEF Points
  <2>2. QED
    BY <1>14, <2>1 DEF Mains, Rotated
<1>3. /\ c.pc = next /\ c.savefp = no /\ c.file_no = no /\ c.failed = r.failed
      /\ c.taken = r.taken /\ c.next_rotation_time = time /\ c.now = r.now
  BY DEF Mains, Rotated
<1>4. no \in Nat /\ no > r.file_no /\ no # 0 /\ no # NULL
  BY <1>1 DEF NULL
<1>5. no \notin DOMAIN s
  BY <1>1, <1>4 DEF Good, Numbered
<1>6. \A i \in DOMAIN s : i \in 0 .. r.file_no /\ i <= no
  BY <1>1, <1>4 DEF Good, Numbered
<1>7. /\ DOMAIN u = DOMAIN s \cup {no}
      /\ \A i \in DOMAIN s : u[i] = s[i]
      /\ u[no] \in Streams /\ u[no].opened = t
      /\ DOMAIN u[no].frames = {} /\ Len(u[no].frames) = 0
  <2>1. DOMAIN u = DOMAIN s \cup {no} /\ \A i \in DOMAIN s : u[i] = s[i]
    BY <1>5 DEF WithFile
  <2>2. u[no] = [opened |-> t, frames |-> <<>>]
    BY DEF WithFile
  <2>3. <<>> \in Seq(Frames) /\ Len(<<>>) = 0 /\ DOMAIN <<>> = {}
    OBVIOUS
  <2> HIDE DEF u
  <2>4. u[no] \in Streams
    BY <2>2, <2>3 DEF Streams
  <2>5. QED
    BY <2>1, <2>2, <2>3, <2>4
<1>8. ~r.failed
  BY <1>14 DEF Good, Numbered
<1> HIDE DEF c, u
<1>9. Numbered(c, u)
  <2>1. DOMAIN u \subseteq 0 .. c.file_no
    BY <1>3, <1>4, <1>6, <1>7 DEF Mains
  <2>2. QED
    BY <1>3, <1>7, <1>8, <1>14, <2>1 DEF Good, Numbered
<1>10. Rotating(o, c, u)
  <2>1. c.savefp \in DOMAIN u /\ \A i \in DOMAIN u : i <= c.savefp
    BY <1>3, <1>4, <1>6, <1>7
  <2>2. c.next_rotation_time <= u[c.savefp].opened + o.rotate_seconds
    BY <1>3, <1>7, <1>14
  <2>3. next = "write" /\ o.rotate_seconds > 0 => InTurn(o, c, c.now)
    BY <1>1, <1>3, <1>14 DEF InTurn
  <2>4. next = "start" => /\ First(o, c.savefp)
                          /\ \A i \in DOMAIN u : Len(u[i].frames) = 0
    BY <1>3, <1>7, <1>14 DEF Good, Rotating
  <2>5. \A j \in 1 .. Len(u[c.savefp].frames) : FALSE
    BY <1>3, <1>7
  <2>6. QED
    BY <1>3, <1>4, <1>14, <2>1, <2>2, <2>3, <2>4, <2>5 DEF Rotating
<1>11. SavedSoFar(o, c, u)
  <2>1. \A last : Saved(s, last) => Saved(u, last)
    BY <1>5, <1>7, FileSaved
  <2>2. QED
    BY <1>3, <1>8, <1>14, <2>1 DEF Good, SavedSoFar
<1>12. Spans(o, u)
  <2>1. SUFFICES ASSUME o.rotate_seconds > 0,
                        NEW i \in DOMAIN u, NEW j \in 1 .. Len(u[i].frames)
                 PROVE  /\ \A k \in 1 .. Len(u[i].frames) :
                               u[i].frames[k].at < u[i].frames[j].at + o.rotate_seconds
                        /\ \/ u[i].frames[j].at < u[i].opened + o.rotate_seconds
                           \/ First(o, i)
    BY DEF Spans
  <2>2. i # no
    BY <1>7
  <2>3. i \in DOMAIN s /\ u[i] = s[i]
    BY <1>7, <2>2
  <2>4. QED
    BY <2>1, <2>3 DEF Good, Spans
<1>13. QED
  BY <1>2, <1>9, <1>10, <1>11, <1>12, <1>14 DEF Good, c, u

\* And when it cannot: the program leaves, its streams as they were.
LEMMA RotateFailedKeeps ==
    ASSUME NEW o \in Options, NEW r \in Mains, NEW s, NEW c,
           Good(o, r, s), r.pc \in {"open", "reopen"},
           c = [r EXCEPT !.pc = "release", !.failed = TRUE, !.savefp = NULL,
                         !.file_no = r.file_no + 1]
    PROVE  Good(o, c, s) /\ c \in Mains
<1>1. c \in Mains
  <2>1. r.file_no + 1 \in Nat /\ "release" \in Points
    BY DEF Mains, Points
  <2>2. QED
    BY <2>1 DEF Mains
<1>2. /\ c.pc = "release" /\ c.failed /\ c.file_no = r.file_no + 1 /\ c.taken = r.taken
      /\ r.file_no \in Nat
  BY DEF Mains
<1>3. Numbered(c, s)
  BY <1>2 DEF Good, Numbered
<1>4. Rotating(o, c, s)
  BY <1>2 DEF Rotating, Receiving
<1>5. SavedSoFar(o, c, s)
  BY <1>2 DEF Good, SavedSoFar
<1>6. QED
  BY <1>1, <1>3, <1>4, <1>5 DEF Good

\* main's variables when the time has been read for a frame.
TakenUp(r, next, t) == [r EXCEPT !.pc = next, !.now = t]

\* The frame is taken up for the file in use if rotation is not due, which is at most
\* N seconds away; otherwise for the next file.
LEMMA TakenUpKeeps ==
    ASSUME NEW o \in Options, NEW r \in Mains, NEW s, NEW t \in Nat, NEW next,
           Good(o, r, s), InTime(o, r, t), r.pc = "rotate",
           next = IF o.rotate_seconds > 0 /\ t >= r.next_rotation_time THEN "reopen" ELSE "write"
    PROVE  /\ Good(o, TakenUp(r, next, t), s) /\ TakenUp(r, next, t) \in Mains
           /\ InTime(o, TakenUp(r, next, t), t)
<1> DEFINE c == TakenUp(r, next, t)
<1>1. c \in Mains
  <2>1. next \in Points
    BY DEF Points
  <2>2. QED
    BY <2>1 DEF Mains, TakenUp
<1>2. /\ c.pc = next /\ c.savefp = r.savefp /\ c.file_no = r.file_no /\ c.now = t
      /\ c.next_rotation_time = r.next_rotation_time /\ c.taken = r.taken
      /\ c.failed = r.failed
  BY DEF Mains, TakenUp
<1> HIDE DEF c
<1>3. Numbered(c, s)
  <2>1. ~r.failed
    BY DEF Good, Numbered
  <2>2. QED
    BY <1>2, <2>1 DEF Good, Numbered
<1>4. next = "write" /\ o.rotate_seconds > 0 => InTurn(o, c, t)
  BY <1>2, OptionFields DEF InTime, InTurn, Mains
<1>5. next \in {"reopen", "write"} /\ (next = "reopen" => o.rotate_seconds > 0)
  OBVIOUS
<1>6. Rotating(o, c, s)
  BY <1>2, <1>4, <1>5 DEF Good, Rotating, InTurn, Receiving
<1>7. SavedSoFar(o, c, s)
  BY <1>2, <1>5 DEF Good, SavedSoFar
<1>8. InTime(o, c, t)
  BY <1>2 DEF InTime
<1>9. QED
  BY <1>1, <1>3, <1>6, <1>7, <1>8 DEF Good, c

\* main's variables when the first rotation has been set.
Started(o, r, t) == [r EXCEPT !.pc = "acquire", !.next_rotation_time = t + o.rotate_seconds]

\* The N seconds of the first file begin when the time is read; it is still empty.
LEMMA StartedKeeps ==
    ASSUME NEW o \in Options, NEW r \in Mains, NEW s, NEW t \in Nat,
           Good(o, r, s), r.pc = "start"
    PROVE  Good(o, Started(o, r, t), s) /\ Started(o, r, t) \in Mains
<1> DEFINE c == Started(o, r, t)
<1>1. c \in Mains
  <2>1. t + o.rotate_seconds \in Nat /\ "acquire" \in Points
    BY OptionFields DEF Points
  <2>2. QED
    BY <2>1 DEF Mains, Started
<1>2. /\ c.pc = "acquire" /\ c.savefp = r.savefp /\ c.file_no = r.file_no
      /\ c.taken = r.taken /\ c.failed = r.failed
  BY DEF Mains, Started
<1> HIDE DEF c
<1>3. ~r.failed
  BY DEF Good, Numbered
<1>4. Numbered(c, s)
  BY <1>2, <1>3 DEF Good, Numbered
<1>5. /\ First(o, r.savefp) /\ r.savefp # 0 /\ r.savefp # NULL
      /\ r.savefp \in DOMAIN s /\ \A i \in DOMAIN s : i <= r.savefp
      /\ Len(s[r.savefp].frames) = 0
  BY DEF Good, Rotating, Receiving, First, NULL
<1>6. \A j \in 1 .. Len(s[r.savefp].frames) : FALSE
  BY <1>5
<1>7. Rotating(o, c, s)
  BY <1>2, <1>5, <1>6 DEF Rotating
<1>8. SavedSoFar(o, c, s)
  BY <1>2, <1>3 DEF Good, SavedSoFar
<1>9. QED
  BY <1>1, <1>4, <1>7, <1>8 DEF Good, c

-----------------------------------------------------------------------------
\* write_packet: the frame f at the end of the stream k.
WithFrame(s, u, k, f) ==
    /\ DOMAIN u = DOMAIN s
    /\ \A i \in DOMAIN s : i # k => u[i] = s[i]
    /\ u[k] = [s[k] EXCEPT !.frames = Append(s[k].frames, f)]

\* What was in the streams is where it was; the frame is behind it.
Behind(s, u, k, f) ==
    /\ \A i \in DOMAIN u : u[i] \in Streams /\ u[i].opened = s[i].opened
    /\ \A i \in DOMAIN s : \A j \in DOMAIN s[i].frames :
           j \in DOMAIN u[i].frames /\ u[i].frames[j] = s[i].frames[j]
    /\ Len(s[k].frames) + 1 \in DOMAIN u[k].frames
    /\ u[k].frames[Len(s[k].frames) + 1] = f
    /\ \A i \in DOMAIN u : \A j \in DOMAIN u[i].frames :
           j \in DOMAIN s[i].frames \/ (i = k /\ j = Len(s[k].frames) + 1)

\* Writing the frame puts it there.
LEMMA FrameFields ==
    ASSUME NEW s, NEW u, NEW k \in DOMAIN s, NEW f \in Frames,
           \A i \in DOMAIN s : s[i] \in Streams, WithFrame(s, u, k, f)
    PROVE  Behind(s, u, k, f)
<1> DEFINE q == s[k].frames
           a == Append(q, f)
<1>1. s[k] \in Streams /\ q \in Seq(Frames)
  BY DEF Streams
<1>2. /\ a \in Seq(Frames) /\ Len(q) \in Nat
      /\ DOMAIN q = 1 .. Len(q) /\ DOMAIN a = 1 .. Len(q) + 1
      /\ \A j \in 1 .. Len(q) : a[j] = q[j]
      /\ a[Len(q) + 1] = f
  BY <1>1
<1>3. u[k].frames = a /\ u[k].opened = s[k].opened /\ u[k] \in Streams
  BY <1>1, <1>2 DEF WithFrame, Streams
<1> HIDE DEF a
<1>4. \A i \in DOMAIN u : u[i] \in Streams /\ u[i].opened = s[i].opened
  BY <1>3 DEF WithFrame
<1>5. \A i \in DOMAIN s : \A j \in DOMAIN s[i].frames :
          j \in DOMAIN u[i].frames /\ u[i].frames[j] = s[i].frames[j]
  <2>1. \A j \in DOMAIN q : j \in DOMAIN a /\ a[j] = q[j]
    BY <1>2
  <2>2. QED
    BY <1>3, <2>1 DEF WithFrame
<1>6. Len(q) + 1 \in DOMAIN u[k].frames /\ u[k].frames[Len(q) + 1] = f
  BY <1>2, <1>3
<1>7. \A i \in DOMAIN u : \A j \in DOMAIN u[i].frames :
          j \in DOMAIN s[i].frames \/ (i = k /\ j = Len(q) + 1)
  <2>1. \A j \in DOMAIN a : j \in DOMAIN q \/ j = Len(q) + 1
    BY <1>2
  <2>2. QED
    BY <1>3, <2>1 DEF WithFrame
<1>8. QED
  BY <1>4, <1>5, <1>6, <1>7 DEF Behind

\* So a frame numbered next after those saved, written to the last stream, is saved
\* in its turn.
LEMMA FrameSaved ==
    ASSUME NEW s, NEW u, NEW k \in DOMAIN s, NEW f \in Frames, NEW last \in Nat,
           \A i \in DOMAIN s : s[i] \in Streams /\ i \in Nat /\ i <= k,
           WithFrame(s, u, k, f), f.n = last + 1, Saved(s, last)
    PROVE  Saved(u, last + 1)
<1> DEFINE m == Len(s[k].frames)
<1>1. /\ \A i \in DOMAIN s : \A j \in DOMAIN s[i].frames :
             j \in DOMAIN u[i].frames /\ u[i].frames[j] = s[i].frames[j]
      /\ m + 1 \in DOMAIN u[k].frames /\ u[k].frames[m + 1] = f
      /\ \A i \in DOMAIN u : \A j \in DOMAIN u[i].frames :
             j \in DOMAIN s[i].frames \/ (i = k /\ j = m + 1)
  <2>1. Behind(s, u, k, f)
    BY FrameFields
  <2>2. QED
    BY <2>1 DEF Behind
<1>2. DOMAIN u = DOMAIN s
  BY DEF WithFrame
<1>3. m \in Nat /\ \A j \in DOMAIN s[k].frames : j \in 1 .. m
  BY DEF Streams
<1>4. Has(u, last + 1)
  <2>1. SUFFICES ASSUME NEW n \in 1 .. last + 1
                 PROVE  \E i \in DOMAIN u : \E j \in DOMAIN u[i].frames :
                            u[i].frames[j].n = n
    BY DEF Has
  <2>2. CASE n = last + 1
    BY <1>1, <1>2, <2>2
  <2>3. CASE n # last + 1
    <3>1. n \in 1 .. last
      BY <2>3
    <3>2. PICK i \in DOMAIN s : \E j \in DOMAIN s[i].frames : s[i].frames[j].n = n
      BY <3>1 DEF Saved, Has
    <3>3. QED
      BY <1>1, <1>2, <3>2
  <2>4. QED
    BY <2>2, <2>3
<1>5. InOrder(u, last + 1)
  <2>1. SUFFICES ASSUME NEW i \in DOMAIN u, NEW j \in DOMAIN u[i].frames
                 PROVE  /\ u[i].frames[j].n \in 1 .. last + 1
                        /\ \A h \in DOMAIN u : \A l \in DOMAIN u[h].frames :
                               i < h \/ (i = h /\ j < l)
                                   => u[i].frames[j].n < u[h].frames[l].n
    BY DEF InOrder
  <2>2. CASE j \in DOMAIN s[i].frames
    <3>1. s[i].frames[j].n \in 1 .. last /\ u[i].frames[j] = s[i].frames[j]
      BY <1>1, <1>2, <2>2 DEF Saved, InOrder
    <3>2. SUFFICES ASSUME NEW h \in DOMAIN u, NEW l \in DOMAIN u[h].frames,
                          i < h \/ (i = h /\ j < l)
                   PROVE  u[i].frames[j].n < u[h].frames[l].n
      BY <3>1
    <3>3. CASE l \in DOMAIN s[h].frames
      <4>1. s[i].frames[j].n < s[h].frames[l].n
        BY <1>2, <2>2, <3>2, <3>3 DEF Saved, InOrder
      <4>2. QED
        BY <1>1, <1>2, <3>1, <3>3, <4>1
    <3>4. CASE h = k /\ l = m + 1
      <4>1. u[h].frames[l].n = last + 1
        BY <1>1, <3>4
      <4>2. QED
        BY <3>1, <4>1
    <3>5. QED
      BY <1>1, <3>3, <3>4
  <2>3. CASE i = k /\ j = m + 1
    <3>1. u[i].frames[j].n = last + 1
      BY <1>1, <2>3
    <3>2. ASSUME NEW h \in DOMAIN u, NEW l \in DOMAIN u[h].frames,
                 i < h \/ (i = h /\ j < l)
          PROVE  FALSE
      <4>1. h \in Nat /\ h <= k /\ k \in Nat
        BY <1>2
      <4>2. h = k /\ m + 1 < l
        BY <2>3, <3>2, <4>1
      <4>3. l \in 1 .. m \/ l = m + 1
        BY <1>1, <1>3, <4>2
      <4>4. QED
        BY <1>3, <4>2, <4>3
    <3>3. QED
      BY <3>1, <3>2
  <2>4. QED
    BY <1>1, <2>2, <2>3
<1>6. QED
  BY <1>4, <1>5 DEF Saved

\* The frame in hand, and main's variables when it is written.
InHandOf(r) == [n |-> r.taken, at |-> r.now]
Written(r) == [r EXCEPT !.pc = "loop", !.now = 0]

\* write_packet saves the frame in hand.
LEMMA WriteKeeps ==
    ASSUME NEW o \in Options, NEW r \in Mains, NEW s, NEW u,
           Good(o, r, s), r.pc = "write", WithFrame(s, u, r.savefp, InHandOf(r))
    PROVE  Good(o, Written(r), u) /\ Written(r) \in Mains
<1> DEFINE k == r.savefp
           c == Written(r)
           f == InHandOf(r)
<1>1. c \in Mains
  BY DEF Mains, Points, Written
<1>2. /\ c.pc = "loop" /\ c.savefp = r.savefp /\ c.file_no = r.file_no
      /\ c.next_rotation_time = r.next_rotation_time /\ c.taken = r.taken
      /\ c.failed = r.failed
  BY DEF Mains, Written
<1>3. f \in Frames /\ f.n = r.taken /\ f.at = r.now
  BY DEF Mains, Frames, InHandOf
<1> HIDE DEF c, f
<1>4. /\ k \in DOMAIN s /\ k # NULL /\ \A i \in DOMAIN s : i <= k
      /\ k # 0 => \/ r.next_rotation_time <= s[k].opened + o.rotate_seconds
                  \/ First(o, k)
      /\ k = 0 => r.next_rotation_time = 0
      /\ o.rotate_seconds > 0 =>
             \A j \in 1 .. Len(s[k].frames) : InTurn(o, r, s[k].frames[j].at)
      /\ o.rotate_seconds > 0 => InTurn(o, r, r.now)
  BY DEF Good, Rotating, Receiving
<1>5. \A i \in DOMAIN s : s[i] \in Streams /\ i \in Nat /\ i \in 0 .. r.file_no
  BY DEF Good, Numbered, Mains
<1>6. DOMAIN u = DOMAIN s
  BY DEF WithFrame, f
<1>7. /\ \A i \in DOMAIN u : u[i] \in Streams /\ u[i].opened = s[i].opened
      /\ \A i \in DOMAIN s : \A j \in DOMAIN s[i].frames :
             j \in DOMAIN u[i].frames /\ u[i].frames[j] = s[i].frames[j]
      /\ u[k].frames[Len(s[k].frames) + 1] = f
      /\ \A i \in DOMAIN u : \A j \in DOMAIN u[i].frames :
             j \in DOMAIN s[i].frames \/ (i = k /\ j = Len(s[k].frames) + 1)
  <2>1. Behind(s, u, k, f)
    BY <1>3, <1>4, <1>5, FrameFields DEF f
  <2>2. QED
    BY <2>1 DEF Behind
<1>8. Numbered(c, u)
  BY <1>2, <1>6, <1>7 DEF Good, Numbered
<1>13. /\ s[k] \in Streams /\ u[k] \in Streams
       /\ s[k].frames \in Seq(Frames) /\ u[k].frames \in Seq(Frames)
  BY <1>4, <1>5, <1>6, <1>7 DEF Streams
<1>14. o.rotate_seconds > 0 =>
           \A j \in 1 .. Len(u[k].frames) : InTurn(o, r, u[k].frames[j].at)
  <2>1. SUFFICES ASSUME o.rotate_seconds > 0, NEW j \in 1 .. Len(u[k].frames)
                 PROVE  InTurn(o, r, u[k].frames[j].at)
    OBVIOUS
  <2>2. CASE j \in DOMAIN s[k].frames
    <3>1. j \in 1 .. Len(s[k].frames)
      BY <1>13, <2>2
    <3>2. u[k].frames[j] = s[k].frames[j]
      BY <1>4, <1>7, <2>2
    <3>3. QED
      BY <1>4, <2>1, <3>1, <3>2
  <2>3. CASE j = Len(s[k].frames) + 1
    BY <1>3, <1>4, <1>7, <2>1, <2>3
  <2>4. QED
    <3>1. j \in DOMAIN u[k].frames
      BY <1>13
    <3>2. QED
      BY <1>4, <1>6, <1>7, <2>2, <2>3, <3>1
<1>9. Rotating(o, c, u)
  BY <1>2, <1>4, <1>6, <1>7, <1>14 DEF Rotating, InTurn
<1>10. SavedSoFar(o, c, u)
  <2>1. SUFFICES ASSUME o.save # "none" PROVE Saved(u, r.taken)
    BY <1>2 DEF SavedSoFar
  <2>2. PICK last \in Nat : r.taken = last + 1 /\ r.taken - 1 = last
    <3>1. r.taken \in Nat /\ r.taken > 0
      BY <2>1 DEF Good, SavedSoFar, Mains
    <3>2. r.taken - 1 \in Nat /\ r.taken = (r.taken - 1) + 1
      BY <3>1
    <3>3. QED
      BY <3>2
  <2>3. Saved(s, last)
    BY <2>1, <2>2 DEF Good, SavedSoFar
  <2>4. QED
    BY <1>3, <1>4, <1>5, <2>2, <2>3, FrameSaved DEF f
<1>11. Spans(o, u)
  <2>1. SUFFICES ASSUME o.rotate_seconds > 0,
                        NEW i \in DOMAIN u, NEW j \in 1 .. Len(u[i].frames)
                 PROVE  /\ \A h \in 1 .. Len(u[i].frames) :
                               u[i].frames[h].at < u[i].frames[j].at + o.rotate_seconds
                        /\ \/ u[i].frames[j].at < u[i].opened + o.rotate_seconds
                           \/ First(o, i)
    BY DEF Spans
  <2>2. o.rotate_seconds \in Nat /\ r.next_rotation_time \in Nat /\ i \in DOMAIN s
    BY <1>6, OptionFields DEF Mains
  <2>3. /\ u[i].frames \in Seq(Frames) /\ u[i].opened \in Nat
        /\ \A h \in 1 .. Len(u[i].frames) : u[i].frames[h].at \in Nat
    <3>1. u[i].frames \in Seq(Frames) /\ u[i].opened \in Nat
      BY <1>7 DEF Streams
    <3>2. \A h \in 1 .. Len(u[i].frames) : u[i].frames[h] \in Frames
      BY <3>1
    <3>3. QED
      BY <3>1, <3>2 DEF Frames
  <2>4. CASE i = k
    <3>1. \A h \in 1 .. Len(u[i].frames) : InTurn(o, r, u[i].frames[h].at)
      BY <1>14, <2>1, <2>4
    <3>2. \A h \in 1 .. Len(u[i].frames) :
              u[i].frames[h].at < u[i].frames[j].at + o.rotate_seconds
      BY <2>2, <2>3, <3>1 DEF InTurn
    <3>3. k # 0 /\ u[i].opened = s[k].opened
      <4>1. r.next_rotation_time # 0
        BY <2>2, <2>3, <3>1 DEF InTurn
      <4>2. QED
        BY <1>4, <1>7, <2>4, <4>1
    <3>4. u[i].frames[j].at < u[i].opened + o.rotate_seconds \/ First(o, i)
      BY <1>4, <2>2, <2>3, <2>4, <3>1, <3>3 DEF InTurn
    <3>5. QED
      BY <3>2, <3>4
  <2>5. CASE i # k
    <3>1. u[i] = s[i]
      BY <2>2, <2>5 DEF WithFrame, f
    <3>2. QED
      BY <2>1, <2>2, <3>1 DEF Good, Spans
  <2>6. QED
    BY <2>4, <2>5
<1>12. QED
  BY <1>1, <1>8, <1>9, <1>10, <1>11 DEF Good, c

-----------------------------------------------------------------------------
\* A step of the program p: its main's variables become c, its streams u, and those
\* of the others stay.
Moves(p, c, u) ==
    /\ prog' = [prog EXCEPT ![p] = c]
    /\ DOMAIN streams' = Progs /\ streams'[p] = u
    /\ \A q \in Progs : q # p => streams'[q] = streams[q]
    /\ opt' = opt

\* So what holds of every program goes on holding if it goes on holding of p.
LEMMA OneMoves ==
    ASSUME Typed, AllGood, NEW p \in Progs, NEW c \in Mains, NEW u, Moves(p, c, u),
           Good(opt[p], c, u), InTime(opt[p], c, clock),
           promisc' \in BOOLEAN, found' = found, clock' = clock
    PROVE  Typed' /\ AllGood'
<1>1. Typed'
  BY DEF Typed, Moves
<1>2. prog'[p] = c /\ \A q \in Progs : q # p => prog'[q] = prog[q]
  BY DEF Typed, Moves
<1>3. ASSUME NEW q \in Progs
      PROVE  Good(opt'[q], prog'[q], streams'[q]) /\ InTime(opt'[q], prog'[q], clock')
  <2>1. CASE q = p
    <3>1. opt'[q] = opt[p] /\ prog'[q] = c /\ streams'[q] = u
      BY <1>2, <2>1 DEF Moves
    <3>2. QED
      BY <3>1
  <2>2. CASE q # p
    <3>1. opt'[q] = opt[q] /\ prog'[q] = prog[q] /\ streams'[q] = streams[q]
      BY <1>2, <2>2 DEF Moves
    <3>2. QED
      BY <3>1 DEF AllGood
  <2>3. QED
    BY <2>1, <2>2
<1>4. AllGood'
  BY <1>3 DEF AllGood
<1>5. QED
  BY <1>1, <1>4

\* A step that leaves the flag and what p means to undo alone.
LEMMA FlagLeft ==
    ASSUME Typed, FlagOwned, NEW p \in Progs, NEW c, prog' = [prog EXCEPT ![p] = c],
           c.set_promisc = prog[p].set_promisc, MayUndo(prog[p]) => MayUndo(c),
           promisc' = promisc, found' = found
    PROVE  FlagOwned'
<1>1. prog'[p] = c /\ \A q \in Progs : q # p => prog'[q] = prog[q]
  BY DEF Typed
<1>2. ASSUME found PROVE promisc' /\ \A q \in Progs : ~prog'[q].set_promisc
  BY <1>1, <1>2 DEF FlagOwned
<1>3. ASSUME ~found, promisc PROVE \E q \in Progs : MayUndo(prog'[q])
  <2>1. PICK q \in Progs : MayUndo(prog[q])
    BY <1>3 DEF FlagOwned
  <2>2. MayUndo(prog'[q])
    BY <1>1, <2>1
  <2>3. QED
    BY <2>2
<1>4. QED
  BY <1>2, <1>3 DEF FlagOwned

\* A step of a program that has nothing to undo, now or before, and leaves the flag
\* alone: whoever may undo it is another one.
LEMMA FlagOthers ==
    ASSUME Typed, FlagOwned, NEW p \in Progs, NEW c, prog' = [prog EXCEPT ![p] = c],
           ~MayUndo(prog[p]), promisc => ~c.set_promisc,
           promisc' = promisc, found' = found
    PROVE  FlagOwned'
<1>1. prog'[p] = c /\ \A q \in Progs : q # p => prog'[q] = prog[q]
  BY DEF Typed
<1>2. ASSUME found PROVE promisc' /\ \A q \in Progs : ~prog'[q].set_promisc
  BY <1>1, <1>2 DEF FlagOwned
<1>3. ASSUME ~found, promisc PROVE \E q \in Progs : MayUndo(prog'[q])
  <2>1. PICK q \in Progs : MayUndo(prog[q])
    BY <1>3 DEF FlagOwned
  <2>2. prog'[q] = prog[q]
    BY <1>1, <2>1
  <2>3. QED
    BY <2>1, <2>2
<1>4. QED
  BY <1>2, <1>3 DEF FlagOwned

-----------------------------------------------------------------------------
\* What the invariant says of one program.
LEMMA OneProgram ==
    ASSUME CaptureInv, NEW p \in Progs
    PROVE  /\ prog[p] \in Mains /\ opt[p] \in Options /\ clock \in Nat
           /\ Good(opt[p], prog[p], streams[p]) /\ InTime(opt[p], prog[p], clock)
BY DEF CaptureInv, Typed, AllGood

\* A step that leaves the streams as they are.
LEMMA StreamsLeft ==
    ASSUME CaptureInv, NEW p \in Progs, NEW c \in Mains, Good(opt[p], c, streams[p]),
           InTime(opt[p], c, clock), prog' = [prog EXCEPT ![p] = c], promisc' \in BOOLEAN,
           UNCHANGED <<opt, streams, found, clock>>
    PROVE  Typed' /\ AllGood'
<1>1. Moves(p, c, streams[p])
  BY DEF Moves, CaptureInv, Typed
<1>2. QED
  BY <1>1, OneMoves DEF CaptureInv

\* Such a step between points where no frame is in hand.
LEMMA QuietLeft ==
    ASSUME CaptureInv, NEW p \in Progs, NEW c \in Mains, Quiet(prog[p], c),
           prog' = [prog EXCEPT ![p] = c], promisc' \in BOOLEAN,
           UNCHANGED <<opt, streams, found, clock>>
    PROVE  Typed' /\ AllGood'
<1>1. Good(opt[p], c, streams[p])
  BY OneProgram, QuietKeeps
<1>2. InTime(opt[p], c, clock)
  BY OneProgram DEF InTime, Quiet
<1>3. QED
  BY <1>1, <1>2, StreamsLeft

\* The handle and the receive buffer are acquired, or main leaves.
LEMMA AcquireRxStep ==
    ASSUME CaptureInv, NEW p \in Progs, AcquireRx(p)
    PROVE  CaptureInv'
<1> DEFINE r == prog[p]
<1>1. r \in Mains /\ opt[p] \in Options /\ Good(opt[p], r, streams[p]) /\ r.pc = "acquire"
  BY OneProgram DEF AcquireRx
<1>2. PICK c \in Mains :
          /\ prog' = [prog EXCEPT ![p] = c] /\ Quiet(r, c)
          /\ c.set_promisc = r.set_promisc
  <2>1. CASE Goto(p, "query")
    <3> DEFINE c == [r EXCEPT !.pc = "query"]
    <3>1. c \in Mains /\ c.set_promisc = r.set_promisc
      BY <1>1 DEF Mains, Points
    <3>2. Quiet(r, c)
      BY <1>1 DEF Quiet, Mains, Receiving, Good, Numbered
    <3>3. prog' = [prog EXCEPT ![p] = c]
      BY <2>1 DEF Goto
    <3>4. QED
      BY <3>1, <3>2, <3>3
  <2>2. CASE Fail(p)
    <3> DEFINE c == [r EXCEPT !.pc = "release", !.failed = TRUE]
    <3>1. c \in Mains /\ c.set_promisc = r.set_promisc
      BY <1>1 DEF Mains, Points
    <3>2. Quiet(r, c)
      BY <1>1 DEF Quiet, Mains, Receiving, Good, Numbered
    <3>3. prog' = [prog EXCEPT ![p] = c]
      BY <2>2 DEF Fail
    <3>4. QED
      BY <3>1, <3>2, <3>3
  <2>3. QED
    BY <2>1, <2>2 DEF AcquireRx
<1>3. ~MayUndo(r)
  BY <1>1 DEF MayUndo, Good, Numbered
<1>4. promisc' = promisc /\ found' = found /\ promisc' \in BOOLEAN
  BY DEF AcquireRx, CaptureInv, Typed
<1>5. Typed' /\ AllGood'
  BY <1>1, <1>2, <1>4, QuietLeft DEF AcquireRx
<1>6. FlagOwned'
  BY <1>2, <1>3, <1>4, FlagLeft DEF CaptureInv
<1>7. QED
  BY <1>5, <1>6 DEF CaptureInv

\* The flag is read; if it is set the program will not undo it.
LEMMA QueryPromiscStep ==
    ASSUME CaptureInv, NEW p \in Progs, QueryPromisc(p)
    PROVE  CaptureInv'
<1> DEFINE r == prog[p]
           c == [r EXCEPT !.pc = "enable", !.set_promisc = opt[p].promisc /\ ~promisc]
<1>1. r \in Mains /\ opt[p] \in Options /\ Good(opt[p], r, streams[p]) /\ r.pc = "query"
  BY OneProgram DEF QueryPromisc
<1>2. prog' = [prog EXCEPT ![p] = c]
  BY DEF QueryPromisc
<1>3. c \in Mains /\ (promisc => ~c.set_promisc)
  <2>1. (opt[p].promisc /\ ~promisc) \in BOOLEAN
    OBVIOUS
  <2>2. QED
    BY <1>1, <2>1 DEF Mains, Points
<1>4. Quiet(r, c)
  BY <1>1 DEF Quiet, Mains, Receiving, Good, Numbered
<1>5. ~MayUndo(r)
  BY <1>1 DEF MayUndo, Good, Numbered
<1>6. promisc' = promisc /\ found' = found /\ promisc' \in BOOLEAN
  BY DEF QueryPromisc, CaptureInv, Typed
<1> HIDE DEF c
<1>7. Typed' /\ AllGood'
  BY <1>1, <1>2, <1>3, <1>4, <1>6, QuietLeft DEF QueryPromisc
<1>8. FlagOwned'
  BY <1>2, <1>3, <1>5, <1>6, FlagOthers DEF CaptureInv
<1>9. QED
  BY <1>7, <1>8 DEF CaptureInv

\* The flag is set, by a program that then means to undo it; or it is not.
LEMMA EnablePromiscStep ==
    ASSUME CaptureInv, NEW p \in Progs, EnablePromisc(p)
    PROVE  CaptureInv'
<1> DEFINE r == prog[p]
<1>1. r \in Mains /\ opt[p] \in Options /\ Good(opt[p], r, streams[p]) /\ r.pc = "enable"
  BY OneProgram DEF EnablePromisc
<1>2. ~MayUndo(r)
  BY <1>1 DEF MayUndo, Good, Numbered
<1>3. PICK c \in Mains :
          /\ prog' = [prog EXCEPT ![p] = c] /\ Quiet(r, c) /\ c.pc = "loop"
          /\ \/ ~c.set_promisc /\ promisc' = promisc
             \/ r.set_promisc /\ c.set_promisc /\ promisc' = TRUE
  <2> DEFINE a == [r EXCEPT !.pc = "loop"]
             b == [r EXCEPT !.pc = "loop", !.set_promisc = FALSE]
  <2>1. a \in Mains /\ a.set_promisc = r.set_promisc /\ a.pc = "loop"
    BY <1>1 DEF Mains, Points
  <2>2. b \in Mains /\ ~b.set_promisc /\ b.pc = "loop"
    BY <1>1 DEF Mains, Points
  <2>3. Quiet(r, a)
    BY <1>1 DEF Quiet, Mains, Receiving, Good, Numbered
  <2>4. Quiet(r, b)
    BY <1>1 DEF Quiet, Mains, Receiving, Good, Numbered
  <2>5. \/ ~r.set_promisc /\ Goto(p, "loop") /\ promisc' = promisc
        \/ r.set_promisc /\ Goto(p, "loop") /\ promisc' = TRUE
        \/ prog' = [prog EXCEPT ![p] = b] /\ promisc' = promisc
    BY DEF EnablePromisc
  <2>6. Goto(p, "loop") => prog' = [prog EXCEPT ![p] = a]
    BY DEF Goto
  <2> HIDE DEF a, b
  <2>7. QED
    BY <2>1, <2>2, <2>3, <2>4, <2>5, <2>6
<1>4. promisc' \in BOOLEAN /\ found' = found
  BY <1>3 DEF EnablePromisc, CaptureInv, Typed
<1>5. Typed' /\ AllGood'
  BY <1>1, <1>3, <1>4, QuietLeft DEF EnablePromisc
<1>6. FlagOwned'
  <2>1. CASE ~c.set_promisc /\ promisc' = promisc
    BY <1>2, <1>3, <1>4, <2>1, FlagOthers DEF CaptureInv
  <2>2. CASE r.set_promisc /\ c.set_promisc /\ promisc' = TRUE
    <3>1. ~found
      BY <2>2 DEF CaptureInv, FlagOwned
    <3>2. prog'[p] = c
      BY <1>3 DEF CaptureInv, Typed
    <3>3. MayUndo(prog'[p])
      BY <1>3, <2>2, <3>2 DEF MayUndo
    <3>4. QED
      BY <1>4, <3>1, <3>3 DEF FlagOwned
  <2>3. QED
    BY <1>3, <2>1, <2>2
<1>7. QED
  BY <1>5, <1>6 DEF CaptureInv

\* A signal was seen.
LEMMA StopStep ==
    ASSUME CaptureInv, NEW p \in Progs, Stop(p)
    PROVE  CaptureInv'
<1> DEFINE r == prog[p]
           c == [r EXCEPT !.pc = "disable"]
<1>1. r \in Mains /\ opt[p] \in Options /\ Good(opt[p], r, streams[p]) /\ r.pc = "loop"
  BY OneProgram DEF Stop
<1>2. prog' = [prog EXCEPT ![p] = c]
  BY DEF Stop, Goto
<1>3. c \in Mains /\ c.set_promisc = r.set_promisc /\ c.pc = "disable"
  BY <1>1 DEF Mains, Points
<1>4. Quiet(r, c)
  BY <1>1 DEF Quiet, Mains, Receiving, Good, Numbered
<1>5. MayUndo(r) => MayUndo(c)
  BY <1>3 DEF MayUndo
<1>6. promisc' = promisc /\ found' = found /\ promisc' \in BOOLEAN
  BY DEF Stop, CaptureInv, Typed
<1> HIDE DEF c
<1>7. Typed' /\ AllGood'
  BY <1>1, <1>2, <1>3, <1>4, <1>6, QuietLeft DEF Stop
<1>8. FlagOwned'
  BY <1>2, <1>3, <1>5, <1>6, FlagLeft DEF CaptureInv
<1>9. QED
  BY <1>7, <1>8 DEF CaptureInv

\* The flag is cleared by a program that found it clear; or that fails.
LEMMA DisablePromiscStep ==
    ASSUME CaptureInv, NEW p \in Progs, DisablePromisc(p)
    PROVE  CaptureInv'
<1> DEFINE r == prog[p]
<1>1. r \in Mains /\ opt[p] \in Options /\ Good(opt[p], r, streams[p]) /\ r.pc = "disable"
  BY OneProgram DEF DisablePromisc
<1>2. PICK c \in Mains :
          /\ prog' = [prog EXCEPT ![p] = c] /\ Quiet(r, c)
          /\ c.set_promisc = r.set_promisc
          /\ \/ promisc' = promisc /\ (MayUndo(r) => MayUndo(c))
             \/ r.set_promisc /\ promisc' = FALSE
  <2> DEFINE a == [r EXCEPT !.pc = "release"]
             b == [r EXCEPT !.pc = "release", !.failed = TRUE]
  <2>1. a \in Mains /\ a.set_promisc = r.set_promisc /\ (~r.set_promisc => ~MayUndo(r))
    BY <1>1 DEF Mains, Points, MayUndo
  <2>2. b \in Mains /\ b.set_promisc = r.set_promisc /\ (MayUndo(r) => MayUndo(b))
    BY <1>1 DEF Mains, Points, MayUndo
  <2>3. Quiet(r, a)
    BY <1>1 DEF Quiet, Mains, Receiving, Good, Numbered
  <2>4. Quiet(r, b)
    BY <1>1 DEF Quiet, Mains, Receiving, Good, Numbered
  <2>5. \/ ~r.set_promisc /\ Goto(p, "release") /\ promisc' = promisc
        \/ r.set_promisc /\ Goto(p, "release") /\ promisc' = FALSE
        \/ Fail(p) /\ promisc' = promisc
    BY DEF DisablePromisc
  <2>6. /\ Goto(p, "release") => prog' = [prog EXCEPT ![p] = a]
        /\ Fail(p) => prog' = [prog EXCEPT ![p] = b]
    BY DEF Goto, Fail
  <2> HIDE DEF a, b
  <2>7. QED
    BY <2>1, <2>2, <2>3, <2>4, <2>5, <2>6
<1>3. promisc' \in BOOLEAN /\ found' = found
  BY <1>2 DEF DisablePromisc, CaptureInv, Typed
<1>4. Typed' /\ AllGood'
  BY <1>1, <1>2, <1>3, QuietLeft DEF DisablePromisc
<1>5. FlagOwned'
  <2>1. CASE promisc' = promisc /\ (MayUndo(r) => MayUndo(c))
    BY <1>2, <1>3, <2>1, FlagLeft DEF CaptureInv
  <2>2. CASE r.set_promisc /\ promisc' = FALSE
    <3>1. ~found
      BY <2>2 DEF CaptureInv, FlagOwned
    <3>2. QED
      BY <1>3, <2>2, <3>1 DEF FlagOwned
  <2>3. QED
    BY <1>2, <2>1, <2>2
<1>6. QED
  BY <1>4, <1>5 DEF CaptureInv

\* What was held is released.
LEMMA ReleaseStep ==
    ASSUME CaptureInv, NEW p \in Progs, Release(p)
    PROVE  CaptureInv'
<1> DEFINE r == prog[p]
           c == [r EXCEPT !.pc = "exit", !.savefp = NULL]
<1>1. r \in Mains /\ opt[p] \in Options /\ Good(opt[p], r, streams[p]) /\ r.pc = "release"
  BY OneProgram DEF Release
<1>2. prog' = [prog EXCEPT ![p] = c]
  BY DEF Release
<1>3. c \in Mains /\ c.set_promisc = r.set_promisc /\ c.failed = r.failed
  BY <1>1 DEF Mains, Points
<1>4. Quiet(r, c)
  BY <1>1 DEF Quiet, Mains, Receiving, Good, Numbered
<1>5. MayUndo(r) => MayUndo(c)
  BY <1>1, <1>3 DEF MayUndo
<1>6. promisc' = promisc /\ found' = found /\ promisc' \in BOOLEAN
  BY DEF Release, CaptureInv, Typed
<1> HIDE DEF c
<1>7. Typed' /\ AllGood'
  BY <1>1, <1>2, <1>3, <1>4, <1>6, QuietLeft DEF Release
<1>8. FlagOwned'
  BY <1>2, <1>3, <1>5, <1>6, FlagLeft DEF CaptureInv
<1>9. QED
  BY <1>7, <1>8 DEF CaptureInv

\* The signal handler clears run.
LEMMA SignalStep ==
    ASSUME CaptureInv, NEW p \in Progs, Signal(p)
    PROVE  CaptureInv'
<1> DEFINE r == prog[p]
           c == [r EXCEPT !.run = FALSE]
<1>1. r \in Mains /\ opt[p] \in Options /\ Good(opt[p], r, streams[p])
  BY OneProgram
<1>2. prog' = [prog EXCEPT ![p] = c]
  BY DEF Signal
<1>3. /\ c \in Mains /\ c.set_promisc = r.set_promisc /\ c.failed = r.failed /\ c.pc = r.pc
      /\ c.now = r.now /\ c.next_rotation_time = r.next_rotation_time
  BY <1>1 DEF Mains
<1>4. Good(opt[p], c, streams[p]) /\ InTime(opt[p], c, clock)
  BY <1>1, <1>3, OneProgram, SignalKeeps DEF InTime
<1>5. MayUndo(r) => MayUndo(c)
  BY <1>3 DEF MayUndo
<1>6. promisc' = promisc /\ found' = found /\ promisc' \in BOOLEAN
  BY DEF Signal, CaptureInv, Typed
<1> HIDE DEF c
<1>7. Typed' /\ AllGood'
  BY <1>2, <1>3, <1>4, <1>6, StreamsLeft DEF Signal
<1>8. FlagOwned'
  BY <1>2, <1>3, <1>5, <1>6, FlagLeft DEF CaptureInv
<1>9. QED
  BY <1>7, <1>8 DEF CaptureInv

\* A frame is received.
LEMMA ReceiveStep ==
    ASSUME CaptureInv, NEW p \in Progs, Receive(p)
    PROVE  CaptureInv'
<1> DEFINE r == prog[p]
           c == [r EXCEPT !.pc = IF r.savefp = NULL THEN "loop" ELSE "rotate",
                          !.taken = r.taken + 1]
<1>1. r \in Mains /\ opt[p] \in Options /\ Good(opt[p], r, streams[p])
  BY OneProgram
<1>2. r.pc = "loop"
  BY DEF Receive
<1>3. prog' = [prog EXCEPT ![p] = c]
  BY DEF Receive
<1>4. c.pc \in {"loop", "rotate"} /\ c.set_promisc = r.set_promisc /\ c \in Mains
  <2>1. r.taken + 1 \in Nat /\ (IF r.savefp = NULL THEN "loop" ELSE "rotate") \in Points
    BY <1>1 DEF Mains, Points
  <2>2. QED
    BY <1>1, <2>1 DEF Mains
<1>5. Good(opt[p], c, streams[p]) /\ InTime(opt[p], c, clock)
  <2>1. c.now = r.now /\ c.next_rotation_time = r.next_rotation_time
    BY <1>1 DEF Mains
  <2> HIDE DEF c
  <2>2. InTime(opt[p], c, clock)
    BY <2>1, OneProgram DEF InTime
  <2>3. Good(opt[p], c, streams[p])
    BY <1>1, <1>2, <1>4, ReceiveKeeps DEF c
  <2>4. QED
    BY <2>2, <2>3
<1>6. MayUndo(r) => MayUndo(c)
  BY <1>4 DEF MayUndo
<1>7. promisc' = promisc /\ found' = found /\ promisc' \in BOOLEAN
  BY DEF Receive, CaptureInv, Typed
<1>8. UNCHANGED <<opt, streams, found, clock>>
  BY DEF Receive
<1> HIDE DEF c
<1>9. Typed' /\ AllGood'
  BY <1>3, <1>4, <1>5, <1>7, <1>8, StreamsLeft
<1>10. FlagOwned'
  BY <1>3, <1>4, <1>6, <1>7, FlagLeft DEF CaptureInv
<1>11. QED
  BY <1>9, <1>10 DEF CaptureInv

\* rotate_file, wherever main calls it: a new file is opened, or main leaves.
LEMMA RotateFileStep ==
    ASSUME CaptureInv, NEW p \in Progs, NEW next, NEW time, RotateFile(p, next, time),
           Rotates(opt[p], prog[p], next, time, clock),
           UNCHANGED <<opt, promisc, found, clock>>
    PROVE  CaptureInv'
<1> DEFINE r == prog[p]
           s == streams[p]
<1>1. /\ r \in Mains /\ opt[p] \in Options /\ Good(opt[p], r, s) /\ clock \in Nat
      /\ InTime(opt[p], r, clock) /\ r.pc \in {"open", "reopen"}
  BY OneProgram DEF Rotates
<1>2. PICK no \in Nat : no = r.file_no + 1
  BY <1>1 DEF Mains
<1>3. r.failed = FALSE
  BY <1>1 DEF Good, Numbered, Mains
<1>4. promisc' = promisc /\ found' = found /\ promisc' \in BOOLEAN
  BY DEF CaptureInv, Typed
<1>5. CASE /\ streams' = [streams EXCEPT ![p] = WithFile(s, no, clock)]
           /\ prog' = [prog EXCEPT ![p] = Rotated(r, no, next, time)]
  <2> DEFINE c == Rotated(r, no, next, time)
             u == WithFile(s, no, clock)
  <2>1. Good(opt[p], c, u) /\ c \in Mains /\ time <= clock + opt[p].rotate_seconds
    BY <1>1, <1>2, RotatedKeeps
  <2>2. /\ c.set_promisc = r.set_promisc /\ c.pc = next
        /\ c.now = r.now /\ c.next_rotation_time = time
    BY <1>1 DEF Rotated, Mains
  <2> HIDE DEF c, u
  <2>8. InTime(opt[p], c, clock)
    BY <1>1, <2>1, <2>2 DEF InTime
  <2>3. Moves(p, c, u)
    BY <1>5 DEF Moves, CaptureInv, Typed, c, u
  <2>4. Typed' /\ AllGood'
    BY <1>4, <2>1, <2>3, <2>8, OneMoves DEF CaptureInv
  <2>5. MayUndo(r) => MayUndo(c)
    BY <1>1, <1>3, <2>2 DEF MayUndo, Rotates
  <2>6. FlagOwned'
    BY <1>4, <2>2, <2>3, <2>5, FlagLeft DEF CaptureInv, Moves
  <2>7. QED
    BY <2>4, <2>6 DEF CaptureInv
<1>6. CASE /\ streams' = streams
           /\ prog' = [prog EXCEPT ![p] = [r EXCEPT !.pc = "release", !.failed = TRUE,
                                                    !.savefp = NULL, !.file_no = no]]
  <2> DEFINE c == [r EXCEPT !.pc = "release", !.failed = TRUE,
                            !.savefp = NULL, !.file_no = no]
  <2>1. Good(opt[p], c, s) /\ c \in Mains
    <3>1. c = [r EXCEPT !.pc = "release", !.failed = TRUE,
                        !.savefp = NULL, !.file_no = r.file_no + 1]
      BY <1>2
    <3> HIDE DEF c
    <3>2. QED
      BY <1>1, <3>1, RotateFailedKeeps
  <2>2. /\ c.set_promisc = r.set_promisc /\ c.failed
        /\ c.now = r.now /\ c.next_rotation_time = r.next_rotation_time
    BY <1>1 DEF Mains
  <2> HIDE DEF c
  <2>3. prog' = [prog EXCEPT ![p] = c]
    BY <1>6 DEF c
  <2>8. InTime(opt[p], c, clock)
    BY <1>1, <2>2 DEF InTime
  <2>4. Typed' /\ AllGood'
    BY <1>4, <1>6, <2>1, <2>3, <2>8, StreamsLeft
  <2>5. MayUndo(r) => MayUndo(c)
    BY <2>2 DEF MayUndo
  <2>6. FlagOwned'
    BY <1>4, <2>2, <2>3, <2>5, FlagLeft DEF CaptureInv
  <2>7. QED
    BY <2>4, <2>6 DEF CaptureInv
<1>7. QED
  BY <1>2, <1>5, <1>6 DEF RotateFile, Rotated, WithFile

\* The save file is opened, or there is none.
LEMMA OpenSaveStep ==
    ASSUME CaptureInv, NEW p \in Progs, OpenSave(p)
    PROVE  CaptureInv'
<1> DEFINE r == prog[p]
<1>1. /\ r \in Mains /\ opt[p] \in Options /\ Good(opt[p], r, streams[p])
      /\ r.pc = "open" /\ opt[p].rotate_seconds \in Nat
  BY OneProgram, OptionFields DEF OpenSave
<1>2. promisc' = promisc /\ found' = found /\ promisc' \in BOOLEAN
  BY DEF OpenSave, CaptureInv, Typed
<1>3. CASE /\ opt[p].save = "file"
           /\ RotateFile(p, IF opt[p].rotate_seconds > 0 THEN "start" ELSE "acquire",
                         prog[p].next_rotation_time)
  BY <1>1, <1>3, RotateFileStep DEF OpenSave, Rotates
<1>4. ASSUME NEW fp \in Nat \cup {NULL}, UNCHANGED streams,
             prog' = [prog EXCEPT ![p] = [r EXCEPT !.pc = "acquire", !.savefp = fp]],
             (fp = NULL /\ opt[p].save = "none") \/ fp = 0
      PROVE  CaptureInv'
  <2> DEFINE c == [r EXCEPT !.pc = "acquire", !.savefp = fp]
  <2>1. c \in Mains
    BY <1>1 DEF Mains, Points
  <2>2. /\ c.pc = "acquire" /\ c.savefp = fp /\ c.file_no = r.file_no
        /\ c.next_rotation_time = r.next_rotation_time /\ c.taken = r.taken
        /\ c.failed = r.failed /\ c.set_promisc = r.set_promisc /\ c.now = r.now
    BY <1>1 DEF Mains
  <2> HIDE DEF c
  <2>13. InTime(opt[p], c, clock)
    BY <2>2, OneProgram DEF InTime
  <2>3. ~r.failed /\ r.file_no = 0
    BY <1>1 DEF Good, Numbered
  <2>4. Numbered(c, streams[p])
    BY <1>1, <2>2, <2>3 DEF Good, Numbered
  <2>5. Rotating(opt[p], c, streams[p])
    <3>1. /\ DOMAIN streams[p] = {0} /\ r.next_rotation_time = 0
          /\ \A i \in DOMAIN streams[p] : Len(streams[p][i].frames) = 0
      BY <1>1 DEF Good, Rotating
    <3>2. \A j \in 1 .. Len(streams[p][0].frames) : FALSE
      BY <3>1
    <3>3. QED
      BY <1>4, <2>2, <3>1, <3>2 DEF Rotating, NULL
  <2>6. SavedSoFar(opt[p], c, streams[p])
    BY <1>1, <2>2 DEF Good, SavedSoFar
  <2>7. Good(opt[p], c, streams[p])
    BY <1>1, <2>4, <2>5, <2>6 DEF Good
  <2>8. prog' = [prog EXCEPT ![p] = c]
    BY <1>4 DEF c
  <2>9. Typed' /\ AllGood'
    BY <1>2, <1>4, <2>1, <2>7, <2>8, <2>13, StreamsLeft DEF OpenSave
  <2>10. MayUndo(r) => MayUndo(c)
    BY <1>1, <2>3 DEF MayUndo
  <2>11. FlagOwned'
    BY <1>2, <2>2, <2>8, <2>10, FlagLeft DEF CaptureInv
  <2>12. QED
    BY <2>9, <2>11 DEF CaptureInv
<1>5. CASE /\ opt[p].save = "stdout" /\ UNCHANGED streams
           /\ prog' = [prog EXCEPT ![p].pc = "acquire", ![p].savefp = 0]
  BY <1>4, <1>5
<1>6. CASE opt[p].save = "none" /\ Goto(p, "acquire") /\ UNCHANGED streams
  <2>1. r.savefp = NULL
    BY <1>1 DEF Good, Numbered
  <2>2. [r EXCEPT !.pc = "acquire"] = [r EXCEPT !.pc = "acquire", !.savefp = NULL]
    BY <1>1, <2>1 DEF Mains
  <2>3. prog' = [prog EXCEPT ![p] = [r EXCEPT !.pc = "acquire"]]
    BY <1>6 DEF Goto
  <2>4. QED
    BY <1>4, <1>6, <2>2, <2>3
<1>7. QED
  BY <1>3, <1>5, <1>6 DEF OpenSave

\* The time of the first rotation is set.
LEMMA StartRotationStep ==
    ASSUME CaptureInv, NEW p \in Progs, StartRotation(p)
    PROVE  CaptureInv'
<1> DEFINE r == prog[p]
           c == Started(opt[p], r, clock)
<1>1. /\ r \in Mains /\ opt[p] \in Options /\ Good(opt[p], r, streams[p])
      /\ InTime(opt[p], r, clock) /\ r.pc = "start" /\ clock \in Nat
  BY OneProgram DEF StartRotation
<1>2. prog' = [prog EXCEPT ![p] = c]
  BY DEF StartRotation, Started
<1>3. /\ c.set_promisc = r.set_promisc /\ c.now = r.now
      /\ c.next_rotation_time = clock + opt[p].rotate_seconds
  BY <1>1 DEF Mains, Started
<1>4. Good(opt[p], c, streams[p]) /\ c \in Mains
  BY <1>1, StartedKeeps
<1>5. promisc' = promisc /\ found' = found /\ promisc' \in BOOLEAN
  BY DEF StartRotation, CaptureInv, Typed
<1> HIDE DEF c
<1>6. InTime(opt[p], c, clock)
  BY <1>1, <1>3, OptionFields DEF InTime
<1>7. Typed' /\ AllGood'
  BY <1>2, <1>4, <1>5, <1>6, StreamsLeft DEF StartRotation
<1>8. ~MayUndo(r)
  BY <1>1 DEF MayUndo, Good, Numbered
<1>9. FlagOwned'
  BY <1>2, <1>3, <1>5, <1>8, FlagLeft DEF CaptureInv
<1>10. QED
  BY <1>7, <1>9 DEF CaptureInv

\* The time is read for a frame, and rotation found due or not.
LEMMA RotateStep ==
    ASSUME CaptureInv, NEW p \in Progs, Rotate(p)
    PROVE  CaptureInv'
<1> DEFINE r == prog[p]
           next == IF RotationDue(p) THEN "reopen" ELSE "write"
           c == TakenUp(r, next, clock)
<1>1. /\ r \in Mains /\ opt[p] \in Options /\ Good(opt[p], r, streams[p])
      /\ InTime(opt[p], r, clock) /\ r.pc = "rotate" /\ clock \in Nat
  BY OneProgram DEF Rotate
<1>2. promisc' = promisc /\ found' = found /\ promisc' \in BOOLEAN
  BY DEF Rotate, CaptureInv, Typed
<1>3. prog' = [prog EXCEPT ![p] = c]
  BY DEF Rotate, TakenUp
<1>4. c.pc \in {"reopen", "write"} /\ c.set_promisc = r.set_promisc
  BY <1>1 DEF Mains, TakenUp
<1>5. Good(opt[p], c, streams[p]) /\ c \in Mains /\ InTime(opt[p], c, clock)
  <2>1. next = IF opt[p].rotate_seconds > 0 /\ clock >= r.next_rotation_time
                   THEN "reopen" ELSE "write"
    BY DEF RotationDue
  <2> HIDE DEF next
  <2>2. QED
    BY <1>1, <2>1, TakenUpKeeps
<1>6. MayUndo(r) => MayUndo(c)
  BY <1>4 DEF MayUndo
<1> HIDE DEF c
<1>7. Typed' /\ AllGood'
  BY <1>2, <1>3, <1>5, StreamsLeft DEF Rotate
<1>8. FlagOwned'
  BY <1>2, <1>3, <1>4, <1>6, FlagLeft DEF CaptureInv
<1>9. QED
  BY <1>7, <1>8 DEF CaptureInv

\* The file is changed for a new one, counted from the time that was read.
LEMMA ReopenStep ==
    ASSUME CaptureInv, NEW p \in Progs, Reopen(p)
    PROVE  CaptureInv'
<1>1. prog[p].pc = "reopen" /\ prog[p].now <= clock
  BY OneProgram DEF Reopen, InTime
<1>2. QED
  BY <1>1, RotateFileStep DEF Reopen, Rotates

\* The frame in hand is written.
LEMMA WritePacketStep ==
    ASSUME CaptureInv, NEW p \in Progs, WritePacket(p)
    PROVE  CaptureInv'
<1> DEFINE r == prog[p]
           c == Written(r)
           f == InHandOf(r)
           k == r.savefp
           s == streams[p]
           u == streams'[p]
<1>1. r \in Mains /\ opt[p] \in Options /\ Good(opt[p], r, s) /\ r.pc = "write"
  BY OneProgram DEF WritePacket
<1>2. promisc' = promisc /\ found' = found /\ promisc' \in BOOLEAN
  BY DEF WritePacket, CaptureInv, Typed
<1>3. prog' = [prog EXCEPT ![p] = c]
  BY DEF WritePacket, Written
<1>4. k \in DOMAIN s
  BY <1>1 DEF Good, Rotating, Receiving
<1>5. /\ DOMAIN streams' = Progs
      /\ \A q \in Progs : q # p => streams'[q] = streams[q]
      /\ u = [s EXCEPT ![k].frames = Append(s[k].frames, f)]
  BY DEF WritePacket, Frame, InHandOf, CaptureInv, Typed
<1>6. WithFrame(s, u, k, f)
  BY <1>4, <1>5 DEF WithFrame
<1>7. c.pc = "loop" /\ c.set_promisc = r.set_promisc
  BY <1>1 DEF Mains, Written
<1>8. MayUndo(r) => MayUndo(c)
  BY <1>7 DEF MayUndo
<1>9. Good(opt[p], c, u) /\ c \in Mains /\ InTime(opt[p], c, clock)
  <2>1. c.now = 0 /\ c.next_rotation_time = r.next_rotation_time
    BY <1>1 DEF Mains, Written
  <2> HIDE DEF c
  <2>2. InTime(opt[p], c, clock)
    BY <2>1, OneProgram DEF InTime
  <2> HIDE DEF u
  <2>3. Good(opt[p], c, u) /\ c \in Mains
    BY <1>1, <1>6, WriteKeeps DEF c
  <2>4. QED
    BY <2>2, <2>3
<1>10. opt' = opt /\ clock' = clock
  BY DEF WritePacket
<1> HIDE DEF c
<1>11. Moves(p, c, u)
  BY <1>3, <1>5, <1>10 DEF Moves
<1> HIDE DEF u
<1>12. Typed' /\ AllGood'
  BY <1>2, <1>9, <1>10, <1>11, OneMoves DEF CaptureInv
<1>13. FlagOwned'
  BY <1>2, <1>3, <1>7, <1>8, FlagLeft DEF CaptureInv
<1>14. QED
  BY <1>12, <1>13 DEF CaptureInv

-----------------------------------------------------------------------------
\* Before the programs run nothing is saved, and none means to undo anything.
LEMMA CaptureStarts ==
    ASSUME Init
    PROVE  CaptureInv
<1>1. Start \in Mains
  BY DEF Start, Mains, Points, NULL
<1>2. Blank \in Streams /\ DOMAIN Blank.frames = {} /\ Len(Blank.frames) = 0
  BY DEF Blank, Streams
<1>3. /\ Start.pc = "open" /\ Start.savefp = NULL /\ Start.file_no = 0 /\ Start.taken = 0
      /\ Start.failed = FALSE /\ Start.next_rotation_time = 0
      /\ Start.set_promisc = FALSE /\ Start.now = 0
  BY DEF Start
<1>4. \A p \in Progs : prog[p] = Start
  BY DEF Init
<1>5. Typed
  BY <1>1, <1>4 DEF Init, Typed
<1>6. FlagOwned
  BY <1>3, <1>4 DEF Init, FlagOwned
<1>7. ASSUME NEW p \in Progs
      PROVE  Good(opt[p], prog[p], streams[p]) /\ InTime(opt[p], prog[p], clock)
  <2> DEFINE s == streams[p]
  <2>1. DOMAIN s = {0} /\ \A i \in DOMAIN s : s[i] = Blank
    BY DEF Init
  <2> HIDE DEF s
  <2>2. Numbered(Start, s)
    BY <1>2, <1>3, <2>1 DEF Numbered
  <2>3. Rotating(opt[p], Start, s)
    BY <1>2, <1>3, <2>1 DEF Rotating, Receiving
  <2>4. Saved(s, 0)
    BY <1>2, <2>1 DEF Saved, Has, InOrder
  <2>5. SavedSoFar(opt[p], Start, s)
    BY <1>3, <2>4 DEF SavedSoFar
  <2>6. Spans(opt[p], s)
    BY <1>2, <2>1 DEF Spans
  <2>7. InTime(opt[p], Start, clock)
    <3>1. opt[p].rotate_seconds \in Nat /\ clock = 0
      BY OptionFields DEF Init
    <3>2. QED
      BY <1>3, <3>1 DEF InTime
  <2>8. QED
    BY <1>4, <2>2, <2>3, <2>5, <2>6, <2>7 DEF Good, s
<1>8. QED
  BY <1>5, <1>6, <1>7 DEF CaptureInv, AllGood

\* Time passes between any two steps.
LEMMA TickStep ==
    ASSUME CaptureInv, Tick
    PROVE  CaptureInv'
<1>1. Typed'
  BY DEF CaptureInv, Typed, Tick
<1>2. FlagOwned'
  BY DEF CaptureInv, FlagOwned, Tick
<1>3. AllGood'
  <2>1. ASSUME NEW p \in Progs
        PROVE  Good(opt[p], prog[p], streams[p]) /\ InTime(opt[p], prog[p], clock + 1)
    <3>1. /\ prog[p].now \in Nat /\ prog[p].next_rotation_time \in Nat
          /\ opt[p].rotate_seconds \in Nat /\ clock \in Nat
      BY OneProgram, OptionFields DEF Mains
    <3>2. QED
      BY <3>1, OneProgram DEF InTime
  <2>2. QED
    BY <2>1 DEF AllGood, Tick
<1>4. QED
  BY <1>1, <1>2, <1>3 DEF CaptureInv

\* So does a step that changes nothing: a call that returns no data, any other.
LEMMA CaptureStutters ==
    ASSUME CaptureInv, UNCHANGED vars
    PROVE  CaptureInv'
<1>1. Typed'
  BY DEF CaptureInv, Typed, vars
<1>2. FlagOwned'
  BY DEF CaptureInv, FlagOwned, vars
<1>3. AllGood'
  BY DEF CaptureInv, AllGood, vars
<1>4. QED
  BY <1>1, <1>2, <1>3 DEF CaptureInv

\* The invariant of main: it holds of every program in every state, however the
\* programs' steps, the signals and the clock fall.
THEOREM ProgramInvariance == Spec => []CaptureInv
<1>1. Init => CaptureInv
  BY CaptureStarts
<1>2. ASSUME CaptureInv, [Next]_vars PROVE CaptureInv'
  <2>1. CASE Tick
    BY <1>2, <2>1, TickStep
  <2>2. ASSUME NEW p \in Progs, Step(p) PROVE CaptureInv'
    BY <1>2, <2>2, OpenSaveStep, AcquireRxStep, QueryPromiscStep, EnablePromiscStep,
       StartRotationStep, ReceiveStep, RotateStep, ReopenStep, WritePacketStep, StopStep,
       DisablePromiscStep, ReleaseStep
       DEF Step
  <2>3. ASSUME NEW p \in Progs, Signal(p) PROVE CaptureInv'
    BY <1>2, <2>3, SignalStep
  <2>4. CASE UNCHANGED vars
    BY <1>2, <2>4, CaptureStutters
  <2>5. QED
    BY <1>2, <2>1, <2>2, <2>3, <2>4 DEF Next
<1>3. QED
  BY <1>1, <1>2, PTL DEF Spec

\* Whatever stops a program, its streams hold every frame it received, once and in
\* order, up to the one in hand: a rotation loses and doubles none.
THEOREM EveryFrameSavedHolds == Spec => []EveryFrameSaved
<1>1. ASSUME CaptureInv PROVE EveryFrameSaved
  <2>1. SUFFICES ASSUME NEW p \in Progs, opt[p].save # "none"
                 PROVE  \/ SavedUpTo(p, prog[p].taken)
                        \/ InHand(p) /\ SavedUpTo(p, prog[p].taken - 1)
    BY DEF EveryFrameSaved
  <2>2. SavedSoFar(opt[p], prog[p], streams[p])
    BY <1>1 DEF CaptureInv, AllGood, Good
  <2>3. \/ Saved(streams[p], prog[p].taken)
        \/ InHand(p) /\ Saved(streams[p], prog[p].taken - 1)
    BY <2>1, <2>2 DEF SavedSoFar, InHand
  <2>4. QED
    BY <2>3, SavedMeaning
<1>2. QED
  BY <1>1, ProgramInvariance, PTL

\* With -G N the frames of a file were taken up less than N seconds apart and, except
\* in the file opened at start-up, less than N seconds after it was opened: for every
\* N, and wherever the clock ticks between main's steps.
THEOREM FileSpanHolds == Spec => []FileSpan
<1>1. ASSUME CaptureInv PROVE FileSpan
  <2>1. SUFFICES ASSUME NEW p \in Progs, opt[p].rotate_seconds > 0,
                        NEW i \in DOMAIN streams[p], NEW j \in 1 .. Len(streams[p][i].frames)
                 PROVE  /\ \A k \in 1 .. Len(streams[p][i].frames) :
                               streams[p][i].frames[k].at
                                   < streams[p][i].frames[j].at + opt[p].rotate_seconds
                        /\ \/ streams[p][i].frames[j].at
                                   < streams[p][i].opened + opt[p].rotate_seconds
                           \/ FirstFile(p, i)
    BY DEF FileSpan
  <2>2. Spans(opt[p], streams[p])
    BY <1>1 DEF CaptureInv, AllGood, Good
  <2>3. QED
    BY <2>1, <2>2 DEF Spans, First, FirstFile
<1>2. QED
  BY <1>1, ProgramInvariance, PTL

\* When all programs are done the interface is as the first found it, however many
\* there were and however their reads and writes of the flag fell.
THEOREM InterfaceRestoredHolds == Spec => []InterfaceRestored
<1>1. ASSUME CaptureInv PROVE InterfaceRestored
  <2>1. SUFFICES ASSUME \A p \in Progs : /\ prog[p].pc = "exit"
                                         /\ ~(prog[p].failed /\ prog[p].set_promisc)
                 PROVE  promisc = found
    BY DEF InterfaceRestored
  <2>2. CASE found
    BY <1>1, <2>2 DEF CaptureInv, FlagOwned, Typed
  <2>3. CASE ~found
    <3>1. ~promisc
      BY <1>1, <2>1, <2>3 DEF CaptureInv, FlagOwned, MayUndo
    <3>2. QED
      BY <1>1, <2>3, <3>1 DEF CaptureInv, Typed
  <2>4. QED
    BY <2>2, <2>3
<1>2. QED
  BY <1>1, ProgramInvariance, PTL
=============================================================================
