# Verification of tooq-exanic-capture

TLA+ models of the ExaNIC receive and transmit library (`src/libs/exanic`) and
of the capture program built on it (`src/src/main.c`), model-checked with TLC,
and proofs about all of them, checked with TLAPS.

## 1. The system

An ExaNIC card writes received frames by DMA into a ring of 16384 chunks per
port that user programs map read-only. There is no flow control and no lock:
the card never waits, and a reader finds out from an 8-bit generation in every
chunk whether the chunk is new, not yet written or already overwritten.
Transmission goes the other way, through a FIFO in card memory, where the card
reports progress in a feedback word, but only for chunks whose sender asked for
it. The capture program takes frames off one ring and writes them to files that
it rotates by time.

### Inventory

| Component | State | Operations | Talks to | Hard behaviour |
|---|---|---|---|---|
| RX ring, `exanic_receive_frame` (`fifo_rx.c`) | ring, `exanic_rx_t`: next chunk, generation, sentinel | acquire, receive_frame, catch-up | card (shared memory) | card overtakes the reader between any two reads; 8-bit generations; scan of a ring that changes; spinning |
| Chunk calls (`fifo_rx.c`, `fifo_rx.h`) | as above, `more_chunks`, chunk ids | receive_chunk, _ex, inplace, inplace_ex, recheck, abort | card, caller | mixing calls that do and do not move the sentinel; use of a chunk in place; errors half-way through a frame |
| `exanic_receive_frame_ex` (`main.c`) | as `exanic_receive_frame` | receive | card | no sentinel check |
| Capture program (`main.c`) | options, save file, rotation time, `set_promisc`, `run` | open, rotate, receive, write, stop | files, interface flags, signals | several programs, one flag; signals; failing rotation |
| TX FIFO (`fifo_tx.c`) | offsets, sequence numbers, ends of chunks, feedback | transmit, begin, end, abort | card | waiting for feedback nobody asked for; 16-bit sequence numbers; reuse of space still being sent |
| RX buffers, filter buffers, TX buffers (`fifo_rx.c`, `fifo_tx.c`) | kernel's buffers, memory and slots, handle references | acquire, acquire_unused, release | driver, handles | error paths that leak |
| Flow hashing (`fifo_rx.c`) | kernel's buffers, hash mask | enable, disable | driver | partial allocation rolled back, others allocating |
| Device handles (`exanic.c`) | list of handles, reference counts, mappings | acquire, retain, release | all of the above | counts, cut names, a ladder of eleven calls to undo |
| Flow steering filters (`filter.c`, `main.c`) | kernel's filters | add, remove, `apply_filters` | driver | an expression that fails half-way |
| Timestamps (`time.c`, `timeExanic.c`) | none | expand, convert | card registers, info page | rollover between reads, `tick_hz` 0 |
| Firewall (`firewall.c`, `filter/`) | control bytes, filter memory, rules files | set, clear, clear all, get | card, files | unlocked read-modify-write; rule kept twice; kills |
| Interface and route queries (`config.c`, `util.c`) | none | find, get_all_ports, get_ifconfig, ... | driver, sysfs | ladders of failing calls; table sizes |
| Transceivers, EEPROM (`transceiver.c`, `eeprom.c`) | none | xcvr_info, diag_info, ... | driver | lanes of ports that share a cage |
| Ports, registers, checksums, tables | none kept in the library | one register access or ioctl each | card, driver | - |

What makes each correct: a frame returned is one whole frame with its own
status, frames come in order, and none goes missing unreported (RX); a frame put
together from chunks is whole (chunk calls); every frame received is saved once,
in order, in the right file, and the interface is left as it was (capture); no
chunk overwrites another and no sender waits for ever (TX); every reference and
buffer taken is given back on every path, and one name has one handle (handles,
buffers); frames are hashed only to buffers that exist (flow hashing); the card
steers what the filter expression describes (filters); a stamp is completed to the
time it was made at (time); a rule matches what it says, no packet is matched
against half a filter, and the card applies the rule on file (firewall); a query
that fails holds nothing (queries); the values of a transceiver are those of the
port's own lanes (transceivers).

The hazards, each at its line, are in `PROJECT.json`.

## 2. The modules

| Module | Models | Extends / uses |
|---|---|---|
| `RxRing` | the ring, the card's two writes per chunk, `__exanic_rx_catchup` one read per step | |
| `RxFrame` | `exanic_receive_frame`, from `exanic_acquire_rx_buffer` on | `RxRing` |
| `RxRingInv` | what is invariantly true of the ring and of a catch-up over it | `RxRing` |
| `RxRing_proofs` | lemmas about the ring for the three modules over it | `RxRingInv`, `TLAPS` |
| `RxFrameInv` | the inductive invariant of `RxFrame` | `RxFrame`, `RxRingInv` |
| `RxFrame_proofs` | theorems about `RxFrame` and its refinement of `FrameStream` | `MCRxFrame`, `RxRing_proofs` |
| `FrameStream` | abstract: what a caller of `exanic_receive_frame` is promised | |
| `MCRxFrame` | instances of `RxFrame` for TLC and its refinement of `FrameStream` | `RxFrameInv`, `FrameStream` |
| `CaptureRx` | `exanic_receive_frame_ex` of the capture program | `RxFrame` |
| `CaptureRx_proofs` | theorems about `CaptureRx` | `CaptureRx`, `RxFrame_proofs` |
| `RxChunk` | the chunk calls, mixed by one caller | `RxRing` |
| `RxChunkInv` | the inductive invariant of `RxChunk` | `RxChunk`, `RxRingInv` |
| `RxChunk_proofs` | theorems about `RxChunk` | `RxChunkInv`, `RxRing_proofs` |
| `TxFifo` | preparing, sending and giving up a chunk; feedback | |
| `TxFifo_proofs` | theorems about `TxFifo` | `TxFifo`, `TLAPS` |
| `Capture`, `MCCapture` | the life of capture programs that share an interface | |
| `Capture_proofs` | theorems about `Capture` | `Capture`, `TLAPS` |
| `Handles` | `exanic.c`: the list of handles, references, mappings | |
| `Buffers` | RX buffers, flow hashing, filters, TX buffers over a driver that counts | `Handles` |
| `FilterLine` | `parse_one_filter` of `main.c` and what an expression means | |
| `Device`, `MCDevice` | programs over all of these, the capture program's way in and out among them | `Buffers`, `FilterLine` |
| `Device_proofs` | theorems about handles, buffers, hashing, `main` and its filters under every program of `Device` | `Device`, `TLAPS` |
| `FirewallRule` | the parser of `filter/parser.c`, the card's matching, what a rule means | |
| `Firewall` | `firewall.c` and `filter/rules.c` with several processes | `FirewallRule` |
| `HwTime` | `time.c` | |
| `Queries` | `config.c`, `transceiver.c`, `eeprom.c`, `util.c` | |
| `Tools`, `MCTools` | the last four as programs side by side | `Firewall`, `HwTime`, `Queries` |
| `Tools_proofs` | theorems about `Firewall`, `FirewallRule`, `HwTime` and `Queries` under `Tools` | `Tools`, `TLAPS` |

### The receive path

A chunk is two variables' worth of the ring: its payload and its info word. The
card writes the payload first and the info word, a single 64-bit word with
generation, length and status, after it (`HwPayload`, `HwInfo`). The data of a
chunk is abstracted to a tag: which frame it belongs to, which chunk of the frame
it is, and whether it is the last and with what status. That is what torn, lost
and repeated frames are told by.

Each step of a call makes at most one access to the ring, so that the card may
write between the read of an info word, the `memcpy` of the payload, and the
sentinel check. A `memcpy` reads the payload in one step: a copy of a chunk being
overwritten yields the old or the new payload. A mixture of both would be no
frame either and is caught by the same check.

Generations are kept as laps that do not wrap, and compared modulo `G`
(`SameGen`), which is all the code does with them.

`OldestInUse` bounds how far the card gets ahead: `MaxLag` laps beyond the oldest
lap the reader still compares with. This is the one assumption about time. The
code relies on it: at 256 laps a reader cannot tell an overrun ring from an
empty one. Ghost variables are named where they are declared (`rx.aligned`,
`scan.floor`, `caught`).

`CaptureRx` is `RxFrame` with the two differences the copy in `main.c` has: the
last chunk is returned without a check, and the sentinel stays.

`RxChunk` has a caller that puts a frame together by chunk calls of any kind,
looks at in-place chunks through the pointer and rechecks them afterwards, skips
the rest of a frame by `exanic_receive_abort` whenever it is in one (as the
documentation of that call demands), and skips it if a chunk was overwritten.
`MaxStale` bounds how many laps the sentinel may be behind when a copying call
is made, which with calls that do not move it is up to the caller. A copying call
that finds its sentinel overwritten answers `SWOVFL`, which `fifo_rx.h` explains as
chunks missed. `OverflowMeansMissed` states that on the positions of card and reader:
the card has come round to the chunk in hand or awaited. It is violated when the
sentinel is not the chunk just before that one, because in-place calls or an abort
left it behind (`SentinelLeftBehind`); `OverflowMeansMissedIfFresh` says that this is
the only case.

### The transmit path

`TxFifo` counts in cache lines. `Start` is any of the transmit and begin calls,
which prepare one chunk of the size asked for; `FindSpace`, `TooLarge` and
`WaitForSpace` are the three ways through a round of `exanic_prepare_tx_chunk`;
`Send` is `exanic_send_tx_chunk` for the size prepared or less
(`exanic_end_transmit_*` may shorten it); `GiveUp` is abort and `EXA_FRAME_WARM`.
The card sends chunks in order and answers for those that ask. Sequence numbers
wrap at `SeqMod`, a multiple of `queue_len` as 2^16 is.

`Reacquire` releases the FIFO, which waits for nothing, and acquires it again with
the same memory and feedback slot, while the card may still have chunks to send
(`late`, at most `MaxLate` of them). Its answers to the old FIFO then reach the new
one, and the properties say what survives that: space in the buffer and progress do,
`NoOverlap` and `AnswerOnItsWay` do not and except it. `refused` remembers that a
call has been refused for the size of its chunk since the FIFO was acquired.

### The capture program

`Capture` has one action per stretch of `main` that nothing can interrupt in a
way that matters: opening, acquiring, reading the promiscuous flag, setting it,
taking a frame, rotating, writing, stopping, clearing the flag, releasing. Each
reading of the clock is a step apart from the opening of a file: the first rotation is
counted from a reading made after the first file is opened (`StartRotation`, after
`OpenSave`), a later one from the reading made for the frame that causes it (`Rotate`,
before `Reopen`), and the clock may tick between. `RotateFile` is the opening itself.
Each system call that the code checks may fail. Receiving nothing, an overflow or a
truncated frame changes no state that the module has, and is not a step.

### Handles, buffers and filters

A process has one thread in these calls, so a call is one action, with a disjunct
for each way it ends. `Handles` has the ladder of `exanic_acquire_handle` as the
sequence `Steps`: a step that fails undoes what is `Before` the label it jumps to.
`exanic.regions` is what an `exanic_t` has mapped, `maps` what the process has, and
`lost_maps` counts the one leak of the ladder. `uses` holds the pointers that callers
and buffers keep; a lost reference is a pointer kept by a member of `Losses`.

`Buffers` adds the kernel driver, which is not in the repository: it counts the
allocations of a filter buffer, gives an unused one when asked for any, drops the
filters with the buffer, and may refuse any call. The acquiring calls end as
`Acquired`, `MmapFailed` or `MallocFailed`, and `lost` counts what the latter two
leave behind. `FewLost` bounds what is lost. Other processes allocate from the same
buffers.

`Device` runs three kinds of programs over them: any program that passes only
pointers it holds ("library"), one that hashes flows ("hashing"), and `main` from
its options to its loop and from there to exit ("capture"), which reads a filter
expression clause by clause through `ParseOneFilter`. That call is one step of main,
but `Reading` has the clause after each of its words. A port is stored in 16 bits
(`Stored`), as `htons` does with what `strtoul` gives: 65616 becomes 80, and 65536
becomes 0, which matches any port. What a line says (`Says`) is in the numbers as
written, so lines with such a port, or with an address or port of 0, are not `Proper`.

### Firewall

`FirewallRule` reads a rule by words (`Token`), the state being the place in the
grammar and the rule so far, so that the parser is both a step of `Tools` and, as a
fold (`Parse`), the call that `Firewall` makes. Ports and VLAN identifiers are cut to
16 bits and type codes to 8 (`UInt16`, `UInt8`), since the parser puts what `strtol`
gives into fields of that width unchecked. A shift by the width of a word, undefined
for a prefix of length 0, gives either of two masks. `Means` is what the words say,
in the sense of the BPF syntax that `firewall.h` refers to and not the parser's: a VLAN is
the 12 low bits of a tag, a header may have options, a number is the number written.
`Proper` and `Plain` name the rules and the frames for which code and meaning agree
(see `RuleMeans`).

`Firewall` takes a call apart where another process or a kill can come between:
opening, writing and unlinking the file, each read and write of the shared control
register, each half of the filter. `sure` holds the slots whose last call returned 0
with no other call at the slot, `disturbed` those that two calls have met at, or
whose byte a stale write of a neighbour's has changed.

### Timestamps, queries and transceivers

`HwTime` reads the clock in three steps while it advances. Words have `B` bits, and
conversions are made modulo two words as the code's are.

`Queries` gives every call a ladder: steps that take something, give something back,
or fail and give back what the exit taken there names (`goto`, or the calls before
`return -1`). `LaneIndex`, `InfoBytes` and `DiagBytes` compute which bytes of a
module's EEPROM a result is made from.

`Tools` puts these side by side as alternative programs, which share nothing; each
behaviour runs one of them.

## 3. What is checked

| Run | Shows | Bounds |
|---|---|---|
| `RxFrame` | type correctness; frames whole; catch-up always finds an end of frame; order of sentinel, reader and card; overflow reported only when overrun; calls return; everything is read in the end; refinement of `FrameStream` | 4 chunks, frames of up to 2, 7 laps, generations modulo 4, card up to 2 laps ahead |
| `RxTruncate` | the inductive invariant; status matches data; empty means empty; with frames that do not fit the buffer and frames with errors | the same, buffer of 1 chunk |
| `CaptureRx` | what the capture program's receive routine keeps: only frames being overwritten are torn; calls return | the same, frames of up to 3, buffer of 2 |
| `RxChunk` | type correctness; assembled frames are whole; chunks are missed when an overflow is reported, but for a sentinel left behind; calls return | 3 chunks, 7 laps, card up to 1 lap ahead, one call that reports errors and copies, one that does neither |
| `TxFifo` | type correctness; no overlap; feedback recognised; while the sender waits an answer is on its way; a sender not refused a chunk gets the space it waits for | buffer of 8 lines, feedback interval 2, queue of 4, sequence numbers modulo 12, sizes 1, 2 and 7, which is too large; 1 chunk late |
| `Capture` | frames saved once, in order, in the right file; interface restored; signals stop the program | 2 programs, 2 frames, clock 0 to 2, three command lines |
| `Device` | type correctness; references and mappings match; one handle per name; the driver's buffers match; hashing only to buffers that exist; filters on the card are those of the expression; nothing left behind | 2 handles, a name that fits and one that is cut, 2 callers, 2 RX buffers, 1 TX buffer, 1 port with 3 filter buffers, 1 reference and 1 mapping or buffer lost; expressions of up to two phrases a side, with ports 80 and 65616 |
| `Tools` | the card follows the rule on file; no filter half loaded; rules mean what they say; timestamps right; values from the right lanes; ladders clean | 2 processes, 2 slots, 3 calls, 3 rules; rules of up to 9 words over addresses of 2 bits and the numbers 1 and 65537, frames with and without tag, priority and options; 3-bit words, clock up to 20 at 0, 5 and 7 Hz, seconds of 6 and 60 parts; tables of up to 2 entries; all cages with 2 connectors |
| `CaptureTorn` | violated: the capture program can save a torn frame as good | as `CaptureRx` |
| `RxTruncateOverflow` | violated: a truncated frame makes a later whole frame an overflow | as `RxTruncate` |
| `TxHang` | violated: after a chunk that is too large a sender waits for ever | as `TxFifo`, nothing late |
| `RxChunkOverflow` | violated: a chunk call reports an overflow though no chunk was missed | as `RxChunk` |

Why the bounds are enough. What can go wrong in the ring depends on the order of
a few positions (sentinel, reader, start of the frame, card) and on which laps
they are in. Four chunks let a frame of two cross the end of the ring or not,
with the sentinel before it and the card's position anywhere; `MaxLag` lets the
card overtake the reader and come round once more while the reader recovers, and
seven laps are enough for that to happen, be recovered from and happen again.
`G` is set as small as the lag allows, so that generations wrap within the run.

In `TxFifo` offsets, sequence numbers and the queue of ends all wrap, in different
places, and the interval is small enough beside the buffer that a sender which does
not request feedback by distance hangs; there is no bound on the number of chunks
sent.

In `Capture` two programs are enough for the flag, which is all they share, and
three seconds for a rotation at, before and after its time, and for a tick
between the opening of a file and either reading of the clock.

In `Device` two handles allow a name to be open twice, two callers and two buffers
a handle to be shared and outlived in every order, three filter buffers a refusal
both below and at a power of two, and the two losses let every failing exit be taken once.
Two phrases a side hold every pair of keywords, in either order, and what `or`
starts anew.

In `Tools` three calls are one that leaves a rule, one that meets it half-way and
one after a kill; nine words hold a VLAN, a protocol and two conditions; a clock of 20 rolls a 3-bit word over twice, at any point between the
three reads; two connectors per cage type hold ports that share a cage and ports
that do not. Type correctness of the parts of `Tools` is part of their proofs.

`FrameStream`'s `Slack` is the size of the ring: a frame is lost only when the card
has come round to it.

Deadlock is checked in all runs but `Capture`, where all programs end, and `Tools`, where rules, clocks and queries do.

### Fairness

- Receive: `FinishFrame`, the card finishes a frame it has begun (it does not
  stop in the middle of one: an aborted frame ends with a chunk whose status says
  so), and the caller takes its steps. The card need not receive another frame.
  In `RxChunk` the caller need not make another call either.
- Transmit: the card sends what it was handed, and the thread in
  `exanic_prepare_tx_chunk` goes on looping.
- Capture: each program takes its next step, which includes returning from
  system calls. Signals, frames and time need not come.
- `Device` and `Tools` claim nothing that must happen, and assume no fairness.

## 4. What is proved

Forty theorems in seven modules (an eighth, `RxRing_proofs`, has lemmas only), each
for every value of the constants that the named assumptions of the modules allow.
Every safety property of the passing runs has one; what must eventually happen is
left to TLC, as the end of this section says.

### Hypotheses

The theorems about `RxFrame` and `CaptureRx` have hypotheses where they need more
than the module assumes:

- `LagBound == MaxLag + 2 <= G`: with 256 generations, the card is at most 254 laps
  ahead of the oldest chunk that the reader compares with. The code relies on it.
  `RxChunk`, where the sentinel may be behind, assumes it with `MaxStale` added
  (`ChunkAssumption`).
- `RoomyRing == N > (MaxLag + 1) * (MaxFrame - 1)`: the chunks of `MaxLag + 1` laps
  cannot fill the ring without an end of frame among them. With 16384 chunks of 120
  bytes it holds for frames of 1518 bytes (13 chunks) whatever the lag, for jumbo
  frames of 9000 (75) up to 220 laps and for 16 KB (137) up to 119.
- `RoomyBuffer == BufChunks >= MaxFrame`: the caller's buffer holds any frame. Without
  it `OverflowMeansLapped` is false (`RxTruncateOverflow`).

`AnswerOnItsWayHolds` is for queues of more than two entries (`Q > 2`);
`exanic_acquire_tx_buffer` makes eight at least, one for every 512 bytes of a region
of whole pages.

The assumptions of the other modules are about their inputs, and each is evaluated
in a run: names that the driver gives are not cut (`HandlesAssumption`), pointers
have one place (`BuffersAssumption`), the default buffer of a port is its buffer 0,
lines are made of words and packets of five fields (`DeviceAssumption`), `inet_aton`
and `strtoul` take no word of the filter language for an address or a number
(`FilterLineAssumption`), no rule is the mark of a missing file
(`FirewallAssumption`), the clock fits in two words as cycles and as nanoseconds
(`TimeAssumption`), an EEPROM has 256 bytes at least, as every type that `ethtool`
knows has (`QueryAssumption`), networks have at most as many bits as addresses, which
the parser checks, and no word of the grammar is an address or a number
(`RuleAssumption`), frames have the fields of `ToolsAssumption`.

### Receiving a frame

`RxFrame_proofs` proves `TypeCorrect`, type correctness, and `RingInOrder`, that the
ring holds the card's stream in order whatever the reader does, without hypotheses;
with `LagBound`, `Invariance` (the inductive invariant `IInv`), `NoTornFrameHolds`,
`StatusHolds`, `PositionsHold` and `EmptyHolds`; with `RoomyRing` or `RoomyBuffer`
too, `FallbackUnusedHolds`, `TightInvariance` and `OverflowHolds`; and with all
three `StreamRefinedHolds`, that `RxFrame` implements `FrameStream`.

The argument. `NoTornFrame` is not inductive: when a frame is returned, nothing
in the state says why the copies are good. `IInv` adds, in parts:

- `RingInv`: chunks behind the card carry its lap and the others the lap before;
  payload and info word agree except in the chunk being written; neighbours hold
  neighbouring pieces of the stream except across the card's position;
- `LagInv`: no lap in the ring is more than `MaxLag` beyond the oldest in use, so
  that, by `GenerationsTell` and `SameGenEqual`, equal generations are equal laps
  wherever the code compares them. This is where `LagBound` is used;
- `PlaceInv` and `SentinelInv`: sentinel before reader, reader not beyond the card;
- `ScanInv`: what the catch-up has found so far was an end of frame of a recent
  lap, and still is unless overwritten since;
- `InfoInv`: the info word in hand is that of the chunk it came from, unless
  overwritten since;
- `CopyInv`: while the sentinel is intact, what has been copied is the beginning
  of the frame at the reader's place. `IntactBefore` is the reason: the card
  writes in order, so when the sentinel is there, so is everything after it up to
  the card.

Each action has a lemma that it keeps its part (`...Keeps`), `NextIInv` puts them
together. The card's two actions are the hardest cases, `PayloadKeeps` and
`InfoKeeps`.

`FallbackUnused` says that a catch-up always finds an end of frame. While it has
found none, each lap read has given at most one run of chunks without an end
(`NoEndYet`), which is shorter than a frame; in a `RoomyRing` the runs of all the laps
that can be there do not add up to the ring (`AlignedInv`).

`OverflowMeansLapped` and the refinement need to know that nothing is skipped
silently: `TightInv` says that the frame being taken starts right behind the
sentinel, and that a catch-up after an overflow does not go back beyond it. For the
refinement, a call that returns a frame is the abstract delivery of the frame
at the reader's place, one that reports an overflow the abstract loss of frames, some
of which the card has overwritten by `TightInv`; all other steps stutter or are the
card's.

### The capture program's copy

`CaptureRx_proofs` proves `CaptureInvariance` and `WholeUnlessLappedHolds`. The copy
lacks the sentinel check but shares all other steps, and `ReaderInv`, which is
`IInv` without the sentinel, is kept by the lemmas of `RxFrame_proofs`: the
actions are not proved twice. What is left of `NoTornFrame` is that a frame is whole
unless the card had come round to its first chunk when it was returned.

### Chunk calls

`RxChunk_proofs` proves `ChunkInvariance`, `ChunkTypeCorrect`, `AssembledWholeHolds`
and `ChunkOverflowHolds`, for any set of the five calls mixed in any order. `ChunkInv`
has the ring's parts from `RxRingInv`, and says where a frame being put together
stands: between calls, what has been taken leads up to the reader's place
(`BetweenInv`); of the chunk in hand, the info word is the one read (`InfoInv`) and the
payload its own if the card has not come round when the caller looks
(`PayloadInv`); the sentinel that decides is before it and not so old that its
generation could have come round (`SentinelInv`); and what the out parameters tell the
caller (`CallInv`). `ChunkOverflowHolds` proves `OverflowMeansMissedIfFresh`: if the
card has come round to the sentinel, and that is the chunk just before the one
copied, then the next thing the card writes is the latter. A chunk id given back by the caller has both its halves by
`ChunkId`.

### The capture program

`Capture_proofs` proves `ProgramInvariance`, `EveryFrameSavedHolds`, `FileSpanHolds`
and `InterfaceRestoredHolds` for any number of programs on an interface, with any
command lines. `CaptureInv` relates, for each program, its place in `main` to
its streams: how many of the frames it took are in them, each once and in order
(`SavedSoFar`), which stream is in use and when rotation is due (`Rotating`), and
that frames of one file are less than N seconds apart and, but in the first file, less
than N seconds behind its opening (`Spans`). `FlagOwned` relates the programs: if the
interface was not promiscuous before and is now, some program means to clear it.

### Transmitting

`TxFifo_proofs` proves `TypeCorrect`, `NoOverlapHolds`, `FeedbackRecognisedHolds` and
`AnswerOnItsWayHolds` from `TxAssumption`: the queue length divides 2^16, and queue
length and buffer size in cache lines are together at most 2^16. The inductive
invariant `FifoInv` is, besides types, that the FIFO was acquired over the chunks of
another (`late`), or

- `Window`: the chunks on the wire are the last sequence numbers; the card's answer
  is older than they, the sender's idea of it as old or older, and all are within the
  `queue_len` numbers in which a 16-bit difference is believed;
- `Layout`: within a lap, chunks lie one after the other, after the end of what is
  known to be sent, and the queue of ends has the end of each;
- `Ready`: a chunk being prepared has a number and lies in free space.

`NoOverlap` needs all three: the space after a wrap ends where the oldest chunk not
known to be sent begins, which is the recorded end of the one before it only because
its entry has not been reused, and its number is told from the others only because
it is in the window. `Window` says too that a lap has no more chunks than lines
behind the next offset, so that numbers of one lap cannot outrun 2^16 either; this is
what the assumption on the buffer size is for. The arithmetic of differences modulo
`SeqMod` is in lemmas of its own (`AgoFacts`, ...).

`AnswerOnItsWay` is what the progress of a sender rests on, and what the comment in
`exanic_prepare_tx_chunk` claims: it never waits for an answer that nobody asked for.
By itself it says nothing of what the sender will do next, so `AskInv` adds, beside
`FifoInv`:

- `Answers`: the last chunk on the wire that asks for feedback is the last request;
  when none asks, the feedback word is the answer to it;
- `Asked`: the last request is at most half the queue and one back, and at most
  `Interval` behind the next chunk; or nothing has been sent in the lap, and it ended
  where its answer frees room for any chunk that is not refused.

The second part of `Asked` is what a lap begun for a chunk gives, because a lap is
only begun from the second half of the buffer (`WrapsLate`) - unless the chunk is then
found too large, which is the defect of `TxHang` and the reason for `refused`. Suppose
now that the sender waits and no answer is coming: then `feedback_seq` is the last
request, and either its distance is less than the queue's length, so numbers are free,
or the rest of the buffer, or the space up to its end, has room.

### Handles, buffers and main

`Device_proofs` proves `RefsMatchHolds`, `SameNameHolds`, `MapsMatchHolds`,
`DriverMatchHolds`, `HashTargetsHold`, `LeavesNothingHolds`, `DeviceTypeCorrect` and
`FiltersAsWrittenHolds` for all the programs of `Device`, from `DeviceInvariance`, whose invariant has four
parts:

- `HandlesInv` and `MapsInv`: counts equal users, names are apart, mappings are those
  of open handles and of the one leak. Every step of any program does to the handles
  one of five things (`HandleStep`: retain, release, open, fail to open, nothing).
  `SameNameHolds` depends on `HandlesAssumption`: no name is what a longer one is cut
  to;
- `BuffersInv`: the driver's allocations of each buffer are those of the program's
  variables, of flow hashing, of other processes and of the leaks (`RxRight`,
  `TxRight`); a port that hashes has the buffers of its mask (`HashRight`); filters
  steer to allocated buffers (`FiltersRight`). The power of two that
  `exanic_enable_flow_hashing` rolls back to, and a filter's new number, exist because
  a set of naturals has a least member (`Least`, from well-foundedness: induction is
  out of the prover's reach);
- `ProgramInv`: what `main` holds at each of its places.

`FiltersAsWrittenHolds` is for every packet and every command line whose ports fit in
16 bits and whose addresses and ports are not 0 (`Proper`). Of the clause read from
`n` words, `ClauseRead` says how many words it has (`Counted`), that only the last can
be a keyword without an argument (`LastWord`), that the filter has what the words ask
for (`KeywordsFilled`, `ProtocolsFilled`) and no more (`SeenInWords`, `FilledSeen`), and
that no two words conflict (`Apart`). Each kind of word keeps it (`ArgumentKeeps` to
`EndKeeps`), and a least number of words after which it fails cannot be
(`ReadingKeeps`, by `Least` again). So a filter matches what its words say
(`FilterSays`). A clause with `host` or `port` leaves the source open, since the words
that fill it conflict with those, and the reverse filter therefore matches just the
answers (`ReverseAnswers`). Between the steps of `main`, `FilterInv` relates card and
line: what the filters on the program's buffer match is what the clauses up to the
words left describe, but for a reverse still to be added. It needs `BuffersInv` and
`ProgramInv`: a buffer just acquired has no filters, and no other process frees it.

### Firewall, rules, timestamps and queries

`Tools_proofs` proves, for any number of processes, slots, rules and calls with
failing calls and kills, `NeverHalfLoadedHolds` and `CardFollowsRulesHolds`. By itself
the first is not inductive: a call that turns a slot on must know what it has
loaded. `OffWhileLoaded` says that while a call loads a slot that no other has
disturbed, the slot is off and holds as much of the rule as has been loaded;
`MeetingsSeen`, that two calls concerned with one slot are known to disturb it;
`WordRead`, that a register about to be written has been read. For the second,
`CardInv` adds what a call that has been alone at its slot has done so far to file and
card (`Progress`), and that slots whose last call succeeded agree (`Agrees`).

`TimeRightHolds` is for every width `B` of a word: `TimeInv` says of a reading half
done that its words are those of two times between the stamp and now; then at most one
rollover lies between (`TimeAssumption`), and the division and the products of the
conversion fit in two words, in lemmas about division and words (`Division`,
`TwoWords`, ...).

`LaddersCleanHolds` and `FieldsRightHolds` are for every list of interfaces, cage
and module. A ladder is `Balanced` from what it starts with to what it leaves if
no step that may fail holds more than its exit gives back. Ladders one after the
other are balanced (`Chain`), so is a ladder within a call that gives back more
(`WithMore`), and each of the ten ladders is by its steps; `QueryInv` says that the rest
of the ladder of a running call is balanced from what the call holds. `Width` divides
`PhysWidth`, so that the lanes of a port lie in its cage (`LaneInCage`) and those of two
ports do not meet (`LanesApart`).

`RuleMeansHolds` is for every width of an address, every vocabulary, every length of
a text and every frame. The parser is a state that one word at a time advances, so
an invariant over the words read takes the place of an induction. `Reads(words, rule)`
says what the state knows of them: the conditions that are whole are in pattern and
mask, and every field that is compared has its
condition (`Said`); the condition half read is the end of the words (`Opened`);
`vlan` and its identifier (`Tagged`); the protocol named, or IP where conditions come
without one (`ProtoRead`). `Moves` lists what a word may do to the state, and there is
one lemma for each (`ActionReads` to `TypeReads`). At the end of the words, both
`Means` and `Matches` come to what the state `Asks`; a masked address equals the
network's iff it lies in the network (`InNetwork`). A frame that matches a proper rule
is one the words describe; the converse is for `Plain` frames. `Reads` is kept
while the words are `Proper`: then the numbers stored are those written (`Narrow`,
`ProperNumber`), a mask has a value, and a second type is the first. Of other texts
nothing is claimed.

### Only model-checked

- All liveness (`CallReturns`, `Drained`, and their like in the other modules), which
  needs fairness and `ENABLED`, out of the prover's reach. Of
  `PrepareReturnsUnlessRefused` the part that is safety, `AnswerOnItsWay`, is proved;
  what is left is that the card goes on sending and the sender looking.

## 5. Findings

- The capture program's receive routine lacks the sentinel check of
  `exanic_receive_frame` and can save a torn frame as good (`CaptureTorn`).
- A frame that does not fit its buffer leaves the sentinel behind; a later whole
  frame is dropped as a software overflow (`RxTruncateOverflow`).
- `exanic_prepare_tx_chunk` wraps the buffer before it refuses a chunk, after which
  a sender can wait for ever (`TxHang`).
- A copying chunk call answers `SWOVFL`, "chunks were missed", though the chunk it
  copied is whole and none was missed, when calls that do not move the sentinel came
  before it (`RxChunkOverflow`).

Other places where code and documentation differ, or the code leaves a case out, met
while modelling; the properties except them by name:

- `exanic_receive_chunk` and `exanic_receive_chunk_inplace` report an error without
  setting `more_chunks` (`fifo_rx.c:473`), against `fifo_rx.h:142`.
- Leaks: a filter buffer when its ring cannot be mapped (`fifo_rx.c:68`, `129`), ring
  and handle when `malloc` fails (`76`, `137`), the handle when the TX offsets cannot
  be allocated (`fifo_tx.c:194`), a region of a devkit when `exanic_t` cannot
  (`exanic.c:208`).
- Device names of more than 15 characters are cut when stored and compared whole
  (`exanic.c:230`): the same name opens a second handle.
- `-w -` writes packets without the file header, which only a rotation to a named
  file writes (`main.c:554`), though the usage offers standard output for either
  format (`main.c:710`).
- The first rotation is counted from a reading of the clock made some time after the
  file was opened (`main.c:564`); the file may hold frames of that much more than N
  seconds.
- Ports in a filter expression are cut to 16 bits unchecked (`main.c:103`, `113`,
  `123`): 65616 steers port 80, 65536 any port. So are ports and VLANs in a firewall
  rule (`parser.c:82`, `261`), and types to 8 bits (`parser.c:419`): `type 256` is
  type 0.
- A filter expression whose last word lacks its argument loses its last clause in
  silence (`main.c:101`). An address or port of 0 in one matches any, as a field of
  0 does for the card (`main.c:76`, `103`).
- Firewall rules: a network not written with its first address matches nothing, and
  a prefix of length 0 shifts by the width of the word (`parser.c:309`, as does
  `config.c:371` for a default route); `vlan` with an identifier compares the whole
  tag, priority included; a second `type` replaces the first; all IP rules but
  `igmp` match only headers without options.
- `exanic_cycles_to_ps` compares seconds with a limit for ticks to tell overflow
  (`time.c:85`, `time.h:101`); `tick_hz` 0 gives timestamp 0 and a division by zero in
  the capture program (`main.c:612`).
- The tables of `exanic_get_all_ports` and its like take part of an entry left over
  for room (`config.c:284`, `366`).
- A QSFP module in a QSFP-DD cage is asked for lanes 4 to 7, which it has not
  (`transceiver.c:436`).
- `-C` sets a size limit that nothing looks at (`main.c:526`).

## 6. What is not modelled

- `port.c` reads one register, or makes one ioctl, per call; `pcie_if.h`,
  `hw_info.h`, `register.h`, `const.h`: offsets and a table of card types;
  `checksum*.h`: inline assembly. None has state or a choice to check.
- Payload, headers and checksums of chunks sent; byte layouts of pcap and ERF
  records, names of output directories, option parsing and printed text.
  Timestamps of frames are carried, not computed with, in the receive modules.
- Bonded interfaces, addresses and the parsing of netlink replies (`config.c`);
  floating-point conversions of transceiver values; reads and writes of the card's
  own EEPROM, one ioctl each.
- A capture started over the files of an earlier one, which it truncates
  (`main.c:477`).

`PROJECT.json` lists every component with its reason.

## 7. Plan

Done: receiving, chunk calls, transmission with re-acquisition, handles, buffers,
flow hashing, filters, firewall, timestamps, queries, transceivers, and proofs of
their safety. Left, in order of importance:

1. `TxFifo`: an abstract bounded queue of bytes, and its refinement.
2. `Capture`: restarts over the files of an earlier run.
