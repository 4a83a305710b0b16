-------------------------------- MODULE HwTime --------------------------------
(***************************************************************************)
(* Timestamps: libs/exanic/time.c.  The card stamps a frame with the low   *)
(* word of its clock; the library completes the stamp from the clock as it *)
(* is now, read from the page that the driver updates or, while the clock  *)
(* runs on, in three reads of two registers, and converts it to units of   *)
(* time.                                                                   *)
(*                                                                         *)
(* A word has B bits instead of 32 and a second NANOS and PICOS instead of *)
(* 10^9 and 10^12 parts.                                                   *)
(***************************************************************************)
EXTENDS Integers

CONSTANTS
    B,              \* bits of a word; a cycle count has two words
    NANOS, PICOS,   \* units in a second
    Hz,             \* clock frequencies
    MaxTime         \* bound: the last time of the clock

Radix == 2 ^ B

\* The clock's times are positive as signed counts of cycles, and fit in two words
\* as nanoseconds (64 bits of them last for centuries).
ASSUME TimeAssumption ==
    /\ B \in Nat \ {0} /\ MaxTime \in Nat /\ 2 * MaxTime < Radix * Radix
    /\ NANOS \in Nat \ {0} /\ NANOS < Radix
    /\ PICOS \in Nat /\ PICOS < Radix * Radix
    /\ Hz \subseteq 0 .. Radix - 1
    /\ \A h \in Hz \ {0} : MaxTime * NANOS < Radix * Radix * h

VARIABLES
    now,        \* the card's clock
    stamped,    \* the time at which the frame was stamped
    hw_time,    \* in the info page; -1 if the page is not mapped
    caps_hi,    \* EXANIC_CAP_HW_TIME_HI
    tick_hz,
    reading,    \* exanic_expand_timestamp: what was read so far
    cycles      \* what it returned

timeVars == <<now, stamped, hw_time, caps_hi, tick_hz, reading, cycles>>

Low(t)  == t % Radix
High(t) == t \div Radix
Signed(x) == IF x < Radix \div 2 THEN x ELSE x - Radix

Unread == [at |-> "none", by |-> "page", hi1 |-> 0, lo |-> 0]

TimeInit ==
    /\ now \in 0 .. MaxTime
    /\ stamped = now
    /\ hw_time \in -1 .. now
    /\ caps_hi \in BOOLEAN
    /\ tick_hz \in Hz
    /\ hw_time = -1 /\ ~caps_hi => tick_hz = 0   \* exanic_open sees to it
    /\ reading = Unread /\ cycles = 0

At(at) == reading.at = at
Clock == <<now, stamped, hw_time, caps_hi, tick_hz>>

Advance(d) ==
    /\ ~At("done") /\ now + d <= MaxTime
    /\ now' = now + d
    /\ UNCHANGED <<stamped, hw_time, caps_hi, tick_hz, reading, cycles>>

\* The driver updates the page from time to time.
UpdatePage ==
    /\ hw_time # -1 /\ ~At("done")
    /\ hw_time' = now
    /\ UNCHANGED <<now, stamped, caps_hi, tick_hz, reading, cycles>>

\* exanic_expand_timestamp once the time is read: the nearest that ends in the stamp.
Expanded(base) == base + Signed((Low(stamped) - base) % Radix)
Expand(base) ==
    /\ reading' = [reading EXCEPT !.at = "done"]
    /\ cycles' = Expanded(base)

Registers == caps_hi /\ hw_time \in {-1, 0}

ReadHi1 ==
    /\ At("none") /\ tick_hz # 0 /\ Registers
    /\ reading' = [Unread EXCEPT !.at = "hi1", !.by = "registers", !.hi1 = High(now)]
    /\ UNCHANGED <<Clock, cycles>>

ReadLo ==
    /\ At("hi1")
    /\ reading' = [reading EXCEPT !.at = "lo", !.lo = Low(now)]
    /\ UNCHANGED <<Clock, cycles>>

\* Mutant: the first high word is kept after a rollover.
FirstHigh(hi2) == reading.hi1

\* The high word that goes with lo.
HighOf(hi2) == IF hi2 # reading.hi1 /\ reading.lo < Radix \div 2 THEN hi2 ELSE reading.hi1

ReadHi2 ==
    /\ At("lo")
    /\ Expand(HighOf(High(now)) * Radix + reading.lo)
    /\ UNCHANGED Clock

ReadPage ==
    /\ At("none") /\ tick_hz # 0 /\ ~Registers
    /\ Expand(hw_time)
    /\ UNCHANGED Clock

\* A device with no clock of its own.
NoTick ==
    /\ At("none") /\ tick_hz = 0
    /\ reading' = [reading EXCEPT !.at = "no tick"]
    /\ UNCHANGED <<Clock, cycles>>

TimeNext ==
    \/ \E d \in 1 .. Radix : Advance(d)
    \/ UpdatePage \/ ReadHi1 \/ ReadLo \/ ReadHi2 \/ ReadPage \/ NoTick

-----------------------------------------------------------------------------
(* Conversions, in arithmetic of two words                                 *)

U(x) == x % (Radix * Radix)

Timespec(c) == [tv_sec  |-> c \div tick_hz,
                tv_nsec |-> U((c % tick_hz) * NANOS) \div tick_hz]
Ns(c) == U(Timespec(c).tv_sec * NANOS + Timespec(c).tv_nsec)

Psec(c) == U(U((c % tick_hz) * (PICOS \div tick_hz))
             + U((c % tick_hz) * (PICOS % tick_hz)) \div tick_hz)

\* exanic_counter_to_timestamp
Timestamp(ns) == Low(U((ns \div NANOS) * tick_hz) + U((ns % NANOS) * tick_hz) \div NANOS)

-----------------------------------------------------------------------------
\* "This function must be called within a few seconds of the timestamped time":
\* the reads were over, or the page was updated, within half a word of the stamp.
Timely ==
    LET clock == IF reading.by = "page" THEN hw_time ELSE now
    IN  stamped - Radix \div 2 < clock /\ clock < stamped + Radix \div 2

\* A stamp is completed to the time at which the card made it, wherever between
\* the three reads the low word rolls over, and the conversions round that time
\* down without overflowing: to seconds and nanoseconds or picoseconds, to
\* nanoseconds, and from those back to the stamp or what the rounding took off it.
TimeRight ==
    At("done") /\ Timely =>
        LET ns == (stamped * NANOS) \div tick_hz IN
        /\ cycles = stamped
        /\ Ns(cycles) = ns
        /\ Timespec(cycles).tv_sec * PICOS + Psec(cycles) = (stamped * PICOS) \div tick_hz
        /\ (Low(stamped) - Timestamp(ns)) % Radix \in 0 .. tick_hz \div NANOS + 1
=============================================================================
