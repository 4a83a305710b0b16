------------------------------- MODULE Handles -------------------------------
(***************************************************************************)
(* Device handles of libs/exanic/exanic.c.  A process opens a device once: *)
(* exanic_acquire_handle looks the name up in a list and counts references *)
(* (callers, RX and TX buffers), and the last reference released unmaps    *)
(* and closes everything.                                                  *)
(*                                                                         *)
(* Opening is a ladder of open, ioctl and mmap calls, each of which may    *)
(* fail; the failing call jumps to a label that undoes the ones before it. *)
(* A call of the library is one action: the process has one thread, and    *)
(* nothing of what it does here is seen by others before it returns.       *)
(***************************************************************************)
EXTENDS Integers, Sequences, FiniteSets

CONSTANTS
    Ids,        \* addresses of exanic_t structures
    Names,      \* device names that callers give
    Cut,        \* the name as kept in the structure, by name: 15 characters
    Users,      \* places that hold a pointer to a handle and a reference
    Nobody,     \* NULL
    Offers      \* sets of optional regions that a device may turn out to have

\* The calls of exanic_acquire_handle in order; those but the two that only ask
\* or allocate memory leave something to be undone.
Steps == <<"fd", "info ioctl", "registers", "info page", "feedback", "tx buffer",
           "filters", "devkit regs", "devkit mem", "devkit regs ex",
           "devkit mem ex", "malloc">>
Regions  == {Steps[i] : i \in 1 .. 12} \ {"info ioctl", "malloc"}
Optional == {Steps[i] : i \in 5 .. 11}

\* No name given is what another is cut to: the driver's own names are short.
ASSUME HandlesAssumption ==
    /\ Cut \in [Names -> STRING]
    /\ \A n, m \in Names : Cut[n] = m => n = m
    /\ Offers \subseteq SUBSET Optional
    /\ Nobody \notin Ids
    /\ IsFiniteSet(Users)

VARIABLES
    exanic,         \* the structures, by address
    exanic_list,    \* those linked (no lookup finds two, so the order is left out)
    maps,           \* how many mappings of each region, and open files, there are
    uses,           \* the handle that each place points to
    lost_maps,      \* history: mappings no pointer is left to
    ret             \* "ok", or "failed" when the last call returned NULL or -1

handleVars == <<exanic, exanic_list, maps, uses, lost_maps, ret>>

Unused == [name |-> "", ref_count |-> 0, regions |-> {}]
Open   == {h \in Ids : exanic[h].ref_count > 0}

\* What a structure holds: a name as kept, or none.
KeptNames  == {Cut[n] : n \in Names} \cup {""}
Structures == [name : KeptNames, ref_count : Nat, regions : SUBSET Regions]

HandlesTypeOK ==
    /\ exanic \in [Ids -> Structures]
    /\ exanic_list \subseteq Ids
    /\ maps \in [Regions -> Nat]
    /\ uses \in [Users -> Ids \cup {Nobody}]
    /\ lost_maps \in [Regions -> Nat]
    /\ ret \in {"none", "ok", "failed"}

HandlesInit ==
    /\ exanic = [h \in Ids |-> Unused]
    /\ exanic_list = {}
    /\ maps = [r \in Regions |-> 0]
    /\ uses = [u \in Users |-> Nobody]
    /\ lost_maps = [r \in Regions |-> 0]
    /\ ret = "none"

-----------------------------------------------------------------------------
\* exanic_retain_handle, for the pointer that u will hold.
Retain(u, h) ==
    /\ uses[u] = Nobody /\ h \in Open
    /\ uses' = [uses EXCEPT ![u] = h]
    /\ exanic' = [exanic EXCEPT ![h].ref_count = @ + 1]
    /\ UNCHANGED <<exanic_list, maps>>

One(set) == [r \in Regions |-> IF r \in set THEN 1 ELSE 0]

Last(h) == exanic[h].ref_count - 1 <= 0

\* Mutant: the structure is freed but stays linked.
ReleaseLinked(u) ==
    LET h == uses[u] IN
    /\ h # Nobody
    /\ uses' = [uses EXCEPT ![u] = Nobody]
    /\ exanic' = [exanic EXCEPT ![h] = IF Last(h) THEN Unused
                                       ELSE [exanic[h] EXCEPT !.ref_count = @ - 1]]
    /\ maps' = [r \in Regions |->
                   maps[r] - IF Last(h) THEN One(exanic[h].regions)[r] ELSE 0]
    /\ UNCHANGED exanic_list

\* exanic_release_handle of the pointer that u holds.
Release(u) ==
    LET h == uses[u] IN
    /\ h # Nobody
    /\ uses' = [uses EXCEPT ![u] = Nobody]
    /\ exanic' = [exanic EXCEPT ![h] = IF Last(h) THEN Unused
                                       ELSE [exanic[h] EXCEPT !.ref_count = @ - 1]]
    /\ exanic_list' = IF Last(h) THEN exanic_list \ {h} ELSE exanic_list
    /\ maps' = [r \in Regions |->
                   maps[r] - IF Last(h) THEN One(exanic[h].regions)[r] ELSE 0]

-----------------------------------------------------------------------------
(* exanic_acquire_handle                                                   *)

\* Mutant: the result of the comparison is taken the wrong way round.
FoundOther(n) == {h \in exanic_list : exanic[h].name # n}
Found(n) == {h \in exanic_list : exanic[h].name = n}

\* What is mapped for a device with these optional regions; the page with the
\* time is done without if it cannot be mapped.
Wanted(offer, page) ==
    {"fd", "registers"} \cup offer \cup (IF page THEN {"info page"} ELSE {})

AcquireFound(u, n) ==
    /\ \E h \in Found(n) : Retain(u, h)
    /\ ret' = "ok"
    /\ UNCHANGED lost_maps

AcquireOpened(u, n) ==
    /\ uses[u] = Nobody /\ Found(n) = {}
    /\ \E h \in Ids \ Open, offer \in Offers, page \in BOOLEAN :
          /\ exanic' = [exanic EXCEPT ![h] = [name |-> Cut[n], ref_count |-> 1,
                                              regions |-> Wanted(offer, page)]]
          /\ exanic_list' = exanic_list \cup {h}
          /\ uses' = [uses EXCEPT ![u] = h]
          /\ maps' = [r \in Regions |-> maps[r] + One(Wanted(offer, page))[r]]
    /\ ret' = "ok"
    /\ UNCHANGED lost_maps

Before(step) ==
    LET i == CHOOSE j \in 1 .. 12 : Steps[j] = step IN {Steps[j] : j \in 1 .. i - 1}

\* Mutant: a failed mapping of the TX buffer leaves the feedback slots mapped.
LabelTooFar(step) ==
    IF step = "malloc" THEN "devkit mem ex" ELSE IF step = "tx buffer" THEN "feedback" ELSE step
\* The label a failed step jumps to, named after the first step not undone.
Label(step) == IF step = "malloc" THEN "devkit mem ex" ELSE step

\* A failed malloc leaves the extended memory region of a devkit mapped.
AcquireFailed(u, n) ==
    /\ uses[u] = Nobody /\ Found(n) = {}
    /\ \E offer \in Offers, page \in BOOLEAN :
          LET want == Wanted(offer, page) IN
          \E step \in (want \cup {"info ioctl", "malloc"}) \ {"info page"} :
             /\ maps' = [r \in Regions |-> maps[r] + One(want \cap Before(step))[r]
                                         - One(want \cap Before(Label(step)))[r]]
             /\ lost_maps' = IF step = "malloc" /\ "devkit mem ex" \in want
                             THEN [lost_maps EXCEPT !["devkit mem ex"] = @ + 1]
                             ELSE lost_maps
    /\ ret' = "failed"
    /\ UNCHANGED <<exanic, exanic_list, uses>>

AcquireHandle(u, n) == AcquireFound(u, n) \/ AcquireOpened(u, n) \/ AcquireFailed(u, n)

\* exanic_release_handle, by a caller.
ReleaseHandle(u) == Release(u) /\ ret' = "ok" /\ UNCHANGED lost_maps

\* exanic_retain_handle, by a caller that hands the pointer of v on.
RetainHandle(u, v) ==
    /\ uses[v] # Nobody /\ Retain(u, uses[v])
    /\ ret' = "ok"
    /\ UNCHANGED lost_maps

-----------------------------------------------------------------------------
UsersOf(h) == {u \in Users : uses[u] = h}
Mapping(r) == {h \in Ids : r \in exanic[h].regions}

\* The count in a handle is the number of references in use: no caller and no
\* buffer is left with a handle that another's release has freed, and a handle
\* is open only while something refers to it.
RefsMatch ==
    /\ \A h \in Ids : exanic[h].ref_count = Cardinality(UsersOf(h))
    /\ exanic_list = Open

\* Every open file and every mapping belongs to an open handle, or is one of
\* those that a failed malloc leaves behind: all other exits give back what they took.
MapsMatch ==
    \A r \in Regions : maps[r] = Cardinality(Mapping(r)) + lost_maps[r]

\* "Multiple calls to exanic_acquire_handle with the same device name will
\* return the same pointer", if the name is not cut.
SameNameSameHandle ==
    \A g, h \in Open : exanic[g].name = exanic[h].name =>
        g = h \/ \A n \in Names : Cut[n] = exanic[h].name => Cut[n] # n
=============================================================================
