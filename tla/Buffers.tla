------------------------------- MODULE Buffers -------------------------------
(***************************************************************************)
(* What libs/exanic asks of the kernel driver on behalf of a handle: RX    *)
(* buffers and their rings (fifo_rx.c), flow hashing over filter buffers   *)
(* (fifo_rx.c), flow steering filters (filter.c) and TX buffers with their *)
(* feedback slots (fifo_tx.c), with the calls that fail.                   *)
(*                                                                         *)
(* The driver is not part of the repository.  It is taken to count the     *)
(* allocations of a filter buffer, as the library must ("Need to allocate  *)
(* the buffer if it isn't already"), and to drop the filters of a buffer   *)
(* with the buffer.  Other processes allocate from the same pool.          *)
(***************************************************************************)
EXTENDS Handles, FiniteSetsExt

CONSTANTS
    Callers, RxIds, TxIds,  \* variables of the program: handles, RX, TX buffers
    Losses,     \* bound: references (and rings) lost
    Ports,      \* usable, enabled ports
    MaxBuffers, \* max_filter_buffers
    Contested,  \* filter buffers that other processes use too
    MaxOthers,  \* bound: allocations of such a buffer by other processes
    MaxShares,  \* bound: calls that enable flow hashing
    MaxLost,    \* bound: mappings and filter buffers lost
    Flows       \* what an IP or MAC filter can ask for

\* A pointer has one place; ports are numbered.
ASSUME BuffersAssumption ==
    /\ Users = Callers \cup RxIds \cup TxIds \cup Losses
    /\ Callers \cap (RxIds \cup TxIds \cup Losses) = {}
    /\ Ports \subseteq Nat
    /\ MaxBuffers \in Nat /\ MaxOthers \in Nat /\ MaxShares \in Nat /\ MaxLost \in Nat

VARIABLES
    rx,         \* exanic_rx_t, by variable: port and buffer number
    tx,         \* exanic_tx_t: the port
    rings,      \* RX rings mapped
    bufs,       \* driver: allocations of each filter buffer
    txmem,      \* driver: regions of TX memory allocated
    slots,      \* driver: feedback slots allocated
    hash,       \* driver: flow hashing of each port
    filters,    \* driver: filters in force
    others,     \* history: allocations by other processes
    shares,     \* history: allocations by flow hashing
    lost        \* history: rings and filter buffers lost

bufferVars == <<rx, tx, rings, bufs, txmem, slots, hash, filters, others, shares, lost>>
driverVars == <<bufs, txmem, slots, hash, filters>>
vars == <<handleVars, bufferVars>>

Buffer == Ports \X (0 .. MaxBuffers - 1)     \* numbered from 0, as the driver does
None == [port |-> -1, buffer_number |-> 0]
Live == {x \in RxIds : rx[x] # None}
LiveTx == {t \in TxIds : tx[t] # -1}
Rings == [port : Ports, buffer_number : 0 .. MaxBuffers]

BuffersTypeOK ==
    /\ rx \in [RxIds -> Rings \cup {None}]
    /\ tx \in [TxIds -> Ports \cup {-1}]
    /\ rings \in Nat /\ txmem \in Nat /\ slots \in Nat
    /\ bufs \in [Buffer -> Nat] /\ others \in [Buffer -> Nat] /\ shares \in [Buffer -> Nat]
    /\ hash \in [Ports -> [enable : BOOLEAN, mask : Nat]]
    /\ \A f \in filters : f.buffer \in Buffer /\ f.id \in Nat
    /\ lost \in [rings : Nat, bufs : [Buffer -> Nat]]

NoBuffers == [b \in Buffer |-> 0]

BuffersInit ==
    /\ rx = [x \in RxIds |-> None] /\ tx = [t \in TxIds |-> -1]
    /\ rings = 0 /\ txmem = 0 /\ slots = 0
    /\ bufs = NoBuffers /\ others = NoBuffers /\ shares = NoBuffers
    /\ hash = [p \in Ports |-> [enable |-> FALSE, mask |-> 0]]
    /\ filters = {}
    /\ lost = [rings |-> 0, bufs |-> NoBuffers]

-----------------------------------------------------------------------------
(* The driver's calls                                                      *)

\* EXANICCTL_RX_FILTER_BUFFER_ALLOC_EX and _FREE.
Alloc(set) == bufs' = [b \in Buffer |-> bufs[b] + IF b \in set THEN 1 ELSE 0]
Free(b) == /\ bufs' = [bufs EXCEPT ![b] = @ - 1]
           /\ filters' = IF bufs[b] = 1 THEN {f \in filters : f.buffer # b} ELSE filters

\* Mutant: the number is not shifted.
OfRingUnshifted(r) == {<<r.port, r.buffer_number>>} \cap Buffer
\* The driver's buffer of a ring; the default ring has none.
OfRing(r) == {<<r.port, r.buffer_number - 1>>} \cap Buffer

-----------------------------------------------------------------------------
(* RX buffers                                                              *)

\* The three ends of the two acquiring calls once the driver has what it was
\* asked for: the ring r mapped and rx allocated, the ring not mapped, rx not
\* allocated.  The last two lose what was taken before.
Acquired(x, h, r) ==
    /\ Retain(x, h)
    /\ rx' = [rx EXCEPT ![x] = r]
    /\ rings' = rings + 1
    /\ ret' = "ok"
    /\ UNCHANGED lost

MmapFailed(r) ==
    /\ lost' = [lost EXCEPT !.bufs = [b \in Buffer |->
                               @[b] + IF b \in OfRing(r) THEN 1 ELSE 0]]
    /\ ret' = "failed"
    /\ UNCHANGED <<exanic, exanic_list, maps, uses, rx, rings>>

MallocFailed(h, r) ==
    /\ \E l \in Losses : Retain(l, h)
    /\ rings' = rings + 1
    /\ lost' = [rings |-> lost.rings + 1,
                bufs |-> [b \in Buffer |->
                            lost.bufs[b] + IF b \in OfRing(r) THEN 1 ELSE 0]]
    /\ ret' = "failed"
    /\ UNCHANGED rx

Taken(x, h, r) ==
    /\ Alloc(OfRing(r))
    /\ Acquired(x, h, r) \/ MmapFailed(r) \/ MallocFailed(h, r)
    /\ UNCHANGED <<lost_maps, tx, txmem, slots, hash, filters, others, shares>>

Refused ==
    /\ ret' = "failed"
    /\ UNCHANGED <<exanic, exanic_list, maps, uses, lost_maps, bufferVars>>

\* exanic_acquire_rx_buffer; number 0 is the port's default ring.
AcquireRxBuffer(x, c, r) ==
    /\ rx[x] = None /\ uses[c] # Nobody
    /\ Taken(x, uses[c], r) \/ Refused

\* exanic_acquire_unused_filter_buffer: the driver picks one.
AcquireUnused(x, c, p) ==
    /\ rx[x] = None /\ uses[c] # Nobody
    /\ \/ \E b \in Buffer : /\ b[1] = p /\ bufs[b] = 0
                            /\ Taken(x, uses[c], [port |-> p, buffer_number |-> b[2] + 1])
       \/ Refused

\* Mutant: the driver's buffer is not given back.
ReleaseRxKeeping(x) ==
    /\ rx[x] # None
    /\ rx' = [rx EXCEPT ![x] = None]
    /\ rings' = rings - 1
    /\ Release(x)
    /\ ret' = "ok"
    /\ UNCHANGED <<lost_maps, tx, bufs, txmem, slots, hash, filters, others, shares, lost>>

ReleaseRxBuffer(x) ==
    /\ rx[x] # None
    /\ rx' = [rx EXCEPT ![x] = None]
    /\ rings' = rings - 1
    /\ IF rx[x].buffer_number > 0
       THEN Free(<<rx[x].port, rx[x].buffer_number - 1>>)
       ELSE UNCHANGED <<bufs, filters>>
    /\ Release(x)
    /\ ret' = "ok"
    /\ UNCHANGED <<lost_maps, tx, txmem, slots, hash, others, shares, lost>>

-----------------------------------------------------------------------------
(* Flow hashing                                                            *)

Pow2s == {2 ^ i : i \in 0 .. 10}

\* Buffers are allocated from 0 up until all max are or the driver refuses one,
\* and given back down to a power of two.
Kept(got) == Max({n \in Pow2s : n <= got})

\* Mutant: the mask covers the buffers that were given back.
EnableUnmasked(p, max) ==
    \E got \in 1 .. max :
        LET mine == {<<p, i>> : i \in 0 .. Kept(got) - 1} IN
        /\ Alloc(mine)
        /\ shares' = [b \in Buffer |-> shares[b] + IF b \in mine THEN 1 ELSE 0]
        /\ hash' = [hash EXCEPT ![p] = [enable |-> TRUE, mask |-> got - 1]]
        /\ ret' = "ok"

Enable(p, max) ==
    \E got \in 1 .. max :
        LET mine == {<<p, i>> : i \in 0 .. Kept(got) - 1} IN
        /\ Alloc(mine)
        /\ shares' = [b \in Buffer |-> shares[b] + IF b \in mine THEN 1 ELSE 0]
        /\ hash' = [hash EXCEPT ![p] = [enable |-> TRUE, mask |-> Kept(got) - 1]]
        /\ ret' = "ok"

\* exanic_enable_flow_hashing.  No buffer at all is an error.
EnableFlowHashing(c, p, max) ==
    /\ uses[c] # Nobody /\ max \in Pow2s
    /\ \/ /\ Enable(p, Min({max, MaxBuffers}))
          /\ \A b \in Buffer : shares'[b] <= MaxShares
          /\ UNCHANGED <<exanic, exanic_list, maps, uses, lost_maps, rx, tx, rings,
                         txmem, slots, filters, others, lost>>
       \/ Refused

\* exanic_disable_flow_hashing gives none of the buffers back.
DisableFlowHashing(c, p) ==
    /\ uses[c] # Nobody
    /\ hash' = [hash EXCEPT ![p] = [enable |-> FALSE, mask |-> 0]]
    /\ ret' = "ok"
    /\ UNCHANGED <<exanic, exanic_list, maps, uses, lost_maps, rx, tx, rings,
                   bufs, txmem, slots, filters, others, shares, lost>>

-----------------------------------------------------------------------------
(* Filters                                                                 *)

\* The driver numbers filters; an identifier may be given out again.
FreshId == Min((0 .. Cardinality(filters)) \ {f.id : f \in filters})

\* exanic_filter_add_ip and exanic_filter_add_mac; not to the default ring.
FilterAdd(x, flow) ==
    /\ rx[x] # None
    /\ \/ /\ rx[x].buffer_number > 0
          /\ filters' = filters \cup {[buffer |-> <<rx[x].port, rx[x].buffer_number - 1>>,
                                      flow |-> flow, id |-> FreshId]}
          /\ ret' = "ok"
          /\ UNCHANGED <<exanic, exanic_list, maps, uses, lost_maps, rx, tx, rings,
                         bufs, txmem, slots, hash, others, shares, lost>>
       \/ Refused

\* exanic_filter_remove_ip and exanic_filter_remove_mac, by identifier.
FilterRemove(c, p, id) ==
    /\ uses[c] # Nobody
    /\ \/ /\ \E f \in filters : f.id = id /\ f.buffer[1] = p
          /\ filters' = {f \in filters : f.id # id \/ f.buffer[1] # p}
          /\ ret' = "ok"
          /\ UNCHANGED <<exanic, exanic_list, maps, uses, lost_maps, rx, tx, rings,
                         bufs, txmem, slots, hash, others, shares, lost>>
       \/ Refused

-----------------------------------------------------------------------------
(* TX buffers                                                              *)

\* exanic_acquire_tx_buffer.  What fails before the handle is retained is undone;
\* the reference is not, when the offsets cannot be allocated after it.
AcquireTxBuffer(t, c, p) ==
    /\ tx[t] = -1 /\ uses[c] # Nobody
    /\ \/ /\ Retain(t, uses[c])
          /\ tx' = [tx EXCEPT ![t] = p]
          /\ txmem' = txmem + 1 /\ slots' = slots + 1
          /\ ret' = "ok"
          /\ UNCHANGED <<lost_maps, rx, rings, bufs, hash, filters, others, shares, lost>>
       \/ /\ \E l \in Losses : Retain(l, uses[c])
          /\ ret' = "failed"
          /\ UNCHANGED <<lost_maps, bufferVars>>
       \/ Refused

ReleaseTxBuffer(t) ==
    /\ tx[t] # -1
    /\ tx' = [tx EXCEPT ![t] = -1]
    /\ txmem' = txmem - 1 /\ slots' = slots - 1
    /\ Release(t)
    /\ ret' = "ok"
    /\ UNCHANGED <<lost_maps, rx, rings, bufs, hash, filters, others, shares, lost>>

-----------------------------------------------------------------------------
\* Another process allocates or frees a filter buffer.
OtherProcess(b) ==
    /\ \/ others[b] < MaxOthers /\ Alloc({b}) /\ UNCHANGED filters
          /\ others' = [others EXCEPT ![b] = @ + 1]
       \/ others[b] > 0 /\ Free(b)
          /\ others' = [others EXCEPT ![b] = @ - 1]
    /\ UNCHANGED <<handleVars, rx, tx, rings, txmem, slots, hash, shares, lost>>

\* The bound on what failing calls lose (Losses bounds the rings).
FewLost ==
    lost_maps["devkit mem ex"] + MapThenSumSet(LAMBDA b : lost.bufs[b], Buffer) <= MaxLost

-----------------------------------------------------------------------------
\* What the driver has given out is what live buffers, flow hashing and other
\* processes use, and what the two failing exits of the acquiring calls lose.
DriverMatch ==
    /\ \A b \in Buffer :
          bufs[b] = Cardinality({x \in Live : b \in OfRing(rx[x])})
                    + others[b] + shares[b] + lost.bufs[b]
    /\ rings = Cardinality(Live) + lost.rings
    /\ txmem = Cardinality(LiveTx) /\ slots = txmem

\* Frames are hashed only to buffers that somebody has allocated, whatever the
\* driver refuses and others free in the meantime.
HashTargets ==
    \A p \in Ports : hash[p].enable =>
        \A i \in 0 .. hash[p].mask : <<p, i>> \in Buffer /\ bufs[<<p, i>>] > 0
=============================================================================
