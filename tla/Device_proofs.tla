---------------------------- MODULE Device_proofs ----------------------------
(***************************************************************************)
(* Proofs about Handles and Buffers, as used by all the programs of        *)
(* Device, for any number of callers, buffers, ports and names: reference  *)
(* counts, mappings and allocations are right, a name has one handle,      *)
(* frames are hashed to allocated buffers, and the capture program leaves  *)
(* nothing; and that the filters it installs are those its command line    *)
(* describes, for any command line.                                        *)
(***************************************************************************)
EXTENDS Device, FiniteSetTheorems, SequenceTheorems, WellFoundedInduction, TLAPS

\* The handles and the pointers to them are of the types of the model.
HandlesTyped ==
    /\ exanic \in [Ids -> Structures]
    /\ exanic_list \subseteq Ids
    /\ uses \in [Users -> Ids \cup {Nobody}]

\* The invariant that the steps keep.
HandlesInv == HandlesTyped /\ RefsMatch /\ SameNameSameHandle

\* What a step of any program does to the handles.
HandleStep ==
    \/ \E u \in Users, h \in Ids : Retain(u, h) /\ UNCHANGED lost_maps
    \/ \E u \in Users : Release(u) /\ UNCHANGED lost_maps
    \/ \E u \in Users, n \in Names : AcquireOpened(u, n) \/ AcquireFailed(u, n)
    \/ UNCHANGED <<exanic, exanic_list, maps, uses, lost_maps>>

-----------------------------------------------------------------------------
\* A handle has finitely many users.
LEMMA UsersFinite == \A h : IsFiniteSet(UsersOf(h)) /\ Cardinality(UsersOf(h)) \in Nat
<1> TAKE h
<1>1. UsersOf(h) \in SUBSET Users /\ IsFiniteSet(Users)
    BY HandlesAssumption DEF UsersOf
<1> QED BY <1>1, FS_Subset, FS_CardinalityType

\* No handle is open to begin with.
LEMMA HandlesInitInv == HandlesInit => HandlesInv
<1> SUFFICES ASSUME HandlesInit PROVE HandlesInv
    OBVIOUS
<1>1. HandlesTyped
    BY DEF HandlesInit, HandlesTyped, Structures, KeptNames, Unused
<1>2. Open = {}
    <2>1. \A h \in Ids : exanic[h].ref_count = 0
        BY DEF HandlesInit, Unused
    <2> QED BY <2>1 DEF Open
<1>3. ASSUME NEW h \in Ids PROVE exanic[h].ref_count = Cardinality(UsersOf(h))
    <2>1. UsersOf(h) = {}
        BY HandlesAssumption DEF HandlesInit, UsersOf
    <2> QED BY <2>1, FS_EmptySet DEF HandlesInit, Unused
<1>4. RefsMatch /\ SameNameSameHandle
    BY <1>2, <1>3 DEF HandlesInit, RefsMatch, SameNameSameHandle
<1> QED BY <1>1, <1>4 DEF HandlesInv

\* A pointer is handed on, and counted.
LEMMA RetainKeeps ==
    ASSUME HandlesInv, NEW u \in Users, NEW h \in Ids, Retain(u, h)
    PROVE  HandlesInv'
<1>1. /\ exanic \in [Ids -> Structures] /\ exanic[h] \in Structures
      /\ uses \in [Users -> Ids \cup {Nobody}] /\ uses[u] = Nobody
      /\ exanic_list \subseteq Ids /\ exanic_list = Open /\ h \in Open
    BY DEF HandlesInv, HandlesTyped, RefsMatch, Retain
<1>2. /\ exanic' = [exanic EXCEPT ![h] = [exanic[h] EXCEPT !.ref_count = @ + 1]]
      /\ uses' = [uses EXCEPT ![u] = h] /\ exanic_list' = exanic_list
    BY DEF Retain
<1>3. [exanic[h] EXCEPT !.ref_count = @ + 1] \in Structures
    BY <1>1 DEF Structures
<1>4. HandlesTyped'
    BY <1>1, <1>2, <1>3 DEF HandlesTyped
<1>5. /\ \A g \in Ids : exanic'[g].name = exanic[g].name
      /\ \A g \in Ids \ {h} : exanic'[g] = exanic[g]
      /\ exanic'[h].ref_count = exanic[h].ref_count + 1
    BY <1>1, <1>2 DEF Structures
<1>6. Open' = Open
    BY <1>1, <1>5 DEF Open, Structures
<1>7. ASSUME NEW g \in Ids PROVE exanic'[g].ref_count = Cardinality(UsersOf(g)')
    <2>1. CASE g = h
        <3>1. UsersOf(h)' = UsersOf(h) \cup {u} /\ u \notin UsersOf(h)
            BY <1>1, <1>2, HandlesAssumption DEF UsersOf
        <3>2. Cardinality(UsersOf(h)') = Cardinality(UsersOf(h)) + 1
            BY <3>1, UsersFinite, FS_AddElement
        <3> QED BY <1>5, <2>1, <3>2 DEF HandlesInv, RefsMatch
    <2>2. CASE g # h
        <3>1. UsersOf(g)' = UsersOf(g)
            BY <1>1, <1>2, <2>2, HandlesAssumption DEF UsersOf
        <3> QED BY <1>5, <2>2, <3>1 DEF HandlesInv, RefsMatch
    <2> QED BY <2>1, <2>2
<1>8. RefsMatch'
    BY <1>1, <1>2, <1>6, <1>7 DEF RefsMatch
<1>9. SameNameSameHandle'
    BY <1>5, <1>6 DEF HandlesInv, SameNameSameHandle, Open
<1> QED BY <1>4, <1>8, <1>9 DEF HandlesInv

\* A pointer is given up, and the handle closed with the last.
LEMMA ReleaseKeeps ==
    ASSUME HandlesInv, NEW u \in Users, Release(u)
    PROVE  HandlesInv'
<1>0. PICK h \in Ids : h = uses[u]
    BY DEF HandlesInv, HandlesTyped, Release
<1>1. /\ exanic \in [Ids -> Structures] /\ h \in Ids /\ exanic[h] \in Structures
      /\ uses \in [Users -> Ids \cup {Nobody}]
      /\ exanic_list \subseteq Ids /\ exanic_list = Open
    BY DEF HandlesInv, HandlesTyped, RefsMatch
<1>2. /\ exanic' = [exanic EXCEPT ![h] = IF Last(h) THEN Unused
                                         ELSE [exanic[h] EXCEPT !.ref_count = @ - 1]]
      /\ uses' = [uses EXCEPT ![u] = Nobody]
      /\ exanic_list' = IF Last(h) THEN exanic_list \ {h} ELSE exanic_list
    BY <1>0 DEF Release
<1>3. UsersOf(h)' = UsersOf(h) \ {u} /\ u \in UsersOf(h)
    <2>1. \A v \in Users : uses'[v] = IF v = u THEN Nobody ELSE uses[v]
        BY <1>1, <1>2
    <2> QED BY <1>0, <1>1, <2>1, HandlesAssumption DEF UsersOf
<1>4. /\ exanic[h].ref_count = Cardinality(UsersOf(h)) /\ exanic[h].ref_count \in Nat
      /\ exanic[h].ref_count # 0
      /\ Cardinality(UsersOf(h)') = exanic[h].ref_count - 1
    <2>1. Cardinality(UsersOf(h)) # 0
        BY <1>3, UsersFinite, FS_EmptySet
    <2>2. Cardinality(UsersOf(h)') = Cardinality(UsersOf(h)) - 1
        BY <1>3, UsersFinite, FS_RemoveElement
    <2> QED BY <1>1, <2>1, <2>2, UsersFinite DEF HandlesInv, RefsMatch
<1> DEFINE c == IF Last(h) THEN Unused ELSE [exanic[h] EXCEPT !.ref_count = @ - 1]
<1>5. /\ c \in Structures /\ c.ref_count = exanic[h].ref_count - 1
      /\ c.ref_count > 0 => c.name = exanic[h].name
      /\ Last(h) <=> c.ref_count = 0
    <2>1. CASE Last(h)
        BY <1>4, <2>1 DEF Last, Unused, Structures, KeptNames
    <2>2. CASE ~Last(h)
        BY <1>1, <1>4, <2>2 DEF Last, Structures
    <2> QED BY <2>1, <2>2
<1>6. exanic' = [exanic EXCEPT ![h] = c]
    BY <1>2
<1> HIDE DEF c
<1>7. HandlesTyped'
    BY <1>1, <1>2, <1>5, <1>6 DEF HandlesTyped
<1>8. Open' = IF Last(h) THEN Open \ {h} ELSE Open
    BY <1>1, <1>4, <1>5, <1>6 DEF Open, Structures
<1>9. ASSUME NEW g \in Ids PROVE exanic'[g].ref_count = Cardinality(UsersOf(g)')
    <2>1. CASE g = h
        BY <1>1, <1>4, <1>5, <1>6, <2>1
    <2>2. CASE g # h
        <3>1. UsersOf(g)' = UsersOf(g)
            BY <1>0, <1>1, <1>2, <2>2, HandlesAssumption DEF UsersOf
        <3> QED BY <1>1, <1>6, <2>2, <3>1 DEF HandlesInv, RefsMatch
    <2> QED BY <2>1, <2>2
<1>10. RefsMatch'
    BY <1>1, <1>2, <1>8, <1>9 DEF RefsMatch
<1>11. ASSUME NEW g \in Open' PROVE g \in Open /\ exanic'[g].name = exanic[g].name
    <2>1. CASE g = h
        BY <1>1, <1>4, <1>5, <1>6, <1>11, <2>1 DEF Open, Structures
    <2>2. CASE g # h
        BY <1>1, <1>6, <1>11, <2>2 DEF Open
    <2> QED BY <2>1, <2>2
<1>12. SameNameSameHandle'
    BY <1>11 DEF HandlesInv, SameNameSameHandle
<1> QED BY <1>7, <1>10, <1>12 DEF HandlesInv

\* A handle is opened when no open one has the name.
LEMMA OpenedKeeps ==
    ASSUME HandlesInv, NEW u \in Users, NEW n \in Names, AcquireOpened(u, n)
    PROVE  HandlesInv'
<1>1. PICK h \in Ids \ Open, offer \in Offers, page \in BOOLEAN :
          /\ exanic' = [exanic EXCEPT ![h] = [name |-> Cut[n], ref_count |-> 1,
                                              regions |-> Wanted(offer, page)]]
          /\ exanic_list' = exanic_list \cup {h}
          /\ uses' = [uses EXCEPT ![u] = h]
    BY DEF AcquireOpened
<1>2. /\ exanic \in [Ids -> Structures]
      /\ uses \in [Users -> Ids \cup {Nobody}] /\ uses[u] = Nobody
      /\ exanic_list \subseteq Ids /\ exanic_list = Open /\ Found(n) = {}
    BY DEF HandlesInv, HandlesTyped, RefsMatch, AcquireOpened
<1> DEFINE c == [name |-> Cut[n], ref_count |-> 1, regions |-> Wanted(offer, page)]
<1>3. c \in Structures /\ c.name = Cut[n] /\ c.ref_count = 1
    <2>1. Wanted(offer, page) \subseteq Regions
        <3>1. \A i \in 5 .. 11 : i \in 1 .. 12 /\ Steps[i] \notin {"info ioctl", "malloc"}
            <4>1. \A i \in 5 .. 11 : i \in 1 .. 12 /\ i \in {5, 6, 7, 8, 9, 10, 11}
                OBVIOUS
            <4>2. /\ Steps[5] = "feedback" /\ Steps[6] = "tx buffer" /\ Steps[7] = "filters"
                  /\ Steps[8] = "devkit regs" /\ Steps[9] = "devkit mem"
                  /\ Steps[10] = "devkit regs ex" /\ Steps[11] = "devkit mem ex"
                BY DEF Steps
            <4> QED BY <4>1, <4>2
        <3>2. Optional \subseteq Regions
            BY <3>1 DEF Optional, Regions
        <3>3. Steps[1] = "fd" /\ Steps[3] = "registers" /\ Steps[4] = "info page"
            BY DEF Steps
        <3>4. {"fd", "registers", "info page"} \subseteq Regions
            <4>1. 1 \in 1 .. 12 /\ 3 \in 1 .. 12 /\ 4 \in 1 .. 12
                OBVIOUS
            <4> QED BY <3>3, <4>1 DEF Regions
        <3> QED BY <3>2, <3>4, HandlesAssumption DEF Wanted
    <2> QED BY <2>1 DEF Structures, KeptNames
<1>4. exanic' = [exanic EXCEPT ![h] = c]
    BY <1>1
<1> HIDE DEF c
<1>5. HandlesTyped'
    BY <1>1, <1>2, <1>3, <1>4 DEF HandlesTyped
<1>6. Open' = Open \cup {h}
    BY <1>2, <1>3, <1>4 DEF Open
<1>7. ASSUME NEW g \in Ids PROVE exanic'[g].ref_count = Cardinality(UsersOf(g)')
    <2>1. CASE g = h
        <3>1. Cardinality(UsersOf(h)) = 0
            BY <1>2, UsersFinite DEF HandlesInv, RefsMatch, Open, Structures
        <3>2. UsersOf(h) = {}
            BY <3>1, UsersFinite, FS_EmptySet
        <3>3. UsersOf(h)' = {u}
            BY <1>1, <1>2, <3>2, HandlesAssumption DEF UsersOf
        <3>4. Cardinality(UsersOf(h)') = 1
            BY <3>3, FS_Singleton
        <3> QED BY <1>2, <1>3, <1>4, <2>1, <3>4
    <2>2. CASE g # h
        <3>1. UsersOf(g)' = UsersOf(g)
            BY <1>1, <1>2, <2>2, HandlesAssumption DEF UsersOf
        <3> QED BY <1>2, <1>4, <2>2, <3>1 DEF HandlesInv, RefsMatch
    <2> QED BY <2>1, <2>2
<1>8. RefsMatch'
    BY <1>1, <1>2, <1>6, <1>7 DEF RefsMatch
<1>9. \A g \in Open : g # h /\ exanic'[g] = exanic[g] /\ exanic[g].name # n
    BY <1>2, <1>4 DEF Open, Found
<1>10. exanic'[h].name = Cut[n]
    BY <1>2, <1>3, <1>4
<1>11. ASSUME NEW g \in Open, exanic[g].name = Cut[n], NEW m \in Names, Cut[m] = Cut[n]
       PROVE  Cut[m] # m
    BY <1>9, <1>11, HandlesAssumption
<1>12. SameNameSameHandle'
    <2> SUFFICES ASSUME NEW f \in Open', NEW g \in Open', exanic'[f].name = exanic'[g].name,
                        f # g, NEW m \in Names, Cut[m] = exanic'[g].name
                 PROVE  Cut[m] # m
        BY DEF SameNameSameHandle
    <2>1. CASE f \in Open /\ g \in Open
        BY <1>9, <2>1 DEF HandlesInv, SameNameSameHandle
    <2>2. CASE f = h /\ g \in Open
        BY <1>9, <1>10, <1>11, <2>2
    <2>3. CASE g = h /\ f \in Open
        BY <1>9, <1>10, <1>11, <2>3
    <2> QED BY <1>6, <2>1, <2>2, <2>3
<1> QED BY <1>5, <1>8, <1>12 DEF HandlesInv

\* Every step of a handle.
LEMMA HandleStepKeeps == HandlesInv /\ HandleStep => HandlesInv'
<1>1. HandlesInv /\ UNCHANGED <<exanic, exanic_list, uses>> => HandlesInv'
    BY DEF HandlesInv, HandlesTyped, RefsMatch, SameNameSameHandle, Open, UsersOf
<1>2. \A u, n : AcquireFailed(u, n) => UNCHANGED <<exanic, exanic_list, uses>>
    BY DEF AcquireFailed
<1> QED BY <1>1, <1>2, RetainKeeps, ReleaseKeeps, OpenedKeeps DEF HandleStep

-----------------------------------------------------------------------------
(* Mappings                                                                *)

\* What is mapped, for handles of which only open ones have anything.
MapsInv ==
    /\ maps \in [Regions -> Int] /\ lost_maps \in [Regions -> Nat]
    /\ IsFiniteSet(Open)
    /\ \A h \in Ids \ Open : exanic[h].regions = {}
    /\ MapsMatch

\* Handles with a region are open ones.
LEMMA MappingFinite == MapsInv => \A r : IsFiniteSet(Mapping(r)) /\ Cardinality(Mapping(r)) \in Nat
<1> SUFFICES ASSUME MapsInv, NEW r
             PROVE  IsFiniteSet(Mapping(r)) /\ Cardinality(Mapping(r)) \in Nat
    OBVIOUS
<1>1. Mapping(r) \in SUBSET Open /\ IsFiniteSet(Open)
    BY DEF MapsInv, Mapping
<1> QED BY <1>1, FS_Subset, FS_CardinalityType

\* A structure not in use has no references and no regions.
LEMMA NothingMapped == Unused.ref_count = 0 /\ Unused.regions = {}
BY DEF Unused

\* Nothing is mapped to begin with.
LEMMA MapsInitInv == HandlesInit => MapsInv
<1> SUFFICES ASSUME HandlesInit PROVE MapsInv
    OBVIOUS
<1>1. Open = {} /\ \A r : Mapping(r) = {}
    BY NothingMapped DEF HandlesInit, Open, Mapping
<1>2. MapsMatch
    BY <1>1, FS_EmptySet DEF HandlesInit, MapsMatch
<1> QED BY <1>1, <1>2, NothingMapped, FS_EmptySet DEF HandlesInit, MapsInv

\* The regions of the structures are unchanged, and so is what is mapped.
LEMMA SameMaps ==
    ASSUME MapsInv, Open' = Open, maps' = maps, lost_maps' = lost_maps,
           \A h \in Ids : exanic'[h].regions = exanic[h].regions
    PROVE  MapsInv'
<1>1. \A r : Mapping(r)' = Mapping(r)
    BY DEF Mapping
<1>2. MapsMatch'
    BY <1>1 DEF MapsInv, MapsMatch
<1> QED BY <1>2 DEF MapsInv

\* A structure with nothing mapped gets all its regions at once.
LEMMA OpenedMaps ==
    ASSUME HandlesInv, MapsInv, NEW u \in Users, NEW n \in Names, AcquireOpened(u, n)
    PROVE  MapsInv'
<1>1. PICK h \in Ids \ Open, offer \in Offers, page \in BOOLEAN :
          /\ exanic' = [exanic EXCEPT ![h] = [name |-> Cut[n], ref_count |-> 1,
                                              regions |-> Wanted(offer, page)]]
          /\ maps' = [r \in Regions |-> maps[r] + One(Wanted(offer, page))[r]]
    BY ZenonT(60) DEF AcquireOpened
<1>2. exanic \in [Ids -> Structures] /\ exanic[h].regions = {} /\ lost_maps' = lost_maps
    BY DEF HandlesInv, HandlesTyped, MapsInv, AcquireOpened
<1>3. Open' = Open \cup {h} /\ IsFiniteSet(Open')
    <2>1. Open' = Open \cup {h}
        BY <1>1, <1>2 DEF Open
    <2> QED BY <2>1, FS_AddElement DEF MapsInv
<1>4. ASSUME NEW r \in Regions
      PROVE  Cardinality(Mapping(r)') = Cardinality(Mapping(r)) + One(Wanted(offer, page))[r]
    <2>1. CASE r \in Wanted(offer, page)
        <3>1. Mapping(r)' = Mapping(r) \cup {h} /\ h \notin Mapping(r)
            BY <1>1, <1>2, <2>1 DEF Mapping
        <3> QED BY <2>1, <3>1, MappingFinite, FS_AddElement DEF One
    <2>2. CASE r \notin Wanted(offer, page)
        <3>1. Mapping(r)' = Mapping(r)
            BY <1>1, <1>2, <2>2 DEF Mapping
        <3> QED BY <2>2, <3>1, MappingFinite DEF One
    <2> QED BY <2>1, <2>2
<1>5. \A r \in Regions : maps'[r] = maps[r] + One(Wanted(offer, page))[r]
                         /\ One(Wanted(offer, page))[r] \in {0, 1}
    BY <1>1 DEF One
<1>6. MapsMatch'
    BY <1>2, <1>4, <1>5, MappingFinite DEF MapsInv, MapsMatch
<1>7. maps' \in [Regions -> Int]
    BY <1>1, <1>5 DEF MapsInv
<1>8. \A g \in Ids \ Open' : exanic'[g].regions = {}
    BY <1>1, <1>2, <1>3 DEF MapsInv
<1> QED BY <1>2, <1>3, <1>6, <1>7, <1>8 DEF MapsInv

\* The last release unmaps all the regions of its structure, another none.
LEMMA ReleaseMaps ==
    ASSUME HandlesInv, MapsInv, NEW u \in Users, Release(u), lost_maps' = lost_maps
    PROVE  MapsInv'
<1>0. PICK h \in Ids : h = uses[u]
    BY DEF HandlesInv, HandlesTyped, Release
<1>1. /\ exanic \in [Ids -> Structures] /\ exanic[h] \in Structures
      /\ exanic' = [exanic EXCEPT ![h] = IF Last(h) THEN Unused
                                         ELSE [exanic[h] EXCEPT !.ref_count = @ - 1]]
      /\ maps' = [r \in Regions |-> maps[r] - IF Last(h) THEN One(exanic[h].regions)[r] ELSE 0]
    BY <1>0 DEF HandlesInv, HandlesTyped, Release
<1>2. CASE ~Last(h)
    <2>1. exanic'[h] = [exanic[h] EXCEPT !.ref_count = @ - 1] /\ exanic[h].ref_count > 1
        BY <1>1, <1>2 DEF Last, Structures
    <2>2. /\ exanic'[h].regions = exanic[h].regions
          /\ exanic'[h].ref_count = exanic[h].ref_count - 1
        BY <1>1, <2>1 DEF Structures
    <2>3. Open' = Open /\ \A g \in Ids : exanic'[g].regions = exanic[g].regions
        BY <1>1, <2>1, <2>2 DEF Open, Structures
    <2>4. maps' = maps
        BY <1>1, <1>2 DEF MapsInv
    <2> QED BY <2>3, <2>4, SameMaps
<1>3. CASE Last(h)
    <2>1. exanic' = [exanic EXCEPT ![h] = Unused]
          /\ maps' = [r \in Regions |-> maps[r] - One(exanic[h].regions)[r]]
        BY <1>1, <1>3
    <2>2. Open' = Open \ {h} /\ IsFiniteSet(Open')
        <3>1. Open' = Open \ {h}
            <4>1. exanic'[h].ref_count = 0 /\ \A g \in Ids \ {h} : exanic'[g] = exanic[g]
                BY <1>1, <2>1, NothingMapped
            <4> QED BY <4>1 DEF Open
        <3> QED BY <3>1, FS_RemoveElement DEF MapsInv
    <2>3. ASSUME NEW r \in Regions
          PROVE  Cardinality(Mapping(r)') = Cardinality(Mapping(r)) - One(exanic[h].regions)[r]
        <3>1. Mapping(r)' = Mapping(r) \ {h}
            BY <1>1, <2>1, NothingMapped DEF Mapping
        <3>2. h \in Mapping(r) <=> r \in exanic[h].regions
            BY DEF Mapping
        <3>3. Cardinality(Mapping(r)') = IF r \in exanic[h].regions THEN Cardinality(Mapping(r)) - 1
                                         ELSE Cardinality(Mapping(r))
            BY <3>1, <3>2, MappingFinite, FS_RemoveElement
        <3> QED BY <3>3, MappingFinite DEF One
    <2>4. \A r \in Regions : maps'[r] = maps[r] - One(exanic[h].regions)[r]
                             /\ One(exanic[h].regions)[r] \in {0, 1}
        BY <2>1 DEF One
    <2>5. MapsMatch'
        BY <2>3, <2>4, MappingFinite DEF MapsInv, MapsMatch
    <2>6. maps' \in [Regions -> Int]
        BY <2>1, <2>4 DEF MapsInv
    <2>7. \A g \in Ids \ Open' : exanic'[g].regions = {}
        BY <1>1, <2>1, <2>2, NothingMapped DEF MapsInv
    <2> QED BY <2>2, <2>5, <2>6, <2>7 DEF MapsInv
<1> QED BY <1>2, <1>3

\* The label of a failed malloc comes one region too late.
LEMMA MallocLabel ==
    /\ Before("malloc") = Before("devkit mem ex") \cup {"devkit mem ex"}
    /\ "devkit mem ex" \notin Before("devkit mem ex")
<1>1. /\ Steps[1] = "fd" /\ Steps[2] = "info ioctl" /\ Steps[3] = "registers"
      /\ Steps[4] = "info page" /\ Steps[5] = "feedback" /\ Steps[6] = "tx buffer"
      /\ Steps[7] = "filters" /\ Steps[8] = "devkit regs" /\ Steps[9] = "devkit mem"
      /\ Steps[10] = "devkit regs ex" /\ Steps[11] = "devkit mem ex" /\ Steps[12] = "malloc"
    BY DEF Steps
<1>2. \A i \in 1 .. 12 : i \in {1, 2, 3, 4, 5, 6, 7, 8, 9, 10, 11, 12}
    OBVIOUS
<1>3. /\ \A i \in 1 .. 12 : Steps[i] = "malloc" <=> i = 12
      /\ \A i \in 1 .. 12 : Steps[i] = "devkit mem ex" <=> i = 11
    BY <1>1, <1>2
<1>4. ASSUME NEW step, NEW k \in 1 .. 12, \A j \in 1 .. 12 : Steps[j] = step <=> j = k
      PROVE  Before(step) = {Steps[j] : j \in 1 .. k - 1}
    <2> DEFINE i == CHOOSE j \in 1 .. 12 : Steps[j] = step
    <2>1. i \in 1 .. 12 /\ Steps[i] = step
        BY <1>4
    <2>2. i = k
        BY <1>4, <2>1
    <2>3. Before(step) = {Steps[j] : j \in 1 .. i - 1}
        BY DEF Before
    <2> QED BY <2>2, <2>3
<1>5. /\ Before("malloc") = {Steps[j] : j \in 1 .. 11}
      /\ Before("devkit mem ex") = {Steps[j] : j \in 1 .. 10}
    <2>1. /\ 12 \in 1 .. 12 /\ 12 - 1 = 11
          /\ 11 \in 1 .. 12 /\ 11 - 1 = 10
        OBVIOUS
    <2>2. /\ Before("malloc") = {Steps[j] : j \in 1 .. 12 - 1}
          /\ Before("devkit mem ex") = {Steps[j] : j \in 1 .. 11 - 1}
        BY <1>3, <1>4, <2>1
    <2> QED BY <2>1, <2>2
<1>6. 1 .. 11 = (1 .. 10) \cup {11} /\ \A j \in 1 .. 10 : j \in 1 .. 12 /\ j # 11
    OBVIOUS
<1>7. {Steps[j] : j \in 1 .. 11} = {Steps[j] : j \in 1 .. 10} \cup {Steps[11]}
    BY <1>6
<1>8. Steps[11] \notin {Steps[j] : j \in 1 .. 10}
    BY <1>1, <1>3, <1>6
<1> QED BY <1>1, <1>5, <1>7, <1>8

\* One region more if it is the one that is lost.
Lost(W, r) == IF r \in W /\ r = "devkit mem ex" THEN 1 ELSE 0

\* It counts.
LEMMA LostType == \A W, r : Lost(W, r) \in {0, 1}
BY DEF Lost

\* What is undone after a failed malloc, beside what was done.
LEMMA MallocUndone ==
    ASSUME NEW W, NEW r \in Regions
    PROVE  One(W \cap Before("malloc"))[r] - One(W \cap Before("devkit mem ex"))[r] = Lost(W, r)
<1> DEFINE done == One(W \cap Before("malloc"))[r]
           undone == One(W \cap Before("devkit mem ex"))[r]
<1>1. done = IF r \in W \cap Before("malloc") THEN 1 ELSE 0
    BY DEF One
<1>2. undone = IF r \in W \cap Before("devkit mem ex") THEN 1 ELSE 0
    BY DEF One
<1> SUFFICES done - undone = Lost(W, r)
    OBVIOUS
<1> HIDE DEF done, undone
<1>3. CASE r \in W \cap Before("devkit mem ex")
    <2>1. r \in W \cap Before("malloc") /\ r # "devkit mem ex"
        BY <1>3, MallocLabel
    <2>2. Lost(W, r) = 0
        BY <2>1 DEF Lost
    <2>3. done = 1 /\ undone = 1
        BY <1>1, <1>2, <1>3, <2>1
    <2> QED BY <2>2, <2>3
<1>4. CASE r \notin W \cap Before("devkit mem ex")
    <2>1. r \in W \cap Before("malloc") <=> r \in W /\ r = "devkit mem ex"
        BY <1>4, MallocLabel
    <2>2. done = Lost(W, r) /\ undone = 0
        BY <1>1, <1>2, <1>4, <2>1 DEF Lost
    <2> QED BY <2>2, LostType
<1> QED BY <1>3, <1>4

\* A failed call leaves no region mapped but the one counted as lost.
LEMMA FailedMaps ==
    ASSUME HandlesInv, MapsInv, NEW u \in Users, NEW n \in Names, AcquireFailed(u, n)
    PROVE  MapsInv'
<1>1. PICK offer, page, step :
          /\ maps' = [r \in Regions |-> maps[r] + One(Wanted(offer, page) \cap Before(step))[r]
                                      - One(Wanted(offer, page) \cap Before(Label(step)))[r]]
          /\ lost_maps' = IF step = "malloc" /\ "devkit mem ex" \in Wanted(offer, page)
                          THEN [lost_maps EXCEPT !["devkit mem ex"] = @ + 1]
                          ELSE lost_maps
    BY DEF AcquireFailed
<1>2. exanic' = exanic /\ maps \in [Regions -> Int] /\ lost_maps \in [Regions -> Nat]
    BY DEF AcquireFailed, MapsInv
<1>3. /\ maps' \in [Regions -> Int] /\ lost_maps' \in [Regions -> Nat]
      /\ \A r \in Regions : maps'[r] - maps[r] = lost_maps'[r] - lost_maps[r]
    <2>1. CASE step # "malloc"
        <3>1. maps' = [r \in Regions |-> maps[r]] /\ lost_maps' = lost_maps
            BY <1>1, <1>2, <2>1 DEF Label, One
        <3> QED BY <1>2, <3>1
    <2>2. CASE step = "malloc"
        <3> DEFINE W == Wanted(offer, page)
        <3>1. ASSUME NEW r \in Regions PROVE maps'[r] = maps[r] + Lost(W, r)
            <4>1. maps'[r] = maps[r] + One(W \cap Before("malloc"))[r]
                                   - One(W \cap Before("devkit mem ex"))[r]
                BY <1>1, <2>2 DEF Label
            <4>2. /\ One(W \cap Before("malloc"))[r] \in {0, 1}
                  /\ One(W \cap Before("devkit mem ex"))[r] \in {0, 1}
                BY DEF One
            <4>3. maps[r] \in Int
                BY <1>2
            <4> QED BY <4>1, <4>2, <4>3, MallocUndone, LostType
        <3>2. ASSUME NEW r \in Regions PROVE lost_maps'[r] = lost_maps[r] + Lost(W, r)
            <4>1. lost_maps[r] \in Nat
                BY <1>2
            <4>2. CASE r \in W /\ r = "devkit mem ex"
                <5>1. lost_maps' = [lost_maps EXCEPT !["devkit mem ex"] = @ + 1]
                    BY <1>1, <2>2, <4>2
                <5>2. lost_maps'[r] = lost_maps[r] + 1
                    BY <1>2, <4>2, <5>1
                <5> QED BY <4>2, <5>2 DEF Lost
            <4>3. CASE ~(r \in W /\ r = "devkit mem ex")
                <5>1. lost_maps'[r] = lost_maps[r]
                    BY <1>1, <1>2, <2>2, <4>3
                <5>2. Lost(W, r) = 0
                    BY <4>3 DEF Lost
                <5> QED BY <4>1, <5>1, <5>2
            <4> QED BY <4>2, <4>3
        <3>3. maps' \in [Regions -> Int]
            <4>1. maps' = [r \in Regions |-> maps'[r]]
                BY <1>1
            <4>2. \A r \in Regions : maps'[r] \in Int
                BY <1>2, <3>1, LostType
            <4> QED BY <4>1, <4>2
        <3>4. lost_maps' \in [Regions -> Nat]
            <4>1. lost_maps' = [r \in Regions |-> lost_maps'[r]]
                BY <1>1, <1>2
            <4>2. \A r \in Regions : lost_maps'[r] \in Nat
                BY <1>2, <3>2, LostType
            <4> QED BY <4>1, <4>2
        <3> QED BY <1>2, <3>1, <3>2, <3>3, <3>4, LostType
    <2> QED BY <2>1, <2>2
<1>4. \A r : Mapping(r)' = Mapping(r)
    BY <1>2 DEF Mapping
<1>5. ASSUME NEW r \in Regions PROVE maps'[r] = Cardinality(Mapping(r)') + lost_maps'[r]
    <2>1. /\ maps[r] \in Int /\ lost_maps[r] \in Int
          /\ maps'[r] \in Int /\ lost_maps'[r] \in Int
        BY <1>2, <1>3
    <2>2. maps[r] = Cardinality(Mapping(r)) + lost_maps[r] /\ Cardinality(Mapping(r)) \in Nat
        BY MappingFinite DEF MapsInv, MapsMatch
    <2> QED BY <1>3, <1>4, <2>1, <2>2
<1>6. MapsMatch'
    BY <1>5 DEF MapsMatch
<1> QED BY <1>2, <1>3, <1>6 DEF MapsInv, Open

\* Every step keeps the mappings of the handles.
LEMMA MapStepKeeps == HandlesInv /\ MapsInv /\ HandleStep => MapsInv'
<1> SUFFICES ASSUME HandlesInv, MapsInv, HandleStep PROVE MapsInv'
    OBVIOUS
<1>1. ASSUME NEW u \in Users, NEW h \in Ids, Retain(u, h), UNCHANGED lost_maps PROVE MapsInv'
    <2>1. /\ exanic \in [Ids -> Structures] /\ exanic[h] \in Structures
          /\ exanic' = [exanic EXCEPT ![h] = [exanic[h] EXCEPT !.ref_count = @ + 1]]
          /\ h \in Open /\ maps' = maps
        BY <1>1 DEF HandlesInv, HandlesTyped, Retain
    <2>2. /\ \A g \in Ids : exanic'[g].regions = exanic[g].regions
          /\ \A g \in Ids \ {h} : exanic'[g] = exanic[g]
          /\ exanic'[h].ref_count = exanic[h].ref_count + 1
        BY <2>1 DEF Structures
    <2>3. Open' = Open
        BY <2>1, <2>2 DEF Open, Structures
    <2> QED BY <1>1, <2>1, <2>2, <2>3, SameMaps
<1>2. CASE UNCHANGED <<exanic, exanic_list, maps, uses, lost_maps>>
    BY <1>2, SameMaps DEF Open
<1> QED BY <1>1, <1>2, ReleaseMaps, OpenedMaps, FailedMaps DEF HandleStep

-----------------------------------------------------------------------------
(* The programs                                                            *)

\* Places of the program that hold pointers.
LEMMA Places == Callers \subseteq Users /\ RxIds \subseteq Users /\ TxIds \subseteq Users
                    /\ Losses \subseteq Users
BY BuffersAssumption

\* exanic_acquire_handle: found, opened or failed.
LEMMA AcquireHandleStep ==
    ASSUME NEW c \in Callers, NEW n \in Names, AcquireHandle(c, n)
    PROVE  HandleStep
<1>1. CASE AcquireFound(c, n)
    BY <1>1, Places DEF AcquireFound, HandleStep, Retain, Open
<1>2. CASE AcquireOpened(c, n)
    BY <1>2, Places DEF HandleStep
<1>3. CASE AcquireFailed(c, n)
    BY <1>3, Places DEF HandleStep
<1> QED BY <1>1, <1>2, <1>3 DEF AcquireHandle

\* A ring taken: the pointer is kept, dropped or lost.
LEMMA TakenStep ==
    ASSUME NEW x \in RxIds, NEW h, NEW r, Taken(x, h, r)
    PROVE  HandleStep
<1>0. UNCHANGED lost_maps
    BY DEF Taken
<1>1. CASE Acquired(x, h, r)
    BY <1>0, <1>1, Places DEF Acquired, HandleStep, Retain, Open
<1>2. CASE MmapFailed(r)
    BY <1>0, <1>2 DEF MmapFailed, HandleStep
<1>3. CASE MallocFailed(h, r)
    BY <1>0, <1>3, Places DEF MallocFailed, HandleStep, Retain, Open
<1> QED BY <1>1, <1>2, <1>3 DEF Taken

\* A call refused leaves the handles alone.
LEMMA RefusedStep == Refused => HandleStep
BY DEF Refused, HandleStep

\* The calls on RX buffers, filters among them.
LEMMA RxSteps ==
    ASSUME NEW x \in RxIds, NEW c, NEW r, NEW p, NEW flow,
           AcquireRxBuffer(x, c, r) \/ AcquireUnused(x, c, p) \/ ReleaseRxBuffer(x)
               \/ FilterAdd(x, flow)
    PROVE  HandleStep
<1>1. CASE AcquireRxBuffer(x, c, r)
    BY <1>1, TakenStep, RefusedStep DEF AcquireRxBuffer
<1>2. CASE AcquireUnused(x, c, p)
    BY <1>2, TakenStep, RefusedStep DEF AcquireUnused
<1>3. CASE ReleaseRxBuffer(x)
    BY <1>3, Places DEF ReleaseRxBuffer, HandleStep
<1>4. CASE FilterAdd(x, flow)
    BY <1>4, RefusedStep DEF FilterAdd, HandleStep
<1> QED BY <1>1, <1>2, <1>3, <1>4

\* The calls on TX buffers.
LEMMA TxSteps ==
    ASSUME NEW t \in TxIds, NEW c, NEW p, AcquireTxBuffer(t, c, p) \/ ReleaseTxBuffer(t)
    PROVE  HandleStep
<1>1. CASE AcquireTxBuffer(t, c, p)
    BY <1>1, Places, RefusedStep DEF AcquireTxBuffer, HandleStep, Retain, Open
<1>2. CASE ReleaseTxBuffer(t)
    BY <1>2, Places DEF ReleaseTxBuffer, HandleStep
<1> QED BY <1>1, <1>2

\* The calls that a program passes its handle to, without a buffer.
LEMMA CardSteps ==
    ASSUME NEW c, NEW p, NEW max, NEW id,
           EnableFlowHashing(c, p, max) \/ DisableFlowHashing(c, p) \/ FilterRemove(c, p, id)
    PROVE  HandleStep
<1>1. CASE EnableFlowHashing(c, p, max)
    BY <1>1, RefusedStep DEF EnableFlowHashing, HandleStep
<1>2. CASE DisableFlowHashing(c, p)
    BY <1>2 DEF DisableFlowHashing, HandleStep
<1>3. CASE FilterRemove(c, p, id)
    BY <1>3, RefusedStep DEF FilterRemove, HandleStep
<1> QED BY <1>1, <1>2, <1>3

\* Any program.
LEMMA LibraryStep == Library => HandleStep
<1> SUFFICES ASSUME Library PROVE HandleStep
    OBVIOUS
<1>1. CASE HandleCall
    <2>1. ASSUME NEW c \in Callers, NEW d \in Callers, RetainHandle(c, d) PROVE HandleStep
        BY <2>1, Places DEF RetainHandle, HandleStep, Retain, Open
    <2>2. ASSUME NEW c \in Callers, ReleaseHandle(c) PROVE HandleStep
        BY <2>2, Places DEF ReleaseHandle, HandleStep
    <2> QED BY <1>1, <2>1, <2>2, AcquireHandleStep DEF HandleCall
<1>2. CASE RxCall
    BY <1>2, RxSteps DEF RxCall
<1>3. CASE TxCall
    BY <1>3, TxSteps DEF TxCall
<1> QED BY <1>1, <1>2, <1>3 DEF Library

\* The program that spreads flows.
LEMMA HashingStep == Hashing => HandleStep
<1> SUFFICES ASSUME Hashing PROVE HandleStep
    OBVIOUS
<1>1. PICK c \in Callers, p \in Ports :
        \/ Open = {} /\ (\E n \in Names : AcquireOpened(c, n)) /\ UNCHANGED bufferVars
        \/ \E max \in Pow2s : max <= 2 * MaxBuffers /\ EnableFlowHashing(c, p, max)
        \/ DisableFlowHashing(c, p)
        \/ \E x \in RxIds, i \in 1 .. MaxBuffers :
              AcquireRxBuffer(x, c, [port |-> p, buffer_number |-> i])
        \/ \E x \in RxIds : ReleaseRxBuffer(x)
        \/ \E x \in RxIds, flow \in Flows : filters = {} /\ FilterAdd(x, flow)
        \/ \E f \in filters : FilterRemove(c, p, f.id)
    BY DEF Hashing, HashingCall
<1>2. CASE \E n \in Names : AcquireOpened(c, n)
    BY <1>2, Places DEF HandleStep
<1>3. CASE \/ \E max \in Pow2s : EnableFlowHashing(c, p, max)
           \/ DisableFlowHashing(c, p)
           \/ \E f \in filters : FilterRemove(c, p, f.id)
    BY <1>3, CardSteps
<1>4. CASE \/ \E x \in RxIds, i \in 1 .. MaxBuffers :
                 AcquireRxBuffer(x, c, [port |-> p, buffer_number |-> i])
           \/ \E x \in RxIds : ReleaseRxBuffer(x)
           \/ \E x \in RxIds, flow \in Flows : FilterAdd(x, flow)
    BY <1>4, RxSteps
<1> QED BY <1>1, <1>2, <1>3, <1>4

\* The capture program.
LEMMA MainStep == Main => HandleStep
<1> USE DEF vars, handleVars
<1>1. CASE OpenFile \/ EndOfClauses \/ Capture \/ LeaveClosing
    BY <1>1 DEF OpenFile, EndOfClauses, Capture, LeaveClosing, HandleStep
<1>2. CASE GetHandle
    BY <1>2, AcquireHandleStep DEF GetHandle
<1>3. CASE GetRx
    <2>1. PICK c \in Callers, x \in RxIds :
              IF argv = <<>> THEN \E r \in Default : AcquireRxBuffer(x, c, r)
                             ELSE \E p \in Ports : AcquireUnused(x, c, p)
        BY <1>3 DEF GetRx
    <2> QED BY <2>1, RxSteps
<1>4. CASE ReadClause
    <2>1. PICK x \in RxIds : FilterAdd(x, ParseOneFilter(argv).filter)
        BY <1>4 DEF ReadClause
    <2> QED BY <2>1, RxSteps
<1>5. CASE AddReverse
    BY <1>5, RxSteps DEF AddReverse
<1>6. CASE LeaveReleasingRx
    BY <1>6, RxSteps DEF LeaveReleasingRx
<1>7. CASE LeaveReleasingHandle
    BY <1>7, Places DEF LeaveReleasingHandle, ReleaseHandle, HandleStep
<1> QED BY <1>1, <1>2, <1>3, <1>4, <1>5, <1>6, <1>7 DEF Main

\* Other processes have handles of their own.
LEMMA OthersStep == Others => HandleStep
BY DEF Others, OtherProcess, HandleStep, handleVars

\* The handles stay right whatever the programs do.
LEMMA DeviceKeeps == HandlesInv /\ MapsInv /\ [Next]_allVars => HandlesInv' /\ MapsInv'
<1> SUFFICES ASSUME HandlesInv, MapsInv, [Next]_allVars PROVE HandlesInv' /\ MapsInv'
    OBVIOUS
<1>1. HandleStep
    <2>1. CASE UNCHANGED allVars
        BY <2>1 DEF allVars, vars, handleVars, HandleStep
    <2>2. CASE Next
        BY <2>2, LibraryStep, HashingStep, MainStep, OthersStep DEF Next
    <2> QED BY <2>1, <2>2
<1> QED BY <1>1, HandleStepKeeps, MapStepKeeps

-----------------------------------------------------------------------------
(* The driver's buffers                                                    *)

\* The live buffers whose ring is the driver's buffer b.
On(b) == {x \in Live : b \in OfRing(rx[x])}

\* Rings and filter buffers, as the driver counts them.
RxRight ==
    /\ rx \in [RxIds -> Rings \cup {None}]
    /\ rings \in Int /\ bufs \in [Buffer -> Int]
    /\ others \in [Buffer -> Nat] /\ shares \in [Buffer -> Nat]
    /\ lost \in [rings : Nat, bufs : [Buffer -> Nat]]
    /\ rings = Cardinality(Live) + lost.rings
    /\ \A b \in Buffer : bufs[b] = Cardinality(On(b)) + others[b] + shares[b] + lost.bufs[b]

\* TX memory and feedback slots.
TxRight ==
    /\ tx \in [TxIds -> Ports \cup {-1}]
    /\ txmem = Cardinality(LiveTx) /\ slots = txmem

\* A port's frames are hashed to buffers that flow hashing took.
HashRight ==
    /\ hash \in [Ports -> [enable : BOOLEAN, mask : Nat]]
    /\ \A p \in Ports : hash[p].enable =>
          \A i \in 0 .. hash[p].mask : <<p, i>> \in Buffer /\ shares[<<p, i>>] > 0

\* A filter steers to a buffer that is allocated.
FiltersRight ==
    /\ IsFiniteSet(filters)
    /\ \A f \in filters : f.buffer \in Buffer /\ f.id \in Nat /\ bufs[f.buffer] > 0

\* The invariant that the calls keep.
BuffersInv == RxRight /\ TxRight /\ HashRight /\ FiltersRight

\* A ring is of a port, and so not the value of a variable with none.
LEMMA RingsApart == None \notin Rings /\ -1 \notin Ports
BY BuffersAssumption DEF None, Rings

\* The program has finitely many variables for buffers.
LEMMA LiveFinite ==
    /\ IsFiniteSet(Live) /\ Cardinality(Live) \in Nat
    /\ IsFiniteSet(LiveTx) /\ Cardinality(LiveTx) \in Nat
    /\ \A b : IsFiniteSet(On(b)) /\ Cardinality(On(b)) \in Nat
<1>1. Live \in SUBSET Users /\ LiveTx \in SUBSET Users /\ \A b : On(b) \in SUBSET Users
    BY BuffersAssumption DEF Live, LiveTx, On
<1> QED BY <1>1, HandlesAssumption, FS_Subset, FS_CardinalityType

\* Nothing is allocated to begin with.
LEMMA BuffersInitInv == BuffersInit => BuffersInv
<1> SUFFICES ASSUME BuffersInit PROVE BuffersInv
    OBVIOUS
<1>1. Live = {} /\ LiveTx = {} /\ \A b : On(b) = {}
    BY DEF BuffersInit, Live, LiveTx, On
<1>2. RxRight
    <2>1. /\ rx \in [RxIds -> Rings \cup {None}] /\ rings = 0
          /\ bufs = NoBuffers /\ others = NoBuffers /\ shares = NoBuffers
          /\ NoBuffers \in [Buffer -> Nat]
          /\ lost = [rings |-> 0, bufs |-> NoBuffers]
        BY DEF BuffersInit, NoBuffers
    <2>2. \A b \in Buffer : NoBuffers[b] = 0
        BY DEF NoBuffers
    <2>3. lost \in [rings : Nat, bufs : [Buffer -> Nat]] /\ lost.rings = 0 /\ lost.bufs = NoBuffers
        BY <2>1
    <2>4. Cardinality(Live) = 0 /\ \A b : Cardinality(On(b)) = 0
        BY <1>1, FS_EmptySet
    <2>5. bufs \in [Buffer -> Int] /\ others \in [Buffer -> Nat] /\ shares \in [Buffer -> Nat]
        BY <2>1, <2>2
    <2>6. rings = Cardinality(Live) + lost.rings
        BY <2>1, <2>3, <2>4
    <2>7. \A b \in Buffer : bufs[b] = Cardinality(On(b)) + others[b] + shares[b] + lost.bufs[b]
        BY <2>1, <2>2, <2>3, <2>4
    <2> QED BY <2>1, <2>3, <2>5, <2>6, <2>7 DEF RxRight
<1>3. TxRight
    BY <1>1, FS_EmptySet DEF BuffersInit, TxRight
<1>4. HashRight
    BY DEF BuffersInit, HashRight
<1>5. FiltersRight
    BY FS_EmptySet DEF BuffersInit, FiltersRight
<1> QED BY <1>2, <1>3, <1>4, <1>5 DEF BuffersInv

\* A call that leaves the buffers alone.
LEMMA SameBuffers == BuffersInv /\ UNCHANGED bufferVars => BuffersInv'
<1> SUFFICES ASSUME BuffersInv, UNCHANGED bufferVars PROVE BuffersInv'
    OBVIOUS
<1>1. UNCHANGED <<rx, tx, rings, bufs, txmem, slots, hash, filters, others, shares, lost>>
    BY DEF bufferVars
<1>2. Live' = Live /\ LiveTx' = LiveTx /\ \A b : On(b)' = On(b)
    BY <1>1 DEF Live, LiveTx, On
<1> QED BY <1>1, <1>2 DEF BuffersInv, RxRight, TxRight, HashRight, FiltersRight

\* 1 for the driver's buffer of a ring.
Has(r, b) == IF b \in OfRing(r) THEN 1 ELSE 0

\* A variable gets a ring.
LEMMA RingCounted ==
    ASSUME rx \in [RxIds -> Rings \cup {None}], NEW x \in RxIds, NEW r \in Rings,
           rx[x] = None, rx' = [rx EXCEPT ![x] = r]
    PROVE  /\ rx' \in [RxIds -> Rings \cup {None}]
           /\ Cardinality(Live') = Cardinality(Live) + 1
           /\ \A b : Cardinality(On(b)') = Cardinality(On(b)) + Has(r, b)
<1>1. \A y \in RxIds : rx'[y] = IF y = x THEN r ELSE rx[y]
    OBVIOUS
<1>2. Live' = Live \cup {x} /\ x \notin Live
    BY <1>1, RingsApart DEF Live
<1>3. ASSUME NEW b PROVE Cardinality(On(b)') = Cardinality(On(b)) + Has(r, b)
    <2>1. CASE b \in OfRing(r)
        <3>1. On(b)' = On(b) \cup {x} /\ x \notin On(b)
            BY <1>1, <1>2, <2>1 DEF On
        <3> QED BY <2>1, <3>1, LiveFinite, FS_AddElement DEF Has
    <2>2. CASE b \notin OfRing(r)
        <3>1. On(b)' = On(b)
            BY <1>1, <1>2, <2>2 DEF On
        <3> QED BY <2>2, <3>1, LiveFinite DEF Has
    <2> QED BY <2>1, <2>2
<1> QED BY <1>2, <1>3, LiveFinite, FS_AddElement

\* A variable gives its ring up.
LEMMA RingUncounted ==
    ASSUME rx \in [RxIds -> Rings \cup {None}], NEW x \in RxIds,
           rx[x] # None, rx' = [rx EXCEPT ![x] = None]
    PROVE  /\ rx' \in [RxIds -> Rings \cup {None}]
           /\ Cardinality(Live') = Cardinality(Live) - 1
           /\ \A b : Cardinality(On(b)') = Cardinality(On(b)) - Has(rx[x], b)
<1>1. \A y \in RxIds : rx'[y] = IF y = x THEN None ELSE rx[y]
    OBVIOUS
<1>2. Live' = Live \ {x} /\ x \in Live
    BY <1>1 DEF Live
<1>3. ASSUME NEW b PROVE Cardinality(On(b)') = Cardinality(On(b)) - Has(rx[x], b)
    <2>1. CASE b \in OfRing(rx[x])
        <3>1. On(b)' = On(b) \ {x} /\ x \in On(b)
            BY <1>1, <1>2, <2>1 DEF On
        <3> QED BY <2>1, <3>1, LiveFinite, FS_RemoveElement DEF Has
    <2>2. CASE b \notin OfRing(rx[x])
        <3>1. On(b)' = On(b)
            BY <1>1, <1>2, <2>2 DEF On
        <3> QED BY <2>2, <3>1, LiveFinite DEF Has
    <2> QED BY <2>1, <2>2
<1> QED BY <1>2, <1>3, LiveFinite, FS_RemoveElement

\* Allocations more, and filters as they were.
LEMMA MoreAllocated ==
    ASSUME FiltersRight, bufs \in [Buffer -> Int], UNCHANGED filters,
           \A b \in Buffer : bufs'[b] >= bufs[b], bufs' \in [Buffer -> Int]
    PROVE  FiltersRight'
<1> SUFFICES ASSUME NEW f \in filters PROVE f.buffer \in Buffer /\ f.id \in Nat /\ bufs'[f.buffer] > 0
    BY DEF FiltersRight
<1>1. f.buffer \in Buffer /\ f.id \in Nat /\ bufs[f.buffer] > 0
    BY DEF FiltersRight
<1>2. bufs'[f.buffer] >= bufs[f.buffer] /\ bufs[f.buffer] \in Int /\ bufs'[f.buffer] \in Int
    BY <1>1
<1> QED BY <1>1, <1>2

\* One allocation less; the filters go with the last.
LEMMA FewerAllocated ==
    ASSUME FiltersRight, bufs \in [Buffer -> Int], NEW b \in Buffer, bufs[b] > 0, Free(b)
    PROVE  FiltersRight' /\ bufs' = [bufs EXCEPT ![b] = @ - 1]
<1>1. /\ bufs' = [bufs EXCEPT ![b] = @ - 1]
      /\ filters' = IF bufs[b] = 1 THEN {f \in filters : f.buffer # b} ELSE filters
    BY DEF Free
<1>2. filters' \in SUBSET filters /\ IsFiniteSet(filters')
    BY <1>1, FS_Subset DEF FiltersRight
<1>3. ASSUME NEW f \in filters' PROVE f.buffer \in Buffer /\ f.id \in Nat /\ bufs'[f.buffer] > 0
    <2>1. f.buffer \in Buffer /\ f.id \in Nat /\ bufs[f.buffer] > 0
        BY <1>2 DEF FiltersRight
    <2>2. CASE f.buffer = b
        <3>1. bufs[b] # 1
            BY <1>1, <2>2
        <3> QED BY <1>1, <2>1, <2>2, <3>1
    <2>3. CASE f.buffer # b
        BY <1>1, <2>1, <2>3
    <2> QED BY <2>2, <2>3
<1> QED BY <1>1, <1>2, <1>3 DEF FiltersRight

\* What is not about rings stays right when only rings change.
LEMMA OtherParts ==
    ASSUME BuffersInv, UNCHANGED <<tx, txmem, slots, hash, shares>>
    PROVE  TxRight' /\ HashRight'
<1>1. LiveTx' = LiveTx
    BY DEF LiveTx
<1> QED BY <1>1 DEF BuffersInv, TxRight, HashRight

\* A ring is taken, or the driver's buffer of it lost, or both.
LEMMA TakenBuffers ==
    ASSUME BuffersInv, NEW x \in RxIds, NEW h, NEW r \in Rings, rx[x] = None, Taken(x, h, r)
    PROVE  BuffersInv'
<1>1. /\ UNCHANGED <<tx, txmem, slots, hash, filters, others, shares>>
      /\ bufs' = [b \in Buffer |-> bufs[b] + Has(r, b)]
    BY DEF Taken, Alloc, Has
<1>2. /\ rx \in [RxIds -> Rings \cup {None}] /\ rings \in Int /\ bufs \in [Buffer -> Int]
      /\ others \in [Buffer -> Nat] /\ shares \in [Buffer -> Nat]
      /\ lost \in [rings : Nat, bufs : [Buffer -> Nat]]
      /\ rings = Cardinality(Live) + lost.rings
      /\ \A b \in Buffer : bufs[b] = Cardinality(On(b)) + others[b] + shares[b] + lost.bufs[b]
    BY DEF BuffersInv, RxRight
<1>3. \A b : Has(r, b) \in {0, 1}
    BY DEF Has
<1>4. bufs' \in [Buffer -> Int] /\ \A b \in Buffer : bufs'[b] = bufs[b] + Has(r, b)
    BY <1>1, <1>2, <1>3
<1>5. TxRight' /\ HashRight'
    BY <1>1, OtherParts
<1>6. FiltersRight'
    <2>1. \A b \in Buffer : bufs'[b] >= bufs[b]
        BY <1>2, <1>3, <1>4
    <2> QED BY <1>1, <1>2, <1>4, <2>1, MoreAllocated DEF BuffersInv
<1>7. CASE Acquired(x, h, r)
    <2>1. rx' = [rx EXCEPT ![x] = r] /\ rings' = rings + 1 /\ lost' = lost
        BY <1>7 DEF Acquired
    <2>2. /\ rx' \in [RxIds -> Rings \cup {None}]
          /\ Cardinality(Live') = Cardinality(Live) + 1
          /\ \A b : Cardinality(On(b)') = Cardinality(On(b)) + Has(r, b)
        BY <1>2, <2>1, RingCounted
    <2>3. rings' = Cardinality(Live') + lost'.rings
        BY <1>2, <2>1, <2>2, LiveFinite
    <2>4. ASSUME NEW b \in Buffer
          PROVE  bufs'[b] = Cardinality(On(b)') + others'[b] + shares'[b] + lost'.bufs[b]
        BY <1>1, <1>2, <1>3, <1>4, <2>1, <2>2, LiveFinite
    <2>5. RxRight'
        BY <1>1, <1>2, <1>4, <2>1, <2>2, <2>3, <2>4 DEF RxRight
    <2> QED BY <1>5, <1>6, <2>5 DEF BuffersInv
<1>8. CASE MmapFailed(r) \/ MallocFailed(h, r)
    <2>1. /\ rx' = rx
          /\ lost'.bufs = [b \in Buffer |-> lost.bufs[b] + Has(r, b)]
          /\ \E n \in Nat : rings' = rings + n /\ lost'.rings = lost.rings + n
          /\ lost' = [rings |-> lost'.rings, bufs |-> lost'.bufs]
        <3>1. CASE MmapFailed(r)
            <4>1. /\ rx' = rx /\ rings' = rings
                  /\ lost' = [lost EXCEPT !.bufs = [b \in Buffer |-> lost.bufs[b] + Has(r, b)]]
                BY <3>1 DEF MmapFailed, Has
            <4>2. lost' = [rings |-> lost.rings, bufs |-> [b \in Buffer |-> lost.bufs[b] + Has(r, b)]]
                BY <1>2, <4>1
            <4>3. rings' = rings + 0 /\ lost'.rings = lost.rings + 0
                BY <1>2, <4>1, <4>2
            <4> QED BY <4>1, <4>2, <4>3
        <3>2. CASE MallocFailed(h, r)
            <4>1. /\ rx' = rx /\ rings' = rings + 1
                  /\ lost' = [rings |-> lost.rings + 1,
                              bufs |-> [b \in Buffer |-> lost.bufs[b] + Has(r, b)]]
                BY <3>2 DEF MallocFailed, Has
            <4> QED BY <4>1
        <3> QED BY <1>8, <3>1, <3>2
    <2>2. /\ lost' \in [rings : Nat, bufs : [Buffer -> Nat]]
          /\ \A b \in Buffer : lost'.bufs[b] = lost.bufs[b] + Has(r, b)
        <3>1. lost'.rings \in Nat
            BY <1>2, <2>1
        <3>2. lost'.bufs \in [Buffer -> Nat] /\ \A b \in Buffer : lost'.bufs[b] = lost.bufs[b] + Has(r, b)
            BY <1>2, <1>3, <2>1
        <3> QED BY <2>1, <3>1, <3>2
    <2>3. Live' = Live /\ \A b : On(b)' = On(b)
        BY <2>1 DEF Live, On
    <2>4. rings' \in Int /\ rings' = Cardinality(Live') + lost'.rings
        BY <1>2, <2>1, <2>3, LiveFinite
    <2>5. ASSUME NEW b \in Buffer
          PROVE  bufs'[b] = Cardinality(On(b)') + others'[b] + shares'[b] + lost'.bufs[b]
        <3>1. /\ Cardinality(On(b)) \in Nat /\ others[b] \in Nat /\ shares[b] \in Nat
              /\ lost.bufs[b] \in Nat
            BY <1>2, LiveFinite
        <3> QED BY <1>1, <1>2, <1>3, <1>4, <2>2, <2>3, <3>1
    <2>6. RxRight'
        BY <1>1, <1>2, <1>4, <2>1, <2>2, <2>4, <2>5 DEF RxRight
    <2> QED BY <1>5, <1>6, <2>6 DEF BuffersInv
<1> QED BY <1>7, <1>8 DEF Taken

\* A ring is given up, and the driver's buffer of it.
LEMMA ReleaseBuffers ==
    ASSUME BuffersInv, NEW x \in RxIds, ReleaseRxBuffer(x)
    PROVE  BuffersInv'
<1>1. /\ UNCHANGED <<tx, txmem, slots, hash, others, shares, lost>>
      /\ rx[x] # None /\ rx' = [rx EXCEPT ![x] = None] /\ rings' = rings - 1
      /\ IF rx[x].buffer_number > 0
         THEN Free(<<rx[x].port, rx[x].buffer_number - 1>>)
         ELSE UNCHANGED <<bufs, filters>>
    BY DEF ReleaseRxBuffer
<1>2. /\ rx \in [RxIds -> Rings \cup {None}] /\ rings \in Int /\ bufs \in [Buffer -> Int]
      /\ others \in [Buffer -> Nat] /\ shares \in [Buffer -> Nat]
      /\ lost \in [rings : Nat, bufs : [Buffer -> Nat]]
      /\ rings = Cardinality(Live) + lost.rings
      /\ \A b \in Buffer : bufs[b] = Cardinality(On(b)) + others[b] + shares[b] + lost.bufs[b]
    BY DEF BuffersInv, RxRight
<1>3. /\ rx' \in [RxIds -> Rings \cup {None}]
      /\ Cardinality(Live') = Cardinality(Live) - 1
      /\ \A b : Cardinality(On(b)') = Cardinality(On(b)) - Has(rx[x], b)
    BY <1>1, <1>2, RingUncounted
<1>4. TxRight' /\ HashRight'
    BY <1>1, OtherParts
<1>5. rx[x].port \in Ports /\ rx[x].buffer_number \in 0 .. MaxBuffers
    BY <1>1, <1>2 DEF Rings
<1>6. /\ FiltersRight' /\ bufs' \in [Buffer -> Int]
      /\ \A b \in Buffer : bufs'[b] = bufs[b] - Has(rx[x], b)
    <2>1. CASE rx[x].buffer_number > 0
        <3> DEFINE d == <<rx[x].port, rx[x].buffer_number - 1>>
        <3>1. d \in Buffer
            BY <1>5, <2>1, BuffersAssumption DEF Buffer
        <3>2. OfRing(rx[x]) = {d}
            BY <3>1 DEF OfRing
        <3>3. bufs[d] > 0
            <4>1. x \in On(d)
                BY <1>1, <3>2 DEF On, Live
            <4>2. Cardinality(On(d)) # 0
                BY <4>1, LiveFinite, FS_EmptySet
            <4>3. /\ Cardinality(On(d)) \in Nat /\ others[d] \in Nat /\ shares[d] \in Nat
                  /\ lost.bufs[d] \in Nat
                BY <1>2, <3>1, LiveFinite
            <4> QED BY <1>2, <3>1, <4>2, <4>3
        <3>4. Free(d)
            BY <1>1, <2>1
        <3> HIDE DEF d
        <3>5. FiltersRight' /\ bufs' = [bufs EXCEPT ![d] = @ - 1]
            BY <1>2, <3>1, <3>3, <3>4, FewerAllocated DEF BuffersInv
        <3>6. \A b \in Buffer : bufs'[b] = bufs[b] - Has(rx[x], b)
            BY <1>2, <3>1, <3>2, <3>5 DEF Has
        <3>7. bufs' \in [Buffer -> Int]
            BY <1>2, <3>1, <3>5
        <3> QED BY <3>5, <3>6, <3>7
    <2>2. CASE ~(rx[x].buffer_number > 0)
        <3>1. OfRing(rx[x]) = {}
            <4>1. rx[x].buffer_number - 1 \notin 0 .. MaxBuffers - 1
                BY <1>5, <2>2, BuffersAssumption
            <4> QED BY <4>1 DEF OfRing, Buffer
        <3>2. UNCHANGED <<bufs, filters>>
            BY <1>1, <2>2
        <3>3. \A b \in Buffer : bufs'[b] = bufs[b] - Has(rx[x], b)
            BY <1>2, <3>1, <3>2 DEF Has
        <3> QED BY <1>2, <3>2, <3>3 DEF BuffersInv, FiltersRight
    <2> QED BY <2>1, <2>2
<1>7. rings' \in Int /\ rings' = Cardinality(Live') + lost'.rings
    BY <1>1, <1>2, <1>3, LiveFinite
<1>8. ASSUME NEW b \in Buffer
      PROVE  bufs'[b] = Cardinality(On(b)') + others'[b] + shares'[b] + lost'.bufs[b]
    <2>1. /\ Cardinality(On(b)) \in Nat /\ others[b] \in Nat /\ shares[b] \in Nat
          /\ lost.bufs[b] \in Nat /\ Has(rx[x], b) \in Int
        BY <1>2, LiveFinite DEF Has
    <2> QED BY <1>1, <1>2, <1>3, <1>6, <2>1
<1>9. RxRight'
    BY <1>1, <1>2, <1>3, <1>6, <1>7, <1>8 DEF RxRight
<1> QED BY <1>4, <1>6, <1>9 DEF BuffersInv

\* Another process allocates a buffer or frees one of its own.
LEMMA OtherBuffers ==
    ASSUME BuffersInv, NEW d \in Buffer, OtherProcess(d)
    PROVE  BuffersInv'
<1>1. /\ UNCHANGED <<rx, rings, tx, txmem, slots, hash, shares, lost>>
      /\ \/ Alloc({d}) /\ UNCHANGED filters /\ others' = [others EXCEPT ![d] = @ + 1]
         \/ others[d] > 0 /\ Free(d) /\ others' = [others EXCEPT ![d] = @ - 1]
    BY DEF OtherProcess
<1>2. /\ rx \in [RxIds -> Rings \cup {None}] /\ rings \in Int /\ bufs \in [Buffer -> Int]
      /\ others \in [Buffer -> Nat] /\ shares \in [Buffer -> Nat]
      /\ lost \in [rings : Nat, bufs : [Buffer -> Nat]]
      /\ rings = Cardinality(Live) + lost.rings
      /\ \A b \in Buffer : bufs[b] = Cardinality(On(b)) + others[b] + shares[b] + lost.bufs[b]
    BY DEF BuffersInv, RxRight
<1>3. TxRight' /\ HashRight'
    BY <1>1, OtherParts
<1>4. /\ FiltersRight' /\ bufs' \in [Buffer -> Int] /\ others' \in [Buffer -> Nat]
      /\ \A b \in Buffer : bufs'[b] - bufs[b] = others'[b] - others[b]
    <2>1. CASE Alloc({d}) /\ UNCHANGED filters /\ others' = [others EXCEPT ![d] = @ + 1]
        <3>1. \A b \in Buffer : bufs'[b] = bufs[b] + IF b \in {d} THEN 1 ELSE 0
            BY <2>1 DEF Alloc
        <3>2. ASSUME NEW b \in Buffer
              PROVE  bufs'[b] \in Int /\ bufs'[b] >= bufs[b] /\ bufs'[b] - bufs[b] = others'[b] - others[b]
            <4>1. bufs[b] \in Int /\ others[b] \in Nat
                BY <1>2
            <4>2. CASE b = d
                BY <1>2, <2>1, <3>1, <4>1, <4>2
            <4>3. CASE b # d
                BY <1>2, <2>1, <3>1, <4>1, <4>3
            <4> QED BY <4>2, <4>3
        <3>3. bufs' \in [Buffer -> Int]
            <4>1. bufs' = [b \in Buffer |-> bufs'[b]]
                BY <2>1 DEF Alloc
            <4> QED BY <3>2, <4>1
        <3>4. FiltersRight'
            BY <1>2, <2>1, <3>2, <3>3, MoreAllocated DEF BuffersInv
        <3>5. others' \in [Buffer -> Nat]
            BY <1>2, <2>1
        <3> QED BY <3>2, <3>3, <3>4, <3>5
    <2>2. CASE others[d] > 0 /\ Free(d) /\ others' = [others EXCEPT ![d] = @ - 1]
        <3>1. bufs[d] > 0
            <4>1. /\ Cardinality(On(d)) \in Nat /\ others[d] \in Nat /\ shares[d] \in Nat
                  /\ lost.bufs[d] \in Nat
                BY <1>2, LiveFinite
            <4> QED BY <1>2, <2>2, <4>1
        <3>2. FiltersRight' /\ bufs' = [bufs EXCEPT ![d] = @ - 1]
            BY <1>2, <2>2, <3>1, FewerAllocated DEF BuffersInv
        <3>3. ASSUME NEW b \in Buffer PROVE bufs'[b] - bufs[b] = others'[b] - others[b]
            <4>1. bufs[b] \in Int /\ others[b] \in Nat
                BY <1>2
            <4>2. CASE b = d
                BY <1>2, <2>2, <3>2, <4>1, <4>2
            <4>3. CASE b # d
                BY <1>2, <2>2, <3>2, <4>1, <4>3
            <4> QED BY <4>2, <4>3
        <3>4. bufs' \in [Buffer -> Int] /\ others' \in [Buffer -> Nat]
            BY <1>2, <2>2, <3>2
        <3> QED BY <3>2, <3>3, <3>4
    <2> QED BY <1>1, <2>1, <2>2
<1>5. Live' = Live /\ \A b : On(b)' = On(b)
    BY <1>1 DEF Live, On
<1>6. ASSUME NEW b \in Buffer
      PROVE  bufs'[b] = Cardinality(On(b)') + others'[b] + shares'[b] + lost'.bufs[b]
    <2>1. /\ Cardinality(On(b)) \in Nat /\ others[b] \in Nat /\ shares[b] \in Nat
          /\ lost.bufs[b] \in Nat /\ others'[b] \in Nat /\ bufs'[b] \in Int
        BY <1>2, <1>4, LiveFinite
    <2> QED BY <1>1, <1>2, <1>4, <1>5, <2>1
<1>7. RxRight'
    BY <1>1, <1>2, <1>4, <1>5, <1>6 DEF RxRight
<1> QED BY <1>3, <1>4, <1>7 DEF BuffersInv

\* TX memory and feedback slots come and go together.
LEMMA TxBuffers ==
    ASSUME BuffersInv, NEW t \in TxIds, NEW c, NEW p,
           (p \in Ports /\ AcquireTxBuffer(t, c, p)) \/ ReleaseTxBuffer(t)
    PROVE  BuffersInv'
<1>1. tx \in [TxIds -> Ports \cup {-1}] /\ txmem = Cardinality(LiveTx) /\ slots = txmem
    BY DEF BuffersInv, TxRight
<1>2. CASE UNCHANGED bufferVars
    BY <1>2, SameBuffers
<1>3. ASSUME UNCHANGED <<rx, rings, bufs, hash, filters, others, shares, lost>>, TxRight'
      PROVE  BuffersInv'
    <2>1. Live' = Live /\ \A b : On(b)' = On(b)
        BY <1>3 DEF Live, On
    <2> QED BY <1>3, <2>1 DEF BuffersInv, RxRight, HashRight, FiltersRight
<1>4. CASE /\ p \in Ports /\ tx[t] = -1 /\ tx' = [tx EXCEPT ![t] = p]
           /\ txmem' = txmem + 1 /\ slots' = slots + 1
           /\ UNCHANGED <<rx, rings, bufs, hash, filters, others, shares, lost>>
    <2>1. LiveTx' = LiveTx \cup {t} /\ t \notin LiveTx
        BY <1>1, <1>4, RingsApart DEF LiveTx
    <2>2. Cardinality(LiveTx') = Cardinality(LiveTx) + 1
        BY <2>1, LiveFinite, FS_AddElement
    <2>3. TxRight'
        BY <1>1, <1>4, <2>2 DEF TxRight
    <2> QED BY <1>3, <1>4, <2>3
<1>5. CASE ReleaseTxBuffer(t)
    <2>1. /\ tx[t] # -1 /\ tx' = [tx EXCEPT ![t] = -1]
          /\ txmem' = txmem - 1 /\ slots' = slots - 1
          /\ UNCHANGED <<rx, rings, bufs, hash, filters, others, shares, lost>>
        BY <1>5 DEF ReleaseTxBuffer
    <2>2. LiveTx' = LiveTx \ {t} /\ t \in LiveTx
        BY <1>1, <2>1 DEF LiveTx
    <2>3. Cardinality(LiveTx') = Cardinality(LiveTx) - 1
        BY <2>2, LiveFinite, FS_RemoveElement
    <2>4. TxRight'
        BY <1>1, <2>1, <2>3 DEF TxRight
    <2> QED BY <1>3, <2>1, <2>4
<1> QED BY <1>2, <1>4, <1>5 DEF AcquireTxBuffer, Refused

\* The order of the natural numbers, as a set of pairs.
Less == {ss \in Nat \X Nat : ss[1] < ss[2]}

\* A set of natural numbers has a least one.
LEMMA Least == ASSUME NEW S \in SUBSET Nat, S # {} PROVE \E x \in S : \A y \in S : x <= y
<1>1. IsWellFoundedOn(Less, Nat)
    BY NatLessThanWellFounded, Zenon DEF OpToRel, Less
<1>2. PICK x \in S : \A y \in S : <<y, x>> \notin Less
    BY <1>1, WFMin
<1>3. ASSUME NEW y \in S PROVE x <= y
    <2>1. x \in Nat /\ y \in Nat
        OBVIOUS
    <2>2. <<y, x>> \in Less <=> y < x
        BY <2>1 DEF Less
    <2> QED BY <1>2, <2>1, <2>2
<1> QED BY <1>3

\* The least is what Min gives.
LEMMA MinIsLeast == ASSUME NEW S \in SUBSET Nat, S # {} PROVE Min(S) \in S /\ \A y \in S : Min(S) <= y
BY Least DEF Min

\* An identifier for a new filter can be found.
LEMMA FreshIdType == IsFiniteSet(filters) => FreshId \in Nat
<1> SUFFICES ASSUME IsFiniteSet(filters) PROVE FreshId \in Nat
    OBVIOUS
<1> DEFINE n == Cardinality(filters)
           taken == {f.id : f \in filters}
           free == (0 .. n) \ taken
<1>1. n \in Nat
    BY FS_CardinalityType
<1>2. IsFiniteSet(taken) /\ Cardinality(taken) <= n
    <2>1. [f \in filters |-> f.id] \in Surjection(filters, taken)
        BY DEF Surjection
    <2> QED BY <2>1, FS_Surjection
<1>3. Cardinality(0 .. n) = n + 1
    BY <1>1, FS_Interval
<1>4. free # {}
    <2> SUFFICES ASSUME free = {} PROVE FALSE
        OBVIOUS
    <2>1. 0 .. n \in SUBSET taken
        OBVIOUS
    <2>2. Cardinality(0 .. n) <= Cardinality(taken)
        BY <1>2, <2>1, FS_Subset
    <2>3. Cardinality(taken) \in Nat
        BY <1>2, FS_CardinalityType
    <2> QED BY <1>1, <1>2, <1>3, <2>2, <2>3
<1>5. free \in SUBSET Nat
    BY <1>1
<1>6. FreshId = Min(free)
    BY DEF FreshId
<1> HIDE DEF free
<1> QED BY <1>4, <1>5, <1>6, MinIsLeast

\* The numbers of buffers that flow hashing can keep.
LEMMA Powers == Pow2s = {1, 2, 4, 8, 16, 32, 64, 128, 256, 512, 1024}
<1>1. /\ 2 ^ 0 = 1 /\ 2 ^ 1 = 2 /\ 2 ^ 2 = 4 /\ 2 ^ 3 = 8 /\ 2 ^ 4 = 16 /\ 2 ^ 5 = 32
      /\ 2 ^ 6 = 64 /\ 2 ^ 7 = 128 /\ 2 ^ 8 = 256 /\ 2 ^ 9 = 512 /\ 2 ^ 10 = 1024
    OBVIOUS
<1>2. 0 .. 10 = {0, 1, 2, 3, 4, 5, 6, 7, 8, 9, 10}
    OBVIOUS
<1> QED BY <1>1, <1>2 DEF Pow2s

\* What is kept is among what was got, and is something.
LEMMA KeptBounds == ASSUME NEW got \in Nat, got > 0 PROVE Kept(got) \in 1 .. got
<1> DEFINE S == {n \in Pow2s : n <= got}
           gaps == {got - n : n \in S}
<1>1. S \subseteq Nat /\ 1 \in S
    BY Powers
<1>2. gaps \in SUBSET Nat /\ gaps # {}
    BY <1>1
<1>3. PICK g \in gaps : \A y \in gaps : g <= y
    <2> HIDE DEF gaps
    <2> QED BY <1>2, Least
<1>4. \E n \in S : \A m \in S : n >= m
    <2>1. PICK n \in S : g = got - n
        OBVIOUS
    <2>2. ASSUME NEW m \in S PROVE n >= m
        <3>1. got - m \in gaps
            OBVIOUS
        <3>2. got - n <= got - m /\ n \in Nat /\ m \in Nat
            BY <1>1, <1>3, <2>1, <3>1
        <3> QED BY <3>2
    <2> QED BY <2>2
<1>5. Kept(got) \in S
    BY <1>4 DEF Kept, Max
<1>6. \A n \in Pow2s : n >= 1
    BY Powers
<1> QED BY <1>1, <1>5, <1>6

\* Flow hashing takes buffers from 0 up, and hashes to these only.
LEMMA HashingBuffers ==
    ASSUME BuffersInv, NEW c, NEW p \in Ports, NEW max, EnableFlowHashing(c, p, max)
    PROVE  BuffersInv'
<1>1. CASE Refused
    BY <1>1, SameBuffers DEF Refused
<1>2. CASE /\ Enable(p, Min({max, MaxBuffers}))
           /\ UNCHANGED <<rx, tx, rings, txmem, slots, filters, others, lost>>
    <2>0. max \in Pow2s
        BY DEF EnableFlowHashing
    <2> DEFINE m == Min({max, MaxBuffers})
    <2>1. m \in Nat /\ m <= MaxBuffers
        <3>1. {max, MaxBuffers} \in SUBSET Nat
            BY <2>0, Powers, BuffersAssumption
        <3> QED BY <3>1, MinIsLeast
    <2>2. PICK got \in 1 .. m :
            LET mine == {<<p, i>> : i \in 0 .. Kept(got) - 1} IN
            /\ Alloc(mine)
            /\ shares' = [b \in Buffer |-> shares[b] + IF b \in mine THEN 1 ELSE 0]
            /\ hash' = [hash EXCEPT ![p] = [enable |-> TRUE, mask |-> Kept(got) - 1]]
        BY <1>2 DEF Enable
    <2> DEFINE k == Kept(got)
               mine == {<<p, i>> : i \in 0 .. k - 1}
               add == [b \in Buffer |-> IF b \in mine THEN 1 ELSE 0]
    <2>3. k \in Nat /\ k > 0 /\ k <= MaxBuffers
        <3>1. got \in Nat /\ got > 0 /\ got <= MaxBuffers
            BY <2>1, <2>2, BuffersAssumption
        <3>2. k \in 1 .. got
            BY <3>1, KeptBounds
        <3> HIDE DEF k
        <3> QED BY <3>1, <3>2, BuffersAssumption
    <2>4. add \in [Buffer -> {0, 1}] /\ \A i \in 0 .. k - 1 : <<p, i>> \in Buffer /\ add[<<p, i>>] = 1
        <3> HIDE DEF k
        <3>1. \A i \in 0 .. k - 1 : <<p, i>> \in Buffer /\ <<p, i>> \in mine
            BY <2>3, BuffersAssumption DEF Buffer
        <3> HIDE DEF mine
        <3> QED BY <3>1
    <2>5. /\ bufs' = [b \in Buffer |-> bufs[b] + add[b]]
          /\ shares' = [b \in Buffer |-> shares[b] + add[b]]
          /\ hash' = [hash EXCEPT ![p] = [enable |-> TRUE, mask |-> k - 1]]
        BY <2>2 DEF Alloc
    <2> HIDE DEF add, mine, k
    <2>6. /\ rx \in [RxIds -> Rings \cup {None}] /\ rings \in Int /\ bufs \in [Buffer -> Int]
          /\ others \in [Buffer -> Nat] /\ shares \in [Buffer -> Nat]
          /\ lost \in [rings : Nat, bufs : [Buffer -> Nat]]
          /\ rings = Cardinality(Live) + lost.rings
          /\ \A b \in Buffer : bufs[b] = Cardinality(On(b)) + others[b] + shares[b] + lost.bufs[b]
        BY DEF BuffersInv, RxRight
    <2>7. /\ bufs' \in [Buffer -> Int] /\ shares' \in [Buffer -> Nat]
          /\ \A b \in Buffer : /\ bufs'[b] = bufs[b] + add[b] /\ shares'[b] = shares[b] + add[b]
                               /\ bufs'[b] >= bufs[b] /\ shares'[b] >= shares[b]
        BY <2>4, <2>5, <2>6
    <2>8. LiveTx' = LiveTx /\ Live' = Live /\ \A b : On(b)' = On(b)
        BY <1>2 DEF LiveTx, Live, On
    <2>9. ASSUME NEW b \in Buffer
          PROVE  bufs'[b] = Cardinality(On(b)') + others'[b] + shares'[b] + lost'.bufs[b]
        <3>1. /\ Cardinality(On(b)) \in Nat /\ others[b] \in Nat /\ shares[b] \in Nat
              /\ lost.bufs[b] \in Nat /\ add[b] \in {0, 1}
            BY <2>4, <2>6, LiveFinite
        <3> QED BY <1>2, <2>6, <2>7, <2>8, <3>1
    <2>10. RxRight'
        BY <1>2, <2>6, <2>7, <2>8, <2>9 DEF RxRight
    <2>11. TxRight'
        BY <1>2, <2>8 DEF BuffersInv, TxRight
    <2>12. FiltersRight'
        BY <1>2, <2>6, <2>7, MoreAllocated DEF BuffersInv
    <2>13. HashRight'
        <3>1. hash \in [Ports -> [enable : BOOLEAN, mask : Nat]]
            BY DEF BuffersInv, HashRight
        <3>2. hash' \in [Ports -> [enable : BOOLEAN, mask : Nat]]
            BY <2>3, <2>5, <3>1
        <3>3. ASSUME NEW q \in Ports, hash'[q].enable, NEW i \in 0 .. hash'[q].mask
              PROVE  <<q, i>> \in Buffer /\ shares'[<<q, i>>] > 0
            <4>1. CASE q = p
                <5>1. i \in 0 .. k - 1
                    BY <2>5, <3>1, <3>3, <4>1
                <5>2. <<q, i>> \in Buffer /\ add[<<q, i>>] = 1
                    BY <2>4, <4>1, <5>1
                <5>3. shares'[<<q, i>>] = shares[<<q, i>>] + 1 /\ shares[<<q, i>>] \in Nat
                    BY <2>6, <2>7, <5>2
                <5> QED BY <5>2, <5>3
            <4>2. CASE q # p
                <5>1. hash'[q] = hash[q]
                    BY <2>5, <3>1, <4>2
                <5>2. <<q, i>> \in Buffer /\ shares[<<q, i>>] > 0
                    BY <3>3, <5>1 DEF BuffersInv, HashRight
                <5>3. /\ shares'[<<q, i>>] >= shares[<<q, i>>]
                      /\ shares[<<q, i>>] \in Nat /\ shares'[<<q, i>>] \in Nat
                    BY <2>6, <2>7, <5>2
                <5> QED BY <5>2, <5>3
            <4> QED BY <4>1, <4>2
        <3> QED BY <3>2, <3>3 DEF HashRight
    <2> QED BY <2>10, <2>11, <2>12, <2>13 DEF BuffersInv
<1> QED BY <1>1, <1>2 DEF EnableFlowHashing

\* Flow hashing ends, and filters come and go.
LEMMA FilterBuffers ==
    ASSUME BuffersInv, NEW c, NEW p, NEW x, NEW flow, NEW id,
           \/ DisableFlowHashing(c, p)
           \/ x \in RxIds /\ FilterAdd(x, flow)
           \/ FilterRemove(c, p, id)
    PROVE  BuffersInv'
<1>1. CASE Refused
    BY <1>1, SameBuffers DEF Refused
<1>2. ASSUME UNCHANGED <<rx, tx, rings, bufs, txmem, slots, others, shares, lost>>
      PROVE  RxRight' /\ TxRight'
    <2>1. Live' = Live /\ LiveTx' = LiveTx /\ \A b : On(b)' = On(b)
        BY <1>2 DEF Live, LiveTx, On
    <2> QED BY <1>2, <2>1 DEF BuffersInv, RxRight, TxRight
<1>3. CASE DisableFlowHashing(c, p)
    <2>1. /\ hash' = [hash EXCEPT ![p] = [enable |-> FALSE, mask |-> 0]]
          /\ UNCHANGED <<rx, tx, rings, bufs, txmem, slots, filters, others, shares, lost>>
        BY <1>3 DEF DisableFlowHashing
    <2>2. HashRight' /\ FiltersRight'
        BY <2>1 DEF BuffersInv, HashRight, FiltersRight
    <2> QED BY <1>2, <2>1, <2>2 DEF BuffersInv
<1>4. CASE x \in RxIds /\ FilterAdd(x, flow) /\ ~Refused
    <2> DEFINE b == <<rx[x].port, rx[x].buffer_number - 1>>
               f == [buffer |-> b, flow |-> flow, id |-> FreshId]
    <2>1. /\ x \in RxIds /\ rx[x] # None /\ rx[x].buffer_number > 0 /\ filters' = filters \cup {f}
          /\ UNCHANGED <<rx, tx, rings, bufs, txmem, slots, hash, others, shares, lost>>
        BY <1>4 DEF FilterAdd
    <2>2. b \in Buffer /\ bufs[b] > 0
        <3>1. rx[x].port \in Ports /\ rx[x].buffer_number \in 0 .. MaxBuffers
            BY <2>1 DEF BuffersInv, RxRight, Rings
        <3>2. b \in Buffer
            BY <2>1, <3>1, BuffersAssumption DEF Buffer
        <3>3. x \in On(b)
            BY <2>1, <3>2 DEF On, Live, OfRing
        <3> HIDE DEF b
        <3>4. Cardinality(On(b)) # 0 /\ Cardinality(On(b)) \in Nat
            BY <3>3, LiveFinite, FS_EmptySet
        <3>5. /\ others[b] \in Nat /\ shares[b] \in Nat /\ lost.bufs[b] \in Nat
              /\ bufs[b] = Cardinality(On(b)) + others[b] + shares[b] + lost.bufs[b]
            BY <3>2 DEF BuffersInv, RxRight
        <3> QED BY <3>2, <3>4, <3>5
    <2>3. f.buffer = b /\ f.id = FreshId /\ FreshId \in Nat
        BY FreshIdType DEF BuffersInv, FiltersRight
    <2> HIDE DEF f, b
    <2>4. FiltersRight'
        <3>1. IsFiniteSet(filters')
            BY <2>1, FS_AddElement DEF BuffersInv, FiltersRight
        <3> QED BY <2>1, <2>2, <2>3, <3>1 DEF BuffersInv, FiltersRight
    <2>5. HashRight'
        BY <2>1 DEF BuffersInv, HashRight
    <2> QED BY <1>2, <2>1, <2>4, <2>5 DEF BuffersInv
<1>5. CASE FilterRemove(c, p, id) /\ ~Refused
    <2>1. /\ filters' = {f \in filters : f.id # id \/ f.buffer[1] # p}
          /\ UNCHANGED <<rx, tx, rings, bufs, txmem, slots, hash, others, shares, lost>>
        BY <1>5 DEF FilterRemove
    <2>2. filters' \in SUBSET filters
        BY <2>1
    <2>3. FiltersRight'
        BY <2>1, <2>2, FS_Subset DEF BuffersInv, FiltersRight
    <2>4. HashRight'
        BY <2>1 DEF BuffersInv, HashRight
    <2> QED BY <1>2, <2>1, <2>3, <2>4 DEF BuffersInv
<1> QED BY <1>1, <1>3, <1>4, <1>5

\* An RX buffer is acquired, by number or by the driver's choice.
LEMMA AcquireBuffers ==
    ASSUME BuffersInv, NEW x \in RxIds, NEW c, NEW r, NEW p,
           (r \in Rings /\ AcquireRxBuffer(x, c, r)) \/ (p \in Ports /\ AcquireUnused(x, c, p))
    PROVE  BuffersInv'
<1>1. CASE Refused
    BY <1>1, SameBuffers DEF Refused
<1>2. CASE r \in Rings /\ rx[x] = None /\ Taken(x, uses[c], r)
    BY <1>2, TakenBuffers
<1>3. ASSUME p \in Ports, rx[x] = None, NEW b \in Buffer, b[1] = p,
             Taken(x, uses[c], [port |-> p, buffer_number |-> b[2] + 1])
      PROVE  BuffersInv'
    <2>1. b[2] + 1 \in 0 .. MaxBuffers
        BY BuffersAssumption DEF Buffer
    <2>2. [port |-> p, buffer_number |-> b[2] + 1] \in Rings
        BY <1>3, <2>1 DEF Rings
    <2> QED BY <1>3, <2>2, TakenBuffers
<1> QED BY <1>1, <1>2, <1>3 DEF AcquireRxBuffer, AcquireUnused

\* The default ring of a port is a ring.
LEMMA DefaultRings == Default \subseteq Rings
BY DeviceAssumption, BuffersAssumption DEF Rings

\* The buffers stay right in any program.
LEMMA LibraryBuffers == BuffersInv /\ Library => BuffersInv'
<1> SUFFICES ASSUME BuffersInv, Library PROVE BuffersInv'
    OBVIOUS
<1>1. CASE HandleCall
    BY <1>1, SameBuffers DEF HandleCall
<1>2. CASE RxCall
    BY <1>2, AcquireBuffers, ReleaseBuffers, DefaultRings DEF RxCall
<1>3. CASE TxCall
    BY <1>3, TxBuffers DEF TxCall
<1> QED BY <1>1, <1>2, <1>3 DEF Library

\* The program that spreads flows.
LEMMA HashingProgramBuffers == BuffersInv /\ Hashing => BuffersInv'
<1> SUFFICES ASSUME BuffersInv, Hashing PROVE BuffersInv'
    OBVIOUS
<1>1. PICK c \in Callers, p \in Ports :
        \/ Open = {} /\ (\E n \in Names : AcquireOpened(c, n)) /\ UNCHANGED bufferVars
        \/ \E max \in Pow2s : max <= 2 * MaxBuffers /\ EnableFlowHashing(c, p, max)
        \/ DisableFlowHashing(c, p)
        \/ \E x \in RxIds, i \in 1 .. MaxBuffers :
              AcquireRxBuffer(x, c, [port |-> p, buffer_number |-> i])
        \/ \E x \in RxIds : ReleaseRxBuffer(x)
        \/ \E x \in RxIds, flow \in Flows : filters = {} /\ FilterAdd(x, flow)
        \/ \E f \in filters : FilterRemove(c, p, f.id)
    BY DEF Hashing, HashingCall
<1>2. CASE UNCHANGED bufferVars
    BY <1>2, SameBuffers
<1>3. CASE \E max \in Pow2s : EnableFlowHashing(c, p, max)
    BY <1>3, HashingBuffers
<1>4. CASE \/ DisableFlowHashing(c, p)
           \/ \E x \in RxIds, flow \in Flows : FilterAdd(x, flow)
           \/ \E f \in filters : FilterRemove(c, p, f.id)
    BY <1>4, FilterBuffers
<1>5. ASSUME NEW x \in RxIds, NEW i \in 1 .. MaxBuffers,
             AcquireRxBuffer(x, c, [port |-> p, buffer_number |-> i])
      PROVE  BuffersInv'
    <2>1. [port |-> p, buffer_number |-> i] \in Rings
        BY BuffersAssumption DEF Rings
    <2> QED BY <1>5, <2>1, AcquireBuffers
<1>6. CASE \E x \in RxIds : ReleaseRxBuffer(x)
    BY <1>6, ReleaseBuffers
<1> QED BY <1>1, <1>2, <1>3, <1>4, <1>5, <1>6

\* The capture program.
LEMMA MainBuffers == BuffersInv /\ Main => BuffersInv'
<1> SUFFICES ASSUME BuffersInv, Main PROVE BuffersInv'
    OBVIOUS
<1>1. CASE OpenFile \/ EndOfClauses \/ Capture \/ LeaveClosing
    BY <1>1, SameBuffers DEF OpenFile, EndOfClauses, Capture, LeaveClosing, vars
<1>2. CASE GetHandle \/ LeaveReleasingHandle
    BY <1>2, SameBuffers DEF GetHandle, LeaveReleasingHandle
<1>3. CASE GetRx
    <2>1. PICK c \in Callers, x \in RxIds :
              IF argv = <<>> THEN \E r \in Default : AcquireRxBuffer(x, c, r)
                             ELSE \E p \in Ports : AcquireUnused(x, c, p)
        BY <1>3 DEF GetRx
    <2> QED BY <2>1, AcquireBuffers, DefaultRings
<1>4. CASE ReadClause
    <2>1. PICK x \in RxIds : FilterAdd(x, ParseOneFilter(argv).filter)
        BY <1>4 DEF ReadClause
    <2> QED BY <2>1, FilterBuffers
<1>5. CASE AddReverse
    BY <1>5, FilterBuffers DEF AddReverse
<1>6. CASE LeaveReleasingRx
    BY <1>6, ReleaseBuffers DEF LeaveReleasingRx
<1> QED BY <1>1, <1>2, <1>3, <1>4, <1>5, <1>6 DEF Main

\* Every step.
LEMMA BuffersKeep == BuffersInv /\ [Next]_allVars => BuffersInv'
<1> SUFFICES ASSUME BuffersInv, [Next]_allVars PROVE BuffersInv'
    OBVIOUS
<1>1. CASE Others
    BY <1>1, OtherBuffers DEF Others
<1>2. CASE UNCHANGED allVars
    BY <1>2, SameBuffers DEF allVars, vars
<1> QED BY <1>1, <1>2, LibraryBuffers, HashingProgramBuffers, MainBuffers DEF Next

-----------------------------------------------------------------------------
(* The capture program                                                     *)

\* Callers that hold a handle.
Held == {c \in Callers : uses[c] # Nobody}

AtMostOne(S) == \A a, b \in S : a = b

\* What main holds, by where it is: one handle from its second step and one
\* buffer from its third, at most.
MainInv ==
    /\ shares = NoBuffers
    /\ AtMostOne(Held) /\ AtMostOne(Live)
    /\ pc \in {"open file", "handle", "close file", "exited"} => Held = {}
    /\ pc \notin {"filter", "reverse", "running", "release rx"} => Live = {}
    /\ pc = "exited" => ~savefp

\* Main runs in the capture program, and in no other.
ProgramInv ==
    /\ program \in {"library", "hashing", "capture"}
    /\ pc \in {"none", "open file", "handle", "rx", "filter", "reverse", "running",
               "release rx", "release handle", "close file", "exited"}
    /\ ret \in {"none", "ok", "failed"}
    /\ savefp \in BOOLEAN
    /\ pc = "none" <=> program # "capture"
    /\ program = "capture" => MainInv

\* A program starts with nothing.
LEMMA ProgramInitInv == Init => ProgramInv
<1> SUFFICES ASSUME Init PROVE ProgramInv
    OBVIOUS
<1>1. Held = {} /\ Live = {}
    BY HandlesAssumption, BuffersAssumption
       DEF Init, HandlesInit, BuffersInit, Held, Live
<1>2. MainInv
    BY <1>1 DEF Init, BuffersInit, MainInv, AtMostOne
<1> QED BY <1>2 DEF Init, HandlesInit, ProgramInv

\* A buffer acquired, or not, leaves the callers what they held.
LEMMA AcquireHeld ==
    ASSUME HandlesInv, BuffersInv, NEW x \in RxIds, NEW c, NEW r, NEW p,
           (r \in Rings /\ AcquireRxBuffer(x, c, r)) \/ (p \in Ports /\ AcquireUnused(x, c, p))
    PROVE  /\ Held' = Held /\ shares' = shares
           /\ \/ ret' = "ok" /\ Live' = Live \cup {x}
              \/ ret' = "failed" /\ Live' = Live
<1>1. /\ uses \in [Users -> Ids \cup {Nobody}]
      /\ rx \in [RxIds -> Rings \cup {None}]
    BY DEF HandlesInv, HandlesTyped, BuffersInv, RxRight
<1>2. ASSUME NEW u \in RxIds \cup Losses, NEW h, uses' = [uses EXCEPT ![u] = h]
      PROVE  Held' = Held
    <2>1. \A d \in Callers : uses'[d] = uses[d]
        BY <1>1, <1>2, BuffersAssumption
    <2> QED BY <2>1 DEF Held
<1>3. CASE Refused
    BY <1>3 DEF Refused, bufferVars, Held, Live
<1>4. ASSUME NEW h, NEW s \in Rings, Taken(x, h, s)
      PROVE  /\ Held' = Held /\ shares' = shares
             /\ \/ ret' = "ok" /\ Live' = Live \cup {x}
                \/ ret' = "failed" /\ Live' = Live
    <2>1. shares' = shares
        BY <1>4 DEF Taken
    <2>2. CASE Acquired(x, h, s)
        <3>1. ret' = "ok" /\ rx' = [rx EXCEPT ![x] = s] /\ uses' = [uses EXCEPT ![x] = h]
            BY <2>2 DEF Acquired, Retain
        <3>2. Live' = Live \cup {x}
            BY <1>1, <3>1, RingsApart DEF Live
        <3> QED BY <1>2, <2>1, <3>1, <3>2
    <2>3. CASE MmapFailed(s)
        BY <2>1, <2>3 DEF MmapFailed, Held, Live
    <2>4. CASE MallocFailed(h, s)
        <3>1. PICK l \in Losses : uses' = [uses EXCEPT ![l] = h]
            BY <2>4 DEF MallocFailed, Retain
        <3>2. ret' = "failed" /\ rx' = rx
            BY <2>4 DEF MallocFailed
        <3> QED BY <1>2, <2>1, <3>1, <3>2 DEF Live
    <2> QED BY <1>4, <2>2, <2>3, <2>4 DEF Taken
<1>5. CASE r \in Rings /\ AcquireRxBuffer(x, c, r)
    BY <1>3, <1>4, <1>5 DEF AcquireRxBuffer
<1>6. CASE p \in Ports /\ AcquireUnused(x, c, p)
    <2>1. ASSUME NEW b \in Buffer, Taken(x, uses[c], [port |-> p, buffer_number |-> b[2] + 1])
          PROVE  /\ Held' = Held /\ shares' = shares
                 /\ \/ ret' = "ok" /\ Live' = Live \cup {x}
                    \/ ret' = "failed" /\ Live' = Live
        <3>1. b[2] + 1 \in 0 .. MaxBuffers
            BY BuffersAssumption DEF Buffer
        <3>2. [port |-> p, buffer_number |-> b[2] + 1] \in Rings
            BY <1>6, <3>1 DEF Rings
        <3> QED BY <1>4, <2>1, <3>2
    <2> QED BY <1>3, <1>6, <2>1 DEF AcquireUnused
<1> QED BY <1>5, <1>6

\* A filter added, or not, leaves the buffers and the handles what they were.
LEMMA FilterHeld ==
    ASSUME NEW x, NEW flow, FilterAdd(x, flow)
    PROVE  Held' = Held /\ Live' = Live /\ shares' = shares /\ ret' \in {"ok", "failed"}
BY DEF FilterAdd, Refused, bufferVars, Held, Live

\* A step of main that goes on to another place.
LEMMA GoMain ==
    ASSUME ProgramInv, pc # "none", NEW to, Go(to), MainInv',
           to \in {"open file", "handle", "rx", "filter", "reverse", "running",
                   "release rx", "release handle", "close file", "exited"},
           ret' \in {"none", "ok", "failed"}, savefp' \in BOOLEAN
    PROVE  ProgramInv'
BY DEF ProgramInv, Go

\* main holds what it should where it is.
LEMMA MainKeeps == HandlesInv /\ BuffersInv /\ ProgramInv /\ Main => ProgramInv'
<1> SUFFICES ASSUME HandlesInv, BuffersInv, ProgramInv, Main PROVE ProgramInv'
    OBVIOUS
<1>1. pc # "none" /\ MainInv
    BY DEF Main, OpenFile, GetHandle, GetRx, ReadClause, AddReverse, EndOfClauses, Capture,
           LeaveReleasingRx, LeaveReleasingHandle, LeaveClosing, ProgramInv
<1>2. /\ shares = NoBuffers /\ AtMostOne(Held) /\ AtMostOne(Live)
      /\ savefp \in BOOLEAN /\ ret \in {"none", "ok", "failed"}
    BY <1>1 DEF MainInv, ProgramInv
<1>3. uses \in [Users -> Ids \cup {Nobody}] /\ rx \in [RxIds -> Rings \cup {None}]
    BY DEF HandlesInv, HandlesTyped, BuffersInv, RxRight
<1>4. UNCHANGED vars => Held' = Held /\ Live' = Live /\ shares' = shares /\ ret' = ret
    BY DEF vars, handleVars, bufferVars, Held, Live
<1>5. CASE OpenFile
    <2>1. /\ pc = "open file" /\ UNCHANGED vars
          /\ \/ savefp' = TRUE /\ Go("handle")
             \/ savefp' = FALSE /\ Go("handle")
             \/ savefp' = FALSE /\ Go("exited")
        BY <1>5 DEF OpenFile
    <2>2. Held = {} /\ Live = {}
        BY <1>1, <2>1 DEF MainInv
    <2>3. MainInv'
        BY <1>2, <1>4, <2>1, <2>2 DEF MainInv, AtMostOne, Go
    <2> QED BY <1>1, <1>2, <1>4, <2>1, <2>3, GoMain
<1>6. CASE GetHandle
    <2>1. PICK c \in Callers, n \in Names : AcquireHandle(c, n)
        BY <1>6 DEF GetHandle
    <2>2. /\ pc = "handle" /\ Branch("rx", "close file")
          /\ UNCHANGED bufferVars /\ savefp' = savefp
        BY <1>6 DEF GetHandle
    <2>3. Held = {} /\ Live = {} /\ Live' = {} /\ shares' = shares
        BY <1>1, <2>2 DEF MainInv, bufferVars, Live
    <2>4. \/ ret' = "ok" /\ \E h : uses' = [uses EXCEPT ![c] = h]
          \/ ret' = "failed" /\ uses' = uses
        BY <2>1 DEF AcquireHandle, AcquireFound, AcquireOpened, AcquireFailed, Retain
    <2>5. CASE ret' = "ok" /\ \E h : uses' = [uses EXCEPT ![c] = h]
        <3>1. \A d \in Callers : d # c => uses'[d] = uses[d]
            BY <1>3, <2>5, BuffersAssumption
        <3>2. AtMostOne(Held')
            BY <2>3, <3>1 DEF Held, AtMostOne
        <3>3. Go("rx")
            BY <2>2, <2>5 DEF Branch
        <3>4. MainInv'
            BY <1>2, <2>3, <3>2, <3>3 DEF MainInv, AtMostOne, Go
        <3> QED BY <1>1, <1>2, <2>2, <2>5, <3>3, <3>4, GoMain
    <2>6. CASE ret' = "failed" /\ uses' = uses
        <3>1. Held' = {}
            BY <2>3, <2>6 DEF Held
        <3>2. Go("close file")
            BY <2>2, <2>6 DEF Branch
        <3>3. MainInv'
            BY <1>2, <2>3, <3>1, <3>2 DEF MainInv, AtMostOne, Go
        <3> QED BY <1>1, <1>2, <2>2, <2>6, <3>2, <3>3, GoMain
    <2> QED BY <2>4, <2>5, <2>6
<1>7. CASE GetRx
    <2>1. PICK c \in Callers, x \in RxIds :
              IF argv = <<>> THEN \E r \in Default : AcquireRxBuffer(x, c, r)
                             ELSE \E p \in Ports : AcquireUnused(x, c, p)
        BY <1>7 DEF GetRx
    <2>2. pc = "rx" /\ Branch("filter", "release handle") /\ savefp' = savefp
        BY <1>7 DEF GetRx
    <2>3. Live = {}
        BY <1>1, <2>2 DEF MainInv
    <2>4. /\ Held' = Held /\ shares' = shares
          /\ \/ ret' = "ok" /\ Live' = Live \cup {x}
             \/ ret' = "failed" /\ Live' = Live
        BY <2>1, AcquireHeld, DefaultRings
    <2>5. CASE ret' = "ok" /\ Live' = Live \cup {x}
        <3>1. Go("filter")
            BY <2>2, <2>5 DEF Branch
        <3>2. MainInv'
            BY <1>2, <2>3, <2>4, <2>5, <3>1 DEF MainInv, AtMostOne, Go
        <3> QED BY <1>1, <1>2, <2>2, <2>5, <3>1, <3>2, GoMain
    <2>6. CASE ret' = "failed" /\ Live' = Live
        <3>1. Go("release handle")
            BY <2>2, <2>6 DEF Branch
        <3>2. MainInv'
            BY <1>2, <2>3, <2>4, <2>6, <3>1 DEF MainInv, AtMostOne, Go
        <3> QED BY <1>1, <1>2, <2>2, <2>6, <3>1, <3>2, GoMain
    <2> QED BY <2>4, <2>5, <2>6
<1>8. CASE ReadClause \/ AddReverse \/ EndOfClauses \/ Capture
    <2>1. /\ Held' = Held /\ Live' = Live /\ shares' = shares
          /\ ret' \in {"none", "ok", "failed"}
        <3>1. CASE ReadClause
            <4>1. PICK x \in RxIds : FilterAdd(x, ParseOneFilter(argv).filter)
                BY <3>1 DEF ReadClause
            <4> QED BY <4>1, FilterHeld
        <3>2. CASE AddReverse
            BY <3>2, FilterHeld DEF AddReverse
        <3>3. CASE EndOfClauses \/ Capture
            BY <1>2, <1>4, <3>3 DEF EndOfClauses, Capture
        <3> QED BY <1>8, <3>1, <3>2, <3>3
    <2>2. savefp' \in BOOLEAN
        BY <1>2, <1>8 DEF ReadClause, AddReverse, EndOfClauses, Capture
    <2>3. PICK to \in {"filter", "reverse", "running", "release rx"} : Go(to)
        BY <1>8 DEF ReadClause, AddReverse, EndOfClauses, Capture, Branch
    <2>4. MainInv'
        BY <1>2, <2>1, <2>3 DEF MainInv, AtMostOne, Go
    <2> QED BY <1>1, <2>1, <2>2, <2>3, <2>4, GoMain
<1>9. CASE LeaveReleasingRx
    <2>1. PICK x \in RxIds : ReleaseRxBuffer(x)
        BY <1>9 DEF LeaveReleasingRx
    <2>2. Go("release handle") /\ savefp' = savefp
        BY <1>9 DEF LeaveReleasingRx
    <2>3. /\ rx[x] # None /\ rx' = [rx EXCEPT ![x] = None] /\ shares' = shares
          /\ uses' = [uses EXCEPT ![x] = Nobody] /\ ret' = "ok"
        BY <2>1 DEF ReleaseRxBuffer, Release
    <2>4. Live' = {}
        BY <1>2, <1>3, <2>3 DEF Live, AtMostOne
    <2>5. Held' = Held
        <3>1. \A d \in Callers : uses'[d] = uses[d]
            BY <1>3, <2>3, BuffersAssumption
        <3> QED BY <3>1 DEF Held
    <2>6. MainInv'
        BY <1>2, <2>2, <2>3, <2>4, <2>5 DEF MainInv, AtMostOne, Go
    <2> QED BY <1>1, <1>2, <2>2, <2>3, <2>6, GoMain
<1>10. CASE LeaveReleasingHandle
    <2>1. PICK c \in Callers : ReleaseHandle(c)
        BY <1>10 DEF LeaveReleasingHandle
    <2>2. /\ pc = "release handle" /\ Go("close file")
          /\ savefp' = savefp /\ UNCHANGED bufferVars
        BY <1>10 DEF LeaveReleasingHandle
    <2>3. uses[c] # Nobody /\ uses' = [uses EXCEPT ![c] = Nobody] /\ ret' = "ok"
        BY <2>1 DEF ReleaseHandle, Release
    <2>4. Held' = {}
        <3>1. \A d \in Callers : uses'[d] = IF d = c THEN Nobody ELSE uses[d]
            BY <1>3, <2>3, BuffersAssumption
        <3> QED BY <1>2, <2>3, <3>1 DEF Held, AtMostOne
    <2>5. Live' = {} /\ shares' = shares
        BY <1>1, <2>2 DEF MainInv, bufferVars, Live
    <2>6. MainInv'
        BY <1>2, <2>2, <2>4, <2>5 DEF MainInv, AtMostOne, Go
    <2> QED BY <1>1, <1>2, <2>2, <2>3, <2>6, GoMain
<1>11. CASE LeaveClosing
    <2>1. pc = "close file" /\ Go("exited") /\ savefp' = FALSE /\ UNCHANGED vars
        BY <1>11 DEF LeaveClosing
    <2>2. Held = {} /\ Live = {}
        BY <1>1, <2>1 DEF MainInv
    <2>3. MainInv'
        BY <1>2, <1>4, <2>1, <2>2 DEF MainInv, AtMostOne, Go
    <2> QED BY <1>1, <1>2, <1>4, <2>1, <2>3, GoMain
<1> QED BY <1>5, <1>6, <1>7, <1>8, <1>9, <1>10, <1>11 DEF Main

\* Every call says how it ended.
LEMMA CallReturns == Library \/ Hashing => ret' \in {"ok", "failed"}
<1> USE DEF Refused
<1>1. ASSUME NEW c, NEW n, AcquireHandle(c, n) PROVE ret' \in {"ok", "failed"}
    BY <1>1 DEF AcquireHandle, AcquireFound, AcquireOpened, AcquireFailed
<1>2. ASSUME NEW x, NEW h, NEW r, Taken(x, h, r) PROVE ret' \in {"ok", "failed"}
    BY <1>2 DEF Taken, Acquired, MmapFailed, MallocFailed
<1>3. ASSUME NEW x, NEW c, NEW r, NEW p, AcquireRxBuffer(x, c, r) \/ AcquireUnused(x, c, p)
      PROVE  ret' \in {"ok", "failed"}
    BY <1>2, <1>3 DEF AcquireRxBuffer, AcquireUnused
<1>4. ASSUME NEW x, ReleaseRxBuffer(x) PROVE ret' \in {"ok", "failed"}
    BY <1>4 DEF ReleaseRxBuffer
<1>5. CASE Library
    <2>1. CASE HandleCall
        BY <1>1, <2>1 DEF HandleCall, RetainHandle, ReleaseHandle
    <2>2. CASE RxCall
        BY <1>3, <1>4, <2>2 DEF RxCall
    <2>3. CASE TxCall
        BY <2>3 DEF TxCall, AcquireTxBuffer, ReleaseTxBuffer
    <2> QED BY <1>5, <2>1, <2>2, <2>3 DEF Library
<1>6. CASE Hashing
    <2>1. ASSUME NEW c, NEW p, NEW max, NEW x, NEW flow, NEW id,
                 \/ EnableFlowHashing(c, p, max) \/ DisableFlowHashing(c, p)
                 \/ FilterAdd(x, flow) \/ FilterRemove(c, p, id)
          PROVE  ret' \in {"ok", "failed"}
        BY <2>1 DEF EnableFlowHashing, Enable, DisableFlowHashing, FilterAdd, FilterRemove
    <2>2. ASSUME NEW c, NEW n, AcquireOpened(c, n) PROVE ret' \in {"ok", "failed"}
        BY <2>2 DEF AcquireOpened
    <2> QED BY <1>3, <1>4, <1>6, <2>1, <2>2 DEF Hashing, HashingCall
<1> QED BY <1>5, <1>6

\* Every step.
LEMMA ProgramKeeps ==
    HandlesInv /\ BuffersInv /\ ProgramInv /\ [Next]_allVars => ProgramInv'
<1> SUFFICES ASSUME HandlesInv, BuffersInv, ProgramInv, [Next]_allVars PROVE ProgramInv'
    OBVIOUS
<1>1. CASE Library \/ Hashing
    <2>1. UNCHANGED <<program, pc, savefp>> /\ program # "capture"
        BY <1>1 DEF Library, Hashing, mainVars
    <2> QED BY <1>1, <2>1, CallReturns DEF ProgramInv
<1>2. CASE Others \/ UNCHANGED allVars
    <2>1. UNCHANGED <<program, pc, savefp, ret, uses, rx, shares>>
        BY <1>2 DEF Others, OtherProcess, allVars, mainVars, vars, handleVars, bufferVars
    <2>2. Held' = Held /\ Live' = Live
        BY <2>1 DEF Held, Live
    <2> QED BY <2>1, <2>2 DEF ProgramInv, MainInv
<1> QED BY <1>1, <1>2, MainKeeps DEF Next

-----------------------------------------------------------------------------
(* The results                                                             *)

\* The handles, what they map, what the driver gave out, and what main holds are
\* right together: the invariant of all the programs.
THEOREM DeviceInvariance == Spec => [](HandlesInv /\ MapsInv /\ BuffersInv /\ ProgramInv)
<1>1. Init => HandlesInv /\ MapsInv /\ BuffersInv /\ ProgramInv
    BY HandlesInitInv, MapsInitInv, BuffersInitInv, ProgramInitInv DEF Init
<1>2. HandlesInv /\ MapsInv /\ BuffersInv /\ ProgramInv /\ [Next]_allVars
          => HandlesInv' /\ MapsInv' /\ BuffersInv' /\ ProgramInv'
    BY DeviceKeeps, BuffersKeep, ProgramKeeps
<1> QED BY <1>1, <1>2, PTL DEF Spec

\* The ref_count of every exanic_t is the number of pointers in use, and the list
\* of open handles holds just those that are counted (exanic_retain_handle and
\* exanic_release_handle, as the acquiring and releasing calls make them).
THEOREM RefsMatchHolds == Spec => []RefsMatch
<1>1. HandlesInv => RefsMatch
    BY DEF HandlesInv
<1> QED BY <1>1, DeviceInvariance, PTL

\* Two open handles never have the same whole name (the lookup of
\* exanic_acquire_handle), however many names are in use.
THEOREM SameNameHolds == Spec => []SameNameSameHandle
<1>1. HandlesInv => SameNameSameHandle
    BY DEF HandlesInv
<1> QED BY <1>1, DeviceInvariance, PTL

\* Whichever of its calls fails, exanic_acquire_handle leaves mapped what open
\* handles have and, after a failed malloc, one region of a devkit; and the last
\* exanic_release_handle leaves nothing of its handle.
THEOREM MapsMatchHolds == Spec => []MapsMatch
<1>1. MapsInv => MapsMatch
    BY DEF MapsInv
<1> QED BY <1>1, DeviceInvariance, PTL

\* Allocations are never negative.
LEMMA Allocations == BuffersInv => bufs \in [Buffer -> Nat] /\ rings \in Nat
<1> SUFFICES ASSUME BuffersInv PROVE bufs \in [Buffer -> Nat] /\ rings \in Nat
    OBVIOUS
<1>1. rings \in Nat
    BY LiveFinite DEF BuffersInv, RxRight
<1>2. ASSUME NEW b \in Buffer PROVE bufs[b] \in Nat
    <2>1. /\ Cardinality(On(b)) \in Nat /\ others[b] \in Nat /\ shares[b] \in Nat
          /\ lost.bufs[b] \in Nat
        BY LiveFinite DEF BuffersInv, RxRight
    <2> QED BY <2>1 DEF BuffersInv, RxRight
<1> QED BY <1>1, <1>2 DEF BuffersInv, RxRight

\* The driver has given out as many rings, filter buffers, TX regions and feedback
\* slots as live buffers, flow hashing, other processes and the lossy exits of
\* exanic_acquire_rx_buffer and exanic_acquire_unused_filter_buffer account for.
THEOREM DriverMatchHolds == Spec => []DriverMatch
<1>1. BuffersInv => DriverMatch
    BY DEF BuffersInv, RxRight, TxRight, DriverMatch, On
<1> QED BY <1>1, DeviceInvariance, PTL

\* The mask that exanic_enable_flow_hashing sets reaches only buffers that are
\* allocated, whatever is released or freed by others meanwhile.
THEOREM HashTargetsHold == Spec => []HashTargets
<1>1. BuffersInv => HashTargets
    <2> SUFFICES ASSUME BuffersInv, NEW p \in Ports, hash[p].enable, NEW i \in 0 .. hash[p].mask
                 PROVE  <<p, i>> \in Buffer /\ bufs[<<p, i>>] > 0
        BY DEF HashTargets
    <2> DEFINE b == <<p, i>>
    <2>1. b \in Buffer /\ shares[b] > 0
        BY DEF BuffersInv, HashRight
    <2> HIDE DEF b
    <2>2. /\ Cardinality(On(b)) \in Nat /\ others[b] \in Nat /\ shares[b] \in Nat
          /\ lost.bufs[b] \in Nat
          /\ bufs[b] = Cardinality(On(b)) + others[b] + shares[b] + lost.bufs[b]
        BY <2>1, LiveFinite DEF BuffersInv, RxRight
    <2>3. b \in Buffer /\ bufs[b] > 0
        BY <2>1, <2>2
    <2> QED BY <2>3 DEF b
<1> QED BY <1>1, DeviceInvariance, PTL

\* main of the capture program, from whichever of its exits, has released its RX
\* buffer and its handle and closed its file; and a filter is left only on a buffer
\* that another process, or a failed call before, has allocated.
THEOREM LeavesNothingHolds == Spec => []LeavesNothing
<1>1. BuffersInv /\ ProgramInv => LeavesNothing
    <2> SUFFICES ASSUME BuffersInv, ProgramInv, pc = "exited"
                 PROVE  /\ ~savefp /\ Live = {}
                        /\ \A c \in Callers : uses[c] = Nobody
                        /\ \A f \in filters : others[f.buffer] > 0 \/ lost.bufs[f.buffer] > 0
        BY DEF LeavesNothing
    <2>1. MainInv
        BY DEF ProgramInv
    <2>2. ~savefp /\ Live = {} /\ Held = {} /\ shares = NoBuffers
        BY <2>1 DEF MainInv
    <2>3. ASSUME NEW f \in filters PROVE others[f.buffer] > 0 \/ lost.bufs[f.buffer] > 0
        <3>1. PICK b \in Buffer : b = f.buffer /\ bufs[b] > 0
            BY DEF BuffersInv, FiltersRight
        <3>2. Cardinality(On(b)) = 0 /\ shares[b] = 0
            BY <2>2, FS_EmptySet DEF On, NoBuffers
        <3>3. /\ others[b] \in Nat /\ lost.bufs[b] \in Nat
              /\ bufs[b] = Cardinality(On(b)) + others[b] + shares[b] + lost.bufs[b]
            BY DEF BuffersInv, RxRight
        <3> QED BY <3>1, <3>2, <3>3
    <2> QED BY <2>2, <2>3 DEF Held
<1> QED BY <1>1, DeviceInvariance, PTL

\* The types of the whole state: no count of the library or of the driver ever
\* goes below zero.
THEOREM DeviceTypeCorrect == Spec => []TypeOK
<1>1. HandlesInv /\ MapsInv /\ BuffersInv /\ ProgramInv => TypeOK
    <2> SUFFICES ASSUME HandlesInv, MapsInv, BuffersInv, ProgramInv PROVE TypeOK
        OBVIOUS
    <2>1. HandlesTypeOK
        <3>1. maps \in [Regions -> Nat]
            <4>1. \A r \in Regions : maps[r] \in Nat
                BY MappingFinite DEF MapsInv, MapsMatch
            <4> QED BY <4>1 DEF MapsInv
        <3> QED BY <3>1 DEF HandlesTypeOK, HandlesInv, HandlesTyped, MapsInv, ProgramInv
    <2>2. BuffersTypeOK
        <3>1. txmem \in Nat /\ slots \in Nat
            BY LiveFinite DEF BuffersInv, TxRight
        <3>2. \A f \in filters : f.buffer \in Buffer /\ f.id \in Nat
            BY DEF BuffersInv, FiltersRight
        <3> QED BY <3>1, <3>2, Allocations
                DEF BuffersTypeOK, BuffersInv, RxRight, TxRight, HashRight
    <2> QED BY <2>1, <2>2 DEF TypeOK, ProgramInv
<1> QED BY <1>1, DeviceInvariance, PTL

-----------------------------------------------------------------------------
(* The filter parser                                                       *)

\* r holds the clause after each number of words up to n.
Reads(words, n, r) ==
    r = [i \in 0 .. n |-> IF i = 0 THEN Begun ELSE Word(r[i - 1], words[i])]

\* Words can be read one after the other.
LEMMA ReadsExist == ASSUME NEW words, NEW n \in Nat PROVE \E r : Reads(words, n, r)
<1> DEFINE Without == {k \in Nat : ~\E r : Reads(words, k, r)}
<1> SUFFICES ASSUME Without # {} PROVE FALSE
    OBVIOUS
<1>1. PICK k \in Without : \A j \in Without : k <= j
    BY Least
<1>2. k # 0
    <2> SUFFICES \E r : Reads(words, 0, r)
        BY <1>1
    <2> DEFINE r == [i \in 0 .. 0 |-> Begun]
    <2>1. r = [i \in 0 .. 0 |-> IF i = 0 THEN Begun ELSE Word(r[i - 1], words[i])]
        OBVIOUS
    <2> QED BY <2>1 DEF Reads
<1>3. k - 1 \in Nat /\ k - 1 \notin Without
    BY <1>1, <1>2
<1>4. PICK q : Reads(words, k - 1, q)
    BY <1>3
<1> DEFINE r == [i \in 0 .. k |-> IF i = k THEN Word(q[k - 1], words[k]) ELSE q[i]]
<1>5. ASSUME NEW i \in 0 .. k
      PROVE  r[i] = IF i = 0 THEN Begun ELSE Word(r[i - 1], words[i])
    <2>1. CASE i = k
        <3>1. r[i - 1] = q[k - 1]
            BY <1>3, <2>1
        <3> QED BY <1>2, <2>1, <3>1
    <2>2. CASE i # k
        <3>1. i \in 0 .. k - 1
            BY <1>3, <2>2
        <3>2. q[i] = IF i = 0 THEN Begun ELSE Word(q[i - 1], words[i])
            BY <1>4, <3>1 DEF Reads
        <3>3. i # 0 => i - 1 \in 0 .. k /\ i - 1 # k
            BY <1>3, <3>1
        <3> QED BY <2>2, <3>2, <3>3
    <2> QED BY <2>1, <2>2
<1>6. Reads(words, k, r)
    BY <1>5 DEF Reads
<1> QED BY <1>1, <1>6

\* The first clause is empty; each word is read after those before it.
LEMMA ReadingDef ==
    ASSUME NEW words \in Seq(STRING)
    PROVE  /\ Reading(words)[0] = Begun
           /\ \A n \in 1 .. Len(words) : Reading(words)[n] = Word(Reading(words)[n - 1], words[n])
<1>1. Len(words) \in Nat
    OBVIOUS
<1>2. \E r : Reads(words, Len(words), r)
    BY <1>1, ReadsExist
<1>3. Reading(words) = CHOOSE r : Reads(words, Len(words), r)
    BY DEF Reading, Reads
<1>4. Reads(words, Len(words), Reading(words))
    BY <1>2, <1>3
<1> HIDE DEF Reading
<1> DEFINE r == Reading(words)
<1> HIDE DEF r
<1>5. r = [i \in 0 .. Len(words) |-> IF i = 0 THEN Begun ELSE Word(r[i - 1], words[i])]
    BY <1>4 DEF Reads, r
<1>6. r[0] = Begun
    BY <1>1, <1>5
<1>7. ASSUME NEW n \in 1 .. Len(words) PROVE r[n] = Word(r[n - 1], words[n])
    <2>1. n \in 0 .. Len(words) /\ n # 0
        BY <1>1
    <2> QED BY <1>5, <2>1
<1> QED BY <1>6, <1>7 DEF r
\* The fields of a filter, and what may be in them.
FilterFields == {"src_addr", "dst_addr", "src_port", "dst_port", "protocol"}
Values == Nat

\* The field that a word, with its argument, fills in.
Field(k) == IF k \in {"host", "dst"} THEN "dst_addr"
            ELSE IF k = "src" THEN "src_addr"
            ELSE IF k \in {"port", "dport"} THEN "dst_port"
            ELSE IF k = "sport" THEN "src_port" ELSE "protocol"

SeenSets == SUBSET (Keywords \cup Protocols)
Filters  == [FilterFields -> Values]
ClauseStates == [seen : SeenSets, await : Keywords \cup {"none"}, filter : Filters,
                 end : {"no", "or", "bad"}, taken : Nat]

\* What a word does to a clause: nothing after its end, or it is an argument, a
\* keyword, a protocol, the "or" that ends the clause, or out of place.
ArgumentRead(s, w, t) ==
    /\ s.end = "no" /\ s.await \in Keywords /\ w \in Argument(s.await)
    /\ t.seen = s.seen \cup {s.await} /\ t.await = "none" /\ t.end = "no"
    /\ t.taken = s.taken + 1
    /\ t.filter = [s.filter EXCEPT ![Field(s.await)] = Stored(s.await, w)]

KeywordRead(s, w, t) ==
    /\ s.end = "no" /\ s.await = "none" /\ w \in Keywords /\ Conflicts(w) \cap s.seen = {}
    /\ t.seen = s.seen /\ t.await = w /\ t.end = "no"
    /\ t.taken = s.taken + 1 /\ t.filter = s.filter

ProtocolRead(s, w, t) ==
    /\ s.end = "no" /\ s.await = "none" /\ w \in Protocols /\ Protocols \cap s.seen = {}
    /\ t.seen = s.seen \cup {w} /\ t.await = "none" /\ t.end = "no"
    /\ t.taken = s.taken + 1
    /\ t.filter = [s.filter EXCEPT !["protocol"] = Code[w]]

OrRead(s, w, t) ==
    /\ s.end = "no" /\ s.await = "none" /\ w = "or"
    /\ t.seen = s.seen /\ t.await = "none" /\ t.end = "or"
    /\ t.taken = s.taken + 1 /\ t.filter = s.filter

WordRefused(s, w, t) ==
    /\ s.end = "no"
    /\ t.seen = s.seen /\ t.await = s.await /\ t.end = "bad"
    /\ t.taken = s.taken /\ t.filter = s.filter

HowRead(s, w, t) ==
    \/ s.end # "no" /\ t = s
    \/ ArgumentRead(s, w, t) \/ KeywordRead(s, w, t) \/ ProtocolRead(s, w, t)
    \/ OrRead(s, w, t) \/ WordRefused(s, w, t)

\* What the words stand for, in a filter, are numbers, and a protocol is not 0.
LEMMA StoredNumber ==
    ASSUME NEW k \in Keywords, NEW w \in Argument(k)
    PROVE  Stored(k, w) \in Nat /\ Written(k, w) \in Nat
<1>1. Written(k, w) \in Nat
    <2>1. CASE k \in {"host", "dst", "src"}
        BY <2>1, FilterLineAssumption DEF Written, Argument, Reader
    <2>2. CASE k \notin {"host", "dst", "src"}
        BY <2>2, FilterLineAssumption DEF Written, Argument, Reader
    <2> QED BY <2>1, <2>2
<1>2. Written(k, w) % 65536 \in Nat
    BY <1>1
<1> QED BY <1>1, <1>2 DEF Stored

LEMMA CodeNumber == \A w \in Protocols : Code[w] \in Nat /\ Code[w] # Zero
BY DEF Protocols, Code, Zero

\* Filling in is a change of one field.
LEMMA FilledField ==
    ASSUME NEW f, NEW k \in Keywords, NEW w
    PROVE  Filled(f, k, w) = [f EXCEPT ![Field(k)] = Stored(k, w)]
<1>1. CASE k = "host" BY <1>1 DEF Filled, Field
<1>2. CASE k = "dst" BY <1>2 DEF Filled, Field
<1>3. CASE k = "src" BY <1>3 DEF Filled, Field
<1>4. CASE k = "port" BY <1>4 DEF Filled, Field
<1>5. CASE k = "dport" BY <1>5 DEF Filled, Field
<1>6. CASE k = "sport" BY <1>6 DEF Filled, Field
<1> QED BY <1>1, <1>2, <1>3, <1>4, <1>5, <1>6 DEF Keywords

\* A word is read in one of these ways, and a clause stays a clause.
LEMMA WordReads ==
    ASSUME NEW s \in ClauseStates, NEW w
    PROVE  Word(s, w) \in ClauseStates /\ HowRead(s, w, Word(s, w))
<1> DEFINE t == Word(s, w)
           open == s.end = "no"
           argument == open /\ s.await # "none" /\ w \in Argument(s.await)
           keyword == open /\ s.await = "none" /\ w \in Keywords /\ Conflicts(w) \cap s.seen = {}
           protocol == open /\ s.await = "none" /\ w \in Protocols /\ Protocols \cap s.seen = {}
           or == open /\ s.await = "none" /\ w = "or"
<1>1. s.taken + 1 \in Nat
    <2>1. s.taken \in Nat
        BY DEF ClauseStates
    <2> QED BY <2>1
<1>2. s.seen \in SeenSets /\ s.filter \in Filters
    BY DEF ClauseStates
<1>3. /\ s.await \in Keywords \cup {"none"}
      /\ "none" \notin Keywords
    BY DEF ClauseStates, Keywords
<1>4. CASE ~open
    BY <1>4 DEF Word, HowRead
<1>5. CASE argument
    <2>1. t = [s EXCEPT !.seen = s.seen \cup {s.await}, !.await = "none", !.taken = s.taken + 1,
                   !.filter = Filled(s.filter, s.await, w)]
        BY <1>5 DEF Word
    <2>2. Filled(s.filter, s.await, w) = [s.filter EXCEPT ![Field(s.await)] = Stored(s.await, w)]
        BY <1>3, <1>5, FilledField
    <2>3. ArgumentRead(s, w, t)
        BY <1>3, <1>5, <2>1, <2>2 DEF ArgumentRead, ClauseStates
    <2>4. t \in ClauseStates
        <3>1. Stored(s.await, w) \in Values
            BY <1>3, <1>5, StoredNumber DEF Values
        <3>2. [s.filter EXCEPT ![Field(s.await)] = Stored(s.await, w)] \in Filters
            BY <1>2, <3>1 DEF Filters
        <3>3. s.seen \cup {s.await} \in SeenSets
            BY <1>2, <1>3, <1>5 DEF SeenSets
        <3> QED BY <1>1, <1>2, <1>3, <1>5, <2>1, <2>2, <3>2, <3>3 DEF ClauseStates
    <2> QED BY <2>3, <2>4 DEF HowRead
<1>6. CASE keyword
    <2>1. t = [s EXCEPT !.await = w, !.taken = s.taken + 1]
        BY <1>6 DEF Word
    <2>2. KeywordRead(s, w, t)
        BY <1>6, <2>1 DEF KeywordRead, ClauseStates
    <2>3. t \in ClauseStates
        BY <1>1, <1>6, <2>1 DEF ClauseStates
    <2> QED BY <2>2, <2>3 DEF HowRead
<1>7. CASE protocol /\ ~keyword
    <2>1. t = [s EXCEPT !.seen = s.seen \cup {w}, !.taken = s.taken + 1, !.filter.protocol = Code[w]]
        BY <1>7 DEF Word
    <2>2. ProtocolRead(s, w, t)
        BY <1>7, <2>1 DEF ProtocolRead, ClauseStates
    <2>3. t \in ClauseStates
        <3>1. Code[w] \in Values
            BY <1>7, CodeNumber DEF Values
        <3>2. [s.filter EXCEPT !["protocol"] = Code[w]] \in Filters
            BY <1>2, <3>1 DEF Filters
        <3>3. s.seen \cup {w} \in SeenSets
            BY <1>2, <1>7 DEF SeenSets
        <3>4. t = [s EXCEPT !.seen = s.seen \cup {w}, !.taken = s.taken + 1,
                       !.filter = [s.filter EXCEPT !["protocol"] = Code[w]]]
            BY <2>1
        <3> QED BY <1>1, <1>2, <1>7, <3>2, <3>3, <3>4 DEF ClauseStates
    <2> QED BY <2>2, <2>3 DEF HowRead
<1>8. CASE or
    <2>1. w \notin Keywords /\ w \notin Protocols
        BY <1>8 DEF Keywords, Protocols
    <2>2. t = [s EXCEPT !.end = "or", !.taken = s.taken + 1]
        BY <1>8, <2>1 DEF Word
    <2>3. OrRead(s, w, t)
        BY <1>8, <2>2 DEF OrRead, ClauseStates
    <2>4. t \in ClauseStates
        BY <1>1, <1>8, <2>2 DEF ClauseStates
    <2> QED BY <2>3, <2>4 DEF HowRead
<1>9. CASE open /\ ~argument /\ ~keyword /\ ~protocol /\ ~or
    <2>1. t = [s EXCEPT !.end = "bad"]
        BY <1>9 DEF Word
    <2>2. WordRefused(s, w, t)
        BY <1>9, <2>1 DEF WordRefused, ClauseStates
    <2>3. t \in ClauseStates
        BY <1>9, <2>1 DEF ClauseStates
    <2> QED BY <2>2, <2>3 DEF HowRead
<1> HIDE DEF open, argument, keyword, protocol, or
<1> QED BY <1>4, <1>5, <1>6, <1>7, <1>8, <1>9

\* The words of the clause proper, without the "or" that ends it.
Body(s) == IF s.end = "or" THEN s.taken - 1 ELSE s.taken

\* What is true of the clause s that has been read from n words.
Counted(words, n, s) ==
    /\ s.taken <= n
    /\ s.end = "no" => s.taken = n
    /\ s.end = "bad" => s.taken < n
    /\ s.end = "or" => s.taken >= 1 /\ words[s.taken] = "or" /\ s.await = "none"

\* Only the last word can be a keyword that waits for its argument.
LastWord(words, s) ==
    /\ \A i \in 1 .. Body(s) : words[i] # "or"
    /\ s.await # "none" => /\ Body(s) >= 1 /\ words[Body(s)] = s.await
                           /\ Conflicts(s.await) \cap s.seen = {}
    /\ s.await = "none" => Body(s) = 0 \/ words[Body(s)] \notin Keywords

\* The filter has what the words ask for,
KeywordsFilled(words, s) ==
    \A i \in 1 .. Body(s) : words[i] \in Keywords /\ (i < Body(s) \/ s.await = "none") =>
        /\ i < Body(s) /\ words[i] \in s.seen /\ words[i + 1] \in Argument(words[i])
        /\ s.filter[Field(words[i])] = Stored(words[i], words[i + 1])
ProtocolsFilled(words, s) ==
    \A i \in 1 .. Body(s) : words[i] \in Protocols =>
        words[i] \in s.seen /\ s.filter["protocol"] = Code[words[i]]

\* and no more;
SeenInWords(words, s) ==
    \A k \in s.seen : \E i \in 1 .. Body(s) : words[i] = k /\ (k \in Keywords => i < Body(s))
FilledSeen(s) ==
    \A f \in FilterFields : s.filter[f] # Zero => \E k \in s.seen : Field(k) = f

\* no two of them conflict.
Apart(s) == \A k, j \in s.seen : k \in Keywords /\ j \in Conflicts(k) => j = k

ClauseRead(words, n, s) ==
    /\ s \in ClauseStates
    /\ Counted(words, n, s) /\ LastWord(words, s) /\ KeywordsFilled(words, s)
    /\ ProtocolsFilled(words, s) /\ SeenInWords(words, s) /\ FilledSeen(s) /\ Apart(s)

\* Words that fill in one field conflict, and a keyword conflicts with itself.
LEMMA FieldConflict ==
    ASSUME NEW k \in Keywords, NEW j \in Keywords \cup Protocols, Field(k) = Field(j)
    PROVE  j \in Conflicts(k)
<1>1. CASE k = "host" BY <1>1 DEF Keywords, Protocols, Field, Conflicts
<1>2. CASE k = "dst" BY <1>2 DEF Keywords, Protocols, Field, Conflicts
<1>3. CASE k = "src" BY <1>3 DEF Keywords, Protocols, Field, Conflicts
<1>4. CASE k = "port" BY <1>4 DEF Keywords, Protocols, Field, Conflicts
<1>5. CASE k = "dport" BY <1>5 DEF Keywords, Protocols, Field, Conflicts
<1>6. CASE k = "sport" BY <1>6 DEF Keywords, Protocols, Field, Conflicts
<1> QED BY <1>1, <1>2, <1>3, <1>4, <1>5, <1>6 DEF Keywords

\* Conflicts are mutual.
LEMMA ConflictsMutual ==
    ASSUME NEW k \in Keywords, NEW j \in Keywords, j \in Conflicts(k)
    PROVE  k \in Conflicts(j)
<1>1. CASE k = "host" BY <1>1 DEF Keywords, Conflicts
<1>2. CASE k = "dst" BY <1>2 DEF Keywords, Conflicts
<1>3. CASE k = "src" BY <1>3 DEF Keywords, Conflicts
<1>4. CASE k = "port" BY <1>4 DEF Keywords, Conflicts
<1>5. CASE k = "dport" BY <1>5 DEF Keywords, Conflicts
<1>6. CASE k = "sport" BY <1>6 DEF Keywords, Conflicts
<1> QED BY <1>1, <1>2, <1>3, <1>4, <1>5, <1>6 DEF Keywords

\* The kinds of words are apart.
LEMMA WordKinds ==
    /\ Keywords \cap Protocols = {} /\ "or" \notin Keywords \cup Protocols
    /\ "none" \notin Keywords
    /\ \A k \in Keywords : /\ Field(k) \in FilterFields \ {"protocol"}
                           /\ Conflicts(k) \subseteq Keywords
    /\ \A k \in Protocols : Field(k) = "protocol"
<1>1. /\ Keywords \cap Protocols = {} /\ "or" \notin Keywords \cup Protocols
      /\ "none" \notin Keywords
    BY DEF Keywords, Protocols
<1>2. \A k \in Keywords : Field(k) \in FilterFields \ {"protocol"}
    BY DEF Keywords, Field, FilterFields
<1>3. ASSUME NEW k \in Keywords PROVE Conflicts(k) \subseteq Keywords
    <2>1. CASE k = "host" BY <2>1 DEF Conflicts, Keywords
    <2>2. CASE k \in {"dst", "src"} BY <2>2 DEF Conflicts, Keywords
    <2>3. CASE k = "port" BY <2>3 DEF Conflicts, Keywords
    <2>4. CASE k \in {"dport", "sport"} BY <2>4 DEF Conflicts, Keywords
    <2> QED BY <2>1, <2>2, <2>3, <2>4 DEF Keywords
<1>4. \A k \in Protocols : Field(k) = "protocol"
    BY DEF Protocols, Field
<1> QED BY <1>1, <1>2, <1>3, <1>4

\* The parts of a clause.
LEMMA ClauseParts ==
    ASSUME NEW s \in ClauseStates
    PROVE  /\ s.seen \subseteq Keywords \cup Protocols
           /\ s.await \in Keywords \cup {"none"}
           /\ s.filter \in [FilterFields -> Values]
           /\ s.end \in {"no", "or", "bad"}
           /\ s.taken \in Nat
<1>1. s.seen \in SeenSets /\ s.filter \in Filters /\ s.taken \in Nat
    BY DEF ClauseStates
<1>2. s.await \in Keywords \cup {"none"} /\ s.end \in {"no", "or", "bad"}
    BY DEF ClauseStates
<1> QED BY <1>1, <1>2 DEF SeenSets, Filters

\* A word that is an argument is none of the language's.
LEMMA ArgumentKind == ASSUME NEW k, NEW w \in Argument(k) PROVE w \notin Keywords \cup Protocols \cup {"or"}
BY FilterLineAssumption DEF Argument, Reader

\* Nothing has been read.
LEMMA BegunRead == ASSUME NEW words PROVE ClauseRead(words, 0, Begun)
<1>1. /\ Begun.seen = {} /\ Begun.await = "none" /\ Begun.end = "no" /\ Begun.taken = 0
      /\ Begun.filter = Wildcard
    BY DEF Begun
<1>2. Wildcard \in Filters /\ \A f \in FilterFields : Wildcard[f] = Zero
    BY DEF Wildcard, Filters, FilterFields, Values, Zero
<1>3. {} \in SeenSets
    BY DEF SeenSets
<1>4. Begun \in ClauseStates
    BY <1>2, <1>3 DEF Begun, ClauseStates
<1>5. Body(Begun) = 0
    BY <1>1 DEF Body
<1>6. Counted(words, 0, Begun) /\ LastWord(words, Begun)
    <2>1. Counted(words, 0, Begun)
        BY <1>1 DEF Counted
    <2>2. LastWord(words, Begun)
        BY <1>1, <1>5 DEF LastWord
    <2> QED BY <2>1, <2>2
<1>7. KeywordsFilled(words, Begun) /\ ProtocolsFilled(words, Begun)
    BY <1>5 DEF KeywordsFilled, ProtocolsFilled
<1>8. SeenInWords(words, Begun) /\ FilledSeen(Begun) /\ Apart(Begun)
    BY <1>1, <1>2 DEF SeenInWords, FilledSeen, Apart
<1> QED BY <1>4, <1>6, <1>7, <1>8 DEF ClauseRead

\* A keyword comes to wait for its argument.
LEMMA KeywordKeeps ==
    ASSUME NEW words, NEW n \in Nat, n >= 1, NEW s, NEW t \in ClauseStates,
           ClauseRead(words, n - 1, s), KeywordRead(s, words[n], t)
    PROVE  ClauseRead(words, n, t)
<1> DEFINE w == words[n]
<1>1. /\ s \in ClauseStates /\ s.end = "no" /\ s.await = "none"
      /\ s.taken = n - 1 /\ Body(s) = n - 1
    <2>1. s \in ClauseStates /\ s.end = "no" /\ s.await = "none"
        BY DEF ClauseRead, KeywordRead
    <2>2. s.taken = n - 1
        BY <2>1 DEF ClauseRead, Counted
    <2> QED BY <2>1, <2>2 DEF Body
<1>2. /\ w \in Keywords /\ Conflicts(w) \cap s.seen = {} /\ t.seen = s.seen /\ t.await = w
      /\ t.end = "no" /\ t.taken = n /\ t.filter = s.filter /\ Body(t) = n
    <2>1. t.taken = n
        BY <1>1 DEF KeywordRead
    <2> QED BY <2>1 DEF KeywordRead, Body
<1>3. w # "or" /\ w \notin Protocols /\ w # "none"
    BY <1>2, WordKinds
<1> HIDE DEF w
<1>4. Counted(words, n, t)
    BY <1>1, <1>2 DEF Counted
<1>5. LastWord(words, t)
    BY <1>1, <1>2, <1>3 DEF LastWord, ClauseRead, w
<1>6. KeywordsFilled(words, t)
    BY <1>1, <1>2, <1>3 DEF KeywordsFilled, ClauseRead
<1>7. ProtocolsFilled(words, t)
    BY <1>1, <1>2, <1>3 DEF ProtocolsFilled, ClauseRead, w
<1>8. SeenInWords(words, t)
    BY <1>1, <1>2 DEF SeenInWords, ClauseRead
<1>9. FilledSeen(t) /\ Apart(t)
    BY <1>2 DEF FilledSeen, Apart, ClauseRead
<1> QED BY <1>4, <1>5, <1>6, <1>7, <1>8, <1>9 DEF ClauseRead

\* The argument of a keyword is filled in.
LEMMA ArgumentKeeps ==
    ASSUME NEW words, NEW n \in Nat, n >= 1, NEW s, NEW t \in ClauseStates,
           ClauseRead(words, n - 1, s), ArgumentRead(s, words[n], t)
    PROVE  ClauseRead(words, n, t)
<1> DEFINE w == words[n]
           k == s.await
<1>1. /\ s \in ClauseStates /\ s.end = "no" /\ k \in Keywords /\ k # "none"
      /\ s.taken = n - 1 /\ Body(s) = n - 1
    <2>1. s \in ClauseStates /\ s.end = "no" /\ k \in Keywords
        BY DEF ClauseRead, ArgumentRead
    <2>2. s.taken = n - 1
        BY <2>1 DEF ClauseRead, Counted
    <2> QED BY <2>1, <2>2, WordKinds DEF Body
<1>2. /\ w \in Argument(k) /\ t.seen = s.seen \cup {k} /\ t.await = "none"
      /\ t.end = "no" /\ t.taken = n /\ t.filter = [s.filter EXCEPT ![Field(k)] = Stored(k, w)]
      /\ Body(t) = n
    <2>1. t.taken = n
        BY <1>1 DEF ArgumentRead
    <2> QED BY <2>1 DEF ArgumentRead, Body
<1>3. w # "or" /\ w \notin Protocols /\ w \notin Keywords
    BY <1>2, ArgumentKind
<1>4. /\ s.seen \subseteq Keywords \cup Protocols /\ s.filter \in [FilterFields -> Values]
    BY <1>1, ClauseParts
<1>5. /\ n - 1 >= 1 /\ words[n - 1] = k /\ Conflicts(k) \cap s.seen = {}
      /\ \A i \in 1 .. n - 1 : words[i] # "or"
    BY <1>1 DEF LastWord, ClauseRead
<1> HIDE DEF w, k
<1>6. /\ t.filter[Field(k)] = Stored(k, w)
      /\ \A f \in FilterFields : f # Field(k) => t.filter[f] = s.filter[f]
    BY <1>1, <1>2, <1>4, WordKinds
<1>7. Counted(words, n, t)
    BY <1>1, <1>2 DEF Counted
<1>8. LastWord(words, t)
    BY <1>1, <1>2, <1>3, <1>5 DEF LastWord, w
<1>9. KeywordsFilled(words, t)
    <2> SUFFICES ASSUME NEW i \in 1 .. n, words[i] \in Keywords
                 PROVE  /\ i < n /\ words[i] \in t.seen /\ words[i + 1] \in Argument(words[i])
                        /\ t.filter[Field(words[i])] = Stored(words[i], words[i + 1])
        BY <1>2 DEF KeywordsFilled
    <2>1. i # n
        BY <1>3 DEF w
    <2>2. CASE i = n - 1
        BY <1>1, <1>2, <1>5, <1>6, <2>2 DEF w
    <2>3. CASE i < n - 1
        <3>1. i \in 1 .. Body(s) /\ i < Body(s)
            BY <1>1, <2>3
        <3>2. /\ words[i] \in s.seen /\ words[i + 1] \in Argument(words[i])
              /\ s.filter[Field(words[i])] = Stored(words[i], words[i + 1])
            BY <3>1 DEF KeywordsFilled, ClauseRead
        <3>3. Field(words[i]) # Field(k)
            <4>1. words[i] \notin Conflicts(k)
                BY <1>5, <3>2
            <4> QED BY <1>1, <4>1, FieldConflict
        <3>4. Field(words[i]) \in FilterFields
            BY WordKinds
        <3> QED BY <1>2, <1>6, <2>3, <3>2, <3>3, <3>4
    <2> QED BY <1>1, <2>1, <2>2, <2>3
<1>10. ProtocolsFilled(words, t)
    <2> SUFFICES ASSUME NEW i \in 1 .. n, words[i] \in Protocols
                 PROVE  words[i] \in t.seen /\ t.filter["protocol"] = Code[words[i]]
        BY <1>2 DEF ProtocolsFilled
    <2>1. i \in 1 .. Body(s)
        BY <1>1, <1>3 DEF w
    <2>2. words[i] \in s.seen /\ s.filter["protocol"] = Code[words[i]]
        BY <2>1 DEF ProtocolsFilled, ClauseRead
    <2>3. "protocol" \in FilterFields /\ Field(k) # "protocol"
        BY <1>1, WordKinds DEF FilterFields
    <2> QED BY <1>2, <1>6, <2>2, <2>3
<1>11. SeenInWords(words, t)
    <2> SUFFICES ASSUME NEW j \in t.seen
                 PROVE  \E i \in 1 .. n : words[i] = j /\ (j \in Keywords => i < n)
        BY <1>2 DEF SeenInWords
    <2>1. CASE j = k
        <3>1. n - 1 \in 1 .. n /\ n - 1 < n
            BY <1>1, <1>5
        <3> QED BY <1>5, <2>1, <3>1
    <2>2. CASE j \in s.seen
        <3>1. PICK i \in 1 .. Body(s) : words[i] = j
            BY <2>2 DEF SeenInWords, ClauseRead
        <3>2. i \in 1 .. n /\ i < n
            BY <1>1
        <3> QED BY <3>1, <3>2
    <2> QED BY <1>2, <2>1, <2>2
<1>12. FilledSeen(t)
    <2> SUFFICES ASSUME NEW f \in FilterFields, t.filter[f] # Zero
                 PROVE  \E j \in t.seen : Field(j) = f
        BY DEF FilledSeen
    <2>1. CASE f = Field(k)
        BY <1>2, <2>1
    <2>2. CASE f # Field(k)
        <3>1. s.filter[f] # Zero
            BY <1>6, <2>2
        <3>2. \E j \in s.seen : Field(j) = f
            BY <3>1 DEF FilledSeen, ClauseRead
        <3> QED BY <1>2, <3>2
    <2> QED BY <2>1, <2>2
<1>13. Apart(t)
    <2> SUFFICES ASSUME NEW a \in t.seen, NEW b \in t.seen, a \in Keywords, b \in Conflicts(a)
                 PROVE  b = a
        BY DEF Apart
    <2>1. b \in Keywords
        BY WordKinds
    <2>2. CASE a \in s.seen /\ b \in s.seen
        BY <2>2 DEF Apart, ClauseRead
    <2>3. CASE a = k /\ b \in s.seen
        BY <1>5, <2>3
    <2>4. CASE a \in s.seen /\ b = k
        <3>1. a \in Conflicts(k)
            BY <2>1, <2>4, ConflictsMutual
        <3> QED BY <1>5, <2>4, <3>1
    <2> QED BY <1>2, <2>2, <2>3, <2>4
<1> QED BY <1>7, <1>8, <1>9, <1>10, <1>11, <1>12, <1>13 DEF ClauseRead

\* A protocol is filled in.
LEMMA ProtocolKeeps ==
    ASSUME NEW words, NEW n \in Nat, n >= 1, NEW s, NEW t \in ClauseStates,
           ClauseRead(words, n - 1, s), ProtocolRead(s, words[n], t)
    PROVE  ClauseRead(words, n, t)
<1> DEFINE w == words[n]
<1>1. /\ s \in ClauseStates /\ s.end = "no" /\ s.await = "none"
      /\ s.taken = n - 1 /\ Body(s) = n - 1
    <2>1. s \in ClauseStates /\ s.end = "no" /\ s.await = "none"
        BY DEF ClauseRead, ProtocolRead
    <2>2. s.taken = n - 1
        BY <2>1 DEF ClauseRead, Counted
    <2> QED BY <2>1, <2>2 DEF Body
<1>2. /\ w \in Protocols /\ Protocols \cap s.seen = {}
      /\ t.seen = s.seen \cup {w} /\ t.await = "none" /\ t.end = "no"
      /\ t.taken = n /\ t.filter = [s.filter EXCEPT !["protocol"] = Code[w]] /\ Body(t) = n
    <2>1. t.taken = n
        BY <1>1 DEF ProtocolRead
    <2> QED BY <2>1 DEF ProtocolRead, Body
<1>3. w # "or" /\ w \notin Keywords
    BY <1>2, WordKinds
<1>4. s.filter \in [FilterFields -> Values] /\ s.seen \subseteq Keywords \cup Protocols
    BY <1>1, ClauseParts
<1> HIDE DEF w
<1>5. /\ t.filter["protocol"] = Code[w]
      /\ \A f \in FilterFields : f # "protocol" => t.filter[f] = s.filter[f]
    BY <1>2, <1>4 DEF FilterFields
<1>6. Counted(words, n, t)
    BY <1>1, <1>2 DEF Counted
<1>7. LastWord(words, t)
    BY <1>1, <1>2, <1>3 DEF LastWord, ClauseRead, w
<1>8. KeywordsFilled(words, t)
    <2> SUFFICES ASSUME NEW i \in 1 .. n, words[i] \in Keywords
                 PROVE  /\ i < n /\ words[i] \in t.seen /\ words[i + 1] \in Argument(words[i])
                        /\ t.filter[Field(words[i])] = Stored(words[i], words[i + 1])
        BY <1>2 DEF KeywordsFilled
    <2>1. i # n
        BY <1>3 DEF w
    <2>2. i \in 1 .. Body(s)
        BY <1>1, <2>1
    <2>3. /\ words[i] \in s.seen /\ words[i + 1] \in Argument(words[i])
          /\ s.filter[Field(words[i])] = Stored(words[i], words[i + 1])
        BY <1>1, <2>2 DEF KeywordsFilled, ClauseRead
    <2>4. Field(words[i]) \in FilterFields /\ Field(words[i]) # "protocol"
        BY WordKinds
    <2> QED BY <1>2, <1>5, <2>1, <2>3, <2>4
<1>9. ProtocolsFilled(words, t)
    <2> SUFFICES ASSUME NEW i \in 1 .. n, words[i] \in Protocols
                 PROVE  words[i] \in t.seen /\ t.filter["protocol"] = Code[words[i]]
        BY <1>2 DEF ProtocolsFilled
    <2>1. i = n
        <3> SUFFICES ASSUME i # n PROVE FALSE
            OBVIOUS
        <3>1. i \in 1 .. Body(s)
            BY <1>1
        <3>2. words[i] \in s.seen
            BY <3>1 DEF ProtocolsFilled, ClauseRead
        <3> QED BY <1>2, <3>2
    <2> QED BY <1>2, <1>5, <2>1 DEF w
<1>10. SeenInWords(words, t)
    <2> SUFFICES ASSUME NEW j \in t.seen
                 PROVE  \E i \in 1 .. n : words[i] = j /\ (j \in Keywords => i < n)
        BY <1>2 DEF SeenInWords
    <2>1. CASE j = w
        <3>1. n \in 1 .. n
            OBVIOUS
        <3> QED BY <1>3, <2>1, <3>1 DEF w
    <2>2. CASE j \in s.seen
        <3>1. PICK i \in 1 .. Body(s) : words[i] = j
            BY <2>2 DEF SeenInWords, ClauseRead
        <3>2. i \in 1 .. n /\ i < n
            BY <1>1
        <3> QED BY <3>1, <3>2
    <2> QED BY <1>2, <2>1, <2>2
<1>11. FilledSeen(t)
    <2> SUFFICES ASSUME NEW f \in FilterFields, t.filter[f] # Zero
                 PROVE  \E j \in t.seen : Field(j) = f
        BY DEF FilledSeen
    <2>1. CASE f = "protocol"
        BY <1>2, <2>1, WordKinds
    <2>2. CASE f # "protocol"
        <3>1. s.filter[f] # Zero
            BY <1>5, <2>2
        <3>2. \E j \in s.seen : Field(j) = f
            BY <3>1 DEF FilledSeen, ClauseRead
        <3> QED BY <1>2, <3>2
    <2> QED BY <2>1, <2>2
<1>12. Apart(t)
    <2> SUFFICES ASSUME NEW a \in t.seen, NEW b \in t.seen, a \in Keywords, b \in Conflicts(a)
                 PROVE  b = a
        BY DEF Apart
    <2>1. b \in Keywords
        BY WordKinds
    <2>2. a \in s.seen /\ b \in s.seen
        BY <1>2, <1>3, <2>1
    <2> QED BY <2>2 DEF Apart, ClauseRead
<1> QED BY <1>6, <1>7, <1>8, <1>9, <1>10, <1>11, <1>12 DEF ClauseRead

\* What a clause holds depends on its words, not on how it ended.
LEMMA SameWords ==
    ASSUME NEW words, NEW n, NEW m, NEW s, NEW t \in ClauseStates, ClauseRead(words, m, s),
           t.seen = s.seen, t.await = s.await, t.filter = s.filter, Body(t) = Body(s),
           Counted(words, n, t)
    PROVE  ClauseRead(words, n, t)
<1>1. LastWord(words, t) /\ KeywordsFilled(words, t)
    BY DEF LastWord, KeywordsFilled, ClauseRead
<1>2. ProtocolsFilled(words, t) /\ SeenInWords(words, t)
    BY DEF ProtocolsFilled, SeenInWords, ClauseRead
<1>3. FilledSeen(t) /\ Apart(t)
    BY DEF FilledSeen, Apart, ClauseRead
<1> QED BY <1>1, <1>2, <1>3 DEF ClauseRead

\* The end of a clause leaves it as it is.
LEMMA EndKeeps ==
    ASSUME NEW words, NEW n \in Nat, n >= 1, NEW s, NEW t \in ClauseStates,
           ClauseRead(words, n - 1, s),
           (s.end # "no" /\ t = s) \/ OrRead(s, words[n], t) \/ WordRefused(s, words[n], t)
    PROVE  ClauseRead(words, n, t)
<1>1. s \in ClauseStates /\ s.taken \in Nat
    BY ClauseParts DEF ClauseRead
<1>2. CASE s.end # "no" /\ t = s
    <2>1. Counted(words, n, t)
        BY <1>1, <1>2 DEF ClauseRead, Counted
    <2> QED BY <1>2, <2>1, SameWords
<1>3. CASE OrRead(s, words[n], t)
    <2>1. s.end = "no" /\ s.await = "none" /\ words[n] = "or" /\ t.end = "or"
        BY <1>3 DEF OrRead
    <2>2. t.seen = s.seen /\ t.await = s.await /\ t.filter = s.filter /\ t.taken = s.taken + 1
        BY <1>3 DEF OrRead
    <2>3. s.taken = n - 1 /\ t.taken = n
        BY <2>1, <2>2 DEF ClauseRead, Counted
    <2>4. Body(t) = Body(s)
        BY <2>1, <2>3 DEF Body
    <2>5. Counted(words, n, t)
        BY <2>1, <2>2, <2>3 DEF Counted
    <2> QED BY <2>2, <2>4, <2>5, SameWords
<1>4. CASE WordRefused(s, words[n], t)
    <2>1. s.end = "no" /\ t.end = "bad"
        BY <1>4 DEF WordRefused
    <2>2. t.seen = s.seen /\ t.await = s.await /\ t.filter = s.filter /\ t.taken = s.taken
        BY <1>4 DEF WordRefused
    <2>3. s.taken = n - 1
        BY <2>1 DEF ClauseRead, Counted
    <2>4. Body(t) = Body(s)
        BY <2>1, <2>2 DEF Body
    <2>5. Counted(words, n, t)
        BY <2>1, <2>2, <2>3 DEF Counted
    <2> QED BY <2>2, <2>4, <2>5, SameWords
<1> QED BY <1>2, <1>3, <1>4

\* Every clause that parse_one_filter reads, at every word.
LEMMA ReadingKeeps ==
    ASSUME NEW v \in Seq(STRING)
    PROVE  \A n \in 0 .. Len(v) : ClauseRead(v, n, Reading(v)[n])
<1> DEFINE Wrong == {n \in Nat : n <= Len(v) /\ ~ClauseRead(v, n, Reading(v)[n])}
<1>1. Len(v) \in Nat
    OBVIOUS
<1> SUFFICES ASSUME Wrong # {} PROVE FALSE
    BY <1>1
<1>2. PICK n \in Wrong : \A k \in Wrong : n <= k
    BY Least
<1>3. n \in Nat /\ n <= Len(v) /\ ~ClauseRead(v, n, Reading(v)[n])
    OBVIOUS
<1>4. n # 0
    BY <1>3, BegunRead, ReadingDef
<1> DEFINE s == Reading(v)[n - 1]
           t == Reading(v)[n]
<1>5. ClauseRead(v, n - 1, s)
    <2>1. n - 1 \in Nat /\ n - 1 <= Len(v) /\ n - 1 \notin Wrong
        BY <1>1, <1>2, <1>3, <1>4
    <2> QED BY <2>1
<1>6. t = Word(s, v[n])
    <2>1. n \in 1 .. Len(v)
        BY <1>1, <1>3, <1>4
    <2> QED BY <2>1, ReadingDef
<1>7. s \in ClauseStates
    BY <1>5 DEF ClauseRead
<1>8. ~ClauseRead(v, n, t)
    BY <1>3
<1> HIDE DEF s, t, Wrong
<1>9. t \in ClauseStates /\ HowRead(s, v[n], t)
    BY <1>6, <1>7, WordReads
<1>10. n \in Nat /\ n >= 1
    BY <1>3, <1>4
<1> QED BY <1>5, <1>8, <1>9, <1>10, ArgumentKeeps, KeywordKeeps, ProtocolKeeps, EndKeeps DEF HowRead

\* A clause that parse_one_filter returns as a filter.
Whole(s) == s.end = "or" \/ (s.end = "no" /\ s.await = "none")

PacketKinds == [src_addr : Nat, dst_addr : Nat, src_port : Nat,
                dst_port : Nat, protocol : Nat]

\* What the words up to m ask of a packet, and whether of its answers too.
WordsSay(words, m, p) ==
    \A i \in 1 .. m :
        /\ words[i] \in Keywords => Sends(words[i], words[i + 1], p)
        /\ words[i] \in Protocols => p["protocol"] = Code[words[i]]
WordsFit(words, m) ==
    \A i \in 1 .. m - 1 : words[i] \in Keywords /\ words[i + 1] \in Argument(words[i]) =>
                             Fits(words[i], words[i + 1])
WordsBothWays(words, m) == \E i \in 1 .. m : words[i] \in {"host", "port"}

\* A condition is on the field that is filled in.
LEMMA SendsField ==
    ASSUME NEW k \in Keywords, NEW w, NEW p
    PROVE  Sends(k, w, p) <=> w \in Argument(k) /\ Written(k, w) = p[Field(k)]
<1>1. CASE k = "host" BY <1>1 DEF Sends, Field
<1>2. CASE k = "dst" BY <1>2 DEF Sends, Field
<1>3. CASE k = "src" BY <1>3 DEF Sends, Field
<1>4. CASE k = "port" BY <1>4 DEF Sends, Field
<1>5. CASE k = "dport" BY <1>5 DEF Sends, Field
<1>6. CASE k = "sport" BY <1>6 DEF Sends, Field
<1> QED BY <1>1, <1>2, <1>3, <1>4, <1>5, <1>6 DEF Keywords

\* A clause that is whole waits for nothing.
LEMMA WholeRead ==
    ASSUME NEW words, NEW n, NEW s, ClauseRead(words, n, s), Whole(s)
    PROVE  s.await = "none" /\ Body(s) \in Int /\ s.filter \in [FilterFields -> Values]
<1>1. s.await = "none"
    BY DEF ClauseRead, Counted, Whole
<1>2. s.taken \in Nat /\ s.filter \in [FilterFields -> Values]
    BY ClauseParts DEF ClauseRead
<1> QED BY <1>1, <1>2 DEF Body

\* The filter of a clause lets through what its words say, and nothing else.
LEMMA FilterSays ==
    ASSUME NEW words, NEW n, NEW s, ClauseRead(words, n, s), Whole(s),
           WordsFit(words, Body(s)), NEW p
    PROVE  Matches(s.filter, p) <=> WordsSay(words, Body(s), p)
<1> DEFINE m == Body(s)
<1>1. s.await = "none" /\ m \in Int /\ s.filter \in [FilterFields -> Values]
    BY WholeRead
<1>2. \A i \in 1 .. m : words[i] \in Keywords =>
          /\ i < m /\ words[i] \in s.seen /\ words[i + 1] \in Argument(words[i])
          /\ s.filter[Field(words[i])] = Stored(words[i], words[i + 1])
    BY <1>1 DEF ClauseRead, KeywordsFilled
<1>3. \A i \in 1 .. m : words[i] \in Protocols => s.filter["protocol"] = Code[words[i]]
    BY DEF ClauseRead, ProtocolsFilled
<1>4. Matches(s.filter, p) <=> \A f \in FilterFields : s.filter[f] \in {Zero, p[f]}
    BY <1>1 DEF Matches
<1> HIDE DEF m
<1>5. ASSUME NEW i \in 1 .. m, words[i] \in Keywords
      PROVE  /\ words[i + 1] \in Argument(words[i])
             /\ s.filter[Field(words[i])] = Written(words[i], words[i + 1])
             /\ s.filter[Field(words[i])] # Zero
    <2>1. i < m /\ i \in 1 .. m - 1
        BY <1>1, <1>2, <1>5
    <2>2. Fits(words[i], words[i + 1])
        BY <1>2, <1>5, <2>1 DEF WordsFit, m
    <2> QED BY <1>2, <1>5, <2>2 DEF Fits
<1>6. ASSUME Matches(s.filter, p), NEW i \in 1 .. m
      PROVE  /\ words[i] \in Keywords => Sends(words[i], words[i + 1], p)
             /\ words[i] \in Protocols => p["protocol"] = Code[words[i]]
    <2>1. CASE words[i] \in Keywords
        <3>1. s.filter[Field(words[i])] \in {Zero, p[Field(words[i])]}
            BY <1>4, <1>6, <2>1, WordKinds
        <3>2. Written(words[i], words[i + 1]) = p[Field(words[i])]
            BY <1>5, <2>1, <3>1
        <3> QED BY <1>5, <2>1, <3>2, SendsField, WordKinds
    <2>2. CASE words[i] \in Protocols
        <3>1. Code[words[i]] \in {Zero, p["protocol"]}
            BY <1>3, <1>4, <1>6, <2>2 DEF FilterFields
        <3> QED BY <2>2, <3>1, CodeNumber, WordKinds
    <2> QED BY <2>1, <2>2
<1>7. ASSUME WordsSay(words, m, p), NEW f \in FilterFields, s.filter[f] # Zero
      PROVE  s.filter[f] = p[f]
    <2>1. PICK k \in s.seen : Field(k) = f
        BY <1>7 DEF ClauseRead, FilledSeen
    <2>2. PICK i \in 1 .. m : words[i] = k
        BY <2>1 DEF ClauseRead, SeenInWords, m
    <2>3. k \in Keywords \cup Protocols
        BY ClauseParts DEF ClauseRead
    <2>4. CASE k \in Keywords
        <3>1. s.filter[f] = Written(k, words[i + 1])
            BY <1>5, <2>1, <2>2, <2>4
        <3>2. Sends(k, words[i + 1], p)
            BY <1>7, <2>2, <2>4 DEF WordsSay
        <3>3. Written(k, words[i + 1]) = p[f]
            BY <2>1, <2>4, <3>2, SendsField
        <3> QED BY <3>1, <3>3
    <2>5. CASE k \in Protocols
        <3>1. f = "protocol" /\ s.filter["protocol"] = Code[k]
            BY <1>3, <2>1, <2>2, <2>5, WordKinds
        <3>2. p["protocol"] = Code[k]
            BY <1>7, <2>2, <2>5 DEF WordsSay
        <3> QED BY <3>1, <3>2
    <2> QED BY <2>3, <2>4, <2>5
<1>8. ASSUME WordsSay(words, m, p) PROVE Matches(s.filter, p)
    BY <1>4, <1>7, <1>8
<1>9. ASSUME Matches(s.filter, p) PROVE WordsSay(words, m, p)
    BY <1>6, <1>9 DEF WordsSay
<1> QED BY <1>8, <1>9 DEF m

\* A clause says "host" or "port" when its words do.
LEMMA BothWaysRead ==
    ASSUME NEW words, NEW n, NEW s, ClauseRead(words, n, s), Whole(s)
    PROVE  {"host", "port"} \cap s.seen # {} <=> WordsBothWays(words, Body(s))
<1>1. s.await = "none"
    BY WholeRead
<1>2. ASSUME NEW k \in {"host", "port"}, k \in s.seen PROVE WordsBothWays(words, Body(s))
    <2>1. PICK i \in 1 .. Body(s) : words[i] = k
        BY <1>2 DEF ClauseRead, SeenInWords
    <2> QED BY <2>1 DEF WordsBothWays
<1>3. ASSUME NEW i \in 1 .. Body(s), words[i] \in {"host", "port"}
      PROVE  {"host", "port"} \cap s.seen # {}
    <2>1. words[i] \in Keywords
        BY <1>3 DEF Keywords
    <2>2. words[i] \in s.seen
        BY <1>1, <2>1 DEF ClauseRead, KeywordsFilled
    <2> QED BY <1>3, <2>2
<1> QED BY <1>2, <1>3 DEF WordsBothWays

\* With "host" or "port" a clause leaves the source open, so that the reverse of
\* its filter, which has only a source, lets through just the answers.
LEMMA ReverseAnswers ==
    ASSUME NEW words, NEW n, NEW s, ClauseRead(words, n, s), Whole(s),
           {"host", "port"} \cap s.seen # {}, NEW p \in PacketKinds
    PROVE  Matches(Reversed(s.filter), p) <=> Matches(s.filter, Turned(p))
<1> DEFINE f == s.filter
           q == Turned(p)
           r == Reversed(f)
<1>1. f \in [FilterFields -> Values]
    BY WholeRead
<1>2. ASSUME NEW k \in Keywords, k \in s.seen PROVE k \notin {"src", "sport"}
    <2> SUFFICES ASSUME k \in {"src", "sport"} PROVE FALSE
        OBVIOUS
    <2>1. PICK j \in {"host", "port"} : j \in s.seen
        OBVIOUS
    <2>2. j \in Conflicts(k)
        <3>1. CASE k = "src" BY <3>1 DEF Conflicts
        <3>2. CASE k = "sport" BY <3>2 DEF Conflicts
        <3> QED BY <3>1, <3>2
    <2>3. j = k
        BY <1>2, <2>1, <2>2 DEF ClauseRead, Apart
    <2> QED BY <2>3
<1>3. ASSUME NEW g \in {"src_addr", "src_port"} PROVE f[g] = Zero
    <2> SUFFICES ASSUME f[g] # Zero PROVE FALSE
        OBVIOUS
    <2>1. PICK k \in s.seen : Field(k) = g
        BY DEF ClauseRead, FilledSeen, FilterFields
    <2>2. k \in Keywords \cup Protocols
        BY ClauseParts DEF ClauseRead
    <2>3. k \in {"src", "sport"}
        BY <2>1, <2>2 DEF Field, Keywords, Protocols
    <2>4. k \in Keywords
        BY <2>3 DEF Keywords
    <2> QED BY <1>2, <2>3, <2>4
<1> HIDE DEF f
<1>4. /\ r \in [FilterFields -> Values]
      /\ r["src_addr"] = f["dst_addr"] /\ r["dst_addr"] = Zero
      /\ r["src_port"] = f["dst_port"] /\ r["dst_port"] = Zero
      /\ r["protocol"] = f["protocol"]
    BY <1>1 DEF Reversed, FilterFields, Values, Zero
<1>5. /\ q["src_addr"] = p["dst_addr"] /\ q["dst_addr"] = p["src_addr"]
      /\ q["src_port"] = p["dst_port"] /\ q["dst_port"] = p["src_port"]
      /\ q["protocol"] = p["protocol"]
    BY DEF Turned, PacketKinds
<1> HIDE DEF q, r
<1>6. Matches(r, p) <=> \A g \in FilterFields : r[g] \in {Zero, p[g]}
    BY <1>4 DEF Matches
<1>7. Matches(f, q) <=> \A g \in FilterFields : f[g] \in {Zero, q[g]}
    BY <1>1 DEF Matches
<1>8. Matches(r, p) <=> Matches(f, q)
    BY <1>3, <1>4, <1>5, <1>6, <1>7 DEF FilterFields
<1> QED BY <1>8 DEF f, q, r

-----------------------------------------------------------------------------
(* The clauses of a line                                                   *)

\* What is left of a line l after d words.
LEMMA TailOf ==
    ASSUME NEW l \in Seq(STRING), NEW d \in 0 .. Len(l)
    PROVE  /\ SubSeq(l, d + 1, Len(l)) \in Seq(STRING)
           /\ Len(SubSeq(l, d + 1, Len(l))) = Len(l) - d
           /\ \A i \in 1 .. Len(l) - d : SubSeq(l, d + 1, Len(l))[i] = l[d + i]
<1>1. Len(l) \in Nat /\ d \in Nat /\ d <= Len(l)
    OBVIOUS
<1>2. SubSeq(l, d + 1, Len(l)) \in Seq(STRING)
    BY <1>1
<1>3. Len(SubSeq(l, d + 1, Len(l))) = Len(l) - d
    BY <1>1
<1>4. ASSUME NEW i \in 1 .. Len(l) - d PROVE SubSeq(l, d + 1, Len(l))[i] = l[d + i]
    BY <1>1
<1> QED BY <1>2, <1>3, <1>4

\* The words after t more are the line's too.
LEMMA TailOfTail ==
    ASSUME NEW l \in Seq(STRING), NEW d \in 0 .. Len(l), NEW t \in 0 .. Len(l) - d
    PROVE  LET v == SubSeq(l, d + 1, Len(l)) IN
           SubSeq(v, t + 1, Len(v)) = SubSeq(l, d + t + 1, Len(l))
<1> DEFINE v == SubSeq(l, d + 1, Len(l))
           a == SubSeq(v, t + 1, Len(v))
           b == SubSeq(l, d + t + 1, Len(l))
<1>1. Len(l) \in Nat /\ d \in Nat /\ t \in Nat /\ d + t \in 0 .. Len(l)
    OBVIOUS
<1>2. /\ v \in Seq(STRING) /\ Len(v) = Len(l) - d
      /\ \A i \in 1 .. Len(l) - d : v[i] = l[d + i]
    BY TailOf
<1> HIDE DEF v
<1>3. t \in 0 .. Len(v)
    BY <1>1, <1>2
<1>4. /\ a \in Seq(STRING) /\ Len(a) = Len(v) - t
      /\ \A i \in 1 .. Len(v) - t : a[i] = v[t + i]
    BY <1>2, <1>3, TailOf
<1>5. /\ b \in Seq(STRING) /\ Len(b) = Len(l) - (d + t)
      /\ \A i \in 1 .. Len(l) - (d + t) : b[i] = l[d + t + i]
    BY <1>1, TailOf
<1> HIDE DEF a, b
<1>6. Len(a) = Len(b)
    BY <1>1, <1>2, <1>4, <1>5
<1>7. ASSUME NEW i \in 1 .. Len(a) PROVE a[i] = b[i]
    <2>1. t + i \in 1 .. Len(l) - d /\ i \in 1 .. Len(v) - t /\ i \in 1 .. Len(l) - (d + t)
        BY <1>1, <1>2, <1>4
    <2>2. a[i] = l[d + (t + i)]
        BY <1>2, <1>4, <2>1
    <2>3. d + (t + i) = d + t + i
        BY <1>1
    <2> QED BY <1>5, <2>1, <2>2, <2>3
<1>8. a = b
    BY <1>4, <1>5, <1>6, <1>7, SeqEqual
<1> QED BY <1>8 DEF a, b, v

\* The clause of l from d to e comes next after those that end by d.
LEMMA NextClause ==
    ASSUME NEW l \in Seq(STRING), NEW d \in Nat, NEW e \in Nat, d < e, d < Len(l),
           d = 0 \/ d \in Ors(l), e = Len(l) + 1 \/ e \in Ors(l),
           \A i \in d + 1 .. e - 1 : i \notin Ors(l)
    PROVE  /\ <<d, e>> \in Clauses(l)
           /\ \A c \in Clauses(l) : c[2] <= e => c[2] <= d \/ c = <<d, e>>
           /\ e = Len(l) => \A c \in Clauses(l) : c[2] <= e
<1> DEFINE From == {0} \cup Ors(l)
           To == Ors(l) \cup {Len(l) + 1}
<1>1. /\ Len(l) \in Nat /\ Len(l) > 0 /\ l # <<>>
      /\ \A k \in Ors(l) : k \in Nat /\ k >= 1 /\ k <= Len(l)
    BY DEF Ors
<1>2. /\ \A c \in Clauses(l) :
            /\ c = <<c[1], c[2]>> /\ c[1] \in From /\ c[2] \in To
            /\ c[1] < c[2] /\ c[1] # Len(l)
            /\ \A k \in Ors(l) : ~(c[1] < k /\ k < c[2])
    BY <1>1 DEF Clauses
<1>3. <<d, e>> \in Clauses(l)
    <2>1. d \in From /\ e \in To /\ \A k \in Ors(l) : ~(d < k /\ k < e)
        BY <1>1
    <2> QED BY <2>1 DEF Clauses
<1>4. ASSUME NEW c \in Clauses(l), c[2] <= e, ~(c[2] <= d) PROVE c = <<d, e>>
    <2>1. c[1] \in Nat /\ c[2] \in Nat
        BY <1>1, <1>2
    <2>2. c[2] = e
        BY <1>1, <1>2, <1>4, <2>1
    <2>3. ~(c[1] < d)
        BY <1>1, <1>2, <1>4, <2>1
    <2>4. ~(d < c[1])
        BY <1>1, <1>2, <1>4, <2>1
    <2>5. c[1] = d
        BY <2>1, <2>3, <2>4
    <2> QED BY <1>2, <2>2, <2>5
<1>5. ASSUME e = Len(l), NEW c \in Clauses(l) PROVE c[2] <= e
    <2>1. c[1] \in Nat /\ c[2] \in Nat /\ e \in Ors(l)
        BY <1>1, <1>2, <1>5
    <2>2. c[1] <= Len(l)
        BY <1>1, <1>2
    <2> QED BY <1>1, <1>2, <1>5, <2>1, <2>2
<1> QED BY <1>3, <1>4, <1>5

\* The words v are what is left of the line l after some of its clauses.
LineTail(l, v) ==
    /\ v \in Seq(STRING) /\ Len(v) <= Len(l)
    /\ v = SubSeq(l, Len(l) - Len(v) + 1, Len(l))
    /\ v # <<>> => Len(v) = Len(l) \/ l[Len(l) - Len(v)] = "or"

\* How far l is read: past its end when nothing is left.
ReadTo(l, v) == IF v = <<>> THEN Len(l) + 1 ELSE Len(l) - Len(v)

\* What a clause describes, and what the clauses that are read do.
Meant(l, c, p) == /\ ~Unfinished(l, c)
                  /\ Says(l, c, p) \/ (BothWays(l, c) /\ Says(l, c, Turned(p)))
Asked(l, v, p) == \E c \in Clauses(l) : c[2] <= ReadTo(l, v) /\ Meant(l, c, p)

\* A clause says what its words say, as long as each keyword has an argument.
LEMMA ClauseWords ==
    ASSUME NEW l \in Seq(STRING), NEW d \in 0 .. Len(l), NEW v,
           v = SubSeq(l, d + 1, Len(l)), NEW m \in 0 .. Len(l) - d,
           \A i \in 1 .. m : v[i] \in Keywords => i < m
    PROVE  LET c == <<d, d + m + 1>> IN
           /\ \A p : Says(l, c, p) <=> WordsSay(v, m, p)
           /\ BothWays(l, c) <=> WordsBothWays(v, m)
           /\ Proper(l) => WordsFit(v, m)
<1> DEFINE c == <<d, d + m + 1>>
<1>1. Len(l) \in Nat /\ d \in Nat /\ m \in Nat /\ d + m <= Len(l)
    OBVIOUS
<1>2. \A i \in 1 .. Len(l) - d : v[i] = l[d + i]
    BY TailOf
<1>3. c[1] + 1 = d + 1 /\ c[2] - 1 = d + m
    BY <1>1
<1>4. \A p : Says(l, c, p) <=>
          \A i \in d + 1 .. d + m : /\ l[i] \in Keywords => Sends(l[i], l[i + 1], p)
                                    /\ l[i] \in Protocols => p["protocol"] = Code[l[i]]
    BY <1>3 DEF Says
<1>5. BothWays(l, c) <=> \E i \in d + 1 .. d + m : l[i] \in {"host", "port"}
    BY <1>3 DEF BothWays
<1> HIDE DEF c
<1>6. ASSUME NEW i \in 1 .. m PROVE d + i \in d + 1 .. d + m /\ v[i] = l[d + i]
    BY <1>1, <1>2
<1>7. ASSUME NEW i \in d + 1 .. d + m PROVE i - d \in 1 .. m /\ d + (i - d) = i
    BY <1>1
<1>8. ASSUME NEW i \in 1 .. m, v[i] \in Keywords PROVE v[i + 1] = l[d + i + 1]
    <2>1. i + 1 \in 1 .. m
        BY <1>1, <1>8
    <2>2. v[i + 1] = l[d + (i + 1)]
        BY <1>6, <2>1
    <2>3. d + (i + 1) = d + i + 1
        BY <1>1
    <2> QED BY <2>2, <2>3
<1>9. ASSUME NEW p PROVE Says(l, c, p) <=> WordsSay(v, m, p)
    <2>1. ASSUME Says(l, c, p), NEW i \in 1 .. m
          PROVE  /\ v[i] \in Keywords => Sends(v[i], v[i + 1], p)
                 /\ v[i] \in Protocols => p["protocol"] = Code[v[i]]
        BY <1>4, <1>6, <1>8, <2>1
    <2>2. ASSUME WordsSay(v, m, p), NEW i \in d + 1 .. d + m
          PROVE  /\ l[i] \in Keywords => Sends(l[i], l[i + 1], p)
                 /\ l[i] \in Protocols => p["protocol"] = Code[l[i]]
        <3> DEFINE j == i - d
        <3>1. j \in 1 .. m /\ d + j = i /\ v[j] = l[i]
            BY <1>6, <1>7
        <3> HIDE DEF j
        <3>2. v[j] \in Keywords => v[j + 1] = l[i + 1]
            BY <1>8, <3>1
        <3>3. /\ v[j] \in Keywords => Sends(v[j], v[j + 1], p)
              /\ v[j] \in Protocols => p["protocol"] = Code[v[j]]
            BY <2>2, <3>1 DEF WordsSay
        <3> QED BY <3>1, <3>2, <3>3
    <2>3. Says(l, c, p) => WordsSay(v, m, p)
        BY <2>1 DEF WordsSay
    <2>4. WordsSay(v, m, p) => Says(l, c, p)
        BY <1>4, <2>2
    <2> QED BY <2>3, <2>4
<1>10. BothWays(l, c) <=> WordsBothWays(v, m)
    <2>1. ASSUME NEW i \in d + 1 .. d + m, l[i] \in {"host", "port"} PROVE WordsBothWays(v, m)
        <3>1. i - d \in 1 .. m /\ v[i - d] = l[i]
            BY <1>6, <1>7
        <3> QED BY <2>1, <3>1 DEF WordsBothWays
    <2>2. ASSUME NEW i \in 1 .. m, v[i] \in {"host", "port"} PROVE BothWays(l, c)
        BY <1>5, <1>6, <2>2
    <2> QED BY <1>5, <2>1, <2>2 DEF WordsBothWays
<1>11. ASSUME Proper(l) PROVE WordsFit(v, m)
    <2> SUFFICES ASSUME NEW i \in 1 .. m - 1, v[i] \in Keywords, v[i + 1] \in Argument(v[i])
                 PROVE  Fits(v[i], v[i + 1])
        BY DEF WordsFit
    <2>1. i \in 1 .. m /\ d + i \in 1 .. Len(l) - 1
        BY <1>1
    <2>2. v[i] = l[d + i] /\ v[i + 1] = l[d + i + 1]
        BY <1>6, <1>8, <2>1
    <2> QED BY <1>11, <2>1, <2>2 DEF Proper
<1> QED BY <1>9, <1>10, <1>11 DEF c

\* No word is left just when all are read.
LEMMA NothingLeft ==
    ASSUME NEW v \in Seq(STRING) PROVE v = <<>> <=> Len(v) = 0
BY EmptySeq

\* What parse_one_filter returns, in terms of the words read.
LEMMA ParsedClause ==
    ASSUME NEW v \in Seq(STRING)
    PROVE  LET s == Reading(v)[Len(v)]
               one == ParseOneFilter(v) IN
           /\ ClauseRead(v, Len(v), s) /\ s.taken \in 0 .. Len(v)
           /\ one.ok <=> Whole(s)
           /\ one.filter = s.filter
           /\ one.bidir <=> {"host", "port"} \cap s.seen # {}
           /\ one.rest = SubSeq(v, s.taken + 1, Len(v))
<1> DEFINE s == Reading(v)[Len(v)]
<1>1. Len(v) \in Nat /\ Len(v) \in 0 .. Len(v)
    OBVIOUS
<1>2. ClauseRead(v, Len(v), s)
    BY <1>1, ReadingKeeps
<1> HIDE DEF s
<1>3. s.taken \in 0 .. Len(v)
    <2>1. s.taken \in Nat /\ s.taken <= Len(v)
        BY <1>2, ClauseParts DEF ClauseRead, Counted
    <2> QED BY <1>1, <2>1
<1>4. ParseOneFilter(v) =
          [ok |-> Whole(s), filter |-> s.filter, bidir |-> {"host", "port"} \cap s.seen # {},
           rest |-> SubSeq(v, s.taken + 1, Len(v))]
    BY DEF ParseOneFilter, Whole, s
<1> DEFINE one == ParseOneFilter(v)
           both == {"host", "port"} \cap s.seen # {}
<1>5. one = [ok |-> Whole(s), filter |-> s.filter, bidir |-> both,
             rest |-> SubSeq(v, s.taken + 1, Len(v))]
    BY <1>4
<1> HIDE DEF one, both
<1>6. one.ok <=> Whole(s)
    BY <1>5, Zenon
<1>7. one.bidir <=> both
    BY <1>5, Zenon
<1>8. one.filter = s.filter /\ one.rest = SubSeq(v, s.taken + 1, Len(v))
    BY <1>5, Zenon
<1> QED BY <1>2, <1>3, <1>6, <1>7, <1>8, Zenon DEF s, one, both

\* Where the clause read from what is left of a line ends, and what is left then.
LEMMA ClauseEnd ==
    ASSUME NEW l \in Seq(STRING), NEW v, LineTail(l, v), v # <<>>,
           NEW s, ClauseRead(v, Len(v), s), s.end # "bad", NEW rest,
           rest = SubSeq(v, s.taken + 1, Len(v))
    PROVE  LET d == Len(l) - Len(v)
               e == d + Body(s) + 1 IN
           /\ d \in 0 .. Len(l) /\ d < Len(l) /\ Body(s) \in 0 .. Len(l) - d
           /\ v = SubSeq(l, d + 1, Len(l))
           /\ <<d, e>> \in Clauses(l)
           /\ \A c \in Clauses(l) : c[2] <= ReadTo(l, rest) <=> c[2] <= d \/ c = <<d, e>>
           /\ LineTail(l, rest)
           /\ s.end = "no" => e = Len(l) + 1
<1> DEFINE d == Len(l) - Len(v)
           t == s.taken
           m == Body(s)
           e == d + m + 1
<1>1. /\ Len(l) \in Nat /\ Len(v) \in Nat /\ Len(v) > 0 /\ d \in Nat /\ d < Len(l)
      /\ d \in 0 .. Len(l) /\ Len(v) = Len(l) - d
    <2>1. Len(l) \in Nat /\ v \in Seq(STRING) /\ Len(v) \in Nat /\ Len(v) <= Len(l)
        BY DEF LineTail
    <2>2. Len(v) # 0
        BY <2>1, NothingLeft
    <2> QED BY <2>1, <2>2
<1>2. v = SubSeq(l, d + 1, Len(l)) /\ (d = 0 \/ l[d] = "or")
    <2>1. Len(v) = Len(l) \/ l[d] = "or"
        BY DEF LineTail
    <2>2. Len(v) = Len(l) => d = 0
        BY <1>1
    <2> QED BY <2>1, <2>2 DEF LineTail
<1>3. \A i \in 1 .. Len(l) - d : v[i] = l[d + i]
    BY <1>1, <1>2, TailOf
<1>4. t \in Nat /\ t <= Len(v) /\ s.end \in {"no", "or"}
    BY ClauseParts DEF ClauseRead, Counted
<1> HIDE DEF d
<1>5. s.end = "no" => t = Len(v) /\ m = t /\ e = Len(l) + 1
    <2> SUFFICES ASSUME s.end = "no" PROVE t = Len(v) /\ m = t /\ e = Len(l) + 1
        OBVIOUS
    <2>1. t = Len(v)
        BY DEF ClauseRead, Counted
    <2>2. m = t
        BY DEF Body
    <2> QED BY <1>1, <2>1, <2>2
<1>6. s.end = "or" => t >= 1 /\ m = t - 1 /\ e = d + t /\ l[e] = "or"
    <2> SUFFICES ASSUME s.end = "or" PROVE t >= 1 /\ m = t - 1 /\ e = d + t /\ l[e] = "or"
        OBVIOUS
    <2>1. t >= 1 /\ v[t] = "or"
        BY DEF ClauseRead, Counted
    <2>2. m = t - 1
        BY DEF Body
    <2>3. e = d + t
        BY <1>1, <1>4, <2>2
    <2>4. t \in 1 .. Len(l) - d
        BY <1>1, <1>4, <2>1
    <2> QED BY <1>3, <2>1, <2>2, <2>3, <2>4
<1>7. \A i \in 1 .. m : v[i] # "or"
    BY DEF ClauseRead, LastWord
<1> HIDE DEF t, m
<1>8. m \in 0 .. Len(l) - d
    BY <1>1, <1>4, <1>5, <1>6
<1>9. e \in Nat /\ d < e /\ (e = Len(l) + 1 \/ e \in Ors(l))
    <2>1. e \in Nat /\ d < e
        BY <1>1, <1>8
    <2>2. CASE s.end = "no"
        BY <1>5, <2>1, <2>2
    <2>3. CASE s.end = "or"
        <3>1. e \in 1 .. Len(l)
            BY <1>1, <1>4, <1>6, <2>3
        <3> QED BY <1>6, <2>1, <2>3, <3>1 DEF Ors
    <2> QED BY <1>4, <2>2, <2>3
<1>10. d = 0 \/ d \in Ors(l)
    BY <1>1, <1>2 DEF Ors
<1>11. \A i \in d + 1 .. e - 1 : i \notin Ors(l)
    <2> SUFFICES ASSUME NEW i \in d + 1 .. e - 1 PROVE l[i] # "or"
        BY DEF Ors
    <2> DEFINE j == i - d
    <2>1. j \in 1 .. m /\ j \in 1 .. Len(l) - d /\ d + j = i
        BY <1>1, <1>8
    <2> HIDE DEF j
    <2> QED BY <1>3, <1>7, <2>1
<1> HIDE DEF e
<1>12. /\ <<d, e>> \in Clauses(l)
       /\ \A c \in Clauses(l) : c[2] <= e => c[2] <= d \/ c = <<d, e>>
       /\ e = Len(l) => \A c \in Clauses(l) : c[2] <= e
    BY <1>1, <1>9, <1>10, <1>11, NextClause
<1>13. rest = SubSeq(l, d + t + 1, Len(l)) /\ t \in 0 .. Len(l) - d
    <2>1. t \in 0 .. Len(l) - d
        BY <1>1, <1>4
    <2> QED BY <1>1, <1>2, <2>1, TailOfTail DEF t
<1>14. rest \in Seq(STRING) /\ Len(rest) = Len(l) - (d + t)
    <2> DEFINE u == d + t
    <2>1. u \in 0 .. Len(l)
        <3> HIDE DEF u
        <3>1. \A a, b, c \in Nat : b \in 0 .. a - c => c + b \in 0 .. a
            OBVIOUS
        <3>2. Len(l) \in Nat /\ d \in Nat /\ t \in Nat /\ t \in 0 .. Len(l) - d
            BY <1>1, <1>4, <1>13 DEF t
        <3> QED BY <3>1, <3>2, Zenon DEF u
    <2> HIDE DEF u
    <2>2. rest = SubSeq(l, u + 1, Len(l))
        BY <1>13 DEF u
    <2>3. rest \in Seq(STRING) /\ Len(rest) = Len(l) - u
        BY <2>1, <2>2, TailOf
    <2> QED BY <2>3 DEF u
<1>15. rest = <<>> <=> d + t = Len(l)
    <2>1. rest = <<>> <=> Len(rest) = 0
        BY <1>14, NothingLeft
    <2>2. \A a, b, c \in Nat : a - (c + b) = 0 <=> c + b = a
        OBVIOUS
    <2>3. Len(l) \in Nat /\ d \in Nat /\ t \in Nat
        BY <1>1, <1>4 DEF t
    <2>4. Len(l) - (d + t) = 0 <=> d + t = Len(l)
        BY <2>2, <2>3, Zenon
    <2> QED BY <1>14, <2>1, <2>4
<1>16. LineTail(l, rest)
    <2>1. Len(rest) <= Len(l) /\ Len(l) - Len(rest) = d + t
        BY <1>1, <1>13, <1>14
    <2>2. rest # <<>> => l[d + t] = "or"
        BY <1>1, <1>4, <1>5, <1>6, <1>15
    <2> QED BY <1>13, <1>14, <2>1, <2>2 DEF LineTail
<1>17. ASSUME NEW c \in Clauses(l)
       PROVE  c[2] <= ReadTo(l, rest) <=> c[2] <= d \/ c = <<d, e>>
    <2>1. c[2] \in Nat /\ c[2] <= Len(l) + 1
        BY <1>1 DEF Clauses, Ors
    <2>2. c = <<d, e>> => c[2] = e
        OBVIOUS
    <2>3. CASE rest = <<>> /\ s.end = "no"
        <3>1. ReadTo(l, rest) = e
            BY <1>5, <2>3 DEF ReadTo
        <3> QED BY <1>1, <1>9, <1>12, <2>1, <2>2, <3>1
    <2>4. CASE rest = <<>> /\ s.end = "or"
        <3>1. ReadTo(l, rest) = Len(l) + 1 /\ e = Len(l)
            BY <1>6, <1>15, <2>4 DEF ReadTo
        <3> QED BY <1>1, <1>9, <1>12, <2>1, <2>2, <3>1
    <2>5. CASE rest # <<>>
        <3>1. s.end = "or"
            BY <1>1, <1>4, <1>5, <1>15, <2>5
        <3>2. ReadTo(l, rest) = e
            BY <1>1, <1>6, <1>13, <1>14, <2>5, <3>1 DEF ReadTo
        <3> QED BY <1>1, <1>9, <1>12, <2>1, <2>2, <3>2
    <2> QED BY <1>4, <2>3, <2>4, <2>5
<1>18. d < Len(l) /\ d \in 0 .. Len(l) /\ (s.end = "no" => e = Len(l) + 1)
    BY <1>1, <1>5
<1> QED BY <1>2, <1>8, <1>12, <1>16, <1>17, <1>18 DEF d, e, m

\* One more clause is read: what it describes is what its filter, and the reverse
\* of that where there is one, let through.
LEMMA ClauseAsked ==
    ASSUME NEW l \in Seq(STRING), NEW v, LineTail(l, v), v # <<>>, ParseOneFilter(v).ok
    PROVE  LET one == ParseOneFilter(v) IN
           /\ LineTail(l, one.rest)
           /\ Proper(l) => \A p \in PacketKinds :
                 Asked(l, one.rest, p) <=>
                     Asked(l, v, p) \/ Matches(one.filter, p)
                     \/ (one.bidir /\ Matches(Reversed(one.filter), p))
<1> DEFINE one == ParseOneFilter(v)
           s == Reading(v)[Len(v)]
           d == Len(l) - Len(v)
           m == Body(s)
           c == <<d, d + m + 1>>
<1>1. v \in Seq(STRING)
    BY DEF LineTail
<1>2. /\ ClauseRead(v, Len(v), s) /\ Whole(s) /\ one.filter = s.filter
      /\ one.bidir <=> {"host", "port"} \cap s.seen # {}
      /\ one.rest = SubSeq(v, s.taken + 1, Len(v))
    BY <1>1, ParsedClause
<1> HIDE DEF one, s
<1>3. s.end # "bad"
    BY <1>2 DEF Whole
<1>4. /\ d \in 0 .. Len(l) /\ d < Len(l) /\ m \in 0 .. Len(l) - d
      /\ v = SubSeq(l, d + 1, Len(l)) /\ c \in Clauses(l)
      /\ \A b \in Clauses(l) : b[2] <= ReadTo(l, one.rest) <=> b[2] <= d \/ b = c
      /\ LineTail(l, one.rest)
      /\ s.end = "no" => d + m + 1 = Len(l) + 1
    BY <1>2, <1>3, ClauseEnd, ZenonT(60)
<1>5. ReadTo(l, v) = d
    BY DEF ReadTo
<1>6. \A i \in 1 .. m : v[i] \in Keywords => i < m
    BY <1>2, WholeRead DEF ClauseRead, KeywordsFilled
<1>7. /\ \A p : Says(l, c, p) <=> WordsSay(v, m, p)
      /\ BothWays(l, c) <=> WordsBothWays(v, m)
      /\ Proper(l) => WordsFit(v, m)
    BY <1>4, <1>6, ClauseWords
<1>8. ~Unfinished(l, c)
    <2> SUFFICES ASSUME d + m + 1 = Len(l) + 1, l[Len(l)] \in Keywords PROVE FALSE
        BY DEF Unfinished
    <2>1. /\ Len(l) \in Nat /\ d \in Nat /\ m \in Nat /\ m >= 1 /\ d + m = Len(l)
          /\ m \in 1 .. m /\ m \in 1 .. Len(l) - d
        BY <1>4
    <2> HIDE DEF d, m
    <2>2. \A i \in 1 .. Len(l) - d : v[i] = l[d + i]
        BY <1>4, TailOf
    <2>3. v[m] \in Keywords
        BY <2>1, <2>2
    <2> QED BY <1>6, <2>1, <2>3
<1> HIDE DEF d, m, c
<1>9. ASSUME Proper(l), NEW p \in PacketKinds
      PROVE  Meant(l, c, p) <=> Matches(one.filter, p) \/ (one.bidir /\ Matches(Reversed(one.filter), p))
    <2>1. Says(l, c, p) <=> Matches(s.filter, p)
        BY <1>2, <1>7, <1>9, FilterSays DEF m
    <2>2. Says(l, c, Turned(p)) <=> Matches(s.filter, Turned(p))
        BY <1>2, <1>7, <1>9, FilterSays DEF m
    <2>3. BothWays(l, c) <=> one.bidir
        BY <1>2, <1>7, BothWaysRead DEF m
    <2>4. one.bidir => (Matches(Reversed(s.filter), p) <=> Matches(s.filter, Turned(p)))
        BY <1>2, ReverseAnswers
    <2> QED BY <1>2, <1>8, <2>1, <2>2, <2>3, <2>4 DEF Meant
<1>10. ASSUME NEW p \in PacketKinds
       PROVE  Asked(l, one.rest, p) <=> Asked(l, v, p) \/ Meant(l, c, p)
    BY <1>4, <1>5 DEF Asked
<1>11. ASSUME Proper(l), NEW p \in PacketKinds
       PROVE  Asked(l, one.rest, p) <=>
                  Asked(l, v, p) \/ Matches(one.filter, p)
                  \/ (one.bidir /\ Matches(Reversed(one.filter), p))
    BY <1>9, <1>10, <1>11
<1> QED BY <1>4, <1>11 DEF one

\* A line that ends without the argument of a keyword: its last clause counts for
\* nothing.
LEMMA UnfinishedAsked ==
    ASSUME NEW l \in Seq(STRING), NEW v, LineTail(l, v), v # <<>>, ~ParseOneFilter(v).ok,
           ParseOneFilter(v).rest = <<>>
    PROVE  LineTail(l, <<>>) /\ \A p : Asked(l, <<>>, p) <=> Asked(l, v, p)
<1> DEFINE one == ParseOneFilter(v)
           s == Reading(v)[Len(v)]
           d == Len(l) - Len(v)
           m == Body(s)
           c == <<d, d + m + 1>>
<1>1. v \in Seq(STRING)
    BY DEF LineTail
<1>2. /\ ClauseRead(v, Len(v), s) /\ ~Whole(s) /\ s.taken \in 0 .. Len(v)
      /\ <<>> = SubSeq(v, s.taken + 1, Len(v))
    BY <1>1, ParsedClause
<1> HIDE DEF s
<1>3. s.taken = Len(v)
    <2>1. Len(SubSeq(v, s.taken + 1, Len(v))) = Len(v) - s.taken
        BY <1>1, <1>2, TailOf
    <2>2. Len(<<>>) = 0 /\ Len(v) \in Nat
        BY <1>1
    <2>3. Len(v) - s.taken = 0
        BY <1>2, <2>1, <2>2, Zenon
    <2>4. s.taken \in Nat
        BY <1>2, <2>2
    <2> QED BY <2>2, <2>3, <2>4
<1>4. s.end = "no" /\ s.await \in Keywords
    <2>1. s.end \in {"no", "or", "bad"} /\ s.await \in Keywords \cup {"none"}
        BY <1>2, ClauseParts DEF ClauseRead
    <2>2. s.end # "bad"
        BY <1>1, <1>2, <1>3 DEF ClauseRead, Counted
    <2> QED BY <1>2, <2>1, <2>2 DEF Whole
<1>5. /\ d \in 0 .. Len(l) /\ d < Len(l) /\ m \in 0 .. Len(l) - d
      /\ v = SubSeq(l, d + 1, Len(l)) /\ c \in Clauses(l)
      /\ \A b \in Clauses(l) : b[2] <= ReadTo(l, <<>>) <=> b[2] <= d \/ b = c
      /\ LineTail(l, <<>>) /\ d + m + 1 = Len(l) + 1
    BY <1>2, <1>4, ClauseEnd
<1>6. ReadTo(l, v) = d
    BY DEF ReadTo
<1>7. m >= 1 /\ v[m] \in Keywords
    <2>1. s.await # "none"
        BY <1>4, WordKinds
    <2> QED BY <1>2, <1>4, <2>1 DEF ClauseRead, LastWord
<1>8. Unfinished(l, c)
    <2>1. /\ Len(l) \in Nat /\ d \in Nat /\ m \in Nat /\ d + m = Len(l)
          /\ m \in 1 .. Len(l) - d
        BY <1>5, <1>7
    <2>2. Len(l) # 0
        BY <1>5
    <2>3. c[2] = Len(l) + 1
        BY <1>5
    <2> HIDE DEF d, m, c
    <2>4. \A i \in 1 .. Len(l) - d : v[i] = l[d + i]
        BY <1>5, TailOf
    <2>5. l[Len(l)] \in Keywords
        BY <1>7, <2>1, <2>4
    <2>6. l # <<>>
        BY <2>2, NothingLeft
    <2> QED BY <2>3, <2>5, <2>6 DEF Unfinished
<1> HIDE DEF d, m, c
<1>9. ASSUME NEW p PROVE Asked(l, <<>>, p) <=> Asked(l, v, p)
    BY <1>5, <1>6, <1>8 DEF Asked, Meant
<1> QED BY <1>5, <1>9

\* Before anything is read nothing is asked for, and in the end all the line describes.
LEMMA LineEnds ==
    ASSUME NEW l \in Seq(STRING)
    PROVE  /\ LineTail(l, l)
           /\ \A p : ~(l # <<>> /\ Asked(l, l, p))
           /\ \A p : Asked(l, <<>>, p) <=> Described(l, p)
<1>1. Len(l) \in Nat /\ Len(l) - Len(l) = 0
    OBVIOUS
<1>2. \A c \in Clauses(l) : c[2] \in Nat /\ c[2] >= 1 /\ c[2] <= Len(l) + 1
    BY <1>1 DEF Clauses, Ors
<1>3. LineTail(l, l)
    <2>1. l = SubSeq(l, 0 + 1, Len(l))
        <3>1. /\ SubSeq(l, 0 + 1, Len(l)) \in Seq(STRING)
              /\ Len(SubSeq(l, 0 + 1, Len(l))) = Len(l)
              /\ \A i \in 1 .. Len(l) : SubSeq(l, 0 + 1, Len(l))[i] = l[i]
            BY <1>1
        <3> QED BY <3>1, SeqEqual
    <2> QED BY <1>1, <2>1 DEF LineTail
<1>4. l # <<>> => ReadTo(l, l) = 0
    BY <1>1 DEF ReadTo
<1>5. ReadTo(l, <<>>) = Len(l) + 1
    BY DEF ReadTo
<1>6. \A p : ~(l # <<>> /\ Asked(l, l, p))
    BY <1>2, <1>4 DEF Asked
<1>7. \A p : Asked(l, <<>>, p) <=> Described(l, p)
    BY <1>2, <1>5 DEF Asked, Described, Meant
<1> QED BY <1>3, <1>6, <1>7

-----------------------------------------------------------------------------
(* The filters of main                                                     *)

\* The card steers the packet to the program's buffer.
Steered(p) == \E f \in filters : f.buffer \in Mine /\ Matches(f.flow, p)

\* While main installs the filters of its line, the card steers to its buffer what
\* the clauses read so far describe, but for a reverse that is yet to be added.
FilterInv ==
    /\ line \in Seq(STRING)
    /\ line # <<>> =>
        /\ pc \in {"open file", "handle", "rx"} => argv = line
        /\ pc \in {"filter", "reverse", "running"} =>
              /\ LineTail(line, argv)
              /\ Proper(line) => \A p \in PacketKinds :
                    Asked(line, argv, p) <=> Steered(p) \/ (pc = "reverse" /\ Matches(filter, p))
        /\ pc = "running" => argv = <<>>

\* Nothing is read to begin with.
LEMMA FilterInitInv == Init => FilterInv
<1> SUFFICES ASSUME Init PROVE FilterInv
    OBVIOUS
<1>1. line = <<>> \/ line \in Lines
    BY DEF Init
<1>2. line \in Seq(STRING)
    BY <1>1, DeviceAssumption, EmptySeq
<1>3. argv = line /\ pc \in {"none", "open file"}
    BY DEF Init
<1> QED BY <1>2, <1>3 DEF FilterInv

\* A filter added to the program's buffer steers what it matches.
LEMMA AddedSteers ==
    ASSUME NEW x \in RxIds, NEW flow, FilterAdd(x, flow), ret' = "ok"
    PROVE  \A p : Steered(p)' <=> Steered(p) \/ Matches(flow, p)
<1>1. /\ filters' = filters \cup {[buffer |-> <<rx[x].port, rx[x].buffer_number - 1>>,
                                   flow |-> flow, id |-> FreshId]}
      /\ rx' = rx /\ rx[x] # None
    BY DEF FilterAdd, Refused
<1>2. Mine' = Mine /\ <<rx[x].port, rx[x].buffer_number - 1>> \in Mine
    BY <1>1 DEF Mine, Live
<1> DEFINE b == <<rx[x].port, rx[x].buffer_number - 1>>
           i == FreshId
<1> HIDE DEF b, i
<1>3. filters' = filters \cup {[buffer |-> b, flow |-> flow, id |-> i]}
    BY <1>1 DEF b, i
<1>4. Mine' = Mine /\ b \in Mine
    BY <1>2 DEF b
<1>5. /\ [buffer |-> b, flow |-> flow, id |-> i].buffer = b
      /\ [buffer |-> b, flow |-> flow, id |-> i].flow = flow
    OBVIOUS
<1> QED BY <1>3, <1>4, <1>5, Zenon DEF Steered

\* Another process does not free the program's buffer.
LEMMA OthersSteer ==
    ASSUME BuffersInv, NEW b \in Buffer, OtherProcess(b)
    PROVE  \A p : Steered(p)' <=> Steered(p)
<1>1. rx' = rx /\ Mine' = Mine
    BY DEF OtherProcess, Mine, Live
<1>2. filters' = filters \/ (others[b] > 0 /\ bufs[b] = 1
                             /\ filters' = {f \in filters : f.buffer # b})
    BY DEF OtherProcess, Free
<1>3. CASE others[b] > 0 /\ bufs[b] = 1 /\ filters' = {f \in filters : f.buffer # b}
    <2>1. b \notin Mine
        <3> SUFFICES ASSUME b \in Mine PROVE FALSE
            OBVIOUS
        <3>1. PICK x \in Live : b = <<rx[x].port, rx[x].buffer_number - 1>>
            BY DEF Mine
        <3>2. x \in On(b)
            BY <3>1 DEF On, OfRing
        <3>3. IsFiniteSet(On(b)) /\ Cardinality(On(b)) \in Nat
            BY LiveFinite
        <3>4. Cardinality(On(b)) # 0
            BY <3>2, <3>3, FS_EmptySet
        <3>5. /\ others[b] \in Nat /\ shares[b] \in Nat /\ lost.bufs[b] \in Nat
              /\ bufs[b] = Cardinality(On(b)) + others[b] + shares[b] + lost.bufs[b]
            BY DEF BuffersInv, RxRight
        <3> QED BY <1>3, <3>3, <3>4, <3>5
    <2> QED BY <1>1, <1>3, <2>1 DEF Steered
<1> QED BY <1>1, <1>2, <1>3 DEF Steered

\* No filter is in force on a buffer that has just been acquired.
LEMMA UnusedSteers ==
    ASSUME BuffersInv, Live = {}, NEW x \in RxIds, NEW c, NEW q \in Ports,
           AcquireUnused(x, c, q), ret' = "ok"
    PROVE  \A p : ~Steered(p)'
<1>1. PICK b \in Buffer :
          /\ b[1] = q /\ bufs[b] = 0
          /\ Taken(x, uses[c], [port |-> q, buffer_number |-> b[2] + 1])
    BY DEF AcquireUnused, Refused
<1> DEFINE r == [port |-> q, buffer_number |-> b[2] + 1]
<1>2. rx' = [rx EXCEPT ![x] = r] /\ filters' = filters
    BY <1>1 DEF Taken, Acquired, MmapFailed, MallocFailed
<1>3. b = <<q, b[2]>> /\ b[2] \in Int /\ r.port = q /\ r.buffer_number - 1 = b[2]
    BY <1>1, BuffersAssumption DEF Buffer
<1>4. rx \in [RxIds -> Rings \cup {None}]
    BY DEF BuffersInv, RxRight
<1> HIDE DEF r
<1>5. ASSUME NEW y \in Live' PROVE y = x
    BY <1>2, <1>4, <1>5 DEF Live
<1>6. rx'[x] = r
    BY <1>2, <1>4
<1>7. Mine' \subseteq {b}
    <2> SUFFICES ASSUME NEW y \in Live'
                 PROVE  <<rx'[y].port, rx'[y].buffer_number - 1>> = b
        BY DEF Mine
    <2> QED BY <1>3, <1>5, <1>6
<1>8. \A f \in filters : f.buffer # b
    BY <1>1 DEF BuffersInv, FiltersRight
<1> QED BY <1>2, <1>7, <1>8 DEF Steered

\* A step after which main is not about filters.
LEMMA FilterAway ==
    ASSUME FilterInv, line' = line, pc' \notin {"filter", "reverse", "running"},
           pc' \in {"open file", "handle", "rx"} =>
               pc \in {"open file", "handle", "rx"} /\ argv' = argv
    PROVE  FilterInv'
BY DEF FilterInv

\* A clause is read and its filter added.
LEMMA ReadClauseFilters == ASSUME FilterInv, ReadClause PROVE FilterInv'
<1> DEFINE one == ParseOneFilter(argv)
<1>1. /\ pc = "filter" /\ argv # <<>> /\ one.ok
      /\ Branch(IF one.bidir THEN "reverse" ELSE "filter", "release rx")
      /\ argv' = one.rest
      /\ filter' = IF one.bidir /\ ret' = "ok" THEN Reversed(one.filter) ELSE Wildcard
    BY DEF ReadClause
<1>2. PICK x \in RxIds : FilterAdd(x, one.filter)
    BY DEF ReadClause
<1> HIDE DEF one
<1>3. CASE ret' # "ok"
    <2>1. pc' = "release rx" /\ line' = line
        BY <1>1, <1>3 DEF Branch, Go
    <2> QED BY <2>1, FilterAway
<1>4. CASE ret' = "ok" /\ line # <<>>
    <2>1. line' = line /\ pc' = IF one.bidir THEN "reverse" ELSE "filter"
        BY <1>1, <1>4 DEF Branch, Go
    <2>2. /\ line \in Seq(STRING) /\ LineTail(line, argv)
          /\ Proper(line) => \A p \in PacketKinds : Asked(line, argv, p) <=> Steered(p)
        BY <1>1, <1>4 DEF FilterInv
    <2>3. /\ LineTail(line, one.rest)
          /\ Proper(line) => \A p \in PacketKinds :
                Asked(line, one.rest, p) <=>
                    Asked(line, argv, p) \/ Matches(one.filter, p)
                    \/ (one.bidir /\ Matches(Reversed(one.filter), p))
        BY <1>1, <2>2, ClauseAsked DEF one
    <2>4. \A p : Steered(p)' <=> Steered(p) \/ Matches(one.filter, p)
        BY <1>2, <1>4, AddedSteers
    <2>5. one.bidir => filter' = Reversed(one.filter) /\ pc' = "reverse"
        BY <1>1, <1>4, <2>1
    <2>6. ~one.bidir => pc' = "filter"
        BY <2>1
    <2>7. ASSUME Proper(line), NEW p \in PacketKinds
          PROVE  Asked(line', argv', p) <=>
                     Steered(p)' \/ (pc' = "reverse" /\ Matches(filter', p))
        <3>1. Asked(line', argv', p) <=>
                  Steered(p) \/ Matches(one.filter, p)
                  \/ (one.bidir /\ Matches(Reversed(one.filter), p))
            BY <1>1, <2>1, <2>2, <2>3, <2>7
        <3>2. CASE one.bidir
            BY <2>4, <2>5, <3>1, <3>2
        <3>3. CASE ~one.bidir
            BY <2>4, <2>6, <3>1, <3>3
        <3> QED BY <3>2, <3>3
    <2>8. pc' \in {"filter", "reverse"} /\ LineTail(line', argv') /\ line' \in Seq(STRING)
        BY <1>1, <2>1, <2>2, <2>3
    <2>9. Proper(line') => Proper(line)
        BY <2>1
    <2> QED BY <2>7, <2>8, <2>9 DEF FilterInv
<1>5. CASE line = <<>>
    <2>1. line' = line
        BY <1>1 DEF Branch, Go
    <2> QED BY <1>5, <2>1 DEF FilterInv
<1> QED BY <1>3, <1>4, <1>5

\* The reverse of a filter is added.
LEMMA AddReverseFilters == ASSUME FilterInv, AddReverse PROVE FilterInv'
<1>1. pc = "reverse" /\ Branch("filter", "release rx") /\ argv' = argv
    BY DEF AddReverse
<1>2. PICK x \in RxIds : FilterAdd(x, filter)
    BY DEF AddReverse
<1>3. CASE ret' # "ok"
    <2>1. pc' = "release rx" /\ line' = line
        BY <1>1, <1>3 DEF Branch, Go
    <2> QED BY <2>1, FilterAway
<1>4. CASE ret' = "ok"
    <2>1. line' = line /\ pc' = "filter"
        BY <1>1, <1>4 DEF Branch, Go
    <2>2. \A p : Steered(p)' <=> Steered(p) \/ Matches(filter, p)
        BY <1>2, <1>4, AddedSteers
    <2>3. line # <<>> => /\ LineTail(line, argv)
                         /\ Proper(line) => \A p \in PacketKinds :
                               Asked(line, argv, p) <=> Steered(p) \/ Matches(filter, p)
        BY <1>1 DEF FilterInv
    <2>4. line \in Seq(STRING)
        BY DEF FilterInv
    <2> QED BY <1>1, <2>1, <2>2, <2>3, <2>4 DEF FilterInv
<1> QED BY <1>3, <1>4

\* The line is read, or is wrong.
LEMMA EndOfClausesFilters == ASSUME FilterInv, EndOfClauses PROVE FilterInv'
<1> DEFINE one == ParseOneFilter(argv)
<1>1. /\ pc = "filter" /\ (argv = <<>> \/ ~one.ok)
      /\ argv' = IF argv = <<>> THEN <<>> ELSE one.rest
      /\ pc' = IF argv' = <<>> THEN "running" ELSE "release rx"
      /\ line' = line /\ UNCHANGED vars
    BY DEF EndOfClauses, Go
<1>2. \A p : Steered(p)' <=> Steered(p)
    BY <1>1 DEF vars, bufferVars, Steered, Mine, Live
<1>3. CASE argv' # <<>>
    <2>1. pc' = "release rx"
        BY <1>1, <1>3
    <2> QED BY <1>1, <2>1, FilterAway
<1>4. CASE argv' = <<>> /\ line # <<>>
    <2>1. /\ line \in Seq(STRING) /\ LineTail(line, argv)
          /\ Proper(line) => \A p \in PacketKinds : Asked(line, argv, p) <=> Steered(p)
        BY <1>1, <1>4 DEF FilterInv
    <2>2. LineTail(line, <<>>) /\ \A p : Asked(line, <<>>, p) <=> Asked(line, argv, p)
        <3>1. CASE argv = <<>>
            BY <2>1, <3>1
        <3>2. CASE argv # <<>>
            <4>1. ~one.ok /\ one.rest = <<>>
                BY <1>1, <1>4, <3>2
            <4> QED BY <2>1, <3>2, <4>1, UnfinishedAsked
        <3> QED BY <3>1, <3>2
    <2>3. pc' = "running"
        BY <1>1, <1>4
    <2> QED BY <1>1, <1>2, <1>4, <2>1, <2>2, <2>3 DEF FilterInv
<1>5. CASE line = <<>>
    BY <1>1, <1>5 DEF FilterInv
<1> QED BY <1>3, <1>4, <1>5

\* A buffer of its own has no filters yet.
LEMMA GetRxFilters == ASSUME BuffersInv, ProgramInv, FilterInv, GetRx PROVE FilterInv'
<1>1. /\ pc = "rx" /\ Branch("filter", "release handle") /\ argv' = argv
    BY DEF GetRx
<1>2. line' = line /\ line \in Seq(STRING) /\ (line # <<>> => argv = line)
    BY <1>1 DEF Branch, Go, FilterInv
<1>3. CASE ret' # "ok"
    <2>1. pc' = "release handle"
        BY <1>1, <1>3 DEF Branch, Go
    <2> QED BY <1>2, <2>1, FilterAway
<1>4. CASE ret' = "ok" /\ line # <<>>
    <2>1. pc' = "filter"
        BY <1>1, <1>4 DEF Branch, Go
    <2>2. PICK c \in Callers, x \in RxIds, q \in Ports : AcquireUnused(x, c, q)
        BY <1>2, <1>4 DEF GetRx
    <2>3. Live = {}
        BY <1>1 DEF ProgramInv, MainInv
    <2>4. \A p : ~Steered(p)'
        BY <1>4, <2>2, <2>3, UnusedSteers
    <2>5. /\ LineTail(line, line) /\ \A p : ~Asked(line, line, p)
        BY <1>2, <1>4, LineEnds
    <2> QED BY <1>1, <1>2, <1>4, <2>1, <2>4, <2>5 DEF FilterInv
<1>5. CASE line = <<>>
    BY <1>2, <1>5 DEF FilterInv
<1> QED BY <1>3, <1>4, <1>5

\* Every step.
LEMMA FilterKeeps ==
    BuffersInv /\ ProgramInv /\ FilterInv /\ [Next]_allVars => FilterInv'
<1> SUFFICES ASSUME BuffersInv, ProgramInv, FilterInv, [Next]_allVars PROVE FilterInv'
    OBVIOUS
<1>1. CASE Library \/ Hashing
    <2>1. line' = line /\ pc' = pc /\ argv' = argv /\ pc = "none"
        BY <1>1 DEF Library, Hashing, mainVars, ProgramInv
    <2> QED BY <2>1, FilterAway
<1>2. CASE Others
    <2>1. PICK b \in Buffer : OtherProcess(b)
        BY <1>2 DEF Others
    <2>2. line' = line /\ pc' = pc /\ argv' = argv /\ filter' = filter
        BY <1>2 DEF Others, mainVars
    <2>3. \A p : Steered(p)' <=> Steered(p)
        BY <2>1, OthersSteer
    <2> QED BY <2>2, <2>3 DEF FilterInv
<1>3. CASE UNCHANGED allVars
    <2>1. line' = line /\ pc' = pc /\ argv' = argv /\ filter' = filter
        BY <1>3 DEF allVars, mainVars
    <2>2. \A p : Steered(p)' <=> Steered(p)
        BY <1>3 DEF allVars, vars, bufferVars, Steered, Mine, Live
    <2> QED BY <2>1, <2>2 DEF FilterInv
<1>4. CASE OpenFile \/ GetHandle
    BY <1>4, FilterAway DEF OpenFile, GetHandle, Branch, Go
<1>5. CASE Capture \/ LeaveReleasingRx \/ LeaveReleasingHandle \/ LeaveClosing
    BY <1>5, FilterAway DEF Capture, LeaveReleasingRx, LeaveReleasingHandle, LeaveClosing, Go
<1> QED BY <1>1, <1>2, <1>3, <1>4, <1>5, GetRxFilters, ReadClauseFilters, AddReverseFilters,
           EndOfClausesFilters DEF Next, Main

\* When main of the capture program has applied the filters of its command line
\* (parse_one_filter, apply_filters), whatever the line and whatever other
\* processes do meanwhile, the card steers to its buffer just the packets that the
\* complete clauses of the line describe, as long as each of its addresses and
\* ports fits in a filter.
THEOREM FiltersAsWrittenHolds == Spec => []FiltersAsWritten
<1>1. Init => FilterInv
    BY FilterInitInv
<1>2. BuffersInv /\ ProgramInv /\ FilterInv /\ [Next]_allVars => FilterInv'
    BY FilterKeeps
<1>3. FilterInv => FiltersAsWritten
    <2> SUFFICES ASSUME FilterInv, pc = "running", line # <<>>, Proper(line), NEW p \in Packets
                 PROVE  Steered(p) <=> Described(line, p)
        BY DEF FiltersAsWritten, Steered
    <2>1. p \in PacketKinds
        BY DeviceAssumption DEF PacketKinds
    <2>2. line \in Seq(STRING) /\ (Asked(line, <<>>, p) <=> Steered(p))
        BY <2>1 DEF FilterInv
    <2> QED BY <2>2, LineEnds
<1> QED BY <1>1, <1>2, <1>3, DeviceInvariance, PTL DEF Spec
=============================================================================
