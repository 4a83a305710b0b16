-------------------------------- MODULE Queries --------------------------------
(***************************************************************************)
(* Calls of libs/exanic that ask the kernel: config.c, transceiver.c,      *)
(* eeprom.c and exanic_get_sysfs_path of util.c.                           *)
(*                                                                         *)
(* Each is a ladder of steps.  A step may take something (a socket, a      *)
(* list, memory), may be followed by giving something back, and may fail,  *)
(* whereupon the call gives back what its exit for that step names and     *)
(* returns an error.                                                       *)
(***************************************************************************)
EXTENDS Integers, Sequences

CONSTANTS
    Interfaces, \* lists of what the interfaces of a host are
    TableSizes, \* sizes of a caller's table, in halves of an entry
    Cages,      \* form factor, physical ports, logical ports
    Modules     \* type and length of a transceiver's EEPROM, and whether it is copper

\* An EEPROM has two pages at least.
ASSUME QueryAssumption ==
    /\ Interfaces \subseteq Seq(STRING) /\ TableSizes \subseteq Nat
    /\ Cages \subseteq [ff : {"sfp", "qsfp", "qsfpdd", "unknown"}, nports : Nat, num_ports : Nat]
    /\ Modules \subseteq [type : {"sfp", "qsfp", "qsfpdd"}, len : Nat, copper : BOOLEAN]
    /\ \A m \in Modules : m.len >= 256

VARIABLES
    query,      \* the call
    steps,      \* what is left of its ladder
    held,       \* what it has taken and not given back
    outcome,    \* "none" until it returns "ok" or "failed"
    rest,       \* exanic_get_all_ports: interfaces still to look at
    table, table_size,  \* its result, and the room for it
    cage, port, module, \* exanic_get_xcvr_info and _diag_info: what they find
    bytes       \* what of the EEPROM each value of a result comes from

queryVars == <<query, steps, held, outcome, rest, table, table_size, cage, port, module, bytes>>

-----------------------------------------------------------------------------
(* Ladders                                                                 *)

\* A step that takes, then gives back, or on failure gives back what it names.
Step(name, takes, gives, undo) == [name |-> name, takes |-> takes, gives |-> gives, undo |-> undo]
Ask(name, undo)    == Step(name, {}, {}, undo)
Take(what, undo)   == Step(what, {what}, {}, undo)
Give(what)         == Step("free", {}, what, {})

\* The same calls made by a caller that holds more and gives that back too.
Within(ladder, more) == [i \in 1 .. Len(ladder) |-> [ladder[i] EXCEPT !.undo = @ \cup more]]

\* check_exanic_and_port_number and exanic_get_interface_name
InterfaceName == <<Ask("port usable", {}), Ask("if_indextoname", {})>>

\* exanic_get_interface_addr; "found" fails when no entry is the interface's.
InterfaceAddr == InterfaceName \o
    <<Take("ifaddrs", {}), Ask("found", {"ifaddrs"}), Give({"ifaddrs"})>>

\* exanic_find_port_by_interface_name of an interface that is no bond
FindByName ==
    <<Take("socket", {}), Ask("drvinfo", {"socket"}), Ask("is exanic", {"socket"}),
      Ask("ifinfo", {"socket"}), Give({"socket"})>>

\* exanic_find_port_by_ip_addr
FindByAddr == <<Take("ifaddrs", {}), Ask("found", {"ifaddrs"})>>
              \o Within(FindByName, {"ifaddrs"}) \o <<Give({"ifaddrs"})>>

\* exanic_get_ip_routes with netlink_request
Routes == <<Ask("port usable", {}), Take("socket", {}), Ask("send", {"socket"}),
            Ask("recv", {"socket"}), Give({"socket"})>>

\* Mutant: the socket stays open when the second ioctl fails.
ModuleEepromKeeping == InterfaceName \o
    <<Take("socket", {}), Ask("modinfo", {"socket"}), Take("eeprom", {"socket"}),
      Ask("eeprom ioctl", {"eeprom"}), Give({"socket"})>>

\* get_module_eeprom
ModuleEeprom == InterfaceName \o
    <<Take("socket", {}), Ask("modinfo", {"socket"}), Take("eeprom", {"socket"}),
      Ask("eeprom ioctl", {"eeprom", "socket"}), Give({"socket"})>>

\* exanic_get_xcvr_info
XcvrInfo == ModuleEeprom \o <<Ask("fields", {}), Give({"eeprom"})>>

\* exanic_get_xcvr_diag_info
XcvrDiagInfo == <<Ask("width", {}), Ask("lane", {})>> \o ModuleEeprom \o
    <<Take("info", {"eeprom"}), Ask("diag", {"info", "eeprom"}), Give({"eeprom"})>>

\* exanic_eeprom_acquire with get_eeprom_info, and exanic_eeprom_free
EepromAcquire == <<Take("handle", {})>> \o Within(InterfaceName, {"handle"}) \o
    <<Take("socket", {"handle"}), Ask("read byte", {"socket", "handle"})>>
EepromFree == <<Give({"socket", "handle"})>>

\* exanic_get_sysfs_path
SysfsPath == InterfaceName \o <<Ask("realpath", {}), Ask("room", {})>>

Ladder == [ interface_addr |-> InterfaceAddr, find_by_name |-> FindByName,
            find_by_addr |-> FindByAddr, routes |-> Routes, xcvr_info |-> XcvrInfo,
            diag_info |-> XcvrDiagInfo, eeprom_acquire |-> EepromAcquire,
            eeprom |-> EepromAcquire \o EepromFree, sysfs_path |-> SysfsPath,
            all_ports |-> <<Take("names", {})>> ]

\* What a call that succeeds leaves with its caller.
Handed(c) == CASE c = "diag_info" -> {"info"}
               [] c = "eeprom_acquire" -> {"handle", "socket"}
               [] OTHER -> {}

-----------------------------------------------------------------------------
(* Transceivers                                                            *)

\* exanic_get_interface_width; -1 for what it does not support.
Width(c) ==
    CASE c.ff = "sfp"    -> 1
      [] c.ff = "qsfp"   -> IF c.num_ports = c.nports THEN 4 ELSE 1
      [] c.ff = "qsfpdd" -> IF c.num_ports = 2 * c.nports THEN 4
                            ELSE IF c.num_ports = 8 * c.nports THEN 1 ELSE -1
      [] OTHER -> -1

PhysWidth(c) == CASE c.ff = "sfp" -> 1 [] c.ff = "qsfp" -> 4 [] c.ff = "qsfpdd" -> 8

\* Mutant: lanes are counted from the first of the cage.
LaneFirst(c, p) == 0

\* exanic_get_interface_lane_index
LaneIndex(c, p) == (p * Width(c)) % PhysWidth(c)

QsfpddOffset(p, a) == CASE p = 0 -> a [] p = 1 -> 128 + a [] p = 16 -> 256 + a [] OTHER -> 384 + a

\* The three exanic_get_xcvr_info functions.  Copper has no wavelength, nor has
\* a QSFP-DD module without its upper pages.
InfoBytes(m) ==
    CASE m.type = "sfp"  ->
            [vendor_name |-> 20 .. 35, vendor_pn |-> 40 .. 55, vendor_rev |-> 56 .. 59,
             vendor_sn |-> 68 .. 83, date_code |-> 84 .. 91, bit_rate |-> {12}, tech |-> {8},
             wavelength |-> IF m.copper THEN {} ELSE 60 .. 61]
      [] m.type = "qsfp" ->
            [vendor_name |-> 148 .. 163, vendor_pn |-> 168 .. 183, vendor_rev |-> 184 .. 185,
             vendor_sn |-> 196 .. 211, date_code |-> 212 .. 219, bit_rate |-> {140}, tech |-> {147},
             wavelength |-> IF m.copper THEN {} ELSE 186 .. 187]
      [] OTHER           ->
            [vendor_name |-> 129 .. 144, vendor_pn |-> 148 .. 163, vendor_rev |-> 164 .. 165,
             vendor_sn |-> 166 .. 181, date_code |-> 182 .. 189, bit_rate |-> {}, tech |-> {212},
             wavelength |-> IF m.copper \/ m.len < 640 THEN {}
                            ELSE QsfpddOffset(1, 138) .. QsfpddOffset(1, 138) + 1]

\* The three exanic_get_xcvr_diag_info functions: which pages they need, and where
\* the values of the lanes of a port come from.  An SFP module has one lane.
DiagFails(m) == \/ m.type = "sfp" /\ m.len < 512
                \/ m.type = "qsfpdd" /\ m.len < 640

Kinds == {"rx_power", "tx_power", "tx_bias"}

LaneStart(m, kind) ==
    CASE m.type = "sfp"  -> 256 + [rx_power |-> 104, tx_power |-> 102, tx_bias |-> 100][kind]
      [] m.type = "qsfp" -> [rx_power |-> 34, tx_power |-> 50, tx_bias |-> 42][kind]
      [] OTHER -> QsfpddOffset(17, [rx_power |-> 186, tx_power |-> 154, tx_bias |-> 170][kind])

DiagBytes(c, p, m) ==
    [v \in (IF m.type = "sfp" THEN {0} ELSE 0 .. Width(c) - 1) \X Kinds |->
        LET first == LaneStart(m, v[2]) + IF m.type = "sfp" THEN 0 ELSE 2 * (LaneIndex(c, p) + v[1])
        IN  {first, first + 1}]

-----------------------------------------------------------------------------
QueryInit ==
    /\ query \in DOMAIN Ladder /\ steps = Ladder[query]
    /\ held = {} /\ outcome = "none"
    /\ table = <<>> /\ bytes = <<>>
    /\ IF query = "all_ports" THEN rest \in Interfaces /\ table_size \in TableSizes
                             ELSE rest = <<>> /\ table_size = 0
    /\ IF query \in {"xcvr_info", "diag_info"}
       THEN cage \in Cages /\ module \in Modules /\ port \in 0 .. cage.num_ports - 1
       ELSE cage = "none" /\ module = "none" /\ port = 0

Input == <<query, table_size, cage, port, module>>

\* The steps whose outcome the model knows.
May(name) == /\ name = "width" => Width(cage) # -1
             /\ name = "diag" => ~DiagFails(module)
MayFail(name) == name \notin {"free", "lane", "fields"} /\ ~(name \in {"width", "diag"} /\ May(name))

Succeed ==
    /\ outcome = "none" /\ steps # <<>>
    /\ May(Head(steps).name)
    /\ held' = (held \cup Head(steps).takes) \ Head(steps).gives
    /\ steps' = Tail(steps)
    /\ bytes' = CASE Head(steps).name = "fields" -> InfoBytes(module)
                  [] Head(steps).name = "diag" -> DiagBytes(cage, port, module)
                  [] OTHER -> bytes
    /\ UNCHANGED <<Input, outcome, rest, table>>

Fail ==
    /\ outcome = "none" /\ steps # <<>>
    /\ MayFail(Head(steps).name)
    /\ held' = held \ Head(steps).undo
    /\ outcome' = "failed"
    /\ UNCHANGED <<Input, steps, rest, table, bytes>>

Room == Len(table) * 2 < table_size

\* exanic_get_all_ports, one interface: whether it is an ExaNIC's, its ioctls may
\* fail; what they take they give back (see FindByName).
NextPort ==
    /\ outcome = "none" /\ steps = <<>> /\ query = "all_ports" /\ rest # <<>> /\ Room
    /\ \/ Head(rest) # "other" /\ table' = Append(table, Head(rest))
       \/ UNCHANGED table
    /\ rest' = Tail(rest)
    /\ UNCHANGED <<Input, steps, held, outcome, bytes>>

AllPorts ==
    /\ outcome = "none" /\ steps = <<>> /\ query = "all_ports" /\ (rest = <<>> \/ ~Room)
    /\ held' = held \ {"names"}
    /\ outcome' = "ok"
    /\ UNCHANGED <<Input, steps, rest, table, bytes>>

Returns ==
    /\ outcome = "none" /\ steps = <<>> /\ query # "all_ports"
    /\ outcome' = "ok"
    /\ UNCHANGED <<Input, steps, held, rest, table, bytes>>

QueryNext == Succeed \/ Fail \/ NextPort \/ AllPorts \/ Returns

-----------------------------------------------------------------------------
\* Whichever step fails, a call that returns an error has given back everything,
\* and one that succeeds has kept what it returns to its caller and no more.  A
\* table gets no more entries than fit (part of an entry left over is taken for room).
LaddersClean ==
    /\ outcome = "failed" => held = {}
    /\ outcome = "ok" => held = Handed(query)
    /\ table_size % 2 = 0 => 2 * Len(table) <= table_size

\* Where the EEPROM keeps values of a kind, all lanes together.
Area(m, kind) ==
    LET bytes_of_all == (CASE m.type = "sfp" -> 1 [] m.type = "qsfp" -> 4 [] OTHER -> 8) * 2
    IN  LaneStart(m, kind) .. LaneStart(m, kind) + bytes_of_all - 1

PortsPerCage(c) == PhysWidth(c) \div Width(c)

\* The values of a result come from bytes that the module has, no two from the
\* same; those of a lane from the area of their kind, and those of two ports that
\* share a cage from different lanes.  (A QSFP module in a QSFP-DD cage has no
\* lanes 4 to 7: the code reads for them what follows, which is of another kind.)
FieldsRight ==
    outcome = "ok" /\ query \in {"xcvr_info", "diag_info"} =>
        /\ \A v, w \in DOMAIN bytes : v # w => bytes[v] \cap bytes[w] = {}
           \/ (query = "diag_info" /\ module.type = "qsfp" /\ cage.ff = "qsfpdd")
        /\ \A v \in DOMAIN bytes : bytes[v] \subseteq 0 .. module.len - 1
        /\ query = "diag_info" /\ module.type = cage.ff =>
              /\ \A v \in DOMAIN bytes : bytes[v] \subseteq Area(module, v[2])
              /\ \A p \in (0 .. cage.num_ports - 1) \ {port}, v \in DOMAIN bytes :
                    p \div PortsPerCage(cage) = port \div PortsPerCage(cage) =>
                        \A w \in DOMAIN bytes : DiagBytes(cage, p, module)[w] # bytes[v]
=============================================================================
