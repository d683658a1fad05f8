-------------------------------- MODULE Pci ---------------------------------
(***************************************************************************)
(* PCI enumeration (drivers/pci/mod.rs, device.rs and config.rs) as        *)
(* operators.  A machine is its segments, each with the base of its        *)
(* configuration space, a range of buses and whether it could be mapped,   *)
(* and the functions that exist: config[<<base, bus, device, function>>]   *)
(* is the header, with the buses of a bridge and the base address          *)
(* registers.  Identifiers of functions, as PciID, have no segment.        *)
(***************************************************************************)
EXTENDS Integers, Sequences

CONSTANTS
  DeviceNumbers,    \* 0..31
  FunctionNumbers   \* 0..7

ASSUME PciAssumption == DeviceNumbers \union FunctionNumbers \subseteq Nat /\ 0 \in FunctionNumbers

-----------------------------------------------------------------------------
(* Configuration space.                                                    *)

InSegment(s, bus) == bus \in s.start..s.end

\* read32 of the header: no header stands for a failed read and for 0xFFFF.
Header(m, s, bus, dev, fn) ==
  IF InSegment(s, bus) /\ s.mapped /\ <<s.base, bus, dev, fn>> \in DOMAIN m.config
  THEN {m.config[<<s.base, bus, dev, fn>>]} ELSE {}

\* find_entry: the first segment that has the bus.
FindEntry(m, bus) ==
  {m.segments[i] : i \in {i \in DOMAIN m.segments :
     InSegment(m.segments[i], bus) /\ \A j \in 1..(i - 1) : ~InSegment(m.segments[j], bus)}}

-----------------------------------------------------------------------------
(* parse_bars.  A register is absent, a 32 bit or 64 bit memory range, an  *)
(* I/O range or invalid; the one behind a 64 bit range is its upper half,  *)
(* which may look like any of these.  Sizes are left out: each register    *)
(* that is probed is written back, so the configuration space stays.       *)

\* The base address registers that describe a range, by number from 0.
ParseBars(regs) ==
  LET from[i \in 0..6] ==
        CASE i > 5 -> {}
          [] i <= 5 /\ regs[i + 1] \in {"mem32", "io"} -> {i} \union from[i + 1]
          [] i < 5 /\ regs[i + 1] = "mem64" -> {i} \union from[i + 2]
          [] OTHER -> from[i + 1]
  IN  from[0]

-----------------------------------------------------------------------------
(* scan.                                                                   *)

\* PCIFunction::new
NewFunction(m, bus, dev, fn) ==
  {[id |-> <<bus, dev, fn>>, class |-> h.class, bars |-> ParseBars(h.regs)] :
     h \in UNION {Header(m, s, bus, dev, fn) : s \in FindEntry(m, bus)}}

\* The functions of a bus that are visited, <<device, function>>: of every
\* device function 0 and, if it has several, the others that exist.
Visited(m, s, bus) ==
  {v \in DeviceNumbers \X FunctionNumbers :
     \E h \in Header(m, s, bus, v[1], 0) : v[2] = 0 \/ (h.multi /\ Header(m, s, bus, v[1], v[2]) # {})}

\* The order of the two loops.
Precedes(v, w) == v[1] < w[1] \/ (v[1] = w[1] /\ v[2] < w[2])
=============================================================================
