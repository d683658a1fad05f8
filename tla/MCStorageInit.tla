--------------------------- MODULE MCStorageInit ----------------------------
(***************************************************************************)
(* Small machines: a bridge that names its own bus, one whose range is     *)
(* reversed and one to a bus outside, a device with several functions,     *)
(* two segments, a segment that is not mapped, an entry of MCFG whose      *)
(* buses are in the wrong order, and two segments with the same bus.       *)
(***************************************************************************)
EXTENDS StorageInit, MCGpt

Fn(class, multi, regs) ==
  [class |-> class, multi |-> multi, bridge |-> FALSE, secondary |-> 0, subordinate |-> 0, regs |-> regs]
Ahci == Fn("ahci", FALSE, <<"mem64", "io", "absent", "invalid", "absent", "mem32">>)
NoAbar == Fn("ahci", FALSE, <<"io", "absent", "absent", "absent", "mem64", "mem32">>)
Other(multi) == Fn("other", multi, <<"mem32", "absent", "absent", "absent", "absent", "mem64">>)
Bridge(sec, sub) == [Other(FALSE) EXCEPT !.bridge = TRUE, !.secondary = sec, !.subordinate = sub]

Segment(base, start, end, mapped) == [base |-> base, start |-> start, end |-> end, mapped |-> mapped]

\* Drives with two partitions, or with a damaged first block.
PlainImages ==
  {Image(mbr, Primary(a), GptHeader(LastBlock, 1, 3, 9, 10, a), a) : mbr \in BOOLEAN, a \in {<<E(3, 4), E(7, 9)>>}}

Machine(segments, config) == [segments |-> segments, config |-> config, ports |-> 2]

OneSegment ==
  Machine(<<Segment(1, 0, 1, TRUE)>>,
          <<1, 0, 0, 0>> :> Other(TRUE) @@ <<1, 0, 0, 1>> :> Ahci
            @@ <<1, 0, 1, 0>> :> Bridge(0, 1) @@ <<1, 1, 0, 0>> :> Ahci @@ <<1, 1, 1, 0>> :> NoAbar)

TwoSegments(mapped) ==
  Machine(<<Segment(1, 0, 0, TRUE), Segment(2, 3, 3, mapped)>>,
          <<1, 0, 0, 0>> :> Bridge(3, 4) @@ <<1, 0, 1, 0>> :> Ahci
            @@ <<2, 3, 0, 0>> :> Ahci @@ <<2, 3, 1, 0>> :> Bridge(5, 3))

BadEntry == Machine(<<Segment(1, 0, 0, TRUE), Segment(2, 4, 3, TRUE)>>, <<1, 0, 0, 0>> :> Ahci)

SharedBus ==
  [Machine(<<Segment(1, 0, 0, TRUE), Segment(2, 0, 0, TRUE)>>,
           <<1, 0, 0, 0>> :> Ahci @@ <<2, 0, 0, 0>> :> Other(FALSE) @@ <<2, 0, 1, 0>> :> Ahci)
     EXCEPT !.ports = 0]

\* One controller with one port, and drives with all the images of MCGpt.
OneDrive == [Machine(<<Segment(1, 0, 0, TRUE)>>, <<1, 0, 0, 0>> :> Ahci) EXCEPT !.ports = 1]

MCDriveImages(m) == IF m = OneDrive THEN MCImages ELSE PlainImages

MCMachines == {OneDrive, OneSegment, TwoSegments(TRUE), TwoSegments(FALSE), BadEntry, SharedBus}
=============================================================================
