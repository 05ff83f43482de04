-------------------------------- MODULE Gayle --------------------------------
(***************************************************************************)
(* The Gayle chip as gayle.c emulates it: the IDE registers at their       *)
(* addresses and the enable bit of the IDE interrupt.  Its other registers *)
(* are stored and read back, and are left out.                             *)
(***************************************************************************)
EXTENDS Ide

VARIABLE gayle_int  \* bit 7 of GINT: the IDE interrupt is enabled

gayleVars == <<ide0, gayle_int>>

GayleInit == IdeInit /\ gayle_int = FALSE

\* The drive's line, whichever drive is selected.
check_gayle_irq == gayle_int /\ ide0.drive[0].intrq

\* What GIRQ reads: the line itself, whatever was written there to clear it.
ReadGirq == ide0.drive[0].intrq

WriteGint(on) == gayle_int' = on /\ UNCHANGED ide0

WriteIde(r, v) == ide0' = ide_write8(ide0, r, v) /\ UNCHANGED gayle_int

ReadIdeStatus == ide0' = ReadStatus(ide0) /\ UNCHANGED gayle_int

ReadIdeData(io) == ide0' = ide_read16_data(ide0, io) /\ UNCHANGED gayle_int

WriteIdeData(bytes, io) ==
  ide0' = ide_write16_data(ide0, bytes, io) /\ UNCHANGED gayle_int
==============================================================================
