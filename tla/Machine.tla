------------------------------- MODULE Machine -------------------------------
(***************************************************************************)
(* The emulated machine around the 68000: the main loop of pistorm.c, which *)
(* samples the interrupt level between slices of instructions, the levels  *)
(* and masks of the 68000 as far as interrupts go, and the devices that    *)
(* its accesses reach: Gayle with its IDE drive, the custom chips and the  *)
(* autoconfig chain.                                                       *)
(*                                                                         *)
(* The program the 68000 runs is external.  There are three of them: a     *)
(* disk program polls the drive and uses its registers in any order, an    *)
(* interrupt program waits for the drive's interrupts as an AmigaOS driver *)
(* does, and a boot program configures the boards.                         *)
(***************************************************************************)
EXTENDS Gayle, CustomChips, Autoconfig

CONSTANTS
  Programs,     \* of "disk", "interrupts" and "boot", those to run
  Addresses,    \* sector addresses of the disk program: [lba, head, lba3, lba2, lba1]
  DriverAddresses,  \* of the driver of the interrupt program, and of seeks
  MaxCommands,  \* how many commands the disk program gives
  MaxWrites,    \* how many WRITE commands a program gives
  MaxFaults,    \* how many transfers of a sector fail
  MaxFiddles    \* how often a program changes INTENA or its mask, the board interrupts,
                \* or a transfer fails

\* An address is what five registers of a byte hold.
ASSUME AddressAssumption ==
  Addresses \cup DriverAddresses \subseteq
    [lba : BOOLEAN, head : 0 .. Radix - 1, lba3 : 0 .. Radix - 1, lba2 : 0 .. Radix - 1,
     lba1 : 0 .. Radix - 1]

VARIABLES
  program,
  host,       \* the program's view of its last command
  word,       \* the last word it read from the drive: <<>> when it did not
  int_level, int_mask,  \* CPU_INT_LEVEL and FLAG_INT_MASK of the 68000
  frames,     \* the interrupts being served, innermost first: [mask, level, served]
  driver,     \* of the interrupt program's driver: "ready", "waiting" or "moving"
  a314_int2,  \* a314_check_int2: an interrupt of the a314 is pending and enabled
  outside,    \* INTENA was changed, and not by a word write, since it was read
  commands, writes, faults, fiddles

progVars == <<program, host, word, driver, commands, writes, faults>>
intVars == <<int_level, int_mask, frames, a314_int2, outside, fiddles>>
vars == <<gayleVars, ccVars, acVars, progVars, intVars>>

NoCommand == [command |-> "none", at |-> 0, count |-> 0, moved |-> 0, write |-> 0]

Init ==
  /\ program \in Programs
  /\ GayleInit /\ CustomChipsInit /\ AutoconfigInit
  /\ host = NoCommand /\ word = <<>> /\ driver = "ready"
  /\ int_level = 0 /\ int_mask = 7 /\ frames = <<>>
  /\ a314_int2 = FALSE /\ outside = FALSE
  /\ commands = 0 /\ writes = 0 /\ faults = 0 /\ fiddles = 0

-----------------------------------------------------------------------------
(* Interrupts of the 68000.                                                *)

emu_int2_req == check_gayle_irq \/ a314_int2

\* m68ki_check_interrupts: an interrupt that is taken clears the level.
m68ki_check_interrupts(level, mask, fs) ==
  IF level > mask
  THEN /\ int_level' = 0 /\ int_mask' = level
       /\ frames' = <<[mask |-> mask, level |-> level, served |-> FALSE]>> \o fs
  ELSE int_level' = level /\ int_mask' = mask /\ frames' = fs

\* One turn of the loop in main, up to the instructions of m68k_execute.
MainLoop ==
  /\ program = "interrupts"
  /\ m68ki_check_interrupts(ps_update_irq(emu_int2_req), int_mask, frames)
  /\ UNCHANGED <<gayleVars, ccVars, acVars, progVars, a314_int2, outside, fiddles>>

\* The innermost handler reads INTENA and INTREQ and calls its servers: the IDE
\* driver's asks Gayle and reads the status, the a314's takes its events.
Handler ==
  /\ frames # <<>> /\ ~frames[1].served
  /\ LET Pending(bit) == {"INTEN", bit} \subseteq intena
                         /\ bit \in read_intreqr(emu_int2_req)
         level2 == frames[1].level = 2 /\ Pending("PORTS")
     IN /\ IF level2 /\ ReadGirq
           THEN ReadIdeStatus /\ driver' = IF driver = "waiting" THEN "moving" ELSE driver
           ELSE UNCHANGED <<gayleVars, driver>>
        /\ a314_int2' = (a314_int2 /\ ~level2)
  /\ read_intenar /\ outside' = FALSE
  /\ frames' = [frames EXCEPT ![1].served = TRUE]
  /\ UNCHANGED <<acVars, program, host, word, commands, writes, faults, int_level, int_mask,
                 fiddles>>

\* It clears the request and returns; RTE looks at the level again.
HandlerReturns ==
  /\ frames # <<>> /\ frames[1].served
  /\ write_intreq(FALSE, IF frames[1].level = 2 THEN {"PORTS"} ELSE {"VERTB"})
  /\ m68ki_check_interrupts(int_level, frames[1].mask, Tail(frames))
  /\ UNCHANGED <<gayleVars, acVars, progVars, a314_int2, outside, fiddles>>

MoreFiddles == fiddles + faults < MaxFiddles

BoardInterrupt(bit) ==
  /\ program = "interrupts" /\ MoreFiddles /\ fiddles' = fiddles + 1
  /\ write_intreq(TRUE, {bit})
  /\ UNCHANGED <<gayleVars, acVars, progVars, int_level, int_mask, frames, a314_int2,
                 outside>>

A314Interrupt ==
  /\ program = "interrupts" /\ a314_int2' = TRUE
  /\ UNCHANGED <<gayleVars, ccVars, acVars, progVars, int_level, int_mask, frames,
                 outside, fiddles>>

-----------------------------------------------------------------------------
(* The interrupt program outside its handlers.                             *)

Idle == program = "interrupts" /\ frames = <<>>

Fiddle == Idle /\ MoreFiddles /\ fiddles' = fiddles + 1

\* A word or a long word to INTENA, which only has all bits agree when it names all.
WordIntena ==
  \E set \in BOOLEAN, bits \in {{"INTEN"}, {"PORTS", "VERTB"}, Bits} :
    /\ Fiddle
    /\ \/ write_intena(set, bits)
       \/ write_intena_intreq(set, bits, FALSE, {"PORTS"})
    /\ outside' = (outside /\ bits # Bits)
    /\ UNCHANGED <<gayleVars, acVars, progVars, int_level, int_mask, frames, a314_int2>>

ByteIntena ==
  /\ Fiddle /\ write_intena_8 /\ outside' = TRUE
  /\ UNCHANGED <<gayleVars, acVars, progVars, int_level, int_mask, frames, a314_int2>>

\* The RESET instruction resets the motherboard, not the emulated devices.
ResetInstruction ==
  /\ Fiddle /\ ps_pulse_reset /\ outside' = TRUE
  /\ UNCHANGED <<gayleVars, acVars, progVars, int_level, int_mask, frames, a314_int2>>

WriteMask(mask) ==
  /\ Fiddle /\ m68ki_check_interrupts(int_level, mask, frames)
  /\ UNCHANGED <<gayleVars, ccVars, acVars, progVars, a314_int2, outside>>

\* The program enables what it waits for, and idles.
Settle ==
  /\ Idle /\ driver = "waiting"
  /\ write_intena(TRUE, Bits) /\ outside' = FALSE
  /\ m68ki_check_interrupts(int_level, 0, frames)
  /\ UNCHANGED <<gayleVars, acVars, progVars, a314_int2, fiddles>>

EnableIde ==
  /\ Idle /\ ~gayle_int /\ WriteGint(TRUE)
  /\ UNCHANGED <<ccVars, acVars, progVars, intVars>>

-----------------------------------------------------------------------------
(* Commands and data.                                                      *)

\* The block of the image that an address means, counting heads, tracks and
\* cylinders from 0 and sectors from 1: the driver's own reckoning.
Block(a) ==
  IF a.lba THEN 2 + a.lba1 + Radix * (a.lba2 + Radix * (a.lba3 + Radix * a.head))
  ELSE LET cyl == a.lba2 + Radix * a.lba3
           sec == IF a.lba1 = 0 THEN 1 ELSE a.lba1
           before == {p \in (0 .. Cylinders - 1) \X (0 .. Heads - 1) \X (1 .. Sectors) :
                        \/ p[1] < cyl
                        \/ p[1] = cyl /\ p[2] < a.head
                        \/ p[1] = cyl /\ p[2] = a.head /\ p[3] < sec}
       IN  2 + Cardinality(before)

\* The drive and the sector of a command,
GiveAddress(c, a) ==
  LET chosen == ide_write8(c, "lba4", [head |-> a.head, dev |-> FALSE, lba |-> a.lba])
      low == ide_write8(chosen, "lba1", a.lba1)
      middle == ide_write8(low, "lba2", a.lba2)
  IN ide_write8(middle, "lba3", a.lba3)

\* and the command with the rest of its task file.
Given(c, command, feature, count, a) ==
  LET featured == ide_write8(GiveAddress(c, a), "feature", feature)
      counted == ide_write8(featured, "count", count)
  IN ide_write8(counted, "command", command)

Command(command, feature, count, a) ==
  /\ "BSY" \notin Selected(ide0).status
  /\ command = "WRITE" => writes < MaxWrites
  /\ ide0' = Given(ide0, command, feature, count, a)
  /\ writes' = IF command = "WRITE" THEN writes + 1 ELSE writes
  /\ host' = [command |-> command, at |-> Block(a), moved |-> 0, write |-> writes,
              count |-> IF command = "IDENTIFY" THEN 1
                        ELSE IF count = 0 THEN MaxCount ELSE count]
  /\ word' = <<>>
  /\ UNCHANGED <<gayle_int, ccVars, acVars, program, faults, intVars>>

\* A transfer of a sector may fail.
Fault(io) == faults' = IF io = "ok" THEN faults ELSE faults + 1
Io == IF faults < MaxFaults /\ MoreFiddles THEN IoErrors \cup {"ok"} ELSE {"ok"}

Drq == "DRQ" \in Selected(ide0).status /\ "BSY" \notin Selected(ide0).status

ReadWord(io) ==
  /\ Drq /\ host.command \in {"READ", "IDENTIFY"}
  /\ Fault(io) /\ ReadIdeData(io)
  /\ word' = DataRead(Selected(ide0), io)
  /\ host' = [host EXCEPT !.moved = @ + Len(word')]

\* The words it sends: which write they are of, and which byte of it.
WordToSend == [i \in 1 .. 2 |-> Byte("sent", host.write, host.moved + i)]

WriteWord(io) ==
  /\ Drq /\ host.command = "WRITE"
  /\ Fault(io) /\ WriteIdeData(WordToSend, io)
  /\ word' = <<>>
  /\ host' = [host EXCEPT !.moved = @ + Width(Selected(ide0))]

Move == \E io \in Io : ReadWord(io) \/ WriteWord(io)

\* The disk program: any command at any time, also while another one is moving data.
Origin == [lba |-> FALSE, head |-> 1, lba3 |-> 0, lba2 |-> 0, lba1 |-> 1]

DiskCommand ==
  /\ program = "disk" /\ UNCHANGED driver
  /\ commands < MaxCommands /\ commands' = commands + 1
  /\ \/ \E command \in {"READ", "WRITE", "VERIFY"}, count \in 0 .. 1, a \in Addresses :
          Command(command, "other", count, a)
     \/ \E f \in Features : Command("SETFEATURES", f, 1, Origin)
     \/ \E count \in 1 .. 2 : Command("INTPARAMS", "other", count, Origin)
     \/ \E command \in {"SEEK", "CALIB"}, a \in DriverAddresses : Command(command, "other", 1, a)
     \/ \E command \in {"EDD", "IDENTIFY", "unknown"} : Command(command, "other", 1, Origin)

DiskMove ==
  /\ program = "disk" /\ Move
  /\ UNCHANGED <<driver, ccVars, acVars, program, commands, writes, intVars>>

SelectDrive(dev) ==
  /\ program = "disk" /\ WriteIde("lba4", [Top EXCEPT !.dev = dev])
  /\ UNCHANGED <<ccVars, acVars, progVars, intVars>>

SoftReset(on) ==
  /\ program = "disk" /\ WriteIde("devctrl", on)
  /\ UNCHANGED <<ccVars, acVars, progVars, intVars>>

PollStatus ==
  /\ program = "disk" /\ ReadIdeStatus
  /\ UNCHANGED <<ccVars, acVars, progVars, intVars>>

\* The interrupt program's driver: one command at a time, as ATA has it.  It
\* waits for an interrupt before it moves a sector in, and after one it moved out.
DriverCommand ==
  /\ Idle /\ driver = "ready" /\ gayle_int
  /\ \E command \in {"READ", "WRITE"}, a \in DriverAddresses :
       Command(command, "other", 2, a)
  /\ UNCHANGED commands
  /\ driver' = IF host'.command = "WRITE" THEN "moving" ELSE "waiting"

\* Of a command's data, what has moved in (or out) ends a sector.
AtSectorEnd(h) == h.moved % SectorBytes = 0
AllIn(h) == h.command # "WRITE" /\ h.moved = h.count * SectorBytes

DriverMove ==
  /\ Idle /\ driver = "moving" /\ Drq /\ Move
  /\ driver' = IF AllIn(host') THEN "ready"
                ELSE IF AtSectorEnd(host') THEN "waiting" ELSE driver
  /\ UNCHANGED <<ccVars, acVars, program, commands, writes, intVars>>

\* No more data: the command is over.
DriverDone ==
  /\ Idle /\ driver = "moving" /\ ~Drq /\ driver' = "ready"
  /\ UNCHANGED <<gayleVars, ccVars, acVars, program, host, word, commands, writes, faults,
                 intVars>>

Boot ==
  /\ program = "boot"
  /\ (\E page \in IoPages \cup {FastPage} : Place(page)) \/ Placed \/ Refuse \/ ResetConfig
  /\ UNCHANGED <<gayleVars, ccVars, progVars, intVars>>

Next ==
  \/ MainLoop \/ Handler \/ HandlerReturns \/ A314Interrupt
  \/ \E bit \in {"PORTS", "VERTB"} : BoardInterrupt(bit)
  \/ WordIntena \/ ByteIntena \/ ResetInstruction \/ Settle \/ EnableIde
  \/ \E mask \in {0, 7} : WriteMask(mask)
  \/ DiskCommand \/ DiskMove \/ PollStatus
  \/ \E on \in BOOLEAN : SelectDrive(on) \/ SoftReset(on)
  \/ DriverCommand \/ DriverMove \/ DriverDone
  \/ Boot

\* The 68000 keeps executing, and the main loop keeps turning.
Fairness ==
  /\ WF_vars(MainLoop) /\ WF_vars(Handler) /\ WF_vars(HandlerReturns)
  /\ WF_vars(Settle) /\ WF_vars(DriverMove) /\ WF_vars(DriverDone)

Spec == Init /\ [][Next]_vars /\ Fairness

-----------------------------------------------------------------------------
Image == ide0.drive[0].image

\* What sector s holds, or nothing past the end of the image.
Held(image, s) == IF s \in DOMAIN image THEN image[s] ELSE Blank

\* A word is read from where its command's address says, or is the drive's
\* identity, and no command gives more than was asked for; what changes in the
\* image are the bytes just sent, in the sector that the address says.  An
\* address whose byte offset does not fit an off_t is left out.
TransfersExact ==
  [][LET block == host.at + host.moved \div SectorBytes
         from == host.moved % SectorBytes
         sent == [i \in 1 .. SectorBytes |-> Byte("sent", host.write, host.moved - from + i)]
     IN host.at + host.count <= OffSectors =>
          /\ (host'.moved # host.moved /\ word' # <<>>) =>
               /\ host'.moved <= host.count * SectorBytes
               /\ \A i \in DOMAIN word' :
                    word'[i] = IF host.command = "IDENTIFY" THEN Byte("identify", 0, from + i)
                               ELSE Held(Image, block)[from + i]
          /\ Image' # Image =>
               /\ host.command = "WRITE" /\ host'.moved <= host.count * SectorBytes
               /\ \A s \in DOMAIN Image' \ {block} : Held(Image', s) = Held(Image, s)
               /\ \A i \in 1 .. SectorBytes :
                    Image'[block][i] \in {sent[i], Held(Image, block)[i]}]_vars

\* The registers name a sector that the drive does not have, or one whose byte
\* offset is negative as an off_t.
Nowhere(d) ==
  IF d.lba4.lba THEN ~HasLba \/ (2 + Lba(d)) % (2 * OffSectors) >= OffSectors
  ELSE <<d.lba2 + Radix * d.lba3, d.lba4.head, First(d)>> \notin
         (0 .. Cylinders - 1) \X (0 .. Heads - 1) \X (1 .. Sectors)

Refuses(d, command) ==
  \/ command \in {"READ", "WRITE", "VERIFY"} /\ d.failed
  \/ command \in {"READ", "WRITE"} /\ Nowhere(d)

\* "Report ID NF until fixed" (cmd_initparam_complete): a drive whose geometry was
\* refused, or whose registers name no sector, says IDNF to a command; and for a
\* command to which it says IDNF it moves nothing, not even what an earlier command
\* has left in its buffer, whichever registers are written meanwhile.
RefusedMovesNothing ==
  [][LET d == ide0.drive[0]
         told == ide0'.drive[0]
     IN /\ commands' # commands /\ Refuses(told, host'.command) =>
             "ERR" \in told.status /\ "IDNF" \in told.error
        /\ host.command \in {"READ", "WRITE"} /\ "IDNF" \in d.error =>
             Image' = Image /\ host'.moved = 0]_vars

\* The level that the main loop would give the 68000 now is the higher of the
\* motherboard's and, where INTENA lets it through, level 2 for an emulated
\* device: the shadow is INTENA, unless a byte write or RESET got past it.
LevelSound ==
  program = "interrupts" /\ ~outside =>
    ps_update_irq(emu_int2_req) =
      LET emulated == emu_int2_req /\ {"INTEN", "PORTS"} \subseteq intena
      IN IF BoardIpl < 2 /\ emulated THEN 2 ELSE BoardIpl

\* A driver that waits for the drive is woken, however the program masks,
\* disables and resets around it before it settles.
CommandsFinish == driver = "waiting" ~> driver # "waiting"
==============================================================================
