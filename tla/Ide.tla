--------------------------------- MODULE Ide ---------------------------------
(***************************************************************************)
(* The IDE controller of ide/ide.c: two task files, of which only drive 0  *)
(* is attached, and the image file behind it.  Every register access of    *)
(* the 68000 is one operator on the controller; a command runs to its end, *)
(* or to the first sector of its data, inside the write that issues it.    *)
(*                                                                         *)
(* A register of 8 bits holds 0 .. Radix - 1, a sector is SectorBytes      *)
(* bytes and an off_t counts 2 * OffSectors sectors before it wraps, so    *)
(* that small instances have the same edges.  A byte of the image is a     *)
(* value; status and error are sets of the names of their bits.            *)
(***************************************************************************)
EXTENDS Integers, Sequences, SequencesExt

CONSTANTS
  Radix,        \* 256
  SectorBytes,  \* 512
  MaxCount,     \* 256: what a count of 0 stands for
  OffSectors,   \* 2^22: 512 times more does not fit an off_t of 32 bits
  Heads, Sectors, Cylinders, HasLba,  \* what the image's identify block says
  FileSectors   \* the size of the image, with its two sectors of header

ASSUME IdeAssumption ==
  /\ {Radix, SectorBytes, MaxCount, OffSectors, Heads, Sectors, Cylinders,
      FileSectors} \subseteq Nat \ {0}
  /\ Sectors < Radix /\ Heads <= Radix /\ HasLba \in BOOLEAN
  /\ SectorBytes % 2 = 0
  /\ FileSectors = 2 + Heads * Sectors * Cylinders /\ FileSectors <= OffSectors

VARIABLE ide0  \* the controller, its drives and, in the drive, its file

Top == [head |-> 0, dev |-> FALSE, lba |-> FALSE]

\* A byte by where it comes from: what it is of, which one, and its place there.
Byte(of, n, i) == <<of, n, i>>
Blank == [i \in 1 .. SectorBytes |-> Byte("zero", 0, 0)]

\* ide_allocate and ide_attach: drive 1 stays as calloc left it.
Drive(present) ==
  [present |-> present, intrq |-> FALSE, failed |-> FALSE, eightbit |-> FALSE,
   state |-> "IDLE", data |-> Blank, dptr |-> 0, offset |-> 0, length |-> 0,
   image |-> [s \in (IF present THEN 0 .. FileSectors - 1 ELSE {}) |->
                [i \in 1 .. SectorBytes |-> Byte("image", s, i)]],
   pos |-> 2, status |-> {}, error |-> {}, feature |-> "none", count |-> 0,
   lba1 |-> 0, lba2 |-> 0, lba3 |-> 0, lba4 |-> Top, srst |-> FALSE]

-----------------------------------------------------------------------------
(* The file: sectors from a position, which lseek sets.                    *)

\* 512 * offset in an off_t of 32 bits; lseek fails on a negative one.
SeekTo(offset) ==
  LET wrapped == offset % (2 * OffSectors)
  IN IF offset # -1 /\ wrapped < OffSectors THEN wrapped ELSE -1

Seek(d, offset) == IF SeekTo(offset) = -1 THEN d ELSE [d EXCEPT !.pos = SeekTo(offset)]

Sector(d, s) == IF s \in DOMAIN d.image THEN d.image[s] ELSE Blank

\* write extends the file with zeros up to where it writes.
Stored(d, data) ==
  [s \in DOMAIN d.image \cup 0 .. d.pos |->
     IF s = d.pos THEN data ELSE Sector(d, s)]

IoErrors == {"EIO", "short"}

xlate_errno(d, io) ==
  [d EXCEPT !.status = @ \cup {"ERR"},
            !.error = IF io = "EIO" THEN {"UNC"} ELSE {"AMNF"}]

\* At the end of the file read returns less than a sector.
ide_read_sector(d, io) ==
  LET e == IF io = "ok" /\ d.pos \notin DOMAIN d.image THEN "short" ELSE io IN
  IF e = "ok"
  THEN [d EXCEPT !.data = d.image[d.pos], !.pos = @ + 1, !.dptr = 0,
                 !.offset = @ + SectorBytes]
  ELSE xlate_errno([d EXCEPT !.dptr = 0, !.status = @ \ {"DSC"}], e)

\* A write may end before the sector does.
ide_write_sector(d, io) ==
  LET half == [i \in 1 .. SectorBytes |->
                 IF 2 * i <= SectorBytes THEN d.data[i] ELSE Sector(d, d.pos)[i]]
  IN IF io = "ok"
     THEN [d EXCEPT !.image = Stored(d, d.data), !.pos = @ + 1, !.dptr = 0,
                    !.offset = @ + SectorBytes]
     ELSE xlate_errno([d EXCEPT !.dptr = 0, !.status = @ \ {"DSC"},
                                !.image = IF io = "short" THEN Stored(d, half) ELSE @],
                      io)

-----------------------------------------------------------------------------
(* How commands end.                                                       *)

ready(d) ==
  [d EXCEPT !.status = (@ \ {"BSY", "DRQ"}) \cup {"DRDY"}, !.state = "IDLE"]

completed(d) == [ready(d) EXCEPT !.intrq = TRUE]

drive_failed(d) ==
  ready([d EXCEPT !.status = @ \cup {"ERR"}, !.error = {"IDNF"}])

data_in_state(d) ==
  [d EXCEPT !.state = "DATA_IN", !.dptr = SectorBytes, !.intrq = TRUE,
            !.status = (@ \ {"BSY"}) \cup {"DRQ"}]

data_out_state(d) ==
  [d EXCEPT !.state = "DATA_OUT", !.dptr = 0, !.intrq = TRUE,
            !.status = (@ \ {"BSY", "DRDY"}) \cup {"DRQ"}]

edd_setup(d) ==
  ready([d EXCEPT !.error = {"AMNF"}, !.lba1 = 1, !.lba2 = 0, !.lba3 = 0,
                  !.lba4 = Top, !.count = 1])

\* What a command that could not find its sector says.
NotFound(d) ==
  [d EXCEPT !.status = (@ \ {"DSC"}) \cup {"ERR"}, !.error = @ \cup {"IDNF"}]

Aborted(d) == [d EXCEPT !.status = @ \cup {"ERR"}, !.error = @ \cup {"ABRT"}]

\* The sector's address in the image, or -1.  A sector number of 0 is taken,
\* and kept, as 1; the head is compared with all the bits of its register.
First(d) == IF d.lba1 = 0 THEN 1 ELSE d.lba1
Lba(d) == ((d.lba4.head * Radix + d.lba3) * Radix + d.lba2) * Radix + d.lba1

\* Mutated xlate_block: the sectors of a track count from 0.
xlate_from_zero(d) ==
  LET cyl == d.lba3 * Radix + d.lba2
      e == [d EXCEPT !.lba1 = First(d)]
  IN IF d.lba4.lba /\ HasLba THEN [d EXCEPT !.offset = 2 + Lba(d)]
     ELSE IF \/ e.lba1 > Sectors \/ cyl >= Cylinders
             \/ d.lba4.dev \/ d.lba4.lba \/ d.lba4.head >= Heads
     THEN [e EXCEPT !.offset = -1]
     ELSE [e EXCEPT !.offset = 2 + (cyl * Heads + d.lba4.head) * Sectors + e.lba1]

xlate_block(d) ==
  LET cyl == d.lba3 * Radix + d.lba2
      e == [d EXCEPT !.lba1 = First(d)]
  IN IF d.lba4.lba /\ HasLba THEN [d EXCEPT !.offset = 2 + Lba(d)]
     ELSE IF \/ e.lba1 > Sectors \/ cyl >= Cylinders
             \/ d.lba4.dev \/ d.lba4.lba \/ d.lba4.head >= Heads
     THEN [e EXCEPT !.offset = -1]
     ELSE [e EXCEPT !.offset = 1 + (cyl * Heads + d.lba4.head) * Sectors + e.lba1]

Length(d) == IF d.count = 0 THEN MaxCount ELSE d.count

-----------------------------------------------------------------------------
(* Commands of one drive.                                                  *)

cmd_identify(d) ==
  [data_in_state([d EXCEPT !.data = [i \in 1 .. SectorBytes |-> Byte("identify", 0, i)]])
     EXCEPT !.dptr = 0, !.length = 1]

\* The geometry must be the drive's own; one that is not is held against it.
cmd_initparam(d) ==
  IF d.count # Sectors \/ d.lba4.head + 1 # Heads
  THEN completed([Aborted(d) EXCEPT !.failed = TRUE])
  ELSE completed([d EXCEPT !.failed = FALSE])

cmd_readsectors(d) ==
  LET e == [xlate_block(d) EXCEPT !.status = (@ \ {"BSY"}) \cup {"DRQ", "DSC", "DRDY"},
                                  !.length = Length(d)]
  IN IF d.failed THEN drive_failed(d)
     ELSE IF SeekTo(e.offset) = -1 THEN completed(NotFound(e))
     ELSE data_in_state(Seek(e, e.offset))

\* Mutated cmd_writesectors: a drive whose geometry was refused is written to.
cmd_writesectors_failed(d) ==
  LET e == [xlate_block(d) EXCEPT !.status = @ \cup {"DRQ"}, !.length = Length(d)]
  IN IF SeekTo(e.offset) = -1 THEN completed(NotFound(e))
     ELSE data_out_state(Seek(e, e.offset))

cmd_writesectors(d) ==
  LET e == [xlate_block(d) EXCEPT !.status = @ \cup {"DRQ"}, !.length = Length(d)]
  IN IF d.failed THEN drive_failed(d)
     ELSE IF SeekTo(e.offset) = -1 THEN completed(NotFound(e))
     ELSE data_out_state(Seek(e, e.offset))

\* Nothing is read: the last sector has an address the file may seek to.
cmd_verifysectors(d) ==
  LET e == [xlate_block(d) EXCEPT !.length = Length(d)]
      last == IF e.offset = -1 THEN -1 ELSE e.offset + e.length - 1
      f == IF SeekTo(last) = -1 THEN NotFound(e) ELSE Seek(e, last)
  IN IF d.failed THEN drive_failed(d)
     ELSE completed([f EXCEPT !.status = @ \cup {"DSC"}])

\* offset is the last command's; xlate_block is never 0, so this always aborts.
cmd_recalibrate(d) ==
  LET e == IF d.failed THEN drive_failed(d) ELSE d
      x == xlate_block(e)
      f == IF e.offset = -1 THEN e ELSE [x EXCEPT !.offset = e.offset]
  IN completed([(IF e.offset = -1 \/ x.offset # 0 THEN Aborted(f) ELSE f)
                  EXCEPT !.status = @ \cup {"DSC"}])

cmd_seek(d) ==
  LET e == xlate_block(IF d.failed THEN drive_failed(d) ELSE d)
      f == IF SeekTo(e.offset) = -1 THEN NotFound(e) ELSE Seek(e, e.offset)
  IN completed([f EXCEPT !.status = @ \cup {"DSC"}])

Features == {"8bit", "pio", "mode", "16bit", "other"}

\* A transfer mode above PIO ("mode": a count of 0x20 or more) is refused.
cmd_setfeatures(d) ==
  completed(CASE d.feature = "8bit"  -> [d EXCEPT !.eightbit = TRUE]
              [] d.feature = "16bit" -> [d EXCEPT !.eightbit = FALSE]
              [] d.feature = "pio"   -> d
              [] OTHER               -> Aborted(d))

\* After a failed transfer.  offset was set in sectors and then advanced in
\* bytes, and the image's header is not taken off it.
ide_set_error(d) ==
  LET track == Cylinders * Sectors
      n == d.offset \div Sectors
      located ==
        IF d.lba4.lba
        THEN [d EXCEPT !.lba1 = d.offset % Radix,
                       !.lba2 = (d.offset \div Radix) % Radix,
                       !.lba3 = (d.offset \div (Radix * Radix)) % Radix,
                       !.lba4.head = (d.offset \div (Radix * Radix * Radix)) % Radix]
        ELSE [d EXCEPT !.lba1 = ((d.offset % Sectors) + 1) % Radix,
                       !.lba4.head = (n \div track) % Radix,
                       !.offset = n % track,
                       !.lba2 = (n % track) % Radix,
                       !.lba3 = ((n % track) \div Radix) % Radix]
  IN completed([located EXCEPT !.count = d.length % Radix,
                               !.status = @ \cup {"ERR"}])

-----------------------------------------------------------------------------
(* The data register.                                                      *)

Width(d) == IF d.eightbit THEN 1 ELSE 2

\* Mutated SectorDone: the host is told of the last sector only.
SectorDoneSilent(d) ==
  LET e == [d EXCEPT !.length = @ - 1]
  IN IF e.length = 0 THEN completed(e) ELSE e

\* A sector has passed: the next one, or the end of the command.
SectorDone(d) ==
  LET e == [d EXCEPT !.length = @ - 1, !.intrq = TRUE]
  IN IF e.length = 0 THEN completed(e) ELSE e

\* What a read of the data register leaves, and what it returns.
ide_data_in(d, io) ==
  LET fresh == d.dptr = SectorBytes
      e == IF fresh THEN ide_read_sector(d, io) ELSE d
      f == [e EXCEPT !.dptr = @ + Width(e)]
  IN IF d.state # "DATA_IN" THEN d
     ELSE IF fresh /\ "ERR" \in e.status THEN ide_set_error(e)
     ELSE IF f.dptr = SectorBytes THEN SectorDone(f) ELSE f

DataRead(d, io) ==
  LET e == IF d.dptr = SectorBytes THEN ide_read_sector(d, io) ELSE d
  IN IF d.state # "DATA_IN" \/ e.dptr = SectorBytes \/ "ERR" \in e.status THEN <<>>
     ELSE SubSeq(e.data, e.dptr + 1, e.dptr + Width(e))

\* bytes is the word as the 68000 wrote it; of it, an eight bit drive takes one.
ide_data_out(d, bytes, io) ==
  LET e == [d EXCEPT !.data = [i \in 1 .. SectorBytes |->
                                 IF i \in d.dptr + 1 .. d.dptr + Width(d)
                                 THEN bytes[i - d.dptr] ELSE @[i]],
                     !.dptr = @ + Width(d)]
      f == ide_write_sector(e, io)
  IN IF d.state # "DATA_OUT" THEN d
     ELSE IF e.dptr # SectorBytes THEN e
     ELSE IF io # "ok" THEN ide_set_error(f)
     ELSE IF f.length = 1 THEN SectorDone([f EXCEPT !.status = @ \cup {"DSC"}])
     ELSE SectorDone(f)

-----------------------------------------------------------------------------
(* The controller.                                                         *)

Selected(c) == c.drive[c.selected]
OnSelected(c, d) == [c EXCEPT !.drive[c.selected] = d]

OnPresent(c, Op(_)) ==
  [c EXCEPT !.drive = [i \in {0, 1} |-> IF @[i].present THEN Op(@[i]) ELSE @[i]]]

ResetDrive(d) == [edd_setup(d) EXCEPT !.status = {"DRDY"}, !.eightbit = FALSE]
BusyDrive(d) == [d EXCEPT !.status = @ \cup {"BSY"}]

ide_reset(c) == [OnPresent(c, ResetDrive) EXCEPT !.selected = 0]
ide_srst_begin(c) == OnPresent(ide_reset(c), BusyDrive)

\* Both drives become ready, the one that is not there as well.
ide_srst_end(c) == [c EXCEPT !.drive = [i \in {0, 1} |-> ready(@[i])]]

cmd_edd(c) == [OnPresent(c, edd_setup) EXCEPT !.selected = 0]

ide_issue_command(c, command) ==
  LET d == [Selected(c) EXCEPT !.status = (@ \ {"ERR", "DRDY"}) \cup {"BSY"},
                               !.error = {}, !.state = "CMD"]
      On(e) == OnSelected(c, e)
  IN CASE command = "EDD"         -> cmd_edd(On(d))
       [] command = "IDENTIFY"    -> On(cmd_identify(d))
       [] command = "INTPARAMS"   -> On(cmd_initparam(d))
       [] command = "READ"        -> On(cmd_readsectors(d))
       [] command = "WRITE"       -> On(cmd_writesectors(d))
       [] command = "VERIFY"      -> On(cmd_verifysectors(d))
       [] command = "SETFEATURES" -> On(cmd_setfeatures(d))
       [] command = "CALIB"       -> On(cmd_recalibrate(d))
       [] command = "SEEK"        -> On(cmd_seek(d))
       [] command = "unknown"     -> On(completed(Aborted(d)))

\* A busy drive takes no write but to the control register, an absent one only
\* a choice of drive.
Refused(c, r) ==
  r # "devctrl" /\ \/ "BSY" \in Selected(c).status
                   \/ ~Selected(c).present /\ r # "lba4"

StoreRegister(c, r, v) == [c EXCEPT !.drive[c.selected][r] = v]

ChooseDrive(c, v) ==
  LET n == IF v.dev THEN 1 ELSE 0
  IN [c EXCEPT !.selected = n, !.drive[n].lba4 = v]

\* A change of the reset bit resets both drives, or makes them ready.
WriteControl(c, on) ==
  LET e == IF on = c.drive[c.selected].srst THEN c
           ELSE IF on THEN ide_srst_begin(c) ELSE ide_srst_end(c)
  IN [e EXCEPT !.drive[0].srst = on, !.drive[1].srst = on]

ide_write8(c, r, v) ==
  IF Refused(c, r) THEN c
  ELSE CASE r \in {"feature", "count", "lba1", "lba2", "lba3"} -> StoreRegister(c, r, v)
         [] r = "lba4"    -> ChooseDrive(c, v)
         [] r = "command" -> ide_issue_command(c, v)
         [] r = "devctrl" -> WriteControl(c, v)

\* Reading the status acknowledges the interrupt.
ReadStatus(c) == [c EXCEPT !.drive[c.selected].intrq = FALSE]

ide_read16_data(c, io) == OnSelected(c, ide_data_in(Selected(c), io))

ide_write16_data(c, bytes, io) ==
  IF "BSY" \in Selected(c).status THEN c
  ELSE OnSelected(c, ide_data_out(Selected(c), bytes, io))

\* init_gayle attaches the image and resets the controller.
IdeInit ==
  ide0 = ide_reset([drive |-> [i \in {0, 1} |-> Drive(i = 0)], selected |-> 0])
==============================================================================
