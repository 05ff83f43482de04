------------------------------ MODULE Autoconfig ------------------------------
(***************************************************************************)
(* Who answers at an address (ps_mappings.c), and the autoconfig chain     *)
(* (ps_autoconfig.c) through which Kickstart finds the emulated boards,    *)
(* one after the other at the same address, and gives each its place.      *)
(*                                                                         *)
(* Addresses are pages of 64 kB: Nibble * hi + lo, of which autoconfig     *)
(* writes lo (base[19:16]) at 0x4a and hi (base[23:20]) at 0x48.           *)
(* Kickstart is external and does what expansion.library does.             *)
(***************************************************************************)
EXTENDS Integers, Sequences, SequencesExt

CONSTANTS
  Nibble,       \* 16
  FastPage,     \* FASTMEM_BASE
  FastSize,     \* FASTMEM_SIZE
  ConfigPage,   \* AUTOCONFIG_BASE
  Devices,      \* devices that init maps: a function from pages to names
  IoPages       \* pages where Kickstart puts a small board

ASSUME NibbleAssumption == Nibble \in Nat \ {0}
ASSUME FastAssumption == FastPage \in Nat /\ FastSize \in Nat
\* Small boards go where there is no memory.
ASSUME IoAssumption ==
  IoPages \subseteq (0 .. Nibble * Nibble - 1) \ (FastPage .. FastPage + FastSize - 1)

VARIABLES
  pics,          \* the boards: [name, configured, base]
  current_pic,
  range_mapping, \* the device of every page
  looked,        \* Kickstart has found a board at ConfigPage and is placing it
  cds,           \* Kickstart's list of boards: [name, base]
  dead           \* a callback has called exit

acVars == <<pics, current_pic, range_mapping, looked, cds, dead>>

Pages == 0 .. Nibble * Nibble - 1
Span(base, size) == base .. base + size - 1

\* A page of the fast memory never gets as far as the table.
Answers(page) ==
  IF page \in Span(FastPage, FastSize) THEN "fastmem" ELSE range_mapping[page]

ps_add_range(map, name, base, size) ==
  [p \in Pages |-> IF p \in Span(base, size) THEN name ELSE map[p]]

\* init_mappings and the devices' init functions.
FirstOwner(page) ==
  IF page = ConfigPage THEN "autoconfig"
  ELSE IF page \in DOMAIN Devices THEN Devices[page] ELSE "motherboard"

\* Fast memory comes first in the chain, then a314.
AutoconfigInit ==
  /\ pics = << [name |-> "fastmem", configured |-> FALSE, base |-> 0],
               [name |-> "a314",    configured |-> FALSE, base |-> 0] >>
  /\ current_pic = 1
  /\ range_mapping = [p \in Pages |-> FirstOwner(p)]
  /\ looked = FALSE /\ cds = <<>> /\ dead = FALSE

\* The board Kickstart reads at ConfigPage, or none: er_Type reads 0.
AtConfigPage == IF current_pic > Len(pics) THEN "none" ELSE pics[current_pic].name

\* The callbacks: fast memory must be where the emulator has it; a314 is mapped
\* where it was put.
Done(pic) ==
  IF pic.name = "fastmem"
  THEN /\ dead' = (~pic.configured \/ pic.base # FastPage)
       /\ UNCHANGED range_mapping
  ELSE /\ range_mapping' = IF pic.configured
                           THEN ps_add_range(range_mapping, "a314", pic.base, 1)
                           ELSE range_mapping
       /\ UNCHANGED dead

\* Mutated Based: the second nibble erases the first.
BasedAnew(base, hi) == Nibble * hi

\* base &= 0xff0fffff; base |= hi << 20.
Based(base, hi) == Nibble * hi + (base % Nibble)

\* ac_write_memory_8 of one register of the board in turn.
WriteLow(lo) ==
  /\ pics' = [pics EXCEPT ![current_pic].base = lo]
  /\ UNCHANGED <<current_pic, range_mapping, dead>>

WriteHigh(hi) ==
  LET pic == [pics[current_pic] EXCEPT !.base = Based(@, hi), !.configured = TRUE]
  IN /\ pics' = [pics EXCEPT ![current_pic] = pic]
     /\ Done(pic) /\ current_pic' = current_pic + 1

ShutUp ==
  /\ Done(pics[current_pic]) /\ current_pic' = current_pic + 1
  /\ UNCHANGED pics

-----------------------------------------------------------------------------
\* Kickstart: the place it has for a board; 8 MB fit in one place only.
Places(name) == IF name = "fastmem" THEN {FastPage} ELSE IoPages

\* It reads a board's type and places it: the low nibble first.
Place(page) ==
  /\ ~looked /\ AtConfigPage # "none" /\ page \in Places(AtConfigPage)
  /\ cds' = Append(cds, [name |-> AtConfigPage, base |-> page])
  /\ WriteLow(page % Nibble) /\ looked' = TRUE

Placed ==
  /\ looked /\ looked' = FALSE
  /\ WriteHigh(Last(cds).base \div Nibble) /\ UNCHANGED cds

\* It has no room, or does not want the board.
Refuse ==
  /\ ~looked /\ AtConfigPage = "a314" /\ ShutUp /\ UNCHANGED <<looked, cds>>

\* The Amiga is reset and Kickstart begins anew; the emulator does not.
ResetConfig ==
  cds' = <<>> /\ looked' = FALSE
  /\ UNCHANGED <<pics, current_pic, range_mapping, dead>>

-----------------------------------------------------------------------------
\* Every page of a board that Kickstart has placed is answered by that board, and
\* every other page by whoever answered it from the start, but that a board
\* stays where it was when the Amiga is reset.
BoardsWherePlaced ==
  LET Size(name) == IF name = "fastmem" THEN FastSize ELSE 1
      placed == {i \in DOMAIN cds : i < Len(cds) \/ ~looked}
      homes == UNION {Span(b.base, Size(b.name)) : b \in {c \in ToSet(pics) : c.configured}}
  IN /\ ~dead
     /\ \A i \in placed : \A p \in Span(cds[i].base, Size(cds[i].name)) :
          Answers(p) = cds[i].name
     /\ \A p \in Pages \ (homes \cup Span(FastPage, FastSize)) :
          Answers(p) = FirstOwner(p)
==============================================================================
