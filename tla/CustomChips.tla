----------------------------- MODULE CustomChips -----------------------------
(***************************************************************************)
(* INT2 of the emulated devices among the interrupts of the Amiga          *)
(* (ps_customchips.c).  Paula is on the motherboard and knows nothing of   *)
(* the emulated devices: the emulator keeps a shadow of INTENA, adds their *)
(* request to what INTREQR reads, and raises the level it gives the 68000. *)
(* A register is the set of its bits; VERTB stands for any interrupt       *)
(* above level 2.                                                          *)
(***************************************************************************)
EXTENDS Integers, FiniteSets

VARIABLES
  intena_shadow,
  intena, intreq  \* Paula's registers

ccVars == <<intena_shadow, intena, intreq>>

Bits == {"INTEN", "PORTS", "VERTB"}

INT2_ENABLED == {"INTEN", "PORTS"} \subseteq intena_shadow

\* A register after its SETCLR bit and others have been written.
SetClr(r, set, bits) == IF set THEN r \cup bits ELSE r \ bits

read_intenar == intena_shadow' = intena /\ UNCHANGED <<intena, intreq>>

read_intreqr(emu_int2_req) == intreq \cup IF emu_int2_req THEN {"PORTS"} ELSE {}

\* Mutated write_intena: a write without SETCLR does not reach the shadow.
write_intena_set_only(set, bits) ==
  /\ intena' = SetClr(intena, set, bits)
  /\ intena_shadow' = IF set THEN intena_shadow \cup bits ELSE intena_shadow
  /\ UNCHANGED intreq

write_intena(set, bits) ==
  /\ intena' = SetClr(intena, set, bits)
  /\ intena_shadow' = SetClr(intena_shadow, set, bits)
  /\ UNCHANGED intreq

\* cc_write_32 at INTENA: INTREQ is the other half.
write_intena_intreq(set, bits, req_set, req_bits) ==
  /\ intena' = SetClr(intena, set, bits)
  /\ intena_shadow' = SetClr(intena_shadow, set, bits)
  /\ intreq' = SetClr(intreq, req_set, req_bits)

write_intreq(set, bits) ==
  intreq' = SetClr(intreq, set, bits) /\ UNCHANGED <<intena_shadow, intena>>

\* A byte write goes to Paula alone; what Paula makes of it is its affair.
write_intena_8 ==
  intena' \in SUBSET Bits /\ UNCHANGED <<intena_shadow, intreq>>

\* The RESET instruction: cpu_pulse_reset resets the motherboard.
ps_pulse_reset == intena' = {} /\ intreq' = {} /\ UNCHANGED intena_shadow

Raised(bit) == {"INTEN", bit} \subseteq intena /\ bit \in intreq

\* The level on the motherboard's IPL lines.
BoardIpl == IF Raised("VERTB") THEN 3 ELSE IF Raised("PORTS") THEN 2 ELSE 0

ps_update_irq(emu_int2_req) ==
  IF BoardIpl < 2 /\ INT2_ENABLED /\ emu_int2_req THEN 2 ELSE BoardIpl

CustomChipsInit == intena_shadow = {} /\ intena = {} /\ intreq = {}
==============================================================================
