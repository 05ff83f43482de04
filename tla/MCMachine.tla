------------------------------ MODULE MCMachine ------------------------------
(***************************************************************************)
(* Small machine: a drive of 2 cylinders, 2 heads and 2 sectors of 4 bytes, *)
(* registers that count to 3, and 16 pages of address space.                *)
(***************************************************************************)
EXTENDS Machine

At(lba, head, cyl, sec) ==
  [lba |-> lba, head |-> head, lba3 |-> cyl \div Radix, lba2 |-> cyl % Radix, lba1 |-> sec]

\* The last sector and sector 0; past the last head and cylinder; and by LBA:
\* the last, one past it and one that is negative as an off_t.
MCAddresses ==
  {At(FALSE, 1, 1, 2), At(FALSE, 0, 0, 0), At(FALSE, 2, 0, 1), At(FALSE, 0, 2, 1),
   At(TRUE, 0, 1, 3), At(TRUE, 0, 2, 0), At(TRUE, 0, 3, 2)}

\* A sector, and one past the last of its track.
MCDriverAddresses == {At(FALSE, 0, 1, 1), At(FALSE, 0, 0, 3)}

MCDevices == [p \in {0, 12, 13} |-> <<"kickstart", "gayle", "customchips">>[
               IF p = 0 THEN 1 ELSE p - 10]]
==============================================================================
