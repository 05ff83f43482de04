------------------------------ MODULE AtomicBus ------------------------------
(***************************************************************************)
(* What the functions of software/ps_protocol.c promise the emulated CPU:  *)
(* the Amiga's memory, as if every access took effect in one step while    *)
(* the function runs.  A 32-bit access is two 16-bit ones, the word at the *)
(* lower address first.  Reading the interrupt level sees every write made *)
(* before it, although a write may return before its bus cycle ends.       *)
(***************************************************************************)
EXTENDS Integers, Sequences

CONSTANTS
  Base,     \* the values of a byte: 256 in the code
  Top,      \* bytes of the Amiga's address space: 2^24
  IplAddr   \* the device register whose value the interrupt level pins show

Byte == 0 .. Base - 1
Word == 0 .. Base * Base - 1
Long == 0 .. Base * Base * Base * Base - 1
Address == 0 .. Top - 1

VARIABLES
  mem,      \* the Amiga's memory
  call,     \* the call of a ps_ function in progress, or NoCall
  got,      \* what each access of that call returned, 0 for a write
  result    \* what the last call returned, 0 for a write

vars == <<mem, call, got, result>>

-----------------------------------------------------------------------------
(* Calls and the accesses they stand for.                                  *)

NoCall == [op |-> "none", addr |-> 0, data |-> 0]

CallOf(op, addresses, data) == [op : {op}, addr : addresses, data : data]

\* Words and longs are even, as the 68000 requires, and a long does not run
\* over the end of the address space.
Calls ==
  LET even == {a \in Address : a % 2 = 0}
  IN  UNION { CallOf("ps_read_8", Address, {0}),
              CallOf("ps_read_16", even, {0}),
              CallOf("ps_read_32", even \ {Top - 2}, {0}),
              CallOf("ps_write_8", Address, Byte),
              CallOf("ps_write_16", even, Word),
              CallOf("ps_write_32", even \ {Top - 2}, Long),
              CallOf("ps_read_status_reg", {0}, {0}),
              CallOf("ps_get_ipl_zero", {0}, {0}) }

Writing == {"ps_write_8", "ps_write_16", "ps_write_32"}
Wide    == {"ps_read_32", "ps_write_32"}

Accesses(c) == IF c.op \in Wide THEN 2 ELSE 1

\* What access number n of call c finds in memory m.
Fetched(m, c, n) ==
  LET a == c.addr + 2 * (n - 1)
  IN  CASE c.op = "ps_read_8"          -> m[a]
        [] c.op = "ps_read_status_reg" -> m[IplAddr]
        [] c.op = "ps_get_ipl_zero"    -> IF m[IplAddr] = 0 THEN 1 ELSE 0
        [] c.op \in Writing            -> 0
        [] OTHER                       -> Base * m[a] + m[a + 1]

\* Memory m with word w at address a.
StoreWord(m, a, w) == [m EXCEPT ![a] = w \div Base, ![a + 1] = w % Base]

\* What access number n of call c makes of memory m.
Stored(m, c, n) ==
  CASE c.op = "ps_write_8"  -> [m EXCEPT ![c.addr] = c.data]
    [] c.op = "ps_write_16" -> StoreWord(m, c.addr, c.data)
    [] c.op = "ps_write_32" ->
         IF n = 1 THEN StoreWord(m, c.addr, c.data \div (Base * Base))
                  ELSE StoreWord(m, c.addr + 2, c.data % (Base * Base))
    [] OTHER -> m

-----------------------------------------------------------------------------
Init ==
  /\ mem \in [Address -> Byte]
  /\ call = NoCall
  /\ got = <<>>
  /\ result = 0

Call ==
  /\ call = NoCall
  /\ call' \in Calls
  /\ UNCHANGED <<mem, got, result>>

Access ==
  LET n == Len(got) + 1
  IN  /\ call # NoCall /\ n <= Accesses(call)
      /\ got' = Append(got, Fetched(mem, call, n))
      /\ mem' = Stored(mem, call, n)
      /\ UNCHANGED <<call, result>>

Return ==
  /\ call # NoCall /\ Len(got) = Accesses(call)
  /\ result' = IF call.op = "ps_read_32" THEN Base * Base * got[1] + got[2]
                                         ELSE got[1]
  /\ call' = NoCall
  /\ got' = <<>>
  /\ UNCHANGED mem

\* The Amiga's other bus masters and its devices change memory too.
AmigaChanges ==
  /\ \E a \in Address, b \in Byte : mem' = [mem EXCEPT ![a] = b]
  /\ UNCHANGED <<call, got, result>>

Next == Call \/ Access \/ Return \/ AmigaChanges

Spec == Init /\ [][Next]_vars
=============================================================================
