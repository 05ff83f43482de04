---------------------------- MODULE MachineProofs ----------------------------
(***************************************************************************)
(* Three properties of the machine, for every program, drive and address   *)
(* space: the interrupt level is right as long as INTENA's shadow can be,  *)
(* every page is answered by the board that Kickstart put there, and the   *)
(* drive moves exactly the sectors that the command names.                 *)
(***************************************************************************)
EXTENDS Machine, SequenceTheorems, FiniteSetTheorems, TLAPS

-----------------------------------------------------------------------------
(* The interrupt level.                                                    *)

\* The shadow is INTENA, unless something got past it.
ShadowInv ==
  /\ intena \subseteq Bits /\ intena_shadow \subseteq Bits
  /\ ~outside => intena_shadow = intena

\* Two registers that agree still do after the same write, and any two do once
\* a write has named all bits.
LEMMA SameWrite ==
  ASSUME NEW r \in SUBSET Bits, NEW s \in SUBSET Bits, NEW set \in BOOLEAN,
         NEW bits \in SUBSET Bits
  PROVE  /\ SetClr(r, set, bits) \subseteq Bits
         /\ SetClr(r, set, Bits) = SetClr(s, set, Bits)
BY DEF SetClr

LEMMA ShadowInit == Init => ShadowInv
BY DEF Init, CustomChipsInit, ShadowInv

\* A write by the program to INTENA as a word or part of a long word.
LEMMA IntenaWritten ==
  ASSUME ShadowInv, NEW set \in BOOLEAN, NEW bits \in SUBSET Bits,
         intena' = SetClr(intena, set, bits),
         intena_shadow' = SetClr(intena_shadow, set, bits),
         outside' = (outside /\ bits # Bits)
  PROVE  ShadowInv'
<1>1. intena \in SUBSET Bits /\ intena_shadow \in SUBSET Bits
  BY DEF ShadowInv
<1>2. intena' \subseteq Bits /\ intena_shadow' \subseteq Bits
  BY <1>1, SameWrite
<1>3. CASE bits = Bits
  BY <1>1, <1>2, <1>3, SameWrite DEF ShadowInv
<1>4. CASE bits # Bits
  BY <1>2, <1>4 DEF ShadowInv
<1> QED
  BY <1>3, <1>4

LEMMA ShadowStep == ShadowInv /\ [Next]_vars => ShadowInv'
<1> SUFFICES ASSUME ShadowInv, [Next]_vars PROVE ShadowInv'
  OBVIOUS
<1>1. CASE UNCHANGED <<intena, intena_shadow, outside>>
  BY <1>1 DEF ShadowInv
<1>2. CASE MainLoop \/ A314Interrupt \/ EnableIde \/ (\E mask \in {0, 7} : WriteMask(mask))
  BY <1>1, <1>2 DEF MainLoop, A314Interrupt, EnableIde, WriteMask, ccVars, intVars
<1>3. CASE Handler
  BY <1>3 DEF Handler, read_intenar, ShadowInv
<1>4. CASE HandlerReturns \/ (\E bit \in {"PORTS", "VERTB"} : BoardInterrupt(bit))
  BY <1>1, <1>4 DEF HandlerReturns, BoardInterrupt, write_intreq
<1>5. CASE WordIntena
  <2>1. PICK set \in BOOLEAN, bits \in {{"INTEN"}, {"PORTS", "VERTB"}, Bits} :
          /\ intena' = SetClr(intena, set, bits)
          /\ intena_shadow' = SetClr(intena_shadow, set, bits)
          /\ outside' = (outside /\ bits # Bits)
    BY <1>5 DEF WordIntena, write_intena, write_intena_intreq
  <2>2. bits \in SUBSET Bits
    BY DEF Bits
  <2> QED
    BY <2>1, <2>2, IntenaWritten
<1>6. CASE ByteIntena \/ ResetInstruction
  BY <1>6 DEF ByteIntena, ResetInstruction, write_intena_8, ps_pulse_reset, ShadowInv
<1>7. CASE Settle
  BY <1>7, SameWrite DEF Settle, write_intena, ShadowInv
<1>8. CASE \/ DiskCommand \/ DiskMove \/ PollStatus
           \/ \E on \in BOOLEAN : SelectDrive(on) \/ SoftReset(on)
  BY <1>1, <1>8 DEF DiskCommand, DiskMove, PollStatus, SelectDrive, SoftReset, Command,
                    ccVars, intVars
<1>9. CASE DriverCommand \/ DriverMove \/ DriverDone
  BY <1>1, <1>9 DEF DriverCommand, DriverMove, DriverDone, Command, ccVars, intVars
<1>10. CASE Boot \/ UNCHANGED vars
  BY <1>1, <1>10 DEF Boot, vars, ccVars, intVars
<1> QED
  BY <1>2, <1>3, <1>4, <1>5, <1>6, <1>7, <1>8, <1>9, <1>10 DEF Next

\* As long as no byte write and no RESET has got past the shadow of INTENA, the
\* level that the main loop would give the 68000 is the motherboard's, or 2 when
\* an emulated device asks for it and INTENA, not its shadow, lets it through.
THEOREM LevelAlwaysSound == Spec => []LevelSound
<1>1. ShadowInv => LevelSound
  BY DEF ShadowInv, LevelSound, ps_update_irq, INT2_ENABLED
<1>2. Spec => []ShadowInv
  BY ShadowInit, ShadowStep, PTL DEF Spec
<1> QED
  BY <1>1, <1>2, PTL

-----------------------------------------------------------------------------
(* The autoconfig chain.                                                   *)

BoardName(i) == IF i = 1 THEN "fastmem" ELSE "a314"

Chain ==
  /\ current_pic \in 1 .. 3 /\ looked \in BOOLEAN /\ ~dead
  /\ pics \in [1 .. 2 -> [name : {"fastmem", "a314"}, configured : BOOLEAN, base : Int]]
  /\ \A i \in 1 .. 2 : pics[i].name = BoardName(i)
  /\ cds \in Seq([name : {"fastmem", "a314"}, base : Nat])
  /\ looked => cds # <<>> /\ current_pic \in 1 .. 2

\* Boards come to their places one after the other: fast memory always to the
\* one it has in the emulator.
Homes ==
  /\ pics[1].configured <=> current_pic > 1
  /\ pics[1].configured => pics[1].base = FastPage
  /\ pics[2].configured => current_pic = 3 /\ pics[2].base \in IoPages
  /\ range_mapping = [p \in Pages |-> IF pics[2].configured /\ p = pics[2].base
                                      THEN "a314" ELSE FirstOwner(p)]

\* The board that Kickstart is placing has taken the low nibble of its page, and
\* those before it in Kickstart's list are where the list says.
Listed ==
  LET n == Len(cds)
  IN  /\ looked => /\ cds[n].name = BoardName(current_pic)
                   /\ cds[n].base \in Places(cds[n].name)
                   /\ pics[current_pic].base = cds[n].base % Nibble
      /\ \A i \in 1 .. n : i < n \/ ~looked =>
           \E j \in 1 .. 2 : /\ pics[j].configured /\ pics[j].name = cds[i].name
                             /\ pics[j].base = cds[i].base

ChainInv == Chain /\ Homes /\ Listed

LEMMA ChainInit == Init => ChainInv
<1> SUFFICES ASSUME Init PROVE ChainInv
  OBVIOUS
<1>1. AutoconfigInit
  BY DEF Init
<1> DEFINE Unconfigured(i) == [name |-> BoardName(i), configured |-> FALSE, base |-> 0]
<1>2. pics = <<Unconfigured(1), Unconfigured(2)>>
  BY <1>1 DEF AutoconfigInit, BoardName
<1>3. \A i \in 1 .. 2 :
         /\ Unconfigured(i) \in [name : {"fastmem", "a314"}, configured : BOOLEAN, base : Int]
         /\ Unconfigured(i).name = BoardName(i) /\ ~Unconfigured(i).configured
  BY DEF BoardName
<1> HIDE DEF Unconfigured
<1>4. /\ pics \in [1 .. 2 -> [name : {"fastmem", "a314"}, configured : BOOLEAN, base : Int]]
      /\ \A i \in 1 .. 2 : pics[i].name = BoardName(i) /\ ~pics[i].configured
  BY <1>2, <1>3
<1>5. Chain
  <2>1. cds \in Seq([name : {"fastmem", "a314"}, base : Nat])
    BY <1>1, EmptySeq DEF AutoconfigInit
  <2>2. current_pic \in 1 .. 3 /\ looked = FALSE /\ ~dead
    BY <1>1 DEF AutoconfigInit
  <2> QED
    BY <1>4, <2>1, <2>2 DEF Chain
<1>6. Homes
  BY <1>1, <1>4 DEF AutoconfigInit, Homes
<1>7. Listed
  BY <1>1 DEF AutoconfigInit, Listed
<1> QED
  BY <1>5, <1>6, <1>7 DEF ChainInv

\* The two nibbles of a page make the page.
LEMMA NibblesOfPage ==
  ASSUME NEW p \in Nat
  PROVE  /\ p % Nibble \in Nat
         /\ Based(p % Nibble, p \div Nibble) = p
<1>1. Nibble \in Nat \ {0}
  BY NibbleAssumption
<1>2. p % Nibble \in 0 .. Nibble - 1 /\ p = Nibble * (p \div Nibble) + (p % Nibble)
  BY <1>1
<1>3. (p % Nibble) % Nibble = p % Nibble
  BY <1>1, <1>2
<1> QED
  BY <1>2, <1>3 DEF Based

\* A place is a page number, and an a314's place is a page of the table.
LEMMA PlacesArePages ==
  /\ FastPage \in Nat
  /\ \A p \in IoPages : p \in Nat /\ p \in Pages /\ p \notin Span(FastPage, FastSize)
  /\ \A name \in {"fastmem", "a314"} : \A p \in Places(name) : p \in Nat
BY FastAssumption, IoAssumption, NibbleAssumption DEF Places, Pages, Span

\* The board in turn.
LEMMA BoardInTurn ==
  ASSUME Chain, AtConfigPage # "none"
  PROVE  current_pic \in 1 .. 2 /\ AtConfigPage = BoardName(current_pic)
<1>1. Len(pics) = 2
  BY DEF Chain
<1> QED
  BY <1>1 DEF Chain, AtConfigPage

LEMMA PlaceKeeps ==
  ASSUME ChainInv, NEW page \in IoPages \cup {FastPage}, Place(page)
  PROVE  ChainInv'
<1> DEFINE entry == [name |-> AtConfigPage, base |-> page]
           lo == page % Nibble
           n == Len(cds)
<1>1. /\ ~looked /\ looked' = TRUE /\ page \in Places(AtConfigPage)
      /\ cds' = Append(cds, entry)
      /\ pics' = [pics EXCEPT ![current_pic].base = lo]
      /\ UNCHANGED <<current_pic, range_mapping, dead>>
  BY DEF Place, WriteLow
<1>2. current_pic \in 1 .. 2 /\ AtConfigPage = BoardName(current_pic)
  BY BoardInTurn DEF Place, ChainInv
<1>3. page \in Nat /\ lo \in Nat
  BY NibblesOfPage, PlacesArePages
<1>4. entry \in [name : {"fastmem", "a314"}, base : Nat]
      /\ entry.name = BoardName(current_pic) /\ entry.base = page
  BY <1>2, <1>3 DEF BoardName
<1> HIDE DEF entry
<1>5. cds \in Seq([name : {"fastmem", "a314"}, base : Nat])
  BY DEF ChainInv, Chain
<1>6. /\ cds' \in Seq([name : {"fastmem", "a314"}, base : Nat])
      /\ n \in Nat /\ Len(cds') = n + 1 /\ cds'[n + 1] = entry
      /\ \A i \in 1 .. n : cds'[i] = cds[i]
  BY <1>1, <1>4, <1>5, AppendProperties
<1> HIDE DEF lo
<1>7. /\ pics' \in [1 .. 2 -> [name : {"fastmem", "a314"}, configured : BOOLEAN, base : Int]]
      /\ pics'[current_pic].base = lo
      /\ \A i \in 1 .. 2 : /\ pics'[i].name = pics[i].name
                           /\ pics'[i].configured = pics[i].configured
                           /\ i # current_pic => pics'[i] = pics[i]
  BY <1>1, <1>2, <1>3 DEF ChainInv, Chain
<1>8. ~pics[current_pic].configured
  BY <1>2 DEF ChainInv, Homes
<1>9. Chain'
  <2>1. cds' # <<>>
    BY <1>6, EmptySeq
  <2> QED
    BY <1>1, <1>2, <1>6, <1>7, <2>1 DEF ChainInv, Chain
<1>10. Homes'
  <2>1. \A i \in 1 .. 2 : pics[i].configured => pics'[i] = pics[i]
    BY <1>7, <1>8
  <2> QED
    BY <1>1, <1>7, <2>1 DEF ChainInv, Homes
<1>11. Listed'
  <2>1. /\ cds'[Len(cds')].name = BoardName(current_pic')
        /\ cds'[Len(cds')].base \in Places(cds'[Len(cds')].name)
        /\ pics'[current_pic'].base = cds'[Len(cds')].base % Nibble
    BY <1>1, <1>2, <1>4, <1>6, <1>7 DEF lo
  <2>2. ASSUME NEW i \in 1 .. Len(cds'), i < Len(cds')
        PROVE  \E j \in 1 .. 2 : /\ pics'[j].configured /\ pics'[j].name = cds'[i].name
                                 /\ pics'[j].base = cds'[i].base
    <3>1. i \in 1 .. n /\ cds'[i] = cds[i]
      BY <1>6, <2>2
    <3>2. PICK j \in 1 .. 2 : /\ pics[j].configured /\ pics[j].name = cds[i].name
                              /\ pics[j].base = cds[i].base
      BY <1>1, <3>1 DEF ChainInv, Listed
    <3>3. pics'[j] = pics[j]
      BY <1>7, <1>8, <3>2
    <3> QED
      BY <3>1, <3>2, <3>3
  <2> QED
    BY <1>1, <2>1, <2>2 DEF Listed
<1> QED
  BY <1>9, <1>10, <1>11 DEF ChainInv

LEMMA PlacedKeeps ==
  ASSUME ChainInv, Placed
  PROVE  ChainInv'
<1> DEFINE n == Len(cds)
           c == current_pic
           page == cds[n].base
           pic == [pics[c] EXCEPT !.base = Based(@, page \div Nibble), !.configured = TRUE]
<1>1. /\ looked /\ looked' = FALSE /\ UNCHANGED cds
      /\ pics' = [pics EXCEPT ![c] = pic] /\ Done(pic) /\ c' = c + 1
  BY DEF Placed, WriteHigh, Last
<1>2. c \in 1 .. 2 /\ n \in Nat \ {0} /\ cds[n] \in [name : {"fastmem", "a314"}, base : Nat]
      /\ page \in Nat
  <2>1. c \in 1 .. 2 /\ cds # <<>> /\ cds \in Seq([name : {"fastmem", "a314"}, base : Nat])
    BY <1>1 DEF ChainInv, Chain
  <2>2. n \in Nat \ {0}
    BY <2>1, EmptySeq
  <2>3. cds[n] \in [name : {"fastmem", "a314"}, base : Nat]
    <3>1. n \in 1 .. Len(cds)
      BY <2>2
    <3> QED
      BY <2>1, <3>1, ElementOfSeq
  <2> QED
    BY <2>1, <2>2, <2>3
<1>3. /\ cds[n].name = BoardName(c) /\ page \in Places(BoardName(c))
      /\ pics[c].base = page % Nibble
  BY <1>1 DEF ChainInv, Listed
<1>4. Based(pics[c].base, page \div Nibble) = page
  BY <1>2, <1>3, NibblesOfPage
<1>5. pics[c] \in [name : {"fastmem", "a314"}, configured : BOOLEAN, base : Int]
      /\ pics[c].name = BoardName(c)
  BY <1>2 DEF ChainInv, Chain
<1>6. /\ pic \in [name : {"fastmem", "a314"}, configured : BOOLEAN, base : Int]
      /\ pic.name = BoardName(c) /\ pic.configured /\ pic.base = page
  <2> DEFINE b == pics[c]
             v == Based(b.base, page \div Nibble)
  <2>1. b \in [name : {"fastmem", "a314"}, configured : BOOLEAN, base : Int]
        /\ b.name = BoardName(c) /\ pic = [b EXCEPT !.base = v, !.configured = TRUE]
    BY <1>5
  <2>2. v = page /\ page \in Int
    BY <1>2, <1>4
  <2> HIDE DEF b, v, pic, page
  <2> QED
    BY <2>1, <2>2
<1> HIDE DEF pic
<1>7. /\ pics' \in [1 .. 2 -> [name : {"fastmem", "a314"}, configured : BOOLEAN, base : Int]]
      /\ pics'[c] = pic /\ \A i \in 1 .. 2 : i # c => pics'[i] = pics[i]
  BY <1>1, <1>2, <1>6 DEF ChainInv, Chain
<1>8. ~dead' /\ Homes'
  <2>1. CASE c = 1
    <3>1. pic.name = "fastmem" /\ page = FastPage
      BY <1>3, <1>6, <2>1 DEF BoardName, Places
    <3>2. ~dead' /\ UNCHANGED range_mapping
      BY <1>1, <1>6, <3>1 DEF Done
    <3>3. ~pics'[2].configured /\ ~pics[2].configured
      BY <1>7, <2>1 DEF ChainInv, Homes
    <3> QED
      BY <1>1, <1>6, <1>7, <2>1, <3>1, <3>2, <3>3 DEF ChainInv, Homes
  <2>2. CASE c = 2
    <3>1. pic.name = "a314" /\ page \in IoPages
      BY <1>3, <1>6, <2>2 DEF BoardName, Places
    <3>2. ~dead' /\ range_mapping' = ps_add_range(range_mapping, "a314", page, 1)
      BY <1>1, <1>6, <3>1 DEF Done, ChainInv, Chain
    <3>3. Span(page, 1) = {page}
      BY <1>2 DEF Span
    <3>4. range_mapping = [p \in Pages |-> FirstOwner(p)]
      BY <2>2 DEF ChainInv, Homes
    <3>5. range_mapping' = [p \in Pages |-> IF p = page THEN "a314" ELSE FirstOwner(p)]
      BY <3>2, <3>3, <3>4 DEF ps_add_range
    <3> QED
      BY <1>1, <1>6, <1>7, <2>2, <3>1, <3>2, <3>5 DEF ChainInv, Homes
  <2> QED
    BY <1>2, <2>1, <2>2
<1>9. Chain'
  <2>1. \A i \in 1 .. 2 : pics'[i].name = BoardName(i)
    BY <1>6, <1>7 DEF ChainInv, Chain
  <2>2. c' \in 1 .. 3
    BY <1>1, <1>2
  <2>3. cds' \in Seq([name : {"fastmem", "a314"}, base : Nat])
    BY <1>1 DEF ChainInv, Chain
  <2> QED
    BY <1>1, <1>7, <1>8, <2>1, <2>2, <2>3 DEF Chain
<1>10. Listed'
  <2>1. ASSUME NEW i \in 1 .. n
        PROVE  \E j \in 1 .. 2 : /\ pics'[j].configured /\ pics'[j].name = cds[i].name
                                 /\ pics'[j].base = cds[i].base
    <3>1. CASE i = n
      BY <1>2, <1>3, <1>6, <1>7, <3>1
    <3>2. CASE i # n
      <4>1. PICK j \in 1 .. 2 : /\ pics[j].configured /\ pics[j].name = cds[i].name
                                /\ pics[j].base = cds[i].base
        BY <1>2, <3>2 DEF ChainInv, Listed
      <4>2. j # c
        BY <1>2, <4>1 DEF ChainInv, Homes
      <4> QED
        BY <1>7, <4>1, <4>2
    <3> QED
      BY <3>1, <3>2
  <2> QED
    BY <1>1, <2>1 DEF Listed
<1> QED
  BY <1>8, <1>9, <1>10 DEF ChainInv

LEMMA RefuseKeeps ==
  ASSUME ChainInv, Refuse
  PROVE  ChainInv'
<1>1. /\ ~looked /\ AtConfigPage = "a314" /\ Done(pics[current_pic])
      /\ current_pic' = current_pic + 1 /\ UNCHANGED <<pics, looked, cds>>
  BY DEF Refuse, ShutUp
<1>2. current_pic = 2
  BY <1>1, BoardInTurn DEF ChainInv, BoardName
<1>3. pics[2].name = "a314" /\ ~pics[2].configured
  BY <1>2 DEF ChainInv, Chain, Homes, BoardName
<1>4. UNCHANGED <<range_mapping, dead>>
  BY <1>1, <1>2, <1>3 DEF Done
<1>5. Chain' /\ Homes'
  BY <1>1, <1>2, <1>3, <1>4 DEF ChainInv, Chain, Homes
<1>6. Listed'
  BY <1>1 DEF ChainInv, Listed
<1> QED
  BY <1>5, <1>6 DEF ChainInv

LEMMA ResetConfigKeeps ==
  ASSUME ChainInv, ResetConfig
  PROVE  ChainInv'
<1>1. cds' \in Seq([name : {"fastmem", "a314"}, base : Nat]) /\ Len(cds') = 0
  BY EmptySeq DEF ResetConfig
<1>2. /\ looked' = FALSE /\ UNCHANGED <<pics, current_pic, range_mapping, dead>>
  BY DEF ResetConfig
<1>3. Chain' /\ Homes'
  BY <1>1, <1>2 DEF ChainInv, Chain, Homes
<1>4. Listed'
  BY <1>1, <1>2 DEF Listed
<1> QED
  BY <1>3, <1>4 DEF ChainInv

LEMMA ChainStep == ChainInv /\ [Next]_vars => ChainInv'
<1> SUFFICES ASSUME ChainInv, [Next]_vars PROVE ChainInv'
  OBVIOUS
<1>1. CASE UNCHANGED acVars
  BY <1>1 DEF acVars, ChainInv, Chain, Homes, Listed
<1>2. CASE Boot
  BY <1>2, PlaceKeeps, PlacedKeeps, RefuseKeeps, ResetConfigKeeps DEF Boot
<1>3. CASE MainLoop \/ A314Interrupt \/ EnableIde \/ (\E mask \in {0, 7} : WriteMask(mask))
  BY <1>1, <1>3 DEF MainLoop, A314Interrupt, EnableIde, WriteMask
<1>4. CASE Handler \/ HandlerReturns \/ (\E bit \in {"PORTS", "VERTB"} : BoardInterrupt(bit))
  BY <1>1, <1>4 DEF Handler, HandlerReturns, BoardInterrupt
<1>5. CASE WordIntena \/ ByteIntena \/ ResetInstruction \/ Settle
  BY <1>1, <1>5 DEF WordIntena, ByteIntena, ResetInstruction, Settle
<1>6. CASE \/ DiskCommand \/ DiskMove \/ PollStatus
           \/ \E on \in BOOLEAN : SelectDrive(on) \/ SoftReset(on)
  BY <1>1, <1>6 DEF DiskCommand, DiskMove, PollStatus, SelectDrive, SoftReset, Command
<1>7. CASE DriverCommand \/ DriverMove \/ DriverDone
  BY <1>1, <1>7 DEF DriverCommand, DriverMove, DriverDone, Command
<1>8. CASE UNCHANGED vars
  BY <1>1, <1>8 DEF vars
<1> QED
  BY <1>2, <1>3, <1>4, <1>5, <1>6, <1>7, <1>8 DEF Next

\* The board that answers at a page is the one that Kickstart put there, however
\* often it boots, and no callback gives up because fast memory went elsewhere.
THEOREM BoardsAlwaysWherePlaced == Spec => []BoardsWherePlaced
<1>1. ChainInv => BoardsWherePlaced
  <2> SUFFICES ASSUME ChainInv PROVE BoardsWherePlaced
    OBVIOUS
  <2>1. ~dead
    BY DEF ChainInv, Chain
  <2>2. ASSUME NEW i \in DOMAIN cds, i < Len(cds) \/ ~looked,
               NEW p \in Span(cds[i].base, IF cds[i].name = "fastmem" THEN FastSize ELSE 1)
        PROVE  Answers(p) = cds[i].name
    <3>1. PICK j \in 1 .. 2 : /\ pics[j].configured /\ pics[j].name = cds[i].name
                              /\ pics[j].base = cds[i].base
      BY <2>2, LenProperties DEF ChainInv, Chain, Listed
    <3>2. CASE j = 1
      <4>1. cds[i].name = "fastmem" /\ cds[i].base = FastPage
        BY <3>1, <3>2 DEF ChainInv, Chain, Homes, BoardName
      <4> QED
        BY <2>2, <4>1 DEF Answers
    <3>3. CASE j = 2
      <4>1. cds[i].name = "a314" /\ cds[i].base \in IoPages
        BY <3>1, <3>3 DEF ChainInv, Chain, Homes, BoardName
      <4>2. p = cds[i].base
        BY <2>2, <4>1, PlacesArePages DEF Span
      <4> QED
        BY <3>1, <3>3, <4>1, <4>2, PlacesArePages DEF Answers, ChainInv, Homes
    <3> QED
      BY <3>2, <3>3
  <2>3. ASSUME NEW p \in Pages, p \notin Span(FastPage, FastSize),
               \A b \in ToSet(pics) : b.configured =>
                 p \notin Span(b.base, IF b.name = "fastmem" THEN FastSize ELSE 1)
        PROVE  Answers(p) = FirstOwner(p)
    <3>1. CASE pics[2].configured /\ p = pics[2].base
      <4>1. pics[2] \in ToSet(pics) /\ pics[2].name = "a314"
        BY DEF ToSet, ChainInv, Chain, BoardName
      <4>2. p \in Span(pics[2].base, 1)
        BY <3>1, NibbleAssumption DEF Span, Pages
      <4> QED
        BY <2>3, <3>1, <4>1, <4>2
    <3>2. CASE ~(pics[2].configured /\ p = pics[2].base)
      BY <2>3, <3>2 DEF Answers, ChainInv, Homes
    <3> QED
      BY <3>1, <3>2
  <2> QED
    BY <2>1, <2>2, <2>3 DEF BoardsWherePlaced
<1>2. Spec => []ChainInv
  BY ChainInit, ChainStep, PTL DEF Spec
<1> QED
  BY <1>1, <1>2, PTL

-----------------------------------------------------------------------------
(* The sectors before an address.                                          *)

LEMMA TriplesCounted ==
  ASSUME NEW A, IsFiniteSet(A), NEW B, IsFiniteSet(B), NEW C, IsFiniteSet(C)
  PROVE  /\ IsFiniteSet(A \X B \X C)
         /\ Cardinality(A \X B \X C) = (Cardinality(A) * Cardinality(B)) * Cardinality(C)
<1> DEFINE P == (A \X B) \X C
           T == A \X B \X C
           f == [q \in P |-> <<q[1][1], q[1][2], q[2]>>]
<1>1. /\ IsFiniteSet(P)
      /\ Cardinality(P) = (Cardinality(A) * Cardinality(B)) * Cardinality(C)
  <2> DEFINE AB == A \X B
  <2>1. IsFiniteSet(AB) /\ Cardinality(AB) = Cardinality(A) * Cardinality(B)
    BY FS_Product
  <2> HIDE DEF AB
  <2>2. IsFiniteSet(AB \X C) /\ Cardinality(AB \X C) = Cardinality(AB) * Cardinality(C)
    BY <2>1, FS_Product
  <2> QED
    BY <2>1, <2>2 DEF AB
<1>2. f \in Bijection(P, T)
  <2>1. f \in [P -> T]
    OBVIOUS
  <2>2. \A q, r \in P : f[q] = f[r] => q = r
    OBVIOUS
  <2>3. ASSUME NEW t \in T PROVE \E q \in P : f[q] = t
    <3> DEFINE q == <<<<t[1], t[2]>>, t[3]>>
    <3>1. q \in P /\ f[q] = <<t[1], t[2], t[3]>>
      OBVIOUS
    <3>2. t = <<t[1], t[2], t[3]>>
      OBVIOUS
    <3> QED
      BY <3>1, <3>2
  <2> QED
    BY <2>1, <2>2, <2>3 DEF Bijection, Injection, Surjection, IsInjective
<1>3. ExistsBijection(P, T)
  BY <1>2 DEF ExistsBijection
<1> QED
  BY <1>1, <1>3, FS_Bijection

\* Where an address on the disk begins, counted without a set.
LEMMA BlockOnTrack ==
  ASSUME NEW cyl \in 0 .. Cylinders - 1, NEW head \in 0 .. Heads - 1,
         NEW sec \in 1 .. Sectors, NEW before,
         before = {p \in (0 .. Cylinders - 1) \X (0 .. Heads - 1) \X (1 .. Sectors) :
                     \/ p[1] < cyl
                     \/ p[1] = cyl /\ p[2] < head
                     \/ p[1] = cyl /\ p[2] = head /\ p[3] < sec}
  PROVE  2 + Cardinality(before) = 1 + (cyl * Heads + head) * Sectors + sec
<1>1. Cylinders \in Nat /\ Heads \in Nat /\ Sectors \in Nat
  BY IdeAssumption
<1> DEFINE X == (0 .. cyl - 1) \X (0 .. Heads - 1) \X (1 .. Sectors)
           Y == {cyl} \X (0 .. head - 1) \X (1 .. Sectors)
           Z == {cyl} \X {head} \X (1 .. sec - 1)
<1>2. ASSUME NEW n \in Nat
      PROVE  /\ IsFiniteSet(0 .. n - 1) /\ Cardinality(0 .. n - 1) = n
             /\ IsFiniteSet(1 .. n) /\ Cardinality(1 .. n) = n
  <2>1. IsFiniteSet(0 .. n - 1)
        /\ Cardinality(0 .. n - 1) = IF 0 > n - 1 THEN 0 ELSE n - 1 - 0 + 1
    BY FS_Interval
  <2>2. IsFiniteSet(1 .. n) /\ Cardinality(1 .. n) = IF 1 > n THEN 0 ELSE n - 1 + 1
    BY FS_Interval
  <2> QED
    BY <2>1, <2>2
<1>3. /\ IsFiniteSet({cyl}) /\ Cardinality({cyl}) = 1
      /\ IsFiniteSet({head}) /\ Cardinality({head}) = 1
  BY FS_Singleton
<1>4. IsFiniteSet(X) /\ Cardinality(X) = (cyl * Heads) * Sectors
  <2> DEFINE A == 0 .. cyl - 1
             B == 0 .. Heads - 1
             C == 1 .. Sectors
  <2>1. /\ IsFiniteSet(A) /\ Cardinality(A) = cyl
        /\ IsFiniteSet(B) /\ Cardinality(B) = Heads
        /\ IsFiniteSet(C) /\ Cardinality(C) = Sectors
    BY <1>1, <1>2
  <2> HIDE DEF A, B, C
  <2>2. /\ IsFiniteSet(A \X B \X C)
        /\ Cardinality(A \X B \X C) = (Cardinality(A) * Cardinality(B)) * Cardinality(C)
    BY <2>1, TriplesCounted
  <2> QED
    BY <2>1, <2>2 DEF A, B, C
<1>5. IsFiniteSet(Y) /\ Cardinality(Y) = head * Sectors
  <2> DEFINE A == {cyl}
             B == 0 .. head - 1
             C == 1 .. Sectors
  <2>1. /\ IsFiniteSet(A) /\ Cardinality(A) = 1
        /\ IsFiniteSet(B) /\ Cardinality(B) = head
        /\ IsFiniteSet(C) /\ Cardinality(C) = Sectors
    BY <1>1, <1>2, <1>3
  <2> HIDE DEF A, B, C
  <2>2. /\ IsFiniteSet(A \X B \X C)
        /\ Cardinality(A \X B \X C) = (Cardinality(A) * Cardinality(B)) * Cardinality(C)
    BY <2>1, TriplesCounted
  <2> QED
    BY <1>1, <2>1, <2>2 DEF A, B, C
<1>6. IsFiniteSet(Z) /\ Cardinality(Z) = sec - 1
  <2> DEFINE A == {cyl}
             B == {head}
             C == 1 .. sec - 1
  <2>1. /\ IsFiniteSet(A) /\ Cardinality(A) = 1
        /\ IsFiniteSet(B) /\ Cardinality(B) = 1
        /\ IsFiniteSet(C) /\ Cardinality(C) = sec - 1
    BY <1>1, <1>2, <1>3
  <2> HIDE DEF A, B, C
  <2>2. /\ IsFiniteSet(A \X B \X C)
        /\ Cardinality(A \X B \X C) = (Cardinality(A) * Cardinality(B)) * Cardinality(C)
    BY <2>1, TriplesCounted
  <2> QED
    BY <1>1, <2>1, <2>2 DEF A, B, C
<1>7. before = (X \cup Y) \cup Z
  <2>1. ASSUME NEW p \in (X \cup Y) \cup Z PROVE p \in before
    BY <1>1
  <2>2. ASSUME NEW p \in before PROVE p \in (X \cup Y) \cup Z
    <3>1. PICK a \in 0 .. Cylinders - 1, b \in 0 .. Heads - 1, c \in 1 .. Sectors :
            p = <<a, b, c>>
      OBVIOUS
    <3>2. a < cyl \/ (a = cyl /\ b < head) \/ (a = cyl /\ b = head /\ c < sec)
      BY <3>1
    <3> QED
      BY <1>1, <3>1, <3>2
  <2> QED
    BY <2>1, <2>2
<1>8. X \cap Y = {} /\ (X \cup Y) \cap Z = {}
  BY <1>1
<1> HIDE DEF X, Y, Z
<1>e. Cardinality({}) = 0
  BY FS_EmptySet
<1>9. IsFiniteSet(X \cup Y)
      /\ Cardinality(X \cup Y) = Cardinality(X) + Cardinality(Y) - 0
  <2>1. IsFiniteSet(X \cup Y)
        /\ Cardinality(X \cup Y) = Cardinality(X) + Cardinality(Y) - Cardinality(X \cap Y)
    BY <1>4, <1>5, FS_Union
  <2> QED
    BY <1>8, <1>e, <2>1
<1>10. Cardinality(before) = Cardinality(X \cup Y) + Cardinality(Z) - 0
  <2> DEFINE U == X \cup Y
  <2>1. IsFiniteSet(U) /\ before = U \cup Z /\ U \cap Z = {}
    BY <1>7, <1>8, <1>9
  <2> HIDE DEF U
  <2>2. Cardinality(U \cup Z) = Cardinality(U) + Cardinality(Z) - Cardinality(U \cap Z)
    BY <1>6, <2>1, FS_Union
  <2>3. Cardinality(before) = Cardinality(U) + Cardinality(Z) - 0
    BY <1>e, <2>1, <2>2
  <2> QED
    BY <2>3 DEF U
<1>11. (cyl * Heads) * Sectors + head * Sectors = (cyl * Heads + head) * Sectors
  BY <1>1
<1> QED
  BY <1>1, <1>4, <1>5, <1>6, <1>9, <1>10, <1>11

\* An address of a sector, as the program has it.
Address == [lba : BOOLEAN, head : Nat, lba3 : Nat, lba2 : Nat, lba1 : Nat]

LEMMA AddressesAreSo == Addresses \cup DriverAddresses \cup {Origin} \subseteq Address
<1>1. Radix \in Nat
  BY IdeAssumption
<1>2. Origin \in Address
  BY DEF Origin, Address
<1>3. Addresses \cup DriverAddresses \subseteq Address
  BY <1>1, AddressAssumption DEF Address
<1> QED
  BY <1>2, <1>3

LEMMA BlockIsNumber ==
  ASSUME NEW a \in Address
  PROVE  Block(a) \in Nat
<1>1. Radix \in Nat /\ Cylinders \in Nat /\ Heads \in Nat /\ Sectors \in Nat
  BY IdeAssumption
<1>2. CASE a.lba
  <2>1. Block(a) = 2 + a.lba1 + Radix * (a.lba2 + Radix * (a.lba3 + Radix * a.head))
    BY <1>2 DEF Block
  <2>2. Radix * (a.lba2 + Radix * (a.lba3 + Radix * a.head)) \in Nat
    <3>1. a.lba2 \in Nat /\ a.lba3 \in Nat /\ a.head \in Nat
      BY DEF Address
    <3>2. \A i \in Nat : Radix * i \in Nat
      BY <1>1
    <3> QED
      BY <3>1, <3>2
  <2>3. a.lba1 \in Nat
    BY DEF Address
  <2> QED
    BY <2>1, <2>2, <2>3
<1>3. CASE ~a.lba
  <2> DEFINE T == (0 .. Cylinders - 1) \X (0 .. Heads - 1) \X (1 .. Sectors)
             cyl == a.lba2 + Radix * a.lba3
             sec == IF a.lba1 = 0 THEN 1 ELSE a.lba1
             before == {p \in T : \/ p[1] < cyl
                                  \/ p[1] = cyl /\ p[2] < a.head
                                  \/ p[1] = cyl /\ p[2] = a.head /\ p[3] < sec}
  <2>1. Block(a) = 2 + Cardinality(before)
    BY <1>3 DEF Block
  <2>2. IsFiniteSet(T)
    <3> DEFINE A == 0 .. Cylinders - 1
               B == 0 .. Heads - 1
               C == 1 .. Sectors
    <3>1. IsFiniteSet(A) /\ IsFiniteSet(B) /\ IsFiniteSet(C)
      BY <1>1, FS_Interval
    <3> HIDE DEF A, B, C
    <3>2. IsFiniteSet(A \X B \X C)
      BY <3>1, TriplesCounted
    <3> QED
      BY <3>2 DEF A, B, C
  <2>3. before \subseteq T
    OBVIOUS
  <2> HIDE DEF T, before
  <2>4. IsFiniteSet(before)
    BY <2>2, <2>3, FS_Subset
  <2>5. Cardinality(before) \in Nat
    BY <2>4, FS_CardinalityType
  <2> QED
    BY <2>1, <2>5
<1> QED
  BY <1>2, <1>3

-----------------------------------------------------------------------------
(* A drive between and during commands.                                    *)

DriveFields == {"present", "intrq", "failed", "eightbit", "state", "data", "dptr",
                "offset", "length", "image", "pos", "status", "error", "feature",
                "count", "lba1", "lba2", "lba3", "lba4", "srst"}

Moves == {"DATA_IN", "DATA_OUT"}

\* The drive's registers say where a.
Addressed(d, a) ==
  /\ d.lba1 = a.lba1 /\ d.lba2 = a.lba2 /\ d.lba3 = a.lba3
  /\ d.lba4 = [head |-> a.head, dev |-> FALSE, lba |-> a.lba]

\* xlate_block finds the sector that the program means, or none.
LEMMA BlockFound ==
  ASSUME NEW d, DOMAIN d = DriveFields, NEW a \in Address, Addressed(d, a)
  PROVE  xlate_block(d).offset \in {-1, Block(a)}
<1> DEFINE cyl == d.lba3 * Radix + d.lba2
           e == [d EXCEPT !.lba1 = First(d)]
<1>1. Radix \in Nat /\ Cylinders \in Nat /\ Heads \in Nat /\ Sectors \in Nat
  BY IdeAssumption
<1>2. /\ a.lba1 \in Nat /\ a.lba2 \in Nat /\ a.lba3 \in Nat /\ a.head \in Nat
      /\ a.lba \in BOOLEAN
  BY DEF Address
<1>3. /\ d.lba1 = a.lba1 /\ d.lba2 = a.lba2 /\ d.lba3 = a.lba3
      /\ d.lba4.lba = a.lba /\ d.lba4.head = a.head
  BY DEF Addressed
<1>4. DOMAIN e = DriveFields /\ e.lba1 = IF a.lba1 = 0 THEN 1 ELSE a.lba1
  BY <1>3 DEF First, DriveFields
<1>5. CASE a.lba /\ HasLba
  <2>1. xlate_block(d).offset = 2 + Lba(d)
    BY <1>3, <1>5 DEF xlate_block, DriveFields
  <2>2. Lba(d) = a.lba1 + Radix * (a.lba2 + Radix * (a.lba3 + Radix * a.head))
    <3> DEFINE x == a.lba3 + Radix * a.head
               y == a.lba2 + Radix * x
    <3>1. \A i \in Nat : i * Radix = Radix * i /\ Radix * i \in Nat
      BY <1>1
    <3>2. x \in Nat /\ y \in Nat
      BY <1>2, <3>1
    <3>3. a.head * Radix + a.lba3 = x
      BY <1>2, <3>1
    <3> HIDE DEF x
    <3>4. x * Radix + a.lba2 = y
      BY <1>2, <3>1, <3>2
    <3> HIDE DEF y
    <3>5. y * Radix + a.lba1 = a.lba1 + Radix * y
      BY <1>2, <3>1, <3>2
    <3> QED
      BY <1>3, <3>3, <3>4, <3>5 DEF Lba, x, y
  <2>3. Radix * (a.lba2 + Radix * (a.lba3 + Radix * a.head)) \in Nat
    <3>1. \A i \in Nat : Radix * i \in Nat
      BY <1>1
    <3> QED
      BY <1>2, <3>1
  <2> QED
    BY <1>2, <1>5, <2>1, <2>2, <2>3 DEF Block
<1>6. CASE /\ ~(a.lba /\ HasLba)
           /\ \/ e.lba1 > Sectors \/ cyl >= Cylinders
              \/ d.lba4.dev \/ d.lba4.lba \/ d.lba4.head >= Heads
  BY <1>3, <1>4, <1>6 DEF xlate_block, DriveFields
<1>7. CASE /\ ~a.lba
           /\ ~(\/ e.lba1 > Sectors \/ cyl >= Cylinders
                \/ d.lba4.dev \/ d.lba4.lba \/ d.lba4.head >= Heads)
  <2> DEFINE sec == IF a.lba1 = 0 THEN 1 ELSE a.lba1
             c == a.lba2 + Radix * a.lba3
             before == {p \in (0 .. Cylinders - 1) \X (0 .. Heads - 1) \X (1 .. Sectors) :
                          \/ p[1] < c
                          \/ p[1] = c /\ p[2] < a.head
                          \/ p[1] = c /\ p[2] = a.head /\ p[3] < sec}
  <2>1. c \in Nat /\ cyl = c
    BY <1>1, <1>2, <1>3
  <2>2. c \in 0 .. Cylinders - 1 /\ a.head \in 0 .. Heads - 1 /\ sec \in 1 .. Sectors
    BY <1>1, <1>2, <1>3, <1>4, <1>7, <2>1
  <2>3. xlate_block(d).offset = 1 + (cyl * Heads + d.lba4.head) * Sectors + e.lba1
    BY <1>3, <1>4, <1>7 DEF xlate_block, DriveFields
  <2>4. Block(a) = 2 + Cardinality(before)
    BY <1>7 DEF Block
  <2> HIDE DEF c, before, cyl
  <2>5. 2 + Cardinality(before) = 1 + (c * Heads + a.head) * Sectors + sec
    BY <2>2, BlockOnTrack DEF before
  <2> QED
    BY <1>3, <1>4, <2>1, <2>3, <2>4, <2>5
<1>8. a.lba /\ ~HasLba => d.lba4.lba
  BY <1>3
<1> QED
  BY <1>2, <1>5, <1>6, <1>7, <1>8, <1>3

\* A position is the offset, as long as it fits.
LEMMA SeekFits ==
  ASSUME NEW n \in Nat, n < OffSectors
  PROVE  SeekTo(n) = n
<1>1. OffSectors \in Nat \ {0}
  BY IdeAssumption
<1>2. n % (2 * OffSectors) = n
  BY <1>1
<1> QED
  BY <1>1, <1>2 DEF SeekTo

\* The same drive with the same image.
Kin(d, e) ==
  DOMAIN e = DriveFields /\ e.image = d.image /\ e.present = d.present

\* Between commands: neither busy nor asking for data.
Rests(d, e) ==
  Kin(d, e) /\ e.state = "IDLE" /\ "BSY" \notin e.status /\ "DRQ" \notin e.status

LEMMA ReadyRests ==
  ASSUME NEW d, NEW e, Kin(d, e)
  PROVE  Rests(d, ready(e)) /\ Rests(d, completed(e)) /\ Rests(d, drive_failed(e))
<1>1. ASSUME NEW f, Kin(d, f) PROVE Rests(d, ready(f))
  BY <1>1 DEF Rests, Kin, ready, DriveFields
<1>2. ASSUME NEW f, Rests(d, f) PROVE Rests(d, [f EXCEPT !.intrq = TRUE])
  BY <1>2 DEF Rests, Kin, DriveFields
<1>3. Kin(d, [e EXCEPT !.status = @ \cup {"ERR"}, !.error = {"IDNF"}])
  BY DEF Kin, DriveFields
<1> QED
  BY <1>1, <1>2, <1>3 DEF completed, drive_failed

LEMMA RegistersKin ==
  ASSUME NEW d, NEW e, Kin(d, e)
  PROVE  /\ Kin(d, Aborted(e)) /\ Kin(d, NotFound(e)) /\ Kin(d, xlate_block(e))
         /\ \A n : Kin(d, Seek(e, n))
         /\ \A n : Kin(d, [e EXCEPT !.status = n])
         /\ \A n : Kin(d, [e EXCEPT !.length = n])
         /\ \A n : Kin(d, [e EXCEPT !.offset = n])
         /\ \A n : Kin(d, [e EXCEPT !.failed = n])
         /\ \A n : Kin(d, [e EXCEPT !.eightbit = n])
         /\ \A n : Kin(d, [e EXCEPT !.intrq = n])
<1>1. Kin(d, Aborted(e)) /\ Kin(d, NotFound(e)) /\ \A n : Kin(d, Seek(e, n))
  BY DEF Kin, DriveFields, Aborted, NotFound, Seek
<1>2. Kin(d, xlate_block(e))
  BY DEF Kin, DriveFields, xlate_block
<1> QED
  BY <1>1, <1>2 DEF Kin, DriveFields

LEMMA EddRests ==
  ASSUME NEW d, DOMAIN d = DriveFields
  PROVE  Rests(d, edd_setup(d)) /\ Rests(d, ResetDrive(d))
<1> DEFINE e == [d EXCEPT !.error = {"AMNF"}, !.lba1 = 1, !.lba2 = 0, !.lba3 = 0,
                          !.lba4 = Top, !.count = 1]
<1>1. Kin(d, e)
  BY DEF Kin, DriveFields
<1>2. Rests(d, edd_setup(d))
  BY <1>1, ReadyRests DEF edd_setup
<1>3. Rests(d, ResetDrive(d))
  <2> DEFINE f == edd_setup(d)
  <2>1. Rests(d, f)
    BY <1>2
  <2> HIDE DEF f
  <2>2. Rests(d, [f EXCEPT !.status = {"DRDY"}, !.eightbit = FALSE])
    BY <2>1 DEF Rests, Kin, DriveFields
  <2> QED
    BY <2>2 DEF ResetDrive, f
<1> QED
  BY <1>2, <1>3

\* Commands that move no data.
LEMMA OthersRest ==
  ASSUME NEW d, DOMAIN d = DriveFields
  PROVE  /\ Rests(d, cmd_initparam(d)) /\ Rests(d, cmd_verifysectors(d))
         /\ Rests(d, cmd_recalibrate(d)) /\ Rests(d, cmd_seek(d))
         /\ Rests(d, cmd_setfeatures(d)) /\ Rests(d, completed(Aborted(d)))
<1>0. Kin(d, d)
  BY DEF Kin
<1>1. Rests(d, cmd_initparam(d))
  <2>1. Kin(d, Aborted(d))
    BY <1>0, RegistersKin
  <2>2. Kin(d, [Aborted(d) EXCEPT !.failed = TRUE]) /\ Kin(d, [d EXCEPT !.failed = FALSE])
    BY <1>0, <2>1, RegistersKin
  <2> QED
    BY <2>2, ReadyRests DEF cmd_initparam
<1>2. Rests(d, cmd_verifysectors(d))
  <2> DEFINE x == xlate_block(d)
             e == [x EXCEPT !.length = Length(d)]
             last == IF e.offset = -1 THEN -1 ELSE e.offset + e.length - 1
             f == IF SeekTo(last) = -1 THEN NotFound(e) ELSE Seek(e, last)
             g == [f EXCEPT !.status = @ \cup {"DSC"}]
  <2>1. Kin(d, x)
    BY <1>0, RegistersKin
  <2> HIDE DEF x
  <2>2. Kin(d, e)
    BY <2>1, RegistersKin
  <2> HIDE DEF e
  <2>3. Kin(d, f)
    BY <2>2, RegistersKin
  <2> HIDE DEF f
  <2>4. Kin(d, g)
    BY <2>3, RegistersKin
  <2>5. cmd_verifysectors(d) = IF d.failed THEN drive_failed(d) ELSE completed(g)
    BY DEF cmd_verifysectors, g, f, e, x
  <2> QED
    BY <1>0, <2>4, <2>5, ReadyRests
<1>3. Rests(d, cmd_recalibrate(d))
  <2> DEFINE e == IF d.failed THEN drive_failed(d) ELSE d
             x == xlate_block(e)
             f == IF e.offset = -1 THEN e ELSE [x EXCEPT !.offset = e.offset]
             a == IF e.offset = -1 \/ x.offset # 0 THEN Aborted(f) ELSE f
             g == [a EXCEPT !.status = @ \cup {"DSC"}]
  <2>1. Kin(d, e)
    BY <1>0, ReadyRests DEF Rests
  <2> HIDE DEF e
  <2>2. Kin(d, x)
    BY <2>1, RegistersKin
  <2> HIDE DEF x
  <2>3. Kin(d, f)
    BY <2>1, <2>2, RegistersKin
  <2> HIDE DEF f
  <2>4. Kin(d, a)
    BY <2>3, RegistersKin
  <2> HIDE DEF a
  <2>5. Kin(d, g)
    BY <2>4, RegistersKin
  <2>6. cmd_recalibrate(d) = completed(g)
    BY DEF cmd_recalibrate, g, a, f, x, e
  <2> QED
    BY <2>5, <2>6, ReadyRests
<1>4. Rests(d, cmd_seek(d))
  <2> DEFINE s == IF d.failed THEN drive_failed(d) ELSE d
             e == xlate_block(s)
             f == IF SeekTo(e.offset) = -1 THEN NotFound(e) ELSE Seek(e, e.offset)
             g == [f EXCEPT !.status = @ \cup {"DSC"}]
  <2>1. Kin(d, s)
    BY <1>0, ReadyRests DEF Rests
  <2> HIDE DEF s
  <2>2. Kin(d, e)
    BY <2>1, RegistersKin
  <2> HIDE DEF e
  <2>3. Kin(d, f)
    BY <2>2, RegistersKin
  <2> HIDE DEF f
  <2>4. Kin(d, g)
    BY <2>3, RegistersKin
  <2>5. cmd_seek(d) = completed(g)
    BY DEF cmd_seek, g, f, e, s
  <2> QED
    BY <2>4, <2>5, ReadyRests
<1>5. Rests(d, cmd_setfeatures(d))
  <2> DEFINE f == CASE d.feature = "8bit"  -> [d EXCEPT !.eightbit = TRUE]
                    [] d.feature = "16bit" -> [d EXCEPT !.eightbit = FALSE]
                    [] d.feature = "pio"   -> d
                    [] OTHER               -> Aborted(d)
  <2>1. Kin(d, f)
    BY <1>0, RegistersKin
  <2> HIDE DEF f
  <2> QED
    BY <2>1, ReadyRests DEF cmd_setfeatures, f
<1>6. Rests(d, completed(Aborted(d)))
  <2>1. Kin(d, Aborted(d))
    BY <1>0, RegistersKin
  <2> QED
    BY <2>1, ReadyRests
<1> QED
  BY <1>1, <1>2, <1>3, <1>4, <1>5, <1>6

\* A transfer begins: with n sectors to go, and the next one at pos.
Begins(d, e, n) ==
  /\ Kin(d, e) /\ e.length = n /\ e.eightbit = d.eightbit
  /\ "BSY" \notin e.status /\ "ERR" \notin e.status

LEMMA IdentifyBegins ==
  ASSUME NEW d, DOMAIN d = DriveFields, "ERR" \notin d.status,
         NEW e, e = cmd_identify(d)
  PROVE  /\ Begins(d, e, 1) /\ e.state = "DATA_IN" /\ e.dptr = 0
         /\ e.data = [i \in 1 .. SectorBytes |-> Byte("identify", 0, i)]
<1> DEFINE data == [i \in 1 .. SectorBytes |-> Byte("identify", 0, i)]
           c == [d EXCEPT !.data = data]
           b == data_in_state(c)
<1>1. /\ Kin(d, c) /\ c.data = data /\ c.eightbit = d.eightbit /\ c.status = d.status
  BY DEF Kin, DriveFields
<1> HIDE DEF data, c
<1>2. /\ Kin(d, b) /\ b.data = data /\ b.eightbit = d.eightbit /\ b.state = "DATA_IN"
      /\ b.status = (c.status \ {"BSY"}) \cup {"DRQ"}
  BY <1>1 DEF Kin, data_in_state, DriveFields
<1>3. e = [b EXCEPT !.dptr = 0, !.length = 1]
  BY DEF cmd_identify, b, c, data
<1> HIDE DEF b
<1> QED
  BY <1>1, <1>2, <1>3 DEF Begins, Kin, DriveFields, data

\* READ and WRITE find the sector that the program means or end at once.
LEMMA ReadBegins ==
  ASSUME NEW d, DOMAIN d = DriveFields, "ERR" \notin d.status,
         NEW a \in Address, Addressed(d, a), NEW e, e = cmd_readsectors(d)
  PROVE  \/ Rests(d, e)
         \/ /\ Begins(d, e, Length(d)) /\ e.state = "DATA_IN" /\ e.dptr = SectorBytes
            /\ e.pos = SeekTo(Block(a))
<1> DEFINE x == xlate_block(d)
           c == [x EXCEPT !.status = (@ \ {"BSY"}) \cup {"DRQ", "DSC", "DRDY"},
                          !.length = Length(d)]
           b == Seek(c, c.offset)
<1>1. /\ Kin(d, x) /\ x.offset \in {-1, Block(a)} /\ x.eightbit = d.eightbit
      /\ x.status = d.status
  <2>1. Kin(d, x)
    BY RegistersKin DEF Kin
  <2>2. x.eightbit = d.eightbit /\ x.status = d.status
    BY DEF xlate_block, DriveFields
  <2> QED
    BY <2>1, <2>2, BlockFound
<1> HIDE DEF x
<1>2. /\ Kin(d, c) /\ c.offset = x.offset /\ c.eightbit = d.eightbit
      /\ c.length = Length(d) /\ "ERR" \notin c.status
  BY <1>1 DEF Kin, DriveFields
<1>3. e = IF d.failed THEN drive_failed(d)
          ELSE IF SeekTo(c.offset) = -1 THEN completed(NotFound(c)) ELSE data_in_state(b)
  BY DEF cmd_readsectors, b, c, x
<1> HIDE DEF c
<1>4. CASE d.failed
  BY <1>3, <1>4, ReadyRests DEF Kin
<1>5. CASE ~d.failed /\ SeekTo(c.offset) = -1
  <2>1. Kin(d, NotFound(c))
    BY <1>2, RegistersKin
  <2> QED
    BY <1>3, <1>5, <2>1, ReadyRests
<1>6. CASE ~d.failed /\ SeekTo(c.offset) # -1
  <2>1. c.offset = Block(a)
    BY <1>1, <1>2, <1>6 DEF SeekTo
  <2>2. /\ Kin(d, b) /\ b.pos = SeekTo(Block(a)) /\ b.eightbit = d.eightbit
        /\ b.length = Length(d) /\ b.status = c.status
    BY <1>2, <1>6, <2>1 DEF Seek, Kin, DriveFields
  <2> HIDE DEF b
  <2> QED
    BY <1>2, <1>3, <1>6, <2>2 DEF data_in_state, Begins, Kin, DriveFields
<1> QED
  BY <1>4, <1>5, <1>6

LEMMA WriteBegins ==
  ASSUME NEW d, DOMAIN d = DriveFields, "ERR" \notin d.status,
         NEW a \in Address, Addressed(d, a), NEW e, e = cmd_writesectors(d)
  PROVE  \/ Rests(d, e)
         \/ /\ Begins(d, e, Length(d)) /\ e.state = "DATA_OUT" /\ e.dptr = 0
            /\ e.pos = SeekTo(Block(a))
<1> DEFINE x == xlate_block(d)
           c == [x EXCEPT !.status = @ \cup {"DRQ"}, !.length = Length(d)]
           b == Seek(c, c.offset)
<1>1. /\ Kin(d, x) /\ x.offset \in {-1, Block(a)} /\ x.eightbit = d.eightbit
      /\ x.status = d.status
  <2>1. Kin(d, x)
    BY RegistersKin DEF Kin
  <2>2. x.eightbit = d.eightbit /\ x.status = d.status
    BY DEF xlate_block, DriveFields
  <2> QED
    BY <2>1, <2>2, BlockFound
<1> HIDE DEF x
<1>2. /\ Kin(d, c) /\ c.offset = x.offset /\ c.eightbit = d.eightbit
      /\ c.length = Length(d) /\ "ERR" \notin c.status
  BY <1>1 DEF Kin, DriveFields
<1>3. e = IF d.failed THEN drive_failed(d)
          ELSE IF SeekTo(c.offset) = -1 THEN completed(NotFound(c)) ELSE data_out_state(b)
  BY DEF cmd_writesectors, b, c, x
<1> HIDE DEF c
<1>4. CASE d.failed
  BY <1>3, <1>4, ReadyRests DEF Kin
<1>5. CASE ~d.failed /\ SeekTo(c.offset) = -1
  <2>1. Kin(d, NotFound(c))
    BY <1>2, RegistersKin
  <2> QED
    BY <1>3, <1>5, <2>1, ReadyRests
<1>6. CASE ~d.failed /\ SeekTo(c.offset) # -1
  <2>1. c.offset = Block(a)
    BY <1>1, <1>2, <1>6 DEF SeekTo
  <2>2. /\ Kin(d, b) /\ b.pos = SeekTo(Block(a)) /\ b.eightbit = d.eightbit
        /\ b.length = Length(d) /\ b.status = c.status
    BY <1>2, <1>6, <2>1 DEF Seek, Kin, DriveFields
  <2> HIDE DEF b
  <2> QED
    BY <1>2, <1>3, <1>6, <2>2 DEF data_out_state, Begins, Kin, DriveFields
<1> QED
  BY <1>4, <1>5, <1>6

-----------------------------------------------------------------------------
(* The data of a command, sector by sector.                                *)

HostFields == {"command", "at", "count", "moved", "write"}

HostOK(h) ==
  /\ h = [f \in HostFields |-> h[f]]
  /\ h.at \in Nat /\ h.count \in Nat /\ h.moved \in Nat
  /\ h.command = "IDENTIFY" => h.count = 1

\* All that the command asks for has a byte offset that fits an off_t.
Fits(h) == h.at + h.count <= OffSectors

\* How many sectors have passed.
Passed(d, h) == h.count - d.length

\* What byte i of the sector that is being read should be.
Wanted(image, h, k, i) ==
  IF h.command = "IDENTIFY" THEN Byte("identify", 0, i) ELSE Held(image, h.at + k)[i]

\* A sector in the drive's buffer, or the next one still in the file.
MovesIn(d, h, k) ==
  /\ d.state = "DATA_IN" /\ "ERR" \notin d.status /\ h.command \in {"READ", "IDENTIFY"}
  /\ d.dptr = SectorBytes =>
       /\ h.command = "READ" /\ h.moved = k * SectorBytes
       /\ Fits(h) => d.pos = h.at + k
  /\ d.dptr < SectorBytes =>
       /\ h.moved = k * SectorBytes + d.dptr
       /\ Fits(h) =>
            /\ h.command = "READ" => d.pos = h.at + k + 1
            /\ \A i \in 1 .. SectorBytes : d.data[i] = Wanted(d.image, h, k, i)

\* The buffer holds what was sent of the sector, and the file is at its place.
MovesOut(d, h, k) ==
  /\ d.state = "DATA_OUT" /\ h.command = "WRITE" /\ d.dptr < SectorBytes
  /\ h.moved = k * SectorBytes + d.dptr
  /\ Fits(h) => d.pos = h.at + k
  /\ \A i \in 1 .. d.dptr : d.data[i] = Byte("sent", h.write, k * SectorBytes + i)

\* A drive that moves data moves those of the program's last command.
Transfer(d, h) ==
  d.state \in Moves =>
    /\ d.length \in 1 .. h.count /\ d.dptr \in 0 .. SectorBytes
    /\ ~d.eightbit => d.dptr % 2 = 0
    /\ MovesIn(d, h, Passed(d, h)) \/ MovesOut(d, h, Passed(d, h))

LEMMA RestTransfers ==
  ASSUME NEW d, NEW e, Rests(d, e), NEW h
  PROVE  Transfer(e, h)
BY DEF Rests, Transfer, Moves

\* A word ends in the sector in which it begins.
LEMMA WordInSector ==
  ASSUME NEW d, d.dptr \in 0 .. SectorBytes - 1, ~d.eightbit => d.dptr % 2 = 0
  PROVE  /\ Width(d) \in 1 .. 2 /\ d.dptr + Width(d) \in 1 .. SectorBytes
         /\ ~d.eightbit => (d.dptr + Width(d)) % 2 = 0
<1>1. SectorBytes \in Nat /\ SectorBytes % 2 = 0
  BY IdeAssumption
<1>2. CASE d.eightbit
  BY <1>1, <1>2 DEF Width
<1>3. CASE ~d.eightbit
  <2>1. d.dptr % 2 = 0 /\ Width(d) = 2
    BY <1>3 DEF Width
  <2> QED
    BY <1>1, <2>1
<1> QED
  BY <1>2, <1>3

\* Sectors and the bytes of the one at hand.
LEMMA SectorsAndBytes ==
  ASSUME NEW k \in Nat, NEW r \in 0 .. SectorBytes - 1
  PROVE  /\ (k * SectorBytes + r) \div SectorBytes = k
         /\ (k * SectorBytes + r) % SectorBytes = r
         /\ k * SectorBytes \in Nat
         /\ (k + 1) * SectorBytes = k * SectorBytes + SectorBytes
         /\ \A n \in Nat : k < n => k * SectorBytes + SectorBytes <= n * SectorBytes
<1>1. SectorBytes \in Nat \ {0}
  BY IdeAssumption
<1>2. /\ k * SectorBytes \in Nat
      /\ (k + 1) * SectorBytes = k * SectorBytes + SectorBytes
  BY <1>1
<1>3. /\ (k * SectorBytes + r) \div SectorBytes = k
      /\ (k * SectorBytes + r) % SectorBytes = r
  BY <1>1, <1>2
<1>4. ASSUME NEW n \in Nat, k < n
      PROVE  k * SectorBytes + SectorBytes <= n * SectorBytes
  <2> DEFINE j == n - (k + 1)
  <2>1. j \in Nat /\ n = (k + 1) + j
    BY <1>4
  <2> HIDE DEF j
  <2>2. n * SectorBytes = (k + 1) * SectorBytes + j * SectorBytes /\ j * SectorBytes \in Nat
    BY <1>1, <2>1
  <2> QED
    BY <1>2, <2>2, <1>1
<1> QED
  BY <1>2, <1>3, <1>4

\* After a failed transfer.
LEMMA ErrorRests ==
  ASSUME NEW d, NEW s, Kin(d, s)
  PROVE  Rests(d, ide_set_error(s))
<1> DEFINE track == Cylinders * Sectors
           n == s.offset \div Sectors
           located ==
             IF s.lba4.lba
             THEN [s EXCEPT !.lba1 = s.offset % Radix,
                            !.lba2 = (s.offset \div Radix) % Radix,
                            !.lba3 = (s.offset \div (Radix * Radix)) % Radix,
                            !.lba4.head = (s.offset \div (Radix * Radix * Radix)) % Radix]
             ELSE [s EXCEPT !.lba1 = ((s.offset % Sectors) + 1) % Radix,
                            !.lba4.head = (n \div track) % Radix,
                            !.offset = n % track,
                            !.lba2 = (n % track) % Radix,
                            !.lba3 = ((n % track) \div Radix) % Radix]
           f == [located EXCEPT !.count = s.length % Radix, !.status = @ \cup {"ERR"}]
<1>1. Kin(d, located)
  BY DEF Kin, DriveFields
<1> HIDE DEF located
<1>2. Kin(d, f)
  BY <1>1 DEF Kin, DriveFields
<1>3. ide_set_error(s) = completed(f)
  BY DEF ide_set_error, f, located
<1> QED
  BY <1>2, <1>3, ReadyRests

\* The last byte of a sector ends it: the command goes on with the next, or ends.
LEMMA SectorEnds ==
  ASSUME NEW d, DOMAIN d = DriveFields, NEW h, HostOK(h), d.length \in 1 .. h.count,
         NEW e, e = SectorDone(d)
  PROVE  \/ Rests(d, e)
         \/ /\ Kin(d, e) /\ e.length = d.length - 1 /\ e.length \in 1 .. h.count
            /\ h.count > 1 /\ e.state = d.state /\ e.status = d.status /\ e.dptr = d.dptr
            /\ e.pos = d.pos /\ e.eightbit = d.eightbit
            /\ Passed(e, h) = Passed(d, h) + 1 /\ Passed(e, h) < h.count
<1> DEFINE c == [d EXCEPT !.length = @ - 1, !.intrq = TRUE]
<1>1. /\ Kin(d, c) /\ c.length = d.length - 1 /\ c.state = d.state /\ c.status = d.status
      /\ c.dptr = d.dptr /\ c.pos = d.pos /\ c.eightbit = d.eightbit
  BY DEF Kin, DriveFields
<1>2. e = IF c.length = 0 THEN completed(c) ELSE c
  BY DEF SectorDone
<1> HIDE DEF c
<1>3. CASE c.length = 0
  BY <1>1, <1>2, <1>3, ReadyRests
<1>4. CASE c.length # 0
  BY <1>1, <1>2, <1>4 DEF Passed, HostOK
<1> QED
  BY <1>3, <1>4

\* The word at the place in the buffer, the drive without it, and the program with it.
WordAt(d) == SubSeq(d.data, d.dptr + 1, d.dptr + Width(d))

Further(d) ==
  LET f == [d EXCEPT !.dptr = @ + Width(d)]
  IN IF f.dptr = SectorBytes THEN SectorDone(f) ELSE f

Counted(h, w) == [h EXCEPT !.moved = @ + Len(w)]

\* A word out of the buffer.
LEMMA WordTaken ==
  ASSUME NEW d, DOMAIN d = DriveFields, NEW h, HostOK(h), Transfer(d, h),
         d.state = "DATA_IN", d.dptr < SectorBytes
  PROVE  /\ Kin(d, Further(d)) /\ HostOK(Counted(h, WordAt(d)))
         /\ Transfer(Further(d), Counted(h, WordAt(d)))
         /\ Counted(h, WordAt(d)).moved <= h.count * SectorBytes
         /\ h.moved \div SectorBytes = Passed(d, h) /\ h.moved % SectorBytes = d.dptr
         /\ Fits(h) => \A i \in DOMAIN WordAt(d) :
              WordAt(d)[i] = Wanted(d.image, h, Passed(d, h), d.dptr + i)
<1> DEFINE k == Passed(d, h)
           v == Width(d)
           f == [d EXCEPT !.dptr = @ + v]
           e == Further(d)
           w == WordAt(d)
           h2 == Counted(h, w)
<1>e. e = IF f.dptr = SectorBytes THEN SectorDone(f) ELSE f
  BY DEF Further
<1>w. w = SubSeq(d.data, d.dptr + 1, d.dptr + v) /\ h2 = [h EXCEPT !.moved = @ + Len(w)]
  BY DEF WordAt, Counted
<1>1. SectorBytes \in Nat \ {0}
  BY IdeAssumption
<1>2. /\ k \in Nat /\ k < h.count /\ d.length \in 1 .. h.count
      /\ d.dptr \in 0 .. SectorBytes - 1
      /\ ~d.eightbit => d.dptr % 2 = 0
      /\ MovesIn(d, h, k)
  BY <1>1 DEF Transfer, Moves, MovesOut, Passed, HostOK
<1>k. k = Passed(d, h) /\ v = Width(d)
  OBVIOUS
<1>f. /\ Kin(d, f) /\ f.dptr = d.dptr + v /\ f.state = d.state /\ f.length = d.length
      /\ f.data = d.data /\ f.pos = d.pos /\ f.status = d.status /\ f.eightbit = d.eightbit
  BY DEF Kin, DriveFields
<1> HIDE DEF k, v, f, e, w, h2
<1>3. /\ v \in 1 .. 2 /\ d.dptr + v \in 1 .. SectorBytes
      /\ ~d.eightbit => (d.dptr + v) % 2 = 0
  BY ONLY <1>2, <1>k, WordInSector
<1>4. w = [i \in 1 .. v |-> d.data[d.dptr + i]] /\ Len(w) = v
  <2> DEFINE p == d.dptr
             s == d.data
  <2>1. w = SubSeq(s, p + 1, p + v) /\ p \in Nat
    BY <1>1, <1>2, <1>w
  <2> HIDE DEF p, s
  <2>2. w = [i \in 1 .. v |-> s[p + i]] /\ Len(w) = v
    BY ONLY <1>3, <2>1
  <2> QED
    BY <2>2 DEF p, s
<1>5. /\ h.moved = k * SectorBytes + d.dptr /\ k * SectorBytes \in Nat
      /\ h.moved \div SectorBytes = k /\ h.moved % SectorBytes = d.dptr
      /\ (k + 1) * SectorBytes = k * SectorBytes + SectorBytes
      /\ k * SectorBytes + SectorBytes <= h.count * SectorBytes
  <2>1. h.moved = k * SectorBytes + d.dptr
    BY <1>2 DEF MovesIn
  <2>2. h.count \in Nat
    BY DEF HostOK
  <2> QED
    BY ONLY <1>2, <2>1, <2>2, SectorsAndBytes
<1>6. /\ HostOK(h2) /\ h2.moved = h.moved + v /\ h2.count = h.count /\ h2.at = h.at
      /\ h2.command = h.command
  <2>1. h2 = [h EXCEPT !.moved = @ + v]
    BY <1>4, <1>w
  <2> QED
    BY ONLY <1>3, <2>1, HostOK(h) DEF HostOK, HostFields
<1>8. Passed(f, h2) = k /\ (Fits(h2) <=> Fits(h))
      /\ \A i : Wanted(f.image, h2, k, i) = Wanted(d.image, h, k, i)
  BY <1>6, <1>f, <1>k DEF Passed, Fits, Wanted, Kin
<1>9. Kin(d, e) /\ Transfer(e, h2)
  <2>1. CASE f.dptr # SectorBytes
    <3>1. e = f
      BY <1>e, <2>1
    <3>2. MovesIn(f, h2, k)
      <4>1. f.dptr < SectorBytes /\ f.dptr = d.dptr + v
        BY ONLY <1>1, <1>2, <1>3, <1>f, <2>1
      <4>2. h2.moved = k * SectorBytes + f.dptr
        BY ONLY <1>1, <1>2, <1>3, <1>5, <1>6, <4>1
      <4>3. f.dptr # SectorBytes /\ d.dptr < SectorBytes
        BY ONLY <1>1, <1>2, <2>1
      <4> QED
        BY ONLY <1>2, <1>6, <1>f, <1>8, <4>1, <4>2, <4>3 DEF MovesIn
    <3>3. Transfer(f, h2)
      BY ONLY <1>1, <1>2, <1>3, <1>6, <1>f, <1>8, <3>2 DEF Transfer
    <3> QED
      BY ONLY <1>f, <3>1, <3>3
  <2>2. CASE f.dptr = SectorBytes
    <3>1. e = SectorDone(f) /\ DOMAIN f = DriveFields /\ f.length \in 1 .. h2.count
      BY <1>e, <1>2, <1>6, <1>f, <2>2 DEF Kin
    <3>2. CASE Rests(f, e)
      <4>1. Rests(d, e)
        BY <1>f, <3>2 DEF Rests, Kin
      <4> QED
        BY <4>1, RestTransfers DEF Rests
    <3>3. CASE ~Rests(f, e)
      <4>1. /\ Kin(f, e) /\ e.length \in 1 .. h2.count /\ h2.count > 1
            /\ e.state = f.state /\ e.status = f.status /\ e.dptr = f.dptr
            /\ e.pos = f.pos /\ e.eightbit = f.eightbit /\ Passed(e, h2) = k + 1
        BY ONLY <1>6, <1>8, <3>1, <3>3, SectorEnds
      <4>2. h.command = "READ"
        BY ONLY <1>2, <1>6, <4>1 DEF MovesIn, HostOK
      <4>3. h2.moved = (k + 1) * SectorBytes
        <5>1. d.dptr + v = SectorBytes
          BY ONLY <1>f, <2>2
        <5>2. h2.moved = (k * SectorBytes + d.dptr) + v
          BY ONLY <1>5, <1>6
        <5> QED
          <6> DEFINE q == k * SectorBytes
          <6>1. q \in Nat /\ (k + 1) * SectorBytes = q + SectorBytes
            BY <1>5
          <6>2. h2.moved = (q + d.dptr) + v
            BY <5>2
          <6> HIDE DEF q
          <6> QED
            BY ONLY <1>1, <1>2, <1>3, <5>1, <6>1, <6>2
      <4>4. Fits(h2) => e.pos = h2.at + (k + 1)
        <5>1. Fits(h) => d.pos = h.at + k + 1
          BY ONLY <1>1, <1>2, <4>2 DEF MovesIn
        <5>2. h.at \in Nat
          BY DEF HostOK
        <5> QED
          BY ONLY <1>2, <1>6, <1>f, <1>8, <4>1, <5>1, <5>2
      <4>5. MovesIn(e, h2, k + 1)
        <5>1. "ERR" \notin e.status /\ e.state = "DATA_IN" /\ e.dptr = SectorBytes
          BY ONLY <1>2, <1>f, <2>2, <4>1 DEF MovesIn
        <5> QED
          BY ONLY <1>1, <1>6, <4>2, <4>3, <4>4, <5>1 DEF MovesIn
      <4>6. Kin(d, e)
        BY ONLY <1>f, <4>1 DEF Kin
      <4>7. Transfer(e, h2)
        BY ONLY <1>1, <1>3, <1>f, <2>2, <4>1, <4>5 DEF Transfer
      <4> QED
        BY ONLY <4>6, <4>7
    <3> QED
      BY <3>2, <3>3
  <2> QED
    BY <2>1, <2>2
<1>10. h2.moved <= h.count * SectorBytes
  <2>1. h.count * SectorBytes \in Nat
    BY <1>1 DEF HostOK
  <2> QED
    BY ONLY <1>1, <1>2, <1>3, <1>5, <1>6, <2>1
<1>11. Fits(h) => \A i \in DOMAIN w : w[i] = Wanted(d.image, h, k, d.dptr + i)
  <2> SUFFICES ASSUME Fits(h), NEW i \in DOMAIN w
               PROVE  w[i] = Wanted(d.image, h, k, d.dptr + i)
    OBVIOUS
  <2>1. i \in 1 .. v /\ w[i] = d.data[d.dptr + i] /\ d.dptr + i \in 1 .. SectorBytes
    BY ONLY <1>1, <1>2, <1>3, <1>4, i \in DOMAIN w
  <2> QED
    BY ONLY <1>1, <1>2, <2>1, Fits(h) DEF MovesIn
<1> QED
  BY ONLY <1>5, <1>6, <1>9, <1>10, <1>11, <1>k DEF e, w, h2

\* A read of the data register gives the word that the command's address says.
LEMMA ReadMoves ==
  ASSUME NEW d, DOMAIN d = DriveFields, NEW h, HostOK(h), Transfer(d, h),
         h.command \in {"READ", "IDENTIFY"}, NEW io, NEW e, NEW w, NEW h2,
         e = ide_data_in(d, io), w = DataRead(d, io),
         h2 = Counted(h, w)
  PROVE  /\ Kin(d, e) /\ HostOK(h2) /\ Transfer(e, h2)
         /\ w # <<>> =>
              /\ h2.moved <= h.count * SectorBytes
              /\ Fits(h) => \A i \in DOMAIN w :
                   w[i] = Wanted(d.image, h, h.moved \div SectorBytes,
                                 (h.moved % SectorBytes) + i)
<1> DEFINE s == IF d.dptr = SectorBytes THEN ide_read_sector(d, io) ELSE d
           f == [s EXCEPT !.dptr = @ + Width(s)]
<1>1. SectorBytes \in Nat \ {0}
  BY IdeAssumption
<1>2. /\ e = IF d.state # "DATA_IN" THEN d
             ELSE IF d.dptr = SectorBytes /\ "ERR" \in s.status THEN ide_set_error(s)
             ELSE IF f.dptr = SectorBytes THEN SectorDone(f) ELSE f
      /\ w = IF d.state # "DATA_IN" \/ s.dptr = SectorBytes \/ "ERR" \in s.status THEN <<>>
             ELSE SubSeq(s.data, s.dptr + 1, s.dptr + Width(s))
  BY DEF ide_data_in, DataRead
<1>3. w = <<>> => h2 = h
  <2>1. w = <<>> => h2 = [h EXCEPT !.moved = @ + 0]
    BY DEF Counted
  <2>2. [h EXCEPT !.moved = @ + 0] = h
    <3> DEFINE m == h.moved + 0
    <3>1. m = h.moved /\ h = [x \in HostFields |-> h[x]]
      BY DEF HostOK
    <3> HIDE DEF m
    <3>2. [h EXCEPT !.moved = m] = h
      BY <3>1 DEF HostFields
    <3> QED
      BY <3>2 DEF m
  <2> QED
    BY <2>1, <2>2
<1>4. CASE d.state # "DATA_IN"
  <2>1. e = d /\ w = <<>>
    BY <1>2, <1>4
  <2> QED
    BY <1>3, <2>1 DEF Kin
<1>5. CASE d.state = "DATA_IN" /\ d.dptr # SectorBytes
  <2>1. s = d
    BY <1>5
  <2>2. d.dptr < SectorBytes /\ "ERR" \notin d.status
    BY <1>1, <1>5 DEF Transfer, Moves, MovesIn, MovesOut
  <2>3. e = Further(d) /\ w = WordAt(d)
    BY <1>2, <1>5, <2>1, <2>2 DEF Further, WordAt
  <2> HIDE DEF f, s
  <2> QED
    BY ONLY <1>5, <2>2, <2>3, WordTaken, DOMAIN d = DriveFields, HostOK(h), Transfer(d, h),
            h2 = Counted(h, w)
<1>6. CASE d.state = "DATA_IN" /\ d.dptr = SectorBytes
  <2> DEFINE k == Passed(d, h)
             x == IF io = "ok" /\ d.pos \notin DOMAIN d.image THEN "short" ELSE io
  <2>1. /\ s = ide_read_sector(d, io)
        /\ k \in Nat /\ k < h.count /\ d.length \in 1 .. h.count
        /\ MovesIn(d, h, k)
    BY <1>1, <1>6 DEF Transfer, Moves, MovesOut, Passed, HostOK
  <2>2. CASE x # "ok"
    <3>1. Kin(d, s) /\ "ERR" \in s.status
      <4> DEFINE c == [d EXCEPT !.dptr = 0, !.status = @ \ {"DSC"}]
      <4>1. Kin(d, c)
        BY DEF Kin, DriveFields
      <4>2. s = xlate_errno(c, x)
        BY <2>1, <2>2 DEF ide_read_sector
      <4> HIDE DEF c, x
      <4>3. Kin(d, xlate_errno(c, x)) /\ "ERR" \in xlate_errno(c, x).status
        BY <4>1 DEF xlate_errno, Kin, DriveFields
      <4> HIDE DEF s
      <4> QED
        BY ONLY <4>2, <4>3
    <3>2. e = ide_set_error(s) /\ w = <<>>
      BY <1>2, <1>6, <3>1
    <3> HIDE DEF s
    <3>3. Rests(d, e)
      BY <3>1, <3>2, ErrorRests
    <3> QED
      BY <1>3, <3>2, <3>3, RestTransfers DEF Rests
  <2>3. CASE x = "ok"
    <3>1. d.pos \in DOMAIN d.image
      BY <2>3
    <3>2. s = [d EXCEPT !.data = d.image[d.pos], !.pos = @ + 1, !.dptr = 0,
                        !.offset = @ + SectorBytes]
      BY <2>1, <2>3 DEF ide_read_sector
    <3>3. /\ Kin(d, s) /\ s.data = d.image[d.pos] /\ s.pos = d.pos + 1 /\ s.dptr = 0
          /\ s.length = d.length /\ s.eightbit = d.eightbit /\ s.state = d.state
          /\ s.status = d.status
      <4>1. DOMAIN d = DriveFields /\ DOMAIN s = DriveFields
        BY <3>2 DEF Kin
      <4> HIDE DEF s, f
      <4>2. /\ s.image = d.image /\ s.present = d.present /\ s.length = d.length
            /\ s.eightbit = d.eightbit /\ s.state = d.state /\ s.status = d.status
        BY ONLY <3>2, <4>1 DEF DriveFields
      <4>3. s.data = d.image[d.pos] /\ s.pos = d.pos + 1 /\ s.dptr = 0
        BY ONLY <3>2, <4>1 DEF DriveFields
      <4> QED
        BY <4>1, <4>2, <4>3 DEF Kin
    <3> HIDE DEF s
    <3>4. Passed(s, h) = k
      BY <3>3 DEF Passed
    <3>5. MovesIn(s, h, k)
      <4>1. /\ h.command = "READ" /\ h.moved = k * SectorBytes
            /\ Fits(h) => d.pos = h.at + k
        BY <1>6, <2>1 DEF MovesIn
      <4>2. k * SectorBytes + 0 = k * SectorBytes
        BY <1>1, <2>1
      <4>3. Fits(h) => \A i \in 1 .. SectorBytes : s.data[i] = Wanted(s.image, h, k, i)
        BY <3>1, <3>3, <4>1 DEF Wanted, Held, Kin
      <4> QED
        BY <1>1, <1>6, <2>1, <3>3, <4>1, <4>2, <4>3 DEF MovesIn
    <3>6. Transfer(s, h)
      BY <1>1, <2>1, <3>3, <3>4, <3>5 DEF Transfer
    <3>7. "ERR" \notin s.status
      BY <2>1, <3>3 DEF MovesIn
    <3>8. e = Further(s) /\ w = WordAt(s)
      BY <1>1, <1>2, <1>6, <3>3, <3>7 DEF Further, WordAt
    <3>9. s.state = "DATA_IN" /\ s.dptr < SectorBytes /\ DOMAIN s = DriveFields
      BY <1>1, <1>6, <3>3 DEF Kin
    <3>10. /\ Kin(s, e) /\ HostOK(h2) /\ Transfer(e, h2)
           /\ h2.moved <= h.count * SectorBytes
           /\ h.moved \div SectorBytes = Passed(s, h) /\ h.moved % SectorBytes = s.dptr
           /\ Fits(h) => \A i \in DOMAIN w :
                w[i] = Wanted(s.image, h, Passed(s, h), s.dptr + i)
      BY ONLY <3>6, <3>8, <3>9, WordTaken, HostOK(h), h2 = Counted(h, w)
    <3> QED
      BY <3>3, <3>10 DEF Kin
  <2> QED
    BY <2>2, <2>3
<1> QED
  BY <1>4, <1>5, <1>6

\* What a write of a sector leaves of the file.
LEMMA SectorStored ==
  ASSUME NEW d, d.pos \in Nat, NEW data
  PROVE  /\ Stored(d, data)[d.pos] = data
         /\ \A s \in DOMAIN Stored(d, data) \ {d.pos} :
              Held(Stored(d, data), s) = Held(d.image, s)
<1> DEFINE image == Stored(d, data)
<1>1. /\ DOMAIN image = DOMAIN d.image \cup 0 .. d.pos
      /\ \A s \in DOMAIN image : image[s] = IF s = d.pos THEN data ELSE Sector(d, s)
  BY DEF Stored
<1>2. d.pos \in DOMAIN image
  BY <1>1
<1> HIDE DEF image
<1>3. image[d.pos] = data
  BY <1>1, <1>2
<1>4. \A s \in DOMAIN image \ {d.pos} : Held(image, s) = Held(d.image, s)
  BY <1>1 DEF Held, Sector
<1> QED
  BY <1>3, <1>4 DEF image

\* A sector's bytes go to the file all, half or not at all.
LEMMA SectorWritten ==
  ASSUME NEW d, DOMAIN d = DriveFields, NEW io, NEW e, e = ide_write_sector(d, io)
  PROVE  /\ DOMAIN e = DriveFields /\ e.present = d.present
         /\ e.image # d.image =>
              \E data : /\ e.image = Stored(d, data)
                        /\ \A i \in 1 .. SectorBytes : data[i] \in {d.data[i], Sector(d, d.pos)[i]}
         /\ io = "ok" =>
              /\ e.pos = d.pos + 1 /\ e.dptr = 0 /\ e.state = d.state
              /\ e.length = d.length /\ e.eightbit = d.eightbit
<1> DEFINE half == [i \in 1 .. SectorBytes |->
                      IF 2 * i <= SectorBytes THEN d.data[i] ELSE Sector(d, d.pos)[i]]
           c == [d EXCEPT !.dptr = 0, !.status = @ \ {"DSC"},
                          !.image = IF io = "short" THEN Stored(d, half) ELSE @]
<1>1. CASE io = "ok"
  <2>1. e = [d EXCEPT !.image = Stored(d, d.data), !.pos = @ + 1, !.dptr = 0,
                      !.offset = @ + SectorBytes]
    BY <1>1 DEF ide_write_sector
  <2>2. /\ DOMAIN e = DriveFields /\ e.present = d.present /\ e.image = Stored(d, d.data)
        /\ e.pos = d.pos + 1 /\ e.dptr = 0 /\ e.state = d.state
        /\ e.length = d.length /\ e.eightbit = d.eightbit
    BY <2>1 DEF DriveFields
  <2> QED
    BY <2>2
<1>2. CASE io # "ok"
  <2>1. \A i \in 1 .. SectorBytes : half[i] \in {d.data[i], Sector(d, d.pos)[i]}
    OBVIOUS
  <2> HIDE DEF half
  <2>2. /\ DOMAIN c = DriveFields /\ c.present = d.present
        /\ c.image = d.image \/ c.image = Stored(d, half)
    BY DEF DriveFields
  <2>3. e = xlate_errno(c, io)
    BY <1>2 DEF ide_write_sector, half
  <2> HIDE DEF c
  <2>4. DOMAIN e = DriveFields /\ e.present = c.present /\ e.image = c.image
    BY <2>2, <2>3 DEF xlate_errno, DriveFields
  <2> QED
    BY <1>2, <2>1, <2>2, <2>4
<1> QED
  BY <1>1, <1>2

\* What a write of the data register may change of the file: bytes that the program
\* sent for the sector it is at.
Sent(h, k, image, image2) ==
  /\ \A s \in DOMAIN image2 \ {h.at + k} : Held(image2, s) = Held(image, s)
  /\ \A i \in 1 .. SectorBytes :
       image2[h.at + k][i] \in {Byte("sent", h.write, k * SectorBytes + i),
                                Held(image, h.at + k)[i]}

Words(h) == [i \in 1 .. 2 |-> Byte("sent", h.write, h.moved + i)]

\* The buffer with a word more, and the program with it.
Filled(d, h) ==
  [d EXCEPT !.data = [i \in 1 .. SectorBytes |->
                        IF i \in d.dptr + 1 .. d.dptr + Width(d)
                        THEN Words(h)[i - d.dptr] ELSE @[i]],
            !.dptr = @ + Width(d)]

SentOn(d, h) == [h EXCEPT !.moved = @ + Width(d)]

LEMMA WordFills ==
  ASSUME NEW d, DOMAIN d = DriveFields, NEW h, HostOK(h), Transfer(d, h),
         d.state = "DATA_OUT"
  PROVE  LET k == Passed(d, h)
             c == Filled(d, h)
             h2 == SentOn(d, h)
         IN /\ Kin(d, c) /\ HostOK(h2) /\ h2.moved <= h.count * SectorBytes
            /\ k \in Nat /\ k < h.count /\ d.length \in 1 .. h.count
            /\ c.length = d.length /\ c.pos = d.pos /\ c.state = d.state
            /\ c.eightbit = d.eightbit /\ c.status = d.status
            /\ c.dptr \in 1 .. SectorBytes /\ (~c.eightbit => c.dptr % 2 = 0)
            /\ h2.at = h.at /\ h2.count = h.count /\ h2.command = "WRITE"
            /\ h2.write = h.write /\ h.command = "WRITE"
            /\ h2.moved = k * SectorBytes + c.dptr /\ k * SectorBytes \in Nat
            /\ (Fits(h) => c.pos = h.at + k)
            /\ h.moved \div SectorBytes = k
            /\ h.moved - (h.moved % SectorBytes) = k * SectorBytes
            /\ (k + 1) * SectorBytes = k * SectorBytes + SectorBytes
            /\ \A i \in 1 .. c.dptr : c.data[i] = Byte("sent", h.write, k * SectorBytes + i)
<1> DEFINE k == Passed(d, h)
           v == Width(d)
           c == Filled(d, h)
           h2 == SentOn(d, h)
           q == k * SectorBytes
<1>1. SectorBytes \in Nat \ {0}
  BY IdeAssumption
<1>2. /\ k \in Nat /\ k < h.count /\ d.length \in 1 .. h.count
      /\ d.dptr \in 0 .. SectorBytes - 1
      /\ ~d.eightbit => d.dptr % 2 = 0
      /\ MovesOut(d, h, k)
  BY <1>1 DEF Transfer, Moves, MovesIn, MovesOut, Passed, HostOK
<1>3. /\ v \in 1 .. 2 /\ d.dptr + v \in 1 .. SectorBytes
      /\ ~d.eightbit => (d.dptr + v) % 2 = 0
  BY <1>2, WordInSector
<1>4. /\ h.moved = q + d.dptr /\ h.command = "WRITE" /\ h.count \in Nat /\ h.moved \in Nat
      /\ Fits(h) => d.pos = h.at + k
      /\ \A i \in 1 .. d.dptr : d.data[i] = Byte("sent", h.write, q + i)
  BY <1>2 DEF MovesOut, HostOK
<1>q. q \in Nat
  BY <1>1, <1>2
<1> DEFINE filled == [i \in 1 .. SectorBytes |-> IF i \in d.dptr + 1 .. d.dptr + v
                                                 THEN Words(h)[i - d.dptr] ELSE d.data[i]]
<1>5. /\ Kin(d, c) /\ c.dptr = d.dptr + v /\ c.length = d.length /\ c.pos = d.pos
      /\ c.state = d.state /\ c.eightbit = d.eightbit /\ c.status = d.status
      /\ c.data = filled
  BY DEF Kin, DriveFields, Filled
<1>6. /\ HostOK(h2) /\ h2.moved = h.moved + v /\ h2.at = h.at /\ h2.count = h.count
      /\ h2.command = h.command /\ h2.write = h.write
  <2>1. h2 = [h EXCEPT !.moved = @ + v]
    BY DEF SentOn
  <2> HIDE DEF v, h2
  <2> QED
    BY ONLY <1>3, <2>1, HostOK(h) DEF HostOK, HostFields
<1>7. \A i \in 1 .. c.dptr : c.data[i] = Byte("sent", h.write, q + i)
  <2> SUFFICES ASSUME NEW i \in 1 .. d.dptr + v
               PROVE  filled[i] = Byte("sent", h.write, q + i)
    BY <1>5
  <2> HIDE DEF v, q
  <2>1. i \in 1 .. SectorBytes
    BY ONLY <1>1, <1>2, <1>3, i \in 1 .. d.dptr + v
  <2>2. CASE i \in d.dptr + 1 .. d.dptr + v
    <3>1. i - d.dptr \in 1 .. 2 /\ q + i = h.moved + (i - d.dptr)
      BY ONLY <1>1, <1>2, <1>3, <1>4, <1>q, <2>2, i \in Int
    <3> QED
      BY <2>1, <2>2, <3>1 DEF Words
  <2>3. CASE i \notin d.dptr + 1 .. d.dptr + v
    <3>1. i \in 1 .. d.dptr
      BY <1>1, <1>2, <1>3, <2>3
    <3> QED
      BY <1>4, <2>1, <2>3, <3>1
  <2> QED
    BY <2>2, <2>3
<1> HIDE DEF k, v, c, h2, filled
<1>8. /\ q \in Nat /\ h.moved \div SectorBytes = k /\ h.moved % SectorBytes = d.dptr
      /\ (k + 1) * SectorBytes = q + SectorBytes
      /\ q + SectorBytes <= h.count * SectorBytes
  BY ONLY <1>2, <1>4, SectorsAndBytes
<1>9. h.count * SectorBytes \in Nat
  BY <1>1, <1>4
<1> HIDE DEF q
<1>10. /\ h2.moved <= h.count * SectorBytes /\ h2.moved = q + c.dptr
       /\ h.moved - (h.moved % SectorBytes) = q
  <2>1. h2.moved = q + c.dptr /\ h2.moved <= q + SectorBytes
    BY ONLY <1>1, <1>2, <1>3, <1>4, <1>5, <1>6, <1>q
  <2>2. h.moved - (h.moved % SectorBytes) = q
    BY ONLY <1>2, <1>4, <1>8, <1>q
  <2>3. ASSUME NEW x \in Nat, NEW y \in Nat, NEW z \in Nat, x <= y, y <= z
        PROVE  x <= z
    BY <2>3
  <2> QED
    BY ONLY <1>1, <1>6, <1>8, <1>9, <1>q, <2>1, <2>2, <2>3 DEF HostOK
<1>11. /\ c.dptr \in 1 .. SectorBytes
       /\ ~c.eightbit => c.dptr % 2 = 0
  BY ONLY <1>3, <1>5
<1> QED
  BY ONLY <1>2, <1>4, <1>5, <1>6, <1>7, <1>8, <1>10, <1>11 DEF k, c, h2, q

\* A write of the data register changes nothing of the file but the sector that the
\* command's address says, and there to what was sent for it.
LEMMA WriteMoves ==
  ASSUME NEW d, DOMAIN d = DriveFields, NEW h, HostOK(h), Transfer(d, h),
         h.command = "WRITE", NEW io, NEW e, e = ide_data_out(d, Words(h), io),
         NEW h2, h2 = SentOn(d, h)
  PROVE  /\ DOMAIN e = DriveFields /\ e.present = d.present /\ HostOK(h2) /\ Transfer(e, h2)
         /\ e.image # d.image =>
              /\ h2.moved <= h.count * SectorBytes
              /\ h.moved - (h.moved % SectorBytes) = (h.moved \div SectorBytes) * SectorBytes
              /\ Fits(h) => Sent(h, h.moved \div SectorBytes, d.image, e.image)
<1> DEFINE c == Filled(d, h)
           f == ide_write_sector(c, io)
           k == Passed(d, h)
<1>1. e = IF d.state # "DATA_OUT" THEN d
          ELSE IF c.dptr # SectorBytes THEN c
          ELSE IF io # "ok" THEN ide_set_error(f)
          ELSE IF f.length = 1 THEN SectorDone([f EXCEPT !.status = @ \cup {"DSC"}])
          ELSE SectorDone(f)
  BY DEF ide_data_out, Filled
<1>2. CASE d.state # "DATA_OUT"
  <2>1. d.state \notin Moves /\ e = d
    BY <1>1, <1>2 DEF Transfer, Moves, MovesIn, MovesOut
  <2>2. HostOK(h2)
    <3>1. Width(d) \in 1 .. 2
      BY DEF Width
    <3> QED
      BY <3>1 DEF HostOK, HostFields, SentOn
  <2> QED
    BY <2>1, <2>2 DEF Transfer
<1>3. CASE d.state = "DATA_OUT"
  <2>1. /\ Kin(d, c) /\ HostOK(h2) /\ h2.moved <= h.count * SectorBytes
        /\ k \in Nat /\ k < h.count /\ d.length \in 1 .. h.count
        /\ c.length = d.length /\ c.pos = d.pos /\ c.state = d.state
        /\ c.eightbit = d.eightbit /\ c.status = d.status
        /\ c.dptr \in 1 .. SectorBytes /\ (~c.eightbit => c.dptr % 2 = 0)
        /\ h2.at = h.at /\ h2.count = h.count /\ h2.command = "WRITE"
        /\ h2.write = h.write
        /\ h2.moved = k * SectorBytes + c.dptr /\ k * SectorBytes \in Nat
        /\ (Fits(h) => c.pos = h.at + k)
        /\ h.moved \div SectorBytes = k
        /\ h.moved - (h.moved % SectorBytes) = k * SectorBytes
        /\ (k + 1) * SectorBytes = k * SectorBytes + SectorBytes
        /\ \A i \in 1 .. c.dptr : c.data[i] = Byte("sent", h.write, k * SectorBytes + i)
    BY ONLY WordFills, <1>3, DOMAIN d = DriveFields, HostOK(h), Transfer(d, h), h2 = SentOn(d, h)
  <2>2. k = h.count - d.length
    BY DEF Passed
  <2> HIDE DEF c, k
  <2>3. SectorBytes \in Nat \ {0} /\ h.at \in Nat /\ h.count \in Nat
    BY IdeAssumption DEF HostOK
  <2>4. CASE c.dptr # SectorBytes
    <3>1. e = c
      BY <1>1, <1>3, <2>4
    <3>2. Passed(c, h2) = k /\ (Fits(h2) <=> Fits(h))
      BY <2>1, <2>2 DEF Passed, Fits
    <3>3. MovesOut(c, h2, k)
      BY <1>3, <2>1, <2>3, <2>4, <3>2 DEF MovesOut
    <3>4. Transfer(c, h2)
      BY <2>1, <3>2, <3>3 DEF Transfer
    <3> QED
      BY <2>1, <3>1, <3>4 DEF Kin
  <2>5. CASE c.dptr = SectorBytes
    <3>1. DOMAIN c = DriveFields /\ c.image = d.image /\ c.present = d.present
      BY <2>1 DEF Kin
    <3>2. /\ DOMAIN f = DriveFields /\ f.present = c.present
          /\ f.image # c.image =>
               \E data : /\ f.image = Stored(c, data)
                         /\ \A i \in 1 .. SectorBytes :
                              data[i] \in {c.data[i], Sector(c, c.pos)[i]}
          /\ io = "ok" =>
               /\ f.pos = c.pos + 1 /\ f.dptr = 0 /\ f.state = c.state
               /\ f.length = c.length /\ f.eightbit = c.eightbit
      BY <3>1, SectorWritten
    <3> HIDE DEF f
    <3>3. ASSUME f.image # d.image, Fits(h) PROVE Sent(h, k, d.image, f.image)
      <4>1. PICK data : /\ f.image = Stored(c, data)
                        /\ \A i \in 1 .. SectorBytes :
                             data[i] \in {c.data[i], Sector(c, c.pos)[i]}
        BY <3>1, <3>2, <3>3
      <4>2. c.pos = h.at + k /\ c.pos \in Nat
        BY <2>1, <2>3, <3>3
      <4>3. /\ f.image[c.pos] = data
            /\ \A s \in DOMAIN f.image \ {c.pos} : Held(f.image, s) = Held(c.image, s)
        BY <4>1, <4>2, SectorStored
      <4>4. \A i \in 1 .. SectorBytes : c.data[i] = Byte("sent", h.write, k * SectorBytes + i)
        BY <2>1, <2>5
      <4>5. Sector(c, c.pos) = Held(d.image, h.at + k)
        BY <3>1, <4>2 DEF Sector, Held
      <4> QED
        BY <3>1, <4>1, <4>2, <4>3, <4>4, <4>5 DEF Sent
    <3>4. DOMAIN e = DriveFields /\ e.present = d.present /\ e.image = f.image
          /\ Transfer(e, h2)
      <4>1. CASE io # "ok"
        <5>1. Rests(f, e)
          BY <1>1, <1>3, <2>5, <3>2, <4>1, ErrorRests DEF Kin
        <5> QED
          BY <3>1, <3>2, <5>1, RestTransfers DEF Rests, Kin
      <4>2. CASE io = "ok"
        <5> DEFINE g == IF f.length = 1 THEN [f EXCEPT !.status = @ \cup {"DSC"}] ELSE f
        <5>1. /\ Kin(f, g) /\ g.pos = f.pos /\ g.dptr = f.dptr /\ g.state = f.state
              /\ g.length = f.length /\ g.eightbit = f.eightbit
          BY <3>2 DEF Kin, DriveFields
        <5>2. e = SectorDone(g)
          BY <1>1, <1>3, <2>5, <4>2
        <5> HIDE DEF g
        <5>3. DOMAIN g = DriveFields /\ g.length \in 1 .. h2.count /\ Passed(g, h2) = k
          BY <2>1, <2>2, <3>2, <4>2, <5>1 DEF Kin, Passed
        <5>4. CASE Rests(g, e)
          BY <3>1, <3>2, <5>1, <5>4, RestTransfers DEF Rests, Kin
        <5>5. CASE ~Rests(g, e)
          <6>1. /\ Kin(g, e) /\ e.length \in 1 .. h2.count /\ e.state = g.state
                /\ e.dptr = g.dptr /\ e.pos = g.pos /\ e.eightbit = g.eightbit
                /\ Passed(e, h2) = k + 1
            BY <2>1, <5>2, <5>3, <5>5, SectorEnds
          <6>2. /\ e.state = "DATA_OUT" /\ e.dptr = 0 /\ (Fits(h2) => e.pos = h2.at + (k + 1))
            <7>1. Fits(h2) <=> Fits(h)
              BY <2>1 DEF Fits
            <7>2. e.pos = c.pos + 1
              BY <3>2, <4>2, <5>1, <6>1
            <7> QED
              BY <1>3, <2>1, <2>3, <3>2, <4>2, <5>1, <6>1, <7>1, <7>2
          <6>3. h2.moved = (k + 1) * SectorBytes + e.dptr
            <7> DEFINE q == k * SectorBytes
                       r == (k + 1) * SectorBytes
            <7>1. q \in Nat /\ r = q + SectorBytes /\ h2.moved = q + SectorBytes
              BY <2>1, <2>5
            <7> HIDE DEF q, r
            <7>2. h2.moved = r + 0
              BY <2>3, <7>1
            <7> QED
              BY <6>2, <7>2 DEF r
          <6>4. MovesOut(e, h2, k + 1)
            BY <2>1, <2>3, <6>2, <6>3 DEF MovesOut
          <6>5. Transfer(e, h2)
            BY <2>3, <6>1, <6>2, <6>4 DEF Transfer
          <6> QED
            BY <3>1, <3>2, <5>1, <6>1, <6>5 DEF Kin
        <5> QED
          BY <5>4, <5>5
      <4> QED
        BY <4>1, <4>2
    <3> QED
      BY <2>1, <3>3, <3>4
  <2> QED
    BY <2>4, <2>5
<1> QED
  BY <1>2, <1>3

-----------------------------------------------------------------------------
(* The controller, of which drive 0 is there and drive 1 is not.           *)

IdeOK(c) ==
  /\ DOMAIN c = {"drive", "selected"} /\ c.selected \in {0, 1}
  /\ DOMAIN c.drive = {0, 1} /\ \A i \in {0, 1} : DOMAIN c.drive[i] = DriveFields
  /\ c.drive[0].present /\ ~c.drive[1].present
  /\ "DRQ" \notin c.drive[1].status
  /\ "BSY" \in c.drive[0].status => c.selected = 0

\* The selected drive is the one that is there, and it is not busy.
Free(c) == IdeOK(c) /\ c.selected = 0 /\ "BSY" \notin c.drive[0].status

LEMMA DriveChosen ==
  ASSUME NEW c, IdeOK(c), "BSY" \notin Selected(c).status, NEW v, ~v.dev,
         NEW e, e = ide_write8(c, "lba4", v)
  PROVE  Free(e) /\ e.drive[0] = [c.drive[0] EXCEPT !.lba4 = v] /\ e.drive[1] = c.drive[1]
<1>1. "BSY" \notin c.drive[0].status
  BY DEF IdeOK, Selected
<1>2. e = [c EXCEPT !.selected = 0, !.drive[0].lba4 = v]
  <2>1. ~Refused(c, "lba4")
    BY DEF Refused
  <2>2. e = ChooseDrive(c, v)
    BY <2>1 DEF ide_write8
  <2> QED
    BY <2>2 DEF ChooseDrive
<1>3. /\ DOMAIN e = {"drive", "selected"} /\ e.selected = 0
      /\ e.drive = [c.drive EXCEPT ![0] = [c.drive[0] EXCEPT !.lba4 = v]]
  BY <1>2 DEF IdeOK
<1>4. /\ DOMAIN e.drive = {0, 1} /\ e.drive[0] = [c.drive[0] EXCEPT !.lba4 = v]
      /\ e.drive[1] = c.drive[1]
  BY <1>3 DEF IdeOK
<1>5. /\ DOMAIN e.drive[0] = DriveFields /\ e.drive[0].present = c.drive[0].present
      /\ e.drive[0].status = c.drive[0].status
  BY <1>4 DEF IdeOK, DriveFields
<1> QED
  BY <1>1, <1>3, <1>4, <1>5 DEF IdeOK, Free

LEMMA RegisterWritten ==
  ASSUME NEW c, Free(c), NEW r \in {"feature", "count", "lba1", "lba2", "lba3"}, NEW v,
         NEW e, e = ide_write8(c, r, v)
  PROVE  Free(e) /\ e.drive[0] = [c.drive[0] EXCEPT ![r] = v] /\ e.drive[1] = c.drive[1]
<1>1. e = [c EXCEPT !.drive[0][r] = v]
  <2>1. ~Refused(c, r)
    BY DEF Refused, Free, IdeOK, Selected
  <2>2. e = StoreRegister(c, r, v)
    BY <2>1 DEF ide_write8
  <2> QED
    BY <2>2 DEF StoreRegister, Free
<1>2. /\ DOMAIN e = {"drive", "selected"} /\ e.selected = 0
      /\ e.drive = [c.drive EXCEPT ![0] = [c.drive[0] EXCEPT ![r] = v]]
  BY <1>1 DEF IdeOK, Free
<1>3. /\ DOMAIN e.drive = {0, 1} /\ e.drive[0] = [c.drive[0] EXCEPT ![r] = v]
      /\ e.drive[1] = c.drive[1]
  BY <1>2 DEF IdeOK, Free
<1>4. /\ DOMAIN e.drive[0] = DriveFields /\ e.drive[0].present = c.drive[0].present
      /\ e.drive[0].status = c.drive[0].status
  <2>1. /\ r \in DriveFields \ {"present", "status"}
        /\ {"present", "status"} \subseteq DriveFields
    BY DEF DriveFields
  <2>2. DOMAIN c.drive[0] = DriveFields
    BY DEF Free, IdeOK
  <2> QED
    BY <1>3, <2>1, <2>2
<1> QED
  BY <1>2, <1>3, <1>4 DEF IdeOK, Free

\* A drive as it takes a command.
Taken(d) == [d EXCEPT !.status = (@ \ {"ERR", "DRDY"}) \cup {"BSY"}, !.error = {}, !.state = "CMD"]

\* A command leaves drive 1 alone.
LEMMA CommandIssued ==
  ASSUME NEW c, Free(c), NEW command \in {"EDD", "IDENTIFY", "INTPARAMS", "READ", "WRITE",
                                          "VERIFY", "SETFEATURES", "CALIB", "SEEK", "unknown"},
         NEW e, e = ide_write8(c, "command", command), NEW d,
         d = Taken(c.drive[0])
  PROVE  /\ DOMAIN e = {"drive", "selected"} /\ e.selected = 0 /\ DOMAIN e.drive = {0, 1}
         /\ e.drive[1] = c.drive[1]
         /\ command = "IDENTIFY" => e.drive[0] = cmd_identify(d)
         /\ command = "READ" => e.drive[0] = cmd_readsectors(d)
         /\ command = "WRITE" => e.drive[0] = cmd_writesectors(d)
         /\ command \notin {"IDENTIFY", "READ", "WRITE"} => Rests(d, e.drive[0])
<1> DEFINE On(x) == OnSelected(c, x)
<1>1. ASSUME NEW x
      PROVE  /\ DOMAIN On(x) = {"drive", "selected"} /\ On(x).selected = 0
             /\ DOMAIN On(x).drive = {0, 1} /\ On(x).drive[0] = x
             /\ On(x).drive[1] = c.drive[1]
  BY DEF OnSelected, Free, IdeOK
<1>2. e = ide_issue_command(c, command)
  <2>1. ~Refused(c, "command")
    BY DEF Refused, Free, IdeOK, Selected
  <2> QED
    BY <2>1 DEF ide_write8
<1>3. Selected(c) = c.drive[0] /\ DOMAIN d = DriveFields /\ d.present
  BY DEF Selected, Free, IdeOK, DriveFields, Taken
<1>4. e = CASE command = "EDD"         -> cmd_edd(On(d))
            [] command = "IDENTIFY"    -> On(cmd_identify(d))
            [] command = "INTPARAMS"   -> On(cmd_initparam(d))
            [] command = "READ"        -> On(cmd_readsectors(d))
            [] command = "WRITE"       -> On(cmd_writesectors(d))
            [] command = "VERIFY"      -> On(cmd_verifysectors(d))
            [] command = "SETFEATURES" -> On(cmd_setfeatures(d))
            [] command = "CALIB"       -> On(cmd_recalibrate(d))
            [] command = "SEEK"        -> On(cmd_seek(d))
            [] command = "unknown"     -> On(completed(Aborted(d)))
  BY <1>2, <1>3 DEF ide_issue_command, Taken
<1>5. CASE command = "EDD"
  <2> DEFINE x == On(d)
  <2>1. e = cmd_edd(x)
    BY <1>4, <1>5
  <2>2. /\ DOMAIN x = {"drive", "selected"} /\ DOMAIN x.drive = {0, 1} /\ x.drive[0] = d
        /\ x.drive[1] = c.drive[1]
    BY <1>1
  <2> HIDE DEF x
  <2>3. /\ DOMAIN e = {"drive", "selected"} /\ e.selected = 0
        /\ e.drive = [i \in {0, 1} |-> IF x.drive[i].present THEN edd_setup(x.drive[i])
                                       ELSE x.drive[i]]
    BY <2>1, <2>2 DEF cmd_edd, OnPresent
  <2>4. e.drive[0] = edd_setup(d) /\ e.drive[1] = c.drive[1] /\ DOMAIN e.drive = {0, 1}
    <3>1. x.drive[0].present /\ ~x.drive[1].present
      BY <1>3, <2>2 DEF Free, IdeOK
    <3>2. /\ e.drive[0] = edd_setup(x.drive[0]) /\ e.drive[1] = x.drive[1]
          /\ DOMAIN e.drive = {0, 1}
      BY ONLY <2>3, <3>1
    <3> QED
      BY <2>2, <3>2
  <2>5. Rests(d, edd_setup(d))
    BY <1>3, EddRests
  <2> QED
    BY <1>5, <2>3, <2>4, <2>5
<1> HIDE DEF On
<1>6. CASE command # "EDD"
  <2>1. PICK x : /\ e = On(x)
                 /\ command = "IDENTIFY" => x = cmd_identify(d)
                 /\ command = "READ" => x = cmd_readsectors(d)
                 /\ command = "WRITE" => x = cmd_writesectors(d)
                 /\ command \notin {"IDENTIFY", "READ", "WRITE"} =>
                      x \in {cmd_initparam(d), cmd_verifysectors(d), cmd_setfeatures(d),
                             cmd_recalibrate(d), cmd_seek(d), completed(Aborted(d))}
    BY <1>4, <1>6
  <2>2. command \notin {"IDENTIFY", "READ", "WRITE"} => Rests(d, x)
    <3>1. /\ Rests(d, cmd_initparam(d)) /\ Rests(d, cmd_verifysectors(d))
          /\ Rests(d, cmd_recalibrate(d)) /\ Rests(d, cmd_seek(d))
          /\ Rests(d, cmd_setfeatures(d)) /\ Rests(d, completed(Aborted(d)))
      BY <1>3, OthersRest
    <3> QED
      BY <2>1, <3>1
  <2> QED
    BY <1>1, <2>1, <2>2
<1> QED
  BY <1>5, <1>6

\* A command as the program gives it starts the transfer that it asks for, or none.
LEMMA CommandGiven ==
  ASSUME NEW c, IdeOK(c), "BSY" \notin Selected(c).status,
         NEW command \in {"EDD", "IDENTIFY", "INTPARAMS", "READ", "WRITE", "VERIFY",
                          "SETFEATURES", "CALIB", "SEEK", "unknown"},
         NEW feature, NEW count \in Nat, NEW a \in Address, NEW n,
         NEW e, e = Given(c, command, feature, count, a),
         NEW h, h = [command |-> command, at |-> Block(a), moved |-> 0, write |-> n,
                     count |-> IF command = "IDENTIFY" THEN 1
                               ELSE IF count = 0 THEN MaxCount ELSE count]
  PROVE  /\ IdeOK(e) /\ HostOK(h) /\ Transfer(e.drive[0], h)
         /\ e.drive[0].image = c.drive[0].image
<1> DEFINE v == [head |-> a.head, dev |-> FALSE, lba |-> a.lba]
           c1 == ide_write8(c, "lba4", v)
           c2 == ide_write8(c1, "lba1", a.lba1)
           c3 == ide_write8(c2, "lba2", a.lba2)
           c4 == ide_write8(c3, "lba3", a.lba3)
           c5 == ide_write8(c4, "feature", feature)
           c6 == ide_write8(c5, "count", count)
           d == Taken(c6.drive[0])
           i == c.drive[0].image
<1>1. e = ide_write8(c6, "command", command)
  BY DEF Given, GiveAddress
<1>2. ~v.dev
  OBVIOUS
<1> HIDE DEF v
<1>3. Free(c1) /\ c1.drive[0] = [c.drive[0] EXCEPT !.lba4 = v] /\ c1.drive[1] = c.drive[1]
  BY <1>2, DriveChosen
<1> HIDE DEF c1
<1>4. /\ Free(c2) /\ c2.drive[0] = [c1.drive[0] EXCEPT !["lba1"] = a.lba1]
      /\ c2.drive[1] = c.drive[1]
  <2>1. c2 = ide_write8(c1, "lba1", a.lba1)
    OBVIOUS
  <2>2. Free(c1)
    BY <1>3
  <2> HIDE DEF c2
  <2>3. /\ Free(c2) /\ c2.drive[0] = [c1.drive[0] EXCEPT !["lba1"] = a.lba1]
        /\ c2.drive[1] = c1.drive[1]
    BY ONLY <2>1, <2>2, RegisterWritten
  <2> QED
    BY <1>3, <2>3
<1> HIDE DEF c2
<1>5. /\ Free(c3) /\ c3.drive[0] = [c2.drive[0] EXCEPT !["lba2"] = a.lba2]
      /\ c3.drive[1] = c.drive[1]
  BY <1>4, RegisterWritten
<1> HIDE DEF c3
<1>6. /\ Free(c4) /\ c4.drive[0] = [c3.drive[0] EXCEPT !["lba3"] = a.lba3]
      /\ c4.drive[1] = c.drive[1]
  BY <1>5, RegisterWritten
<1> HIDE DEF c4
<1>7. /\ Free(c5) /\ c5.drive[0] = [c4.drive[0] EXCEPT !["feature"] = feature]
      /\ c5.drive[1] = c.drive[1]
  BY <1>6, RegisterWritten
<1> HIDE DEF c5
<1>8. /\ Free(c6) /\ c6.drive[0] = [c5.drive[0] EXCEPT !["count"] = count]
      /\ c6.drive[1] = c.drive[1]
  BY <1>7, RegisterWritten
<1> HIDE DEF c6
<1>9. /\ DOMAIN c6.drive[0] = DriveFields
      /\ c6.drive[0].image = i /\ c6.drive[0].present = c.drive[0].present
      /\ c6.drive[0].lba4 = v /\ c6.drive[0].count = count /\ c6.drive[0].lba1 = a.lba1
      /\ c6.drive[0].lba2 = a.lba2 /\ c6.drive[0].lba3 = a.lba3
  <2>1. DOMAIN c.drive[0] = DriveFields
    BY DEF IdeOK
  <2>2. /\ DOMAIN c1.drive[0] = DriveFields /\ c1.drive[0].image = i
        /\ c1.drive[0].present = c.drive[0].present /\ c1.drive[0].lba4 = v
    BY <1>3, <2>1 DEF DriveFields
  <2>3. /\ DOMAIN c3.drive[0] = DriveFields /\ c3.drive[0].image = i
        /\ c3.drive[0].present = c.drive[0].present /\ c3.drive[0].lba4 = v
        /\ c3.drive[0].lba1 = a.lba1 /\ c3.drive[0].lba2 = a.lba2
    BY <1>4, <1>5, <2>2 DEF DriveFields
  <2> QED
    <3>1. /\ DOMAIN c5.drive[0] = DriveFields /\ c5.drive[0].image = i
          /\ c5.drive[0].present = c.drive[0].present /\ c5.drive[0].lba4 = v
          /\ c5.drive[0].lba1 = a.lba1 /\ c5.drive[0].lba2 = a.lba2
          /\ c5.drive[0].lba3 = a.lba3
      BY <1>6, <1>7, <2>3 DEF DriveFields
    <3> QED
      BY <1>8, <3>1 DEF DriveFields
<1>10. /\ DOMAIN d = DriveFields /\ d.image = i /\ d.present = c.drive[0].present
       /\ Addressed(d, a) /\ d.count = count /\ "ERR" \notin d.status
  BY <1>9 DEF DriveFields, Addressed, v, Taken
<1> HIDE DEF d
<1>11. /\ DOMAIN e = {"drive", "selected"} /\ e.selected = 0 /\ DOMAIN e.drive = {0, 1}
       /\ e.drive[1] = c.drive[1]
       /\ command = "IDENTIFY" => e.drive[0] = cmd_identify(d)
       /\ command = "READ" => e.drive[0] = cmd_readsectors(d)
       /\ command = "WRITE" => e.drive[0] = cmd_writesectors(d)
       /\ command \notin {"IDENTIFY", "READ", "WRITE"} => Rests(d, e.drive[0])
  <2>1. d = Taken(c6.drive[0])
    BY DEF d
  <2> QED
    BY <1>1, <1>8, <2>1, CommandIssued
<1>12. HostOK(h) /\ h.count \in Nat \ {0}
  <2>1. h.count \in Nat \ {0}
    BY IdeAssumption
  <2> QED
    BY <2>1, BlockIsNumber DEF HostOK, HostFields
<1>13. Length(d) = IF count = 0 THEN MaxCount ELSE count
  BY <1>10 DEF Length
<1>14. SectorBytes \in Nat \ {0} /\ OffSectors \in Nat \ {0} /\ 0 * SectorBytes = 0
  BY IdeAssumption
<1>15. Fits(h) => SeekTo(Block(a)) = Block(a)
  BY <1>12, <1>14, BlockIsNumber, SeekFits DEF Fits
<1>16. Kin(d, e.drive[0]) /\ Transfer(e.drive[0], h)
  <2>1. CASE command \notin {"IDENTIFY", "READ", "WRITE"}
    BY <1>11, <2>1, RestTransfers DEF Rests
  <2>2. CASE command = "IDENTIFY"
    <3> DEFINE x == e.drive[0]
    <3>1. /\ Begins(d, x, 1) /\ x.state = "DATA_IN" /\ x.dptr = 0
          /\ x.data = [j \in 1 .. SectorBytes |-> Byte("identify", 0, j)]
      BY <1>10, <1>11, <2>2, IdentifyBegins
    <3> HIDE DEF x
    <3>2. h.count = 1 /\ h.moved = 0 /\ h.command = "IDENTIFY"
      BY <2>2
    <3>3. Kin(d, x) /\ x.length = 1 /\ Passed(x, h) = 0 /\ "ERR" \notin x.status
      BY <3>1, <3>2 DEF Begins, Passed
    <3>4. MovesIn(x, h, 0)
      BY <1>14, <3>1, <3>2, <3>3 DEF MovesIn, Wanted
    <3>5. Transfer(x, h)
      BY <1>14, <3>1, <3>2, <3>3, <3>4 DEF Transfer
    <3> QED
      BY <3>3, <3>5 DEF x
  <2>3. CASE command = "READ"
    <3> DEFINE x == e.drive[0]
    <3>1. CASE Rests(d, x)
      BY <3>1, RestTransfers DEF Rests
    <3>2. CASE ~Rests(d, x)
      <4>1. /\ Begins(d, x, Length(d)) /\ x.state = "DATA_IN" /\ x.dptr = SectorBytes
            /\ x.pos = SeekTo(Block(a))
        BY <1>10, <1>11, <2>3, <3>2, ReadBegins
      <4> HIDE DEF x
      <4>2. h.count = Length(d) /\ h.moved = 0 /\ h.command = "READ" /\ h.at = Block(a)
        BY <1>13, <2>3
      <4>3. Kin(d, x) /\ x.length = h.count /\ Passed(x, h) = 0 /\ "ERR" \notin x.status
        BY <1>12, <4>1, <4>2 DEF Begins, Passed
      <4>4. MovesIn(x, h, 0)
        BY <1>12, <1>14, <1>15, <4>1, <4>2, <4>3 DEF MovesIn, HostOK
      <4>5. Transfer(x, h)
        BY <1>12, <1>14, <4>1, <4>3, <4>4, IdeAssumption DEF Transfer
      <4> QED
        BY <4>3, <4>5 DEF x
    <3> QED
      BY <3>1, <3>2
  <2>4. CASE command = "WRITE"
    <3> DEFINE x == e.drive[0]
    <3>1. CASE Rests(d, x)
      BY <3>1, RestTransfers DEF Rests
    <3>2. CASE ~Rests(d, x)
      <4>1. /\ Begins(d, x, Length(d)) /\ x.state = "DATA_OUT" /\ x.dptr = 0
            /\ x.pos = SeekTo(Block(a))
        BY <1>10, <1>11, <2>4, <3>2, WriteBegins
      <4> HIDE DEF x
      <4>2. h.count = Length(d) /\ h.moved = 0 /\ h.command = "WRITE" /\ h.at = Block(a)
        BY <1>13, <2>4
      <4>3. Kin(d, x) /\ x.length = h.count /\ Passed(x, h) = 0
        BY <1>12, <4>1, <4>2 DEF Begins, Passed
      <4>4. MovesOut(x, h, 0)
        BY <1>12, <1>14, <1>15, <4>1, <4>2, <4>3 DEF MovesOut, HostOK
      <4>5. Transfer(x, h)
        BY <1>12, <1>14, <4>1, <4>3, <4>4 DEF Transfer
      <4> QED
        BY <4>3, <4>5 DEF x
    <3> QED
      BY <3>1, <3>2
  <2> QED
    BY <2>1, <2>2, <2>3, <2>4
<1>17. IdeOK(e)
  BY <1>10, <1>11, <1>16, <1>8 DEF IdeOK, Kin, Free
<1> QED
  BY <1>10, <1>12, <1>16, <1>17 DEF Kin

\* A register that is not about the transfer leaves it alone.
LEMMA SameTransfer ==
  ASSUME NEW d, NEW e, NEW h, Transfer(d, h),
         NEW r \in {"intrq", "lba4", "srst"},
         \A x \in DriveFields \ {r} : e[x] = d[x]
  PROVE  Transfer(e, h)
<1>1. /\ e.state = d.state /\ e.length = d.length /\ e.dptr = d.dptr
      /\ e.eightbit = d.eightbit /\ e.status = d.status /\ e.pos = d.pos
      /\ e.data = d.data /\ e.image = d.image
  BY DEF DriveFields
<1> QED
  BY <1>1 DEF Transfer, MovesIn, MovesOut, Passed

-----------------------------------------------------------------------------
(* The steps of the machine.                                               *)

TransferInv == IdeOK(ide0) /\ HostOK(host) /\ Transfer(ide0.drive[0], host)

LEMMA TransferInit == Init => TransferInv
<1> SUFFICES ASSUME Init PROVE TransferInv
  OBVIOUS
<1> DEFINE c == [drive |-> [i \in {0, 1} |-> Drive(i = 0)], selected |-> 0]
           p == [c EXCEPT !.drive = [i \in {0, 1} |-> IF @[i].present THEN ResetDrive(@[i])
                                                      ELSE @[i]]]
<1>1. ide0 = [p EXCEPT !.selected = 0]
  BY DEF Init, GayleInit, IdeInit, ide_reset, OnPresent
<1>2. /\ DOMAIN c = {"drive", "selected"} /\ DOMAIN c.drive = {0, 1}
      /\ DOMAIN c.drive[0] = DriveFields /\ c.drive[0].present
      /\ DOMAIN c.drive[1] = DriveFields /\ ~c.drive[1].present /\ c.drive[1].status = {}
  <2> DEFINE d0 == Drive(0 = 0)
             d1 == Drive(1 = 0)
  <2>1. DOMAIN d0 = DriveFields /\ d0.present
    BY DEF Drive, DriveFields
  <2>2. DOMAIN d1 = DriveFields /\ ~d1.present /\ d1.status = {}
    <3>1. ASSUME NEW b \in BOOLEAN, ~b
          PROVE  DOMAIN Drive(b) = DriveFields /\ ~Drive(b).present /\ Drive(b).status = {}
      BY <3>1 DEF Drive, DriveFields
    <3>2. (1 = 0) \in BOOLEAN /\ ~(1 = 0)
      OBVIOUS
    <3> QED
      BY <3>1, <3>2
  <2>3. DOMAIN c = {"drive", "selected"} /\ DOMAIN c.drive = {0, 1}
    OBVIOUS
  <2>4. c.drive[0] = d0 /\ c.drive[1] = d1
    OBVIOUS
  <2> HIDE DEF c, d0, d1
  <2> QED
    BY <2>1, <2>2, <2>3, <2>4
<1> HIDE DEF c
<1>3. /\ DOMAIN ide0 = {"drive", "selected"} /\ ide0.selected = 0
      /\ DOMAIN ide0.drive = {0, 1} /\ ide0.drive[0] = ResetDrive(c.drive[0])
      /\ ide0.drive[1] = c.drive[1]
  <2>1. /\ DOMAIN p = {"drive", "selected"}
        /\ p.drive = [i \in {0, 1} |-> IF c.drive[i].present THEN ResetDrive(c.drive[i])
                                       ELSE c.drive[i]]
    BY <1>2
  <2> HIDE DEF p
  <2> QED
    BY <1>1, <1>2, <2>1
<1>4. Rests(c.drive[0], ide0.drive[0])
  BY <1>2, <1>3, EddRests
<1>5. IdeOK(ide0)
  BY <1>2, <1>3, <1>4 DEF IdeOK, Rests, Kin
<1>6. HostOK(host)
  BY DEF Init, NoCommand, HostOK, HostFields
<1> QED
  BY <1>4, <1>5, <1>6, RestTransfers DEF TransferInv

\* A choice of drive and a read of the status move nothing.
LEMMA StatusAndChoice ==
  ASSUME NEW c, IdeOK(c), NEW h, Transfer(c.drive[0], h), NEW e,
         \/ e = ReadStatus(c)
         \/ \E dev \in BOOLEAN : e = ide_write8(c, "lba4", [Top EXCEPT !.dev = dev])
  PROVE  IdeOK(e) /\ Transfer(e.drive[0], h) /\ e.drive[0].image = c.drive[0].image
<1>1. CASE e = ReadStatus(c)
  <2>1. \A i \in {0, 1} : /\ DOMAIN e.drive[i] = DriveFields
                          /\ \A x \in DriveFields \ {"intrq"} : e.drive[i][x] = c.drive[i][x]
    BY <1>1 DEF ReadStatus, IdeOK, DriveFields
  <2>2. DOMAIN e = {"drive", "selected"} /\ e.selected = c.selected /\ DOMAIN e.drive = {0, 1}
    BY <1>1 DEF ReadStatus, IdeOK
  <2>3. IdeOK(e)
    BY <2>1, <2>2 DEF IdeOK, DriveFields
  <2>4. Transfer(e.drive[0], h)
    BY <2>1, SameTransfer
  <2> QED
    BY <2>1, <2>3, <2>4 DEF DriveFields
<1>2. ASSUME NEW dev \in BOOLEAN, e = ide_write8(c, "lba4", [Top EXCEPT !.dev = dev])
      PROVE  IdeOK(e) /\ Transfer(e.drive[0], h) /\ e.drive[0].image = c.drive[0].image
  <2> DEFINE v == [Top EXCEPT !.dev = dev]
             n == IF v.dev THEN 1 ELSE 0
  <2>1. CASE e = c
    BY <2>1
  <2>2. CASE e # c
    <3>1. ~Refused(c, "lba4") /\ e = [c EXCEPT !.selected = n, !.drive[n].lba4 = v]
      <4>1. ~Refused(c, "lba4") /\ e = ChooseDrive(c, v)
        BY <1>2, <2>2 DEF ide_write8
      <4> QED
        BY <4>1 DEF ChooseDrive
    <3>2. "BSY" \notin Selected(c).status
      BY <3>1 DEF Refused
    <3>3. "BSY" \notin c.drive[0].status
      BY <3>2 DEF IdeOK, Selected
    <3>4. n \in {0, 1}
      OBVIOUS
    <3> HIDE DEF n, v
    <3>5. \A i \in {0, 1} : /\ DOMAIN e.drive[i] = DriveFields
                            /\ \A x \in DriveFields \ {"lba4"} : e.drive[i][x] = c.drive[i][x]
      BY <3>1, <3>4 DEF IdeOK, DriveFields
    <3>6. DOMAIN e = {"drive", "selected"} /\ e.selected = n /\ DOMAIN e.drive = {0, 1}
      BY <3>1 DEF IdeOK
    <3>7. IdeOK(e)
      BY <3>3, <3>4, <3>5, <3>6 DEF IdeOK, DriveFields
    <3>8. Transfer(e.drive[0], h)
      BY <3>5, SameTransfer
    <3> QED
      BY <3>5, <3>7, <3>8 DEF DriveFields
  <2> QED
    BY <2>1, <2>2
<1> QED
  BY <1>1, <1>2

\* A soft reset ends a command, and its release does too.
LEMMA ControlWritten ==
  ASSUME NEW c, IdeOK(c), NEW h, Transfer(c.drive[0], h), NEW on \in BOOLEAN,
         NEW e, e = ide_write8(c, "devctrl", on)
  PROVE  IdeOK(e) /\ Transfer(e.drive[0], h) /\ e.drive[0].image = c.drive[0].image
<1> DEFINE b == IF on = c.drive[c.selected].srst THEN c
                ELSE IF on THEN ide_srst_begin(c) ELSE ide_srst_end(c)
<1>1. e = [b EXCEPT !.drive[0].srst = on, !.drive[1].srst = on]
  <2>1. e = WriteControl(c, on)
    BY DEF ide_write8, Refused
  <2> QED
    BY <2>1 DEF WriteControl
<1>2. IdeOK(b) /\ Transfer(b.drive[0], h) /\ b.drive[0].image = c.drive[0].image
  <2>1. CASE b = c
    BY <2>1
  <2>2. CASE b = ide_srst_begin(c)
    <3> DEFINE r == ide_reset(c)
               d0 == ResetDrive(c.drive[0])
    <3>1. /\ DOMAIN r = {"drive", "selected"} /\ r.selected = 0 /\ DOMAIN r.drive = {0, 1}
          /\ r.drive[0] = d0 /\ r.drive[1] = c.drive[1]
      BY DEF ide_reset, OnPresent, IdeOK
    <3>2. Rests(c.drive[0], d0)
      BY EddRests DEF IdeOK
    <3> HIDE DEF r, d0
    <3>3. d0.present /\ DOMAIN d0 = DriveFields
      BY <3>2 DEF Rests, Kin, IdeOK
    <3>4. b = OnPresent(r, BusyDrive)
      BY <2>2 DEF ide_srst_begin, r
    <3> HIDE DEF b
    <3>5. /\ DOMAIN b = {"drive", "selected"} /\ b.selected = 0 /\ DOMAIN b.drive = {0, 1}
          /\ b.drive[0] = BusyDrive(d0) /\ b.drive[1] = c.drive[1]
      BY <3>1, <3>3, <3>4 DEF OnPresent, IdeOK
    <3>6. /\ DOMAIN b.drive[0] = DriveFields /\ b.drive[0].image = c.drive[0].image
          /\ b.drive[0].present = d0.present /\ b.drive[0].state = "IDLE"
      <4>1. d0.image = c.drive[0].image /\ d0.state = "IDLE"
        BY <3>2 DEF Rests, Kin
      <4>2. /\ DOMAIN BusyDrive(d0) = DriveFields /\ BusyDrive(d0).image = d0.image
            /\ BusyDrive(d0).present = d0.present /\ BusyDrive(d0).state = d0.state
        BY ONLY <3>3 DEF BusyDrive, DriveFields
      <4> QED
        BY <3>5, <4>1, <4>2
    <3> QED
      BY <3>3, <3>5, <3>6 DEF IdeOK, Transfer, Moves
  <2>3. CASE b = ide_srst_end(c)
    <3> HIDE DEF b
    <3>1. /\ DOMAIN b = {"drive", "selected"} /\ b.selected = c.selected
          /\ DOMAIN b.drive = {0, 1} /\ b.drive[0] = ready(c.drive[0])
          /\ b.drive[1] = ready(c.drive[1])
      BY <2>3 DEF ide_srst_end, IdeOK
    <3>2. Rests(c.drive[0], b.drive[0]) /\ Rests(c.drive[1], b.drive[1])
      BY <3>1, ReadyRests DEF IdeOK, Kin
    <3> QED
      BY <3>1, <3>2, RestTransfers DEF IdeOK, Rests, Kin
  <2> QED
    BY <2>1, <2>2, <2>3
<1> HIDE DEF b
<1>3. \A i \in {0, 1} : /\ DOMAIN e.drive[i] = DriveFields
                        /\ \A x \in DriveFields \ {"srst"} : e.drive[i][x] = b.drive[i][x]
  <2>1. /\ DOMAIN b = {"drive", "selected"} /\ DOMAIN b.drive = {0, 1}
        /\ DOMAIN b.drive[0] = DriveFields /\ DOMAIN b.drive[1] = DriveFields
    BY <1>2 DEF IdeOK
  <2>2. /\ e.drive[0] = [b.drive[0] EXCEPT !.srst = on]
        /\ e.drive[1] = [b.drive[1] EXCEPT !.srst = on]
    <3> DEFINE m == [b EXCEPT !.drive[0].srst = on]
    <3>1. e = [m EXCEPT !.drive[1].srst = on]
      BY <1>1
    <3>2. /\ DOMAIN m = {"drive", "selected"}
          /\ m.drive = [b.drive EXCEPT ![0] = [b.drive[0] EXCEPT !.srst = on]]
      BY <2>1
    <3> HIDE DEF m
    <3>3. e.drive = [m.drive EXCEPT ![1] = [m.drive[1] EXCEPT !.srst = on]]
      BY <3>1, <3>2
    <3> QED
      BY <2>1, <3>2, <3>3
  <2> QED
    BY <2>1, <2>2
<1>4. DOMAIN e = {"drive", "selected"} /\ e.selected = b.selected /\ DOMAIN e.drive = {0, 1}
  BY <1>1, <1>2 DEF IdeOK
<1>5. IdeOK(e)
  BY <1>2, <1>3, <1>4 DEF IdeOK, DriveFields
<1>6. Transfer(e.drive[0], h)
  BY <1>2, <1>3, SameTransfer
<1> QED
  BY <1>2, <1>3, <1>5, <1>6 DEF DriveFields

\* What TransfersExact says of a step.
Exact ==
  LET block == host.at + host.moved \div SectorBytes
      from == host.moved % SectorBytes
      sent == [i \in 1 .. SectorBytes |-> Byte("sent", host.write, host.moved - from + i)]
  IN host.at + host.count <= OffSectors =>
       /\ (host'.moved # host.moved /\ word' # <<>>) =>
            /\ host'.moved <= host.count * SectorBytes
            /\ \A i \in DOMAIN word' :
                 word'[i] = IF host.command = "IDENTIFY" THEN Byte("identify", 0, from + i)
                            ELSE Held(Image, block)[from + i]
       /\ Image' # Image =>
            /\ host.command = "WRITE" /\ host'.moved <= host.count * SectorBytes
            /\ \A s \in DOMAIN Image' \ {block} : Held(Image', s) = Held(Image, s)
            /\ \A i \in 1 .. SectorBytes :
                 Image'[block][i] \in {sent[i], Held(Image, block)[i]}

\* The selected drive is there if it asks for data.
LEMMA DrqSelects ==
  ASSUME IdeOK(ide0), Drq
  PROVE  ide0.selected = 0 /\ Selected(ide0) = ide0.drive[0]
BY DEF IdeOK, Drq, Selected

LEMMA DriveMoved ==
  ASSUME IdeOK(ide0), ide0.selected = 0, NEW d, DOMAIN d = DriveFields,
         d.present = ide0.drive[0].present, ide0' = OnSelected(ide0, d)
  PROVE  IdeOK(ide0)' /\ ide0'.drive[0] = d
BY DEF IdeOK, OnSelected

LEMMA MoveExact ==
  ASSUME TransferInv, Move
  PROVE  TransferInv' /\ Exact
<1> DEFINE d == ide0.drive[0]
<1>0. /\ IdeOK(ide0) /\ HostOK(host) /\ Transfer(d, host) /\ DOMAIN d = DriveFields
      /\ d.present
  BY DEF TransferInv, IdeOK
<1>1. PICK io \in Io : ReadWord(io) \/ WriteWord(io)
  BY DEF Move
<1>2. CASE ReadWord(io)
  <2> DEFINE e == ide_data_in(d, io)
  <2>1. /\ ide0.selected = 0 /\ Selected(ide0) = d
        /\ ide0' = OnSelected(ide0, e) /\ word' = DataRead(d, io)
        /\ host' = Counted(host, word') /\ host.command \in {"READ", "IDENTIFY"}
    BY <1>0, <1>2, DrqSelects DEF ReadWord, ReadIdeData, ide_read16_data, Counted
  <2> HIDE DEF d
  <2>2. /\ Kin(d, e) /\ HostOK(host') /\ Transfer(e, host')
        /\ word' # <<>> =>
             /\ host'.moved <= host.count * SectorBytes
             /\ Fits(host) => \A i \in DOMAIN word' :
                  word'[i] = Wanted(d.image, host, host.moved \div SectorBytes,
                                    (host.moved % SectorBytes) + i)
    BY ONLY <1>0, <2>1, ReadMoves
  <2> HIDE DEF e
  <2>3. IdeOK(ide0)' /\ ide0'.drive[0] = e
    BY <1>0, <2>1, <2>2, DriveMoved DEF Kin, d
  <2>4. Image' = Image
    BY <2>2, <2>3 DEF Image, Kin, d
  <2>5. TransferInv'
    BY <2>2, <2>3 DEF TransferInv
  <2>6. Exact
    BY <2>2, <2>4 DEF Exact, Fits, Wanted, Image, d
  <2> QED
    BY <2>5, <2>6
<1>3. CASE WriteWord(io)
  <2> DEFINE e == ide_data_out(d, Words(host), io)
  <2>1. /\ ide0.selected = 0 /\ Selected(ide0) = d
        /\ ide0' = OnSelected(ide0, e) /\ word' = <<>>
        /\ host' = SentOn(d, host) /\ host.command = "WRITE"
    BY <1>0, <1>3, DrqSelects
       DEF WriteWord, WriteIdeData, ide_write16_data, WordToSend, Words, SentOn, Drq
  <2> HIDE DEF d
  <2>2. /\ DOMAIN e = DriveFields /\ e.present = d.present /\ HostOK(host')
        /\ Transfer(e, host')
        /\ e.image # d.image =>
             /\ host'.moved <= host.count * SectorBytes
             /\ host.moved - (host.moved % SectorBytes)
                  = (host.moved \div SectorBytes) * SectorBytes
             /\ Fits(host) => Sent(host, host.moved \div SectorBytes, d.image, e.image)
    BY ONLY <1>0, <2>1, WriteMoves
  <2> HIDE DEF e
  <2>3. IdeOK(ide0)' /\ ide0'.drive[0] = e
    BY <1>0, <2>1, <2>2, DriveMoved DEF d
  <2>4. Image' = e.image /\ Image = d.image
    BY <2>3 DEF Image, d
  <2>5. TransferInv'
    BY <2>2, <2>3 DEF TransferInv
  <2>6. Exact
    BY <2>1, <2>2, <2>4 DEF Exact, Fits, Sent
  <2> QED
    BY <2>5, <2>6
<1> QED
  BY <1>1, <1>2, <1>3

LEMMA CommandExact ==
  ASSUME TransferInv, NEW command \in {"EDD", "IDENTIFY", "INTPARAMS", "READ", "WRITE",
                                       "VERIFY", "SETFEATURES", "CALIB", "SEEK", "unknown"},
         NEW feature, NEW count \in Nat, NEW a \in Address,
         Command(command, feature, count, a)
  PROVE  TransferInv' /\ Exact
<1>1. /\ IdeOK(ide0) /\ "BSY" \notin Selected(ide0).status
      /\ ide0' = Given(ide0, command, feature, count, a) /\ word' = <<>>
      /\ host' = [command |-> command, at |-> Block(a), moved |-> 0, write |-> writes,
                  count |-> IF command = "IDENTIFY" THEN 1
                            ELSE IF count = 0 THEN MaxCount ELSE count]
  BY DEF TransferInv, Command
<1>2. /\ IdeOK(ide0') /\ HostOK(host') /\ Transfer(ide0'.drive[0], host')
      /\ ide0'.drive[0].image = ide0.drive[0].image
  BY ONLY <1>1, CommandGiven, count \in Nat, a \in Address,
          command \in {"EDD", "IDENTIFY", "INTPARAMS", "READ", "WRITE", "VERIFY",
                       "SETFEATURES", "CALIB", "SEEK", "unknown"}
<1>3. TransferInv'
  BY <1>2 DEF TransferInv
<1>4. Exact
  BY <1>1, <1>2 DEF Exact, Image
<1> QED
  BY <1>3, <1>4

LEMMA StillExact ==
  ASSUME TransferInv, UNCHANGED <<ide0, host>>
  PROVE  TransferInv' /\ Exact
BY DEF TransferInv, Exact, Image

LEMMA RegistersExact ==
  ASSUME TransferInv, UNCHANGED host,
         IdeOK(ide0') /\ Transfer(ide0'.drive[0], host)
           /\ ide0'.drive[0].image = ide0.drive[0].image
  PROVE  TransferInv' /\ Exact
BY DEF TransferInv, Exact, Image

LEMMA TransferStep ==
  ASSUME TransferInv, Next
  PROVE  TransferInv' /\ Exact
<1>1. CASE MainLoop \/ HandlerReturns \/ A314Interrupt
           \/ \E bit \in {"PORTS", "VERTB"} : BoardInterrupt(bit)
  BY <1>1, StillExact
     DEF MainLoop, HandlerReturns, A314Interrupt, BoardInterrupt, gayleVars, progVars
<1>2. CASE WordIntena \/ ByteIntena \/ ResetInstruction \/ Settle \/ EnableIde
           \/ \E mask \in {0, 7} : WriteMask(mask)
  BY <1>2, StillExact
     DEF WordIntena, ByteIntena, ResetInstruction, Settle, EnableIde, WriteMask, WriteGint,
         gayleVars, progVars
<1>3. CASE Handler
  <2>1. UNCHANGED host /\ (UNCHANGED ide0 \/ ide0' = ReadStatus(ide0))
    BY <1>3 DEF Handler, ReadIdeStatus, gayleVars
  <2>2. CASE UNCHANGED ide0
    BY <2>1, <2>2, StillExact
  <2>3. CASE ide0' = ReadStatus(ide0)
    BY <2>1, <2>3, StatusAndChoice, RegistersExact DEF TransferInv
  <2> QED
    BY <2>1, <2>2, <2>3
<1>4. CASE PollStatus \/ \E on \in BOOLEAN : SelectDrive(on)
  <2>1. /\ UNCHANGED host
        /\ \/ ide0' = ReadStatus(ide0)
           \/ \E dev \in BOOLEAN : ide0' = ide_write8(ide0, "lba4", [Top EXCEPT !.dev = dev])
    BY <1>4 DEF PollStatus, SelectDrive, ReadIdeStatus, WriteIde, progVars
  <2> QED
    BY <2>1, StatusAndChoice, RegistersExact DEF TransferInv
<1>5. CASE \E on \in BOOLEAN : SoftReset(on)
  <2>1. PICK on \in BOOLEAN : ide0' = ide_write8(ide0, "devctrl", on) /\ UNCHANGED host
    BY <1>5 DEF SoftReset, WriteIde, progVars
  <2> QED
    BY <2>1, ControlWritten, RegistersExact DEF TransferInv
<1>6. CASE DiskMove \/ DriverMove
  BY <1>6, MoveExact DEF DiskMove, DriverMove
<1>7. CASE DiskCommand
  <2>1. Addresses \subseteq Address /\ DriverAddresses \subseteq Address /\ Origin \in Address
    BY AddressesAreSo
  <2>2. CASE \E command \in {"READ", "WRITE", "VERIFY"}, count \in 0 .. 1, a \in Addresses :
               Command(command, "other", count, a)
    BY <2>1, <2>2, CommandExact
  <2>3. CASE \E f \in Features : Command("SETFEATURES", f, 1, Origin)
    BY <2>1, <2>3, CommandExact
  <2>4. CASE \E count \in 1 .. 2 : Command("INTPARAMS", "other", count, Origin)
    BY <2>1, <2>4, CommandExact
  <2>5. CASE \E command \in {"SEEK", "CALIB"}, a \in DriverAddresses :
               Command(command, "other", 1, a)
    BY <2>1, <2>5, CommandExact
  <2>6. CASE \E command \in {"EDD", "IDENTIFY", "unknown"} :
               Command(command, "other", 1, Origin)
    BY <2>1, <2>6, CommandExact
  <2> QED
    BY <1>7, <2>2, <2>3, <2>4, <2>5, <2>6 DEF DiskCommand
<1>8. CASE DriverCommand
  <2>1. DriverAddresses \subseteq Address
    BY AddressesAreSo
  <2> QED
    BY <1>8, <2>1, CommandExact DEF DriverCommand
<1>9. CASE DriverDone \/ Boot
  BY <1>9, StillExact DEF DriverDone, Boot, gayleVars, progVars
<1> QED
  BY <1>1, <1>2, <1>3, <1>4, <1>5, <1>6, <1>7, <1>8, <1>9 DEF Next

\* The drive gives what its command's address says and no more than was asked for,
\* and what changes in the image are the bytes just sent, where the address says:
\* whatever commands, resets, choices of drive and failures come in between.
THEOREM TransfersAlwaysExact == Spec => TransfersExact
<1>1. TransferInv /\ [Next]_vars => TransferInv'
  <2> SUFFICES ASSUME TransferInv, [Next]_vars PROVE TransferInv'
    OBVIOUS
  <2>1. CASE UNCHANGED vars
    BY <2>1, StillExact DEF vars, gayleVars, progVars
  <2> QED
    BY <2>1, TransferStep
<1>2. TransferInv /\ [Next]_vars => [Exact]_vars
  BY TransferStep
<1>3. Spec => [][Exact]_vars
  BY <1>1, <1>2, TransferInit, PTL DEF Spec
<1> QED
  BY <1>3 DEF TransfersExact, Exact
=============================================================================
