----------------------------- MODULE M68kOpsAtoL ----------------------------
(***************************************************************************)
(* The handlers of m68kops.c, from line A to LSL,                          *)
(* in its order: each the expansion of a template for one size and a set   *)
(* of addressing modes.  Where a template has one handler per size, or one *)
(* each for A7, they stand together.                                       *)
(***************************************************************************)
EXTENDS M68kMachine

m68k_op_1010 == Handler("line_1010", {2}, {"none"}, line_1010)
m68k_op_1111 == Handler("line_1111", {2}, {"none"}, line_1111)
m68k_op_abcd_8_rr == Handler("abcd_rr", {1}, {"none"}, abcd_rr)
m68k_op_abcd_mm == Handler("abcd_mm", {1}, {"none"}, abcd_mm)
m68k_op_add_8_er == Handler("add_er", {1}, Data, add_er)
m68k_op_add_16_er == Handler("add_er", {2}, All, add_er)
m68k_op_add_32_er == Handler("add_er", {4}, All, add_er)
m68k_op_add_8_re == Handler("add_re", {1}, MemoryAlterable, add_re)
m68k_op_add_16_re == Handler("add_re", {2}, MemoryAlterable, add_re)
m68k_op_add_32_re == Handler("add_re", {4}, MemoryAlterable, add_re)
m68k_op_adda_16 == Handler("adda", {2}, All, adda)
m68k_op_adda_32 == Handler("adda", {4}, All, adda)
m68k_op_addi_8 == Handler("addi", {1}, DataAlterable, addi)
m68k_op_addi_16 == Handler("addi", {2}, DataAlterable, addi)
m68k_op_addi_32 == Handler("addi", {4}, DataAlterable, addi)
m68k_op_addq_8 == Handler("addq", {1}, DataAlterable, addq)
m68k_op_addq_16 == Handler("addq", {2}, Alterable, addq)
m68k_op_addq_32 == Handler("addq", {4}, Alterable, addq)
m68k_op_addx_rr == Handler("addx_rr", {1, 2, 4}, {"none"}, addx_rr)
m68k_op_addx_mm == Handler("addx_mm", {1, 2, 4}, {"none"}, addx_mm)
m68k_op_and_8_er == Handler("and_er", {1}, Data, and_er)
m68k_op_and_16_er == Handler("and_er", {2}, Data, and_er)
m68k_op_and_32_er == Handler("and_er", {4}, Data, and_er)
m68k_op_and_8_re == Handler("and_re", {1}, MemoryAlterable, and_re)
m68k_op_and_16_re == Handler("and_re", {2}, MemoryAlterable, and_re)
m68k_op_and_32_re == Handler("and_re", {4}, MemoryAlterable, and_re)
m68k_op_andi_8 == Handler("andi", {1}, DataAlterable, andi)
m68k_op_andi_16 == Handler("andi", {2}, DataAlterable, andi)
m68k_op_andi_32 == Handler("andi", {4}, DataAlterable, andi)
m68k_op_andi_16_toc == Handler("andi_toc", {2}, {"none"}, andi_toc)
m68k_op_andi_16_tos == Handler("andi_tos", {2}, {"none"}, andi_tos)
m68k_op_asr_s == Handler("asr_s", {1, 2, 4}, {"none"}, asr_s)
m68k_op_asr_r == Handler("asr_r", {1, 2, 4}, {"none"}, asr_r)
m68k_op_asr_16 == Handler("asr", {2}, MemoryAlterable, asr)
m68k_op_asl_s == Handler("asl_s", {1, 2, 4}, {"none"}, asl_s)
m68k_op_asl_r == Handler("asl_r", {1, 2, 4}, {"none"}, asl_r)
m68k_op_asl_16 == Handler("asl", {2}, MemoryAlterable, asl)
m68k_op_bcc_8 == Handler("bcc_8", {1}, {"none"}, bcc_8)
m68k_op_bhi_16 == ConditionHandler("bcc_16", "hi", {"none"}, bcc_16)
m68k_op_bls_16 == ConditionHandler("bcc_16", "ls", {"none"}, bcc_16)
m68k_op_bcc_16 == ConditionHandler("bcc_16", "cc", {"none"}, bcc_16)
m68k_op_bcs_16 == ConditionHandler("bcc_16", "cs", {"none"}, bcc_16)
m68k_op_bne_16 == ConditionHandler("bcc_16", "ne", {"none"}, bcc_16)
m68k_op_beq_16 == ConditionHandler("bcc_16", "eq", {"none"}, bcc_16)
m68k_op_bvc_16 == ConditionHandler("bcc_16", "vc", {"none"}, bcc_16)
m68k_op_bvs_16 == ConditionHandler("bcc_16", "vs", {"none"}, bcc_16)
m68k_op_bpl_16 == ConditionHandler("bcc_16", "pl", {"none"}, bcc_16)
m68k_op_bmi_16 == ConditionHandler("bcc_16", "mi", {"none"}, bcc_16)
m68k_op_bge_16 == ConditionHandler("bcc_16", "ge", {"none"}, bcc_16)
m68k_op_blt_16 == ConditionHandler("bcc_16", "lt", {"none"}, bcc_16)
m68k_op_bgt_16 == ConditionHandler("bcc_16", "gt", {"none"}, bcc_16)
m68k_op_ble_16 == ConditionHandler("bcc_16", "le", {"none"}, bcc_16)
m68k_op_bhi_32 == ConditionHandler("bcc_32", "hi", {"none"}, bcc_32)
m68k_op_bls_32 == ConditionHandler("bcc_32", "ls", {"none"}, bcc_32)
m68k_op_bcc_32 == ConditionHandler("bcc_32", "cc", {"none"}, bcc_32)
m68k_op_bcs_32 == ConditionHandler("bcc_32", "cs", {"none"}, bcc_32)
m68k_op_bne_32 == ConditionHandler("bcc_32", "ne", {"none"}, bcc_32)
m68k_op_beq_32 == ConditionHandler("bcc_32", "eq", {"none"}, bcc_32)
m68k_op_bvc_32 == ConditionHandler("bcc_32", "vc", {"none"}, bcc_32)
m68k_op_bvs_32 == ConditionHandler("bcc_32", "vs", {"none"}, bcc_32)
m68k_op_bpl_32 == ConditionHandler("bcc_32", "pl", {"none"}, bcc_32)
m68k_op_bmi_32 == ConditionHandler("bcc_32", "mi", {"none"}, bcc_32)
m68k_op_bge_32 == ConditionHandler("bcc_32", "ge", {"none"}, bcc_32)
m68k_op_blt_32 == ConditionHandler("bcc_32", "lt", {"none"}, bcc_32)
m68k_op_bgt_32 == ConditionHandler("bcc_32", "gt", {"none"}, bcc_32)
m68k_op_ble_32 == ConditionHandler("bcc_32", "le", {"none"}, bcc_32)
m68k_op_bchg_32_r == Handler("bchg_r", {4}, {"d"}, bchg_r)
m68k_op_bchg_8_r == Handler("bchg_r", {1}, MemoryAlterable, bchg_r)
m68k_op_bchg_32_s == Handler("bchg_s", {4}, {"d"}, bchg_s)
m68k_op_bchg_8_s == Handler("bchg_s", {1}, MemoryAlterable, bchg_s)
m68k_op_bclr_32_r == Handler("bclr_r", {4}, {"d"}, bclr_r)
m68k_op_bclr_8_r == Handler("bclr_r", {1}, MemoryAlterable, bclr_r)
m68k_op_bclr_32_s == Handler("bclr_s", {4}, {"d"}, bclr_s)
m68k_op_bclr_8_s == Handler("bclr_s", {1}, MemoryAlterable, bclr_s)
m68k_op_bra_8 == Handler("bra_8", {1}, {"none"}, bra_8)
m68k_op_bra_16 == Handler("bra_16", {2}, {"none"}, bra_16)
m68k_op_bra_32 == Handler("bra_32", {4}, {"none"}, bra_32)
m68k_op_bset_32_r == Handler("bset_r", {4}, {"d"}, bset_r)
m68k_op_bset_8_r == Handler("bset_r", {1}, MemoryAlterable, bset_r)
m68k_op_bset_32_s == Handler("bset_s", {4}, {"d"}, bset_s)
m68k_op_bset_8_s == Handler("bset_s", {1}, MemoryAlterable, bset_s)
m68k_op_bsr_8 == Handler("bsr_8", {1}, {"none"}, bsr_8)
m68k_op_bsr_16 == Handler("bsr_16", {2}, {"none"}, bsr_16)
m68k_op_bsr_32 == Handler("bsr_32", {4}, {"none"}, bsr_32)
m68k_op_btst_32_r == Handler("btst_r", {4}, {"d"}, btst_r)
m68k_op_btst_8_r == Handler("btst_r", {1}, Memory, btst_r)
m68k_op_btst_32_s == Handler("btst_s", {4}, {"d"}, btst_s)
m68k_op_btst_8_s == Handler("btst_s", {1}, Readable, btst_s)
m68k_op_chk_16 == Handler("chk", {2}, Data, chk)
m68k_op_clr_8 == Handler("clr", {1}, DataAlterable, clr)
m68k_op_clr_16 == Handler("clr", {2}, DataAlterable, clr)
m68k_op_clr_32 == Handler("clr", {4}, DataAlterable, clr)
m68k_op_cmp_8 == Handler("cmp", {1}, Data, cmp)
m68k_op_cmp_16 == Handler("cmp", {2}, All, cmp)
m68k_op_cmp_32 == Handler("cmp", {4}, All, cmp)
m68k_op_cmpa_16 == Handler("cmpa", {2}, All, cmpa)
m68k_op_cmpa_32 == Handler("cmpa", {4}, All, cmpa)
m68k_op_cmpi_8 ==
    \/ Handler("cmpi", {1}, DataAlterable, cmpi)
    \/ Handler("cmpi", {1}, {"pcdi", "pcix"}, illegal)
m68k_op_cmpi_16 ==
    \/ Handler("cmpi", {2}, DataAlterable, cmpi)
    \/ Handler("cmpi", {2}, {"pcdi", "pcix"}, illegal)
m68k_op_cmpi_32 ==
    \/ Handler("cmpi", {4}, DataAlterable, cmpi)
    \/ Handler("cmpi", {4}, {"pcdi", "pcix"}, illegal)
m68k_op_cmpm == Handler("cmpm", {1, 2, 4}, {"none"}, cmpm)
m68k_op_dbt_16 == Handler("dbt", {2}, {"none"}, dbt)
m68k_op_dbf_16 == Handler("dbf", {2}, {"none"}, dbf)
m68k_op_dbhi_16 == ConditionHandler("dbcc", "hi", {"none"}, dbcc)
m68k_op_dbls_16 == ConditionHandler("dbcc", "ls", {"none"}, dbcc)
m68k_op_dbcc_16 == ConditionHandler("dbcc", "cc", {"none"}, dbcc)
m68k_op_dbcs_16 == ConditionHandler("dbcc", "cs", {"none"}, dbcc)
m68k_op_dbne_16 == ConditionHandler("dbcc", "ne", {"none"}, dbcc)
m68k_op_dbeq_16 == ConditionHandler("dbcc", "eq", {"none"}, dbcc)
m68k_op_dbvc_16 == ConditionHandler("dbcc", "vc", {"none"}, dbcc)
m68k_op_dbvs_16 == ConditionHandler("dbcc", "vs", {"none"}, dbcc)
m68k_op_dbpl_16 == ConditionHandler("dbcc", "pl", {"none"}, dbcc)
m68k_op_dbmi_16 == ConditionHandler("dbcc", "mi", {"none"}, dbcc)
m68k_op_dbge_16 == ConditionHandler("dbcc", "ge", {"none"}, dbcc)
m68k_op_dblt_16 == ConditionHandler("dbcc", "lt", {"none"}, dbcc)
m68k_op_dbgt_16 == ConditionHandler("dbcc", "gt", {"none"}, dbcc)
m68k_op_dble_16 == ConditionHandler("dbcc", "le", {"none"}, dbcc)
m68k_op_divs_16 == Handler("divs", {2}, Data, divs)
m68k_op_divu_16 == Handler("divu", {2}, Data, divu)
m68k_op_eor_8 == Handler("eor", {1}, DataAlterable, eor)
m68k_op_eor_16 == Handler("eor", {2}, DataAlterable, eor)
m68k_op_eor_32 == Handler("eor", {4}, DataAlterable, eor)
m68k_op_eori_8 == Handler("eori", {1}, DataAlterable, eori)
m68k_op_eori_16 == Handler("eori", {2}, DataAlterable, eori)
m68k_op_eori_32 == Handler("eori", {4}, DataAlterable, eori)
m68k_op_eori_16_toc == Handler("eori_toc", {2}, {"none"}, eori_toc)
m68k_op_eori_16_tos == Handler("eori_tos", {2}, {"none"}, eori_tos)
m68k_op_exg_32_dd == Handler("exg_dd", {4}, {"none"}, exg_dd)
m68k_op_exg_32_aa == Handler("exg_aa", {4}, {"none"}, exg_aa)
m68k_op_exg_32_da == Handler("exg_da", {4}, {"none"}, exg_da)
m68k_op_ext_16 == Handler("ext", {2}, {"none"}, ext)
m68k_op_ext_32 == Handler("ext", {4}, {"none"}, ext)
m68k_op_illegal == Handler("illegal", {2}, {"none"}, illegal)
m68k_op_jmp_32 == Handler("jmp", {4}, Control, jmp)
m68k_op_jsr_32 == Handler("jsr", {4}, Control, jsr)
m68k_op_lea_32 == Handler("lea", {4}, Control, lea)
m68k_op_link_16_a7 == Handler("link_a7", {2}, {"none"}, link_a7)
m68k_op_link_16 == Handler("link", {2}, {"none"}, link)
m68k_op_lsr_s == Handler("lsr_s", {1, 2, 4}, {"none"}, lsr_s)
m68k_op_lsr_r == Handler("lsr_r", {1, 2, 4}, {"none"}, lsr_r)
m68k_op_lsr_16 == Handler("lsr", {2}, MemoryAlterable, lsr)
m68k_op_lsl_s == Handler("lsl_s", {1, 2, 4}, {"none"}, lsl_s)
m68k_op_lsl_r == Handler("lsl_r", {1, 2, 4}, {"none"}, lsl_r)
m68k_op_lsl_16 == Handler("lsl", {2}, MemoryAlterable, lsl)

=============================================================================
