----------------------------- MODULE M68kOpsMtoZ ----------------------------
(***************************************************************************)
(* The handlers of m68kops.c, from MOVE to UNLK,                           *)
(* in its order: each the expansion of a template for one size and a set   *)
(* of addressing modes.  Where a template has one handler per size, or one *)
(* each for A7, they stand together.                                       *)
(***************************************************************************)
EXTENDS M68kMachine

m68k_op_move_8_d == MoveHandler({1}, "d", 0 .. 7, Data, move_d)
m68k_op_move_8_ai == MoveHandler({1}, "ai", 0 .. 7, Data, move_m)
m68k_op_move_8_pi_d == MoveHandler({1}, "pi", 0 .. 7, {"d"}, move_m)
m68k_op_move_8_pi7 == MoveHandler({1}, "pi", {7}, Memory, move_m)
m68k_op_move_8_pi == MoveHandler({1}, "pi", 0 .. 6, Memory, move_m)
m68k_op_move_8_pd_d == MoveHandler({1}, "pd", 0 .. 7, {"d"}, move_m)
m68k_op_move_8_pd7 == MoveHandler({1}, "pd", {7}, Memory, move_m)
m68k_op_move_8_pd == MoveHandler({1}, "pd", 0 .. 6, Memory, move_m)
m68k_op_move_8_di == MoveHandler({1}, "di", 0 .. 7, Data, move_m)
m68k_op_move_8_ix == MoveHandler({1}, "ix", 0 .. 7, Data, move_m)
m68k_op_move_8_aw == MoveHandler({1}, "aw", 0 .. 7, Data, move_m)
m68k_op_move_8_al == MoveHandler({1}, "al", 0 .. 7, Data, move_m)
m68k_op_move_16_d == MoveHandler({2}, "d", 0 .. 7, All, move_d)
m68k_op_move_16_ai == MoveHandler({2}, "ai", 0 .. 7, All, move_m)
m68k_op_move_16_pi == MoveHandler({2}, "pi", 0 .. 7, All, move_m)
m68k_op_move_16_pd == MoveHandler({2}, "pd", 0 .. 7, All, move_m)
m68k_op_move_16_di == MoveHandler({2}, "di", 0 .. 7, All, move_m)
m68k_op_move_16_ix == MoveHandler({2}, "ix", 0 .. 7, All, move_m)
m68k_op_move_16_aw == MoveHandler({2}, "aw", 0 .. 7, All, move_m)
m68k_op_move_16_al == MoveHandler({2}, "al", 0 .. 7, All, move_m)
m68k_op_move_32_d == MoveHandler({4}, "d", 0 .. 7, All, move_d)
m68k_op_move_32_ai == MoveHandler({4}, "ai", 0 .. 7, All, move_m)
m68k_op_move_32_pi == MoveHandler({4}, "pi", 0 .. 7, All, move_m)
m68k_op_move_32_pd == MoveHandler({4}, "pd", 0 .. 7, All, move_32_pd)
m68k_op_move_32_di == MoveHandler({4}, "di", 0 .. 7, All, move_m)
m68k_op_move_32_ix == MoveHandler({4}, "ix", 0 .. 7, All, move_m)
m68k_op_move_32_aw == MoveHandler({4}, "aw", 0 .. 7, All, move_m)
m68k_op_move_32_al == MoveHandler({4}, "al", 0 .. 7, All, move_m)
m68k_op_movea_16 == Handler("movea", {2}, All, movea)
m68k_op_movea_32 == Handler("movea", {4}, All, movea)
m68k_op_move_16_toc == Handler("move_toc", {2}, Data, move_toc)
m68k_op_move_16_frs == Handler("move_frs", {2}, DataAlterable, move_frs)
m68k_op_move_16_tos == Handler("move_tos", {2}, Data, move_tos)
m68k_op_move_32_fru == Handler("move_fru", {4}, {"none"}, move_fru)
m68k_op_move_32_tou == Handler("move_tou", {4}, {"none"}, move_tou)
m68k_op_movem_16_re ==
    \/ Handler("movem_re", {2}, {"pd"}, movem_re_pd)
    \/ Handler("movem_re", {2}, Control \ {"pcdi", "pcix"}, movem_re)
m68k_op_movem_32_re ==
    \/ Handler("movem_re", {4}, {"pd"}, movem_re_pd)
    \/ Handler("movem_re", {4}, Control \ {"pcdi", "pcix"}, movem_re)
m68k_op_movem_16_er ==
    \/ Handler("movem_er", {2}, {"pi"}, movem_er_pi)
    \/ Handler("movem_er", {2}, Control, movem_er)
m68k_op_movem_32_er ==
    \/ Handler("movem_er", {4}, {"pi"}, movem_er_pi)
    \/ Handler("movem_er", {4}, Control, movem_er)
m68k_op_movep_16_re == Handler("movep_re", {2}, {"di"}, movep_re)
m68k_op_movep_32_re == Handler("movep_re", {4}, {"di"}, movep_re)
m68k_op_movep_16_er == Handler("movep_er", {2}, {"di"}, movep_er)
m68k_op_movep_32_er == Handler("movep_er", {4}, {"di"}, movep_er)
m68k_op_moveq_32 == Handler("moveq", {4}, {"none"}, moveq)
m68k_op_muls_16 == Handler("muls", {2}, Data, muls)
m68k_op_mulu_16 == Handler("mulu", {2}, Data, mulu)
m68k_op_nbcd_8 == Handler("nbcd", {1}, DataAlterable, nbcd)
m68k_op_neg_8 == Handler("neg", {1}, DataAlterable, neg)
m68k_op_neg_16 == Handler("neg", {2}, DataAlterable, neg)
m68k_op_neg_32 == Handler("neg", {4}, DataAlterable, neg)
m68k_op_negx_8 == Handler("negx", {1}, DataAlterable, negx)
m68k_op_negx_16 == Handler("negx", {2}, DataAlterable, negx)
m68k_op_negx_32 == Handler("negx", {4}, DataAlterable, negx)
m68k_op_nop == Handler("nop", {2}, {"none"}, nop)
m68k_op_not_8 == Handler("not", {1}, DataAlterable, not)
m68k_op_not_16 == Handler("not", {2}, DataAlterable, not)
m68k_op_not_32 == Handler("not", {4}, DataAlterable, not)
m68k_op_or_8_er == Handler("or_er", {1}, Data, or_er)
m68k_op_or_16_er == Handler("or_er", {2}, Data, or_er)
m68k_op_or_32_er == Handler("or_er", {4}, Data, or_er)
m68k_op_or_8_re == Handler("or_re", {1}, MemoryAlterable, or_re)
m68k_op_or_16_re == Handler("or_re", {2}, MemoryAlterable, or_re)
m68k_op_or_32_re == Handler("or_re", {4}, MemoryAlterable, or_re)
m68k_op_ori_8 == Handler("ori", {1}, DataAlterable, ori)
m68k_op_ori_16 == Handler("ori", {2}, DataAlterable, ori)
m68k_op_ori_32 == Handler("ori", {4}, DataAlterable, ori)
m68k_op_ori_16_toc == Handler("ori_toc", {2}, {"none"}, ori_toc)
m68k_op_ori_16_tos == Handler("ori_tos", {2}, {"none"}, ori_tos)
m68k_op_pea_32 == Handler("pea", {4}, Control, pea)
m68k_op_pflush_32 == Handler("line_1111", {4}, {"none"}, line_1111)
m68k_op_reset == Handler("reset", {2}, {"none"}, reset)
m68k_op_ror_s == Handler("ror_s", {1, 2, 4}, {"none"}, ror_s)
m68k_op_ror_r == Handler("ror_r", {1, 2, 4}, {"none"}, ror_r)
m68k_op_ror_16 == Handler("ror", {2}, MemoryAlterable, ror)
m68k_op_rol_s == Handler("rol_s", {1, 2, 4}, {"none"}, rol_s)
m68k_op_rol_r == Handler("rol_r", {1, 2, 4}, {"none"}, rol_r)
m68k_op_rol_16 == Handler("rol", {2}, MemoryAlterable, rol)
m68k_op_roxr_s == Handler("roxr_s", {1, 2, 4}, {"none"}, roxr_s)
m68k_op_roxr_r == Handler("roxr_r", {1, 2, 4}, {"none"}, roxr_r)
m68k_op_roxr_16 == Handler("roxr", {2}, MemoryAlterable, roxr)
m68k_op_roxl_s == Handler("roxl_s", {1, 2, 4}, {"none"}, roxl_s)
m68k_op_roxl_r == Handler("roxl_r", {1, 2, 4}, {"none"}, roxl_r)
m68k_op_roxl_16 == Handler("roxl", {2}, MemoryAlterable, roxl)
m68k_op_rte_32 == Handler("rte", {4}, {"none"}, rte)
m68k_op_rtr_32 == Handler("rtr", {4}, {"none"}, rtr)
m68k_op_rts_32 == Handler("rts", {4}, {"none"}, rts)
m68k_op_sbcd_8_rr == Handler("sbcd_rr", {1}, {"none"}, sbcd_rr)
m68k_op_sbcd_mm == Handler("sbcd_mm", {1}, {"none"}, sbcd_mm)
m68k_op_st_8 == Handler("st", {1}, DataAlterable, st)
m68k_op_sf_8 == Handler("sf", {1}, DataAlterable, sf)
m68k_op_scc_8_d == Handler("scc", {1}, {"d"}, scc)
m68k_op_shi_8 == ConditionHandler("scc", "hi", MemoryAlterable, scc)
m68k_op_sls_8 == ConditionHandler("scc", "ls", MemoryAlterable, scc)
m68k_op_scc_8 == ConditionHandler("scc", "cc", MemoryAlterable, scc)
m68k_op_scs_8 == ConditionHandler("scc", "cs", MemoryAlterable, scc)
m68k_op_sne_8 == ConditionHandler("scc", "ne", MemoryAlterable, scc)
m68k_op_seq_8 == ConditionHandler("scc", "eq", MemoryAlterable, scc)
m68k_op_svc_8 == ConditionHandler("scc", "vc", MemoryAlterable, scc)
m68k_op_svs_8 == ConditionHandler("scc", "vs", MemoryAlterable, scc)
m68k_op_spl_8 == ConditionHandler("scc", "pl", MemoryAlterable, scc)
m68k_op_smi_8 == ConditionHandler("scc", "mi", MemoryAlterable, scc)
m68k_op_sge_8 == ConditionHandler("scc", "ge", MemoryAlterable, scc)
m68k_op_slt_8 == ConditionHandler("scc", "lt", MemoryAlterable, scc)
m68k_op_sgt_8 == ConditionHandler("scc", "gt", MemoryAlterable, scc)
m68k_op_sle_8 == ConditionHandler("scc", "le", MemoryAlterable, scc)
m68k_op_stop == Handler("stop", {2}, {"none"}, stop)
m68k_op_sub_8_er == Handler("sub_er", {1}, Data, sub_er)
m68k_op_sub_16_er == Handler("sub_er", {2}, All, sub_er)
m68k_op_sub_32_er == Handler("sub_er", {4}, All, sub_er)
m68k_op_sub_8_re == Handler("sub_re", {1}, MemoryAlterable, sub_re)
m68k_op_sub_16_re == Handler("sub_re", {2}, MemoryAlterable, sub_re)
m68k_op_sub_32_re == Handler("sub_re", {4}, MemoryAlterable, sub_re)
m68k_op_suba_16 == Handler("suba", {2}, All, suba)
m68k_op_suba_32 == Handler("suba", {4}, All, suba)
m68k_op_subi_8 == Handler("subi", {1}, DataAlterable, subi)
m68k_op_subi_16 == Handler("subi", {2}, DataAlterable, subi)
m68k_op_subi_32 == Handler("subi", {4}, DataAlterable, subi)
m68k_op_subq_8 == Handler("subq", {1}, DataAlterable, subq)
m68k_op_subq_16 == Handler("subq", {2}, Alterable, subq)
m68k_op_subq_32 == Handler("subq", {4}, Alterable, subq)
m68k_op_subx_rr == Handler("subx_rr", {1, 2, 4}, {"none"}, subx_rr)
m68k_op_subx_mm == Handler("subx_mm", {1, 2, 4}, {"none"}, subx_mm)
m68k_op_swap_32 == Handler("swap", {4}, {"none"}, swap)
m68k_op_tas_8 == Handler("tas", {1}, DataAlterable, tas)
m68k_op_trap == Handler("trap", {2}, {"none"}, trap)
m68k_op_trapv == Handler("trapv", {2}, {"none"}, trapv)
m68k_op_tst_8 ==
    \/ Handler("tst", {1}, DataAlterable, tst)
    \/ Handler("tst", {1}, {"pcdi", "pcix", "i"}, illegal)
m68k_op_tst_16 ==
    \/ Handler("tst", {2}, DataAlterable, tst)
    \/ Handler("tst", {2}, {"a", "pcdi", "pcix", "i"}, illegal)
m68k_op_tst_32 ==
    \/ Handler("tst", {4}, DataAlterable, tst)
    \/ Handler("tst", {4}, {"a", "pcdi", "pcix", "i"}, illegal)
m68k_op_unlk_32_a7 == Handler("unlk_a7", {4}, {"none"}, unlk_a7)
m68k_op_unlk_32 == Handler("unlk", {4}, {"none"}, unlk)

=============================================================================
