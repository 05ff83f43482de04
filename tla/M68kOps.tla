------------------------------- MODULE M68kOps ------------------------------
(***************************************************************************)
(* The 68000 emulator: any handler the instruction at pc selects, or the   *)
(* beginning of another slice.                                             *)
(***************************************************************************)
EXTENDS M68kOpsAtoL, M68kOpsMtoZ

Next ==
    \/ m68k_op_1010 \/ m68k_op_1111 \/ m68k_op_abcd_8_rr \/ m68k_op_abcd_mm
    \/ m68k_op_add_8_er \/ m68k_op_add_16_er \/ m68k_op_add_32_er
    \/ m68k_op_add_8_re \/ m68k_op_add_16_re \/ m68k_op_add_32_re \/ m68k_op_adda_16
    \/ m68k_op_adda_32 \/ m68k_op_addi_8 \/ m68k_op_addi_16 \/ m68k_op_addi_32
    \/ m68k_op_addq_8 \/ m68k_op_addq_16 \/ m68k_op_addq_32 \/ m68k_op_addx_rr
    \/ m68k_op_addx_mm \/ m68k_op_and_8_er \/ m68k_op_and_16_er \/ m68k_op_and_32_er
    \/ m68k_op_and_8_re \/ m68k_op_and_16_re \/ m68k_op_and_32_re \/ m68k_op_andi_8
    \/ m68k_op_andi_16 \/ m68k_op_andi_32 \/ m68k_op_andi_16_toc
    \/ m68k_op_andi_16_tos \/ m68k_op_asr_s \/ m68k_op_asr_r \/ m68k_op_asr_16
    \/ m68k_op_asl_s \/ m68k_op_asl_r \/ m68k_op_asl_16 \/ m68k_op_bcc_8
    \/ m68k_op_bhi_16 \/ m68k_op_bls_16 \/ m68k_op_bcc_16 \/ m68k_op_bcs_16
    \/ m68k_op_bne_16 \/ m68k_op_beq_16 \/ m68k_op_bvc_16 \/ m68k_op_bvs_16
    \/ m68k_op_bpl_16 \/ m68k_op_bmi_16 \/ m68k_op_bge_16 \/ m68k_op_blt_16
    \/ m68k_op_bgt_16 \/ m68k_op_ble_16 \/ m68k_op_bhi_32 \/ m68k_op_bls_32
    \/ m68k_op_bcc_32 \/ m68k_op_bcs_32 \/ m68k_op_bne_32 \/ m68k_op_beq_32
    \/ m68k_op_bvc_32 \/ m68k_op_bvs_32 \/ m68k_op_bpl_32 \/ m68k_op_bmi_32
    \/ m68k_op_bge_32 \/ m68k_op_blt_32 \/ m68k_op_bgt_32 \/ m68k_op_ble_32
    \/ m68k_op_bchg_32_r \/ m68k_op_bchg_8_r \/ m68k_op_bchg_32_s
    \/ m68k_op_bchg_8_s \/ m68k_op_bclr_32_r \/ m68k_op_bclr_8_r
    \/ m68k_op_bclr_32_s \/ m68k_op_bclr_8_s \/ m68k_op_bra_8 \/ m68k_op_bra_16
    \/ m68k_op_bra_32 \/ m68k_op_bset_32_r \/ m68k_op_bset_8_r \/ m68k_op_bset_32_s
    \/ m68k_op_bset_8_s \/ m68k_op_bsr_8 \/ m68k_op_bsr_16 \/ m68k_op_bsr_32
    \/ m68k_op_btst_32_r \/ m68k_op_btst_8_r \/ m68k_op_btst_32_s
    \/ m68k_op_btst_8_s \/ m68k_op_chk_16 \/ m68k_op_clr_8 \/ m68k_op_clr_16
    \/ m68k_op_clr_32 \/ m68k_op_cmp_8 \/ m68k_op_cmp_16 \/ m68k_op_cmp_32
    \/ m68k_op_cmpa_16 \/ m68k_op_cmpa_32 \/ m68k_op_cmpi_8 \/ m68k_op_cmpi_16
    \/ m68k_op_cmpi_32 \/ m68k_op_cmpm \/ m68k_op_dbt_16 \/ m68k_op_dbf_16
    \/ m68k_op_dbhi_16 \/ m68k_op_dbls_16 \/ m68k_op_dbcc_16 \/ m68k_op_dbcs_16
    \/ m68k_op_dbne_16 \/ m68k_op_dbeq_16 \/ m68k_op_dbvc_16 \/ m68k_op_dbvs_16
    \/ m68k_op_dbpl_16 \/ m68k_op_dbmi_16 \/ m68k_op_dbge_16 \/ m68k_op_dblt_16
    \/ m68k_op_dbgt_16 \/ m68k_op_dble_16 \/ m68k_op_divs_16 \/ m68k_op_divu_16
    \/ m68k_op_eor_8 \/ m68k_op_eor_16 \/ m68k_op_eor_32 \/ m68k_op_eori_8
    \/ m68k_op_eori_16 \/ m68k_op_eori_32 \/ m68k_op_eori_16_toc
    \/ m68k_op_eori_16_tos \/ m68k_op_exg_32_dd \/ m68k_op_exg_32_aa
    \/ m68k_op_exg_32_da \/ m68k_op_ext_16 \/ m68k_op_ext_32 \/ m68k_op_illegal
    \/ m68k_op_jmp_32 \/ m68k_op_jsr_32 \/ m68k_op_lea_32 \/ m68k_op_link_16_a7
    \/ m68k_op_link_16 \/ m68k_op_lsr_s \/ m68k_op_lsr_r \/ m68k_op_lsr_16
    \/ m68k_op_lsl_s \/ m68k_op_lsl_r \/ m68k_op_lsl_16 \/ m68k_op_move_8_d
    \/ m68k_op_move_8_ai \/ m68k_op_move_8_pi_d \/ m68k_op_move_8_pi7
    \/ m68k_op_move_8_pi \/ m68k_op_move_8_pd_d \/ m68k_op_move_8_pd7
    \/ m68k_op_move_8_pd \/ m68k_op_move_8_di \/ m68k_op_move_8_ix
    \/ m68k_op_move_8_aw \/ m68k_op_move_8_al \/ m68k_op_move_16_d
    \/ m68k_op_move_16_ai \/ m68k_op_move_16_pi \/ m68k_op_move_16_pd
    \/ m68k_op_move_16_di \/ m68k_op_move_16_ix \/ m68k_op_move_16_aw
    \/ m68k_op_move_16_al \/ m68k_op_move_32_d \/ m68k_op_move_32_ai
    \/ m68k_op_move_32_pi \/ m68k_op_move_32_pd \/ m68k_op_move_32_di
    \/ m68k_op_move_32_ix \/ m68k_op_move_32_aw \/ m68k_op_move_32_al
    \/ m68k_op_movea_16 \/ m68k_op_movea_32 \/ m68k_op_move_16_toc
    \/ m68k_op_move_16_frs \/ m68k_op_move_16_tos \/ m68k_op_move_32_fru
    \/ m68k_op_move_32_tou \/ m68k_op_movem_16_re \/ m68k_op_movem_32_re
    \/ m68k_op_movem_16_er \/ m68k_op_movem_32_er \/ m68k_op_movep_16_re
    \/ m68k_op_movep_32_re \/ m68k_op_movep_16_er \/ m68k_op_movep_32_er
    \/ m68k_op_moveq_32 \/ m68k_op_muls_16 \/ m68k_op_mulu_16 \/ m68k_op_nbcd_8
    \/ m68k_op_neg_8 \/ m68k_op_neg_16 \/ m68k_op_neg_32 \/ m68k_op_negx_8
    \/ m68k_op_negx_16 \/ m68k_op_negx_32 \/ m68k_op_nop \/ m68k_op_not_8
    \/ m68k_op_not_16 \/ m68k_op_not_32 \/ m68k_op_or_8_er \/ m68k_op_or_16_er
    \/ m68k_op_or_32_er \/ m68k_op_or_8_re \/ m68k_op_or_16_re \/ m68k_op_or_32_re
    \/ m68k_op_ori_8 \/ m68k_op_ori_16 \/ m68k_op_ori_32 \/ m68k_op_ori_16_toc
    \/ m68k_op_ori_16_tos \/ m68k_op_pea_32 \/ m68k_op_pflush_32 \/ m68k_op_reset
    \/ m68k_op_ror_s \/ m68k_op_ror_r \/ m68k_op_ror_16 \/ m68k_op_rol_s
    \/ m68k_op_rol_r \/ m68k_op_rol_16 \/ m68k_op_roxr_s \/ m68k_op_roxr_r
    \/ m68k_op_roxr_16 \/ m68k_op_roxl_s \/ m68k_op_roxl_r \/ m68k_op_roxl_16
    \/ m68k_op_rte_32 \/ m68k_op_rtr_32 \/ m68k_op_rts_32 \/ m68k_op_sbcd_8_rr
    \/ m68k_op_sbcd_mm \/ m68k_op_st_8 \/ m68k_op_sf_8 \/ m68k_op_scc_8_d
    \/ m68k_op_shi_8 \/ m68k_op_sls_8 \/ m68k_op_scc_8 \/ m68k_op_scs_8
    \/ m68k_op_sne_8 \/ m68k_op_seq_8 \/ m68k_op_svc_8 \/ m68k_op_svs_8
    \/ m68k_op_spl_8 \/ m68k_op_smi_8 \/ m68k_op_sge_8 \/ m68k_op_slt_8
    \/ m68k_op_sgt_8 \/ m68k_op_sle_8 \/ m68k_op_stop \/ m68k_op_sub_8_er
    \/ m68k_op_sub_16_er \/ m68k_op_sub_32_er \/ m68k_op_sub_8_re
    \/ m68k_op_sub_16_re \/ m68k_op_sub_32_re \/ m68k_op_suba_16 \/ m68k_op_suba_32
    \/ m68k_op_subi_8 \/ m68k_op_subi_16 \/ m68k_op_subi_32 \/ m68k_op_subq_8
    \/ m68k_op_subq_16 \/ m68k_op_subq_32 \/ m68k_op_subx_rr \/ m68k_op_subx_mm
    \/ m68k_op_swap_32 \/ m68k_op_tas_8 \/ m68k_op_trap \/ m68k_op_trapv
    \/ m68k_op_tst_8 \/ m68k_op_tst_16 \/ m68k_op_tst_32 \/ m68k_op_unlk_32_a7
    \/ m68k_op_unlk_32 \/ Slice

Spec == Init /\ [][Next]_vars

=============================================================================
