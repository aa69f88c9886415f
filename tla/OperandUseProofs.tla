-------------------------- MODULE OperandUseProofs --------------------------
(***************************************************************************)
(* Every instruction but five announces the operands it takes, so a load   *)
(* just ahead of it stalls it: the invariant of OperandUse, for every set  *)
(* of other instructions and of registers.                                 *)
(***************************************************************************)
EXTENDS OperandUse, TLAPS

\* What the flow controller is told covers what the later stages take.
Announces(c) ==
  /\ ReadsRs(c) => c.opd_use \in {"BOTH", "RS"}
  /\ ReadsRt(c) => c.opd_use \in {"BOTH", "RT"}

----------------------------------------------------------------------------
\* Decoder by decoder.

\* rtype_decoder.sv.
LEMMA RtypeAnnounces ==
  ASSUME NEW op \in RtypeOps
  PROVE  Announces(RtypeControl(op))
  BY SMTT(30) DEF Announces, ReadsRs, ReadsRt, RtypeControl, WriteRd, WithSources, DefaultControl,
         ClearControl, Reserved, RtypeOps, ShiftSaOps, ShiftVarOps, TrapOps, AluOps, MulDivOps

\* regimm_decoder.sv.
LEMMA RegimmAnnounces ==
  ASSUME NEW op \in RegimmOps
  PROVE  Announces(RegimmControl(op))
  BY DEF Announces, ReadsRs, ReadsRt, RegimmControl, Link, BranchWith, WithSources,
         DefaultControl, ClearControl, Reserved, RegimmOps, LtzOps, GezOps, LinkBranchOps,
         TrapImmOps

\* cop0_decoder.sv.
LEMMA Cop0Announces ==
  ASSUME NEW op \in Cop0Ops
  PROVE  Announces(Cop0Control(op))
  BY DEF Announces, ReadsRs, ReadsRt, Cop0Control, WriteRt, DefaultControl, ClearControl,
         Reserved, Cop0Ops

\* special2_decoder.sv.
LEMMA Special2Announces ==
  ASSUME NEW op \in Special2Ops
  PROVE  Announces(Special2Control(op))
  BY DEF Announces, ReadsRs, ReadsRt, Special2Control, WriteRd, DefaultControl, ClearControl,
         Reserved, Special2Ops, MulAccOps

\* special3_decoder.sv, without the byte shuffles.
LEMMA Special3Announces ==
  ASSUME NEW op \in Special3Ops \ ByteShuffleOps
  PROVE  Announces(Special3Control(op))
  BY DEF Announces, ReadsRs, ReadsRt, Special3Control, WriteRt, WithSources, DefaultControl,
         ClearControl, Reserved, Special3Ops

\* main_decoder.sv, the opcodes it decodes itself.
LEMMA MainAnnounces ==
  ASSUME NEW op \in MainOps \cup {"RESERVED"}, op \notin {"LUI", "LWL", "LWR"}
  PROVE  Announces(Control(op))
<1> DEFINE Addressed == WriteRt(MemAddrControl, "MEM")
           FromSign  == WriteRt(WithSources("RS", "SIGN_IMMED"), "ALU")
<1> USE DEF Op, MainOps, RtypeOps, ShiftSaOps, ShiftVarOps, TrapOps, AluOps, MulDivOps,
            RegimmOps, LtzOps, GezOps, TrapImmOps, Cop0Ops, Special2Ops, MulAccOps,
            Special3Ops, ByteShuffleOps, JumpOps, BranchOps, BranchEqOps, BranchNeOps,
            BranchLeOps, BranchGtOps, LogicImmOps, LoadOps, StoreOps
<1>1. CASE op \in BranchOps
  <2>1. PICK flag : Control(op) = BranchWith(WithSources("RS", "RT"), flag)
    BY <1>1 DEF Control
  <2>. QED  BY ONLY <2>1 DEF Announces, BranchWith, WithSources, DefaultControl, ClearControl
<1>2. CASE op \in StoreOps
  <2>1. Control(op) = [MemAddrControl EXCEPT !.mem_write_cond = "ALWAYS",
                                             !.write_mode = WriteModeOf[op]]
    BY <1>2 DEF Control
  <2>. QED  BY ONLY <2>1 DEF Announces, MemAddrControl, WithSources, DefaultControl, ClearControl
<1>3. CASE op \in LoadOps
  <2>1. Control(op) = [Addressed EXCEPT !.opd_use = "RS", !.read_mem = TRUE,
                                        !.read_mode = ReadModeOf[op]]
    BY <1>3 DEF Control
  <2>2. ReadModeOf[op] \notin {"LWL", "LWR"}
    BY <1>3 DEF ReadModeOf
  <2>. QED
    BY ONLY <2>1, <2>2 DEF Announces, ReadsRs, ReadsRt, WriteRt, MemAddrControl, WithSources,
       DefaultControl, ClearControl
<1>4. CASE op = "J"
  <2>1. Control(op) = [DefaultControl EXCEPT !.opd_use = "NONE", !.pc_src = "JUMP"]
    BY <1>4 DEF Control
  <2>. QED  BY ONLY <2>1 DEF Announces, ReadsRs, ReadsRt, DefaultControl, ClearControl
<1>5. CASE op = "JAL"
  <2>1. Control(op) = [Link(DefaultControl) EXCEPT !.opd_use = "NONE", !.pc_src = "JUMP"]
    BY <1>5 DEF Control
  <2>. QED  BY ONLY <2>1 DEF Announces, ReadsRs, ReadsRt, Link, DefaultControl, ClearControl
<1>6. CASE op \in {"ADDI", "ADDIU"}
  <2>1. PICK exc : Control(op) = [FromSign EXCEPT !.opd_use = "RS", !.alu_funct = "ADD",
                                                  !.exc_chk = exc]
    BY <1>6 DEF Control
  <2>. QED
    BY ONLY <2>1 DEF Announces, ReadsRs, ReadsRt, WriteRt, WithSources, DefaultControl,
       ClearControl
<1>7. CASE op \in {"SLTI", "SLTIU"}
  <2>1. Control(op) = [WriteRt(WithSources("RS", "SIGN_IMMED"), "FLAG") EXCEPT
                         !.opd_use = "RS", !.flag_sel = FlagOf[op]]
    BY <1>7 DEF Control
  <2>. QED
    BY ONLY <2>1 DEF Announces, ReadsRs, ReadsRt, WriteRt, WithSources, DefaultControl,
       ClearControl
<1>8. CASE op \in LogicImmOps
  <2>1. Control(op) = [WriteRt(WithSources("RS", "IMMED"), "ALU") EXCEPT
                         !.opd_use = "RS", !.alu_funct = FunctOf[op]]
    BY <1>8 DEF Control
  <2>. QED
    BY ONLY <2>1 DEF Announces, ReadsRs, ReadsRt, WriteRt, WithSources, DefaultControl,
       ClearControl
<1>9. CASE op = "LL"
  <2>1. Control(op) = [Addressed EXCEPT !.opd_use = "RS", !.write_llbit = TRUE,
                         !.read_mode = "WORD", !.read_mem = TRUE, !.write_cop0 = TRUE,
                         !.cop0_src = "LLADDR", !.dest_cop0 = "LLADDR"]
    BY <1>9 DEF Control
  <2>. QED
    BY ONLY <2>1 DEF Announces, ReadsRs, ReadsRt, WriteRt, MemAddrControl, WithSources,
       DefaultControl, ClearControl
<1>10. CASE op = "SC"
  <2>1. Control(op) = [WriteRt(MemAddrControl, "LLBIT") EXCEPT
                         !.write_mode = "WORD", !.mem_write_cond = "WHEN_LLBIT"]
    BY <1>10 DEF Control
  <2>. QED
    BY ONLY <2>1 DEF Announces, WriteRt, MemAddrControl, WithSources, DefaultControl, ClearControl
<1>11. CASE op = "RESERVED"
  <2>1. Control(op) = Reserved(DefaultControl)
    BY <1>11 DEF Control
  <2>. QED
    BY ONLY <2>1 DEF Announces, ReadsRs, ReadsRt, Reserved, DefaultControl, ClearControl
<1>. QED  BY <1>1, <1>2, <1>3, <1>4, <1>5, <1>6, <1>7, <1>8, <1>9, <1>10, <1>11

\* The decoder as a whole (main_decoder.sv selects one of the others).  LUI
\* takes the zero register for the first operand and announces none.
LEMMA ControlAnnounces ==
  ASSUME NEW op \in Op \ Misannounced, op # "LUI"
  PROVE  Announces(Control(op))
<1> USE DEF Op, MainOps, RtypeOps, ShiftSaOps, ShiftVarOps, TrapOps, AluOps, MulDivOps,
            RegimmOps, LtzOps, GezOps, TrapImmOps, Cop0Ops, Special2Ops, MulAccOps,
            Special3Ops, ByteShuffleOps, JumpOps, BranchOps, BranchEqOps, BranchNeOps,
            BranchLeOps, BranchGtOps, LogicImmOps, LoadOps, StoreOps, Misannounced
<1>1. CASE op \in RtypeOps
  <2>1. Control(op) = RtypeControl(op)
    BY <1>1 DEF Control
  <2>. QED  BY <1>1, <2>1, RtypeAnnounces
<1>2. CASE op \in RegimmOps
  <2>1. Control(op) = RegimmControl(op)
    BY <1>2 DEF Control
  <2>. QED  BY <1>2, <2>1, RegimmAnnounces
<1>3. CASE op \in Cop0Ops
  <2>1. Control(op) = Cop0Control(op)
    BY <1>3 DEF Control
  <2>. QED  BY <1>3, <2>1, Cop0Announces
<1>4. CASE op \in Special2Ops
  <2>1. Control(op) = Special2Control(op)
    BY <1>4 DEF Control
  <2>. QED  BY <1>4, <2>1, Special2Announces
<1>5. CASE op \in Special3Ops
  <2>1. Control(op) = Special3Control(op)
    BY <1>5 DEF Control
  <2>. QED  BY <1>5, <2>1, Special3Announces
<1>6. CASE op \in MainOps \cup {"RESERVED"}
  BY <1>6, MainAnnounces
<1>. QED  BY <1>1, <1>2, <1>3, <1>4, <1>5, <1>6

----------------------------------------------------------------------------
\* The instruction in decode is one of the stream.
LEMMA DecodeType == Spec => [](decode \in Instruction)
<1>1. Init => decode \in Instruction
  BY DEF Init
<1>2. decode \in Instruction /\ [Next]_vars => (decode \in Instruction)'
  BY DEF Next, Advance, Bubble, vars, Instruction
<1>. QED  BY <1>1, <1>2, PTL DEF Spec

\* Without the five that announce another operand than they take, no
\* instruction goes on with an operand that a load in front of it has still to
\* read (main_decoder.sv:14-168, pipeline_flow_controller.sv:100-107).
THEOREM OperandsAreAnnounced ==
  ASSUME Mnemonics \cap Misannounced = {}
  PROVE  Spec => []OperandsAnnounced
<1>1. decode \in Instruction => OperandsAnnounced
  <2> SUFFICES ASSUME decode \in Instruction
               PROVE  OperandsAnnounced
    OBVIOUS
  <2>1. /\ decode.op \in Op \ Misannounced
        /\ decode.op = "LUI" => decode.rs = 0
    BY MnemonicsAssumption DEF Instruction
  <2>2. CASE decode.op = "LUI"
    <3>1. Control(decode.op) = [WriteRt(WithSources("RS", "UP_IMMED"), "ALU") EXCEPT
                                  !.opd_use = "NONE", !.alu_funct = "ADD"]
      BY <2>2 DEF Control, RtypeOps, ShiftSaOps, ShiftVarOps, TrapOps, AluOps, MulDivOps,
            RegimmOps, LtzOps, GezOps, TrapImmOps, Cop0Ops, Special2Ops, MulAccOps,
            Special3Ops, ByteShuffleOps, BranchEqOps, BranchNeOps, BranchLeOps, BranchGtOps,
            LogicImmOps, LoadOps, StoreOps
    <3>2. ~ReadsRt(Control(decode.op))
      BY ONLY <3>1 DEF ReadsRt, WriteRt, WithSources, DefaultControl, ClearControl
    <3>. QED  BY <2>1, <2>2, <3>2 DEF OperandsAnnounced
  <2>3. CASE decode.op # "LUI"
    BY <2>1, <2>3, ControlAnnounces DEF OperandsAnnounced, Announces, Stalls
  <2>. QED  BY <2>2, <2>3
<1>. QED  BY <1>1, DecodeType, PTL

=============================================================================
