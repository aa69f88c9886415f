------------------------------ MODULE Decoder ------------------------------
(***************************************************************************)
(* The instruction decoder (src/pipeline/decoder): from an instruction to  *)
(* the control signals that steer it through the pipeline.                 *)
(*                                                                         *)
(* An encoding is abstracted to the mnemonic the decoder's nested case     *)
(* statements recognise; "RESERVED" stands for every encoding that reaches *)
(* a default branch.  A control signal keeps the name and the values of    *)
(* the enumerations of src/common/selector.sv, without their prefixes.     *)
(***************************************************************************)

----------------------------------------------------------------------------
\* The mnemonics, decoder by decoder.

ShiftSaOps  == {"SLL", "SRL", "ROTR", "SRA"}
ShiftVarOps == {"SLLV", "SRLV", "ROTRV", "SRAV"}
TrapOps     == {"TGE", "TGEU", "TLT", "TLTU", "TEQ", "TNE"}
AluOps      == {"ADD", "ADDU", "SUB", "SUBU", "AND", "OR", "XOR", "NOR"}
MulDivOps   == {"MULT", "MULTU", "DIV", "DIVU"}

RtypeOps == ShiftSaOps \cup ShiftVarOps \cup TrapOps \cup AluOps \cup MulDivOps
            \cup {"SYSCALL", "BREAK", "JR", "JALR", "MOVZ", "MOVN", "MFHI",
                  "MTHI", "MFLO", "MTLO", "SLT", "SLTU"}

LinkBranchOps == {"BLTZAL", "BLTZALL", "BGEZAL", "BGEZALL"}
LtzOps        == {"BLTZ", "BLTZL", "BLTZAL", "BLTZALL"}
GezOps        == {"BGEZ", "BGEZL", "BGEZAL", "BGEZALL"}
TrapImmOps    == {"TGEI", "TGEIU", "TLTI", "TLTIU", "TEQI", "TNEI"}
RegimmOps     == LtzOps \cup GezOps \cup TrapImmOps

Cop0Ops == {"MTC0", "MFC0", "EI", "DI", "ERET"}

MulAccOps   == {"MADD", "MADDU", "MSUB", "MSUBU"}
Special2Ops == MulAccOps \cup {"MUL", "CLZ", "CLO"}

ByteShuffleOps == {"WSBH", "SEB", "SEH"}
Special3Ops    == {"EXT", "INS"} \cup ByteShuffleOps

JumpOps     == {"J", "JAL"}
BranchEqOps == {"BEQ", "BEQL"}
BranchNeOps == {"BNE", "BNEL"}
BranchLeOps == {"BLEZ", "BLEZL"}
BranchGtOps == {"BGTZ", "BGTZL"}
BranchOps   == BranchEqOps \cup BranchNeOps \cup BranchLeOps \cup BranchGtOps
LogicImmOps == {"ANDI", "ORI", "XORI"}
LoadOps     == {"LB", "LH", "LW", "LBU", "LHU", "LWR", "LWL"}
StoreOps    == {"SB", "SH", "SW", "SWR", "SWL"}
MainOps     == JumpOps \cup BranchOps \cup LogicImmOps \cup LoadOps \cup StoreOps
               \cup {"ADDI", "ADDIU", "SLTI", "SLTIU", "LL", "SC", "LUI"}

Op == RtypeOps \cup RegimmOps \cup Cop0Ops \cup Special2Ops \cup Special3Ops
      \cup MainOps \cup {"RESERVED"}

----------------------------------------------------------------------------
\* Control signals that no instruction has set: the state of a bubble.
ClearControl ==
  [ alu_funct      |-> "NCARE",  alu_srcA   |-> "NCARE",
    alu_srcB       |-> "NCARE",  alu_srcSa  |-> "NCARE",
    muldiv_funct   |-> "NCARE",  hilo_src   |-> "NCARE",
    dest_reg       |-> "NCARE",  pc_src     |-> "NEXT",
    flag_sel       |-> "NCARE",  reg_src    |-> "NCARE",
    mem_write_cond |-> "KEEP",   read_mode  |-> "NCARE",
    write_mode     |-> "NCARE",  opd_use    |-> "NONE",
    write_cond     |-> "ALWAYS", exc_chk    |-> "NONE",
    cop0_src       |-> "NCARE",  dest_cop0  |-> "NCARE",
    write_cop0     |-> FALSE,    write_reg  |-> FALSE,
    read_mem       |-> FALSE,    write_hi   |-> FALSE,
    write_lo       |-> FALSE,    write_llbit |-> FALSE ]

\* An instruction uses both operands until its decoder says otherwise.
DefaultControl == [ClearControl EXCEPT !.opd_use = "BOTH"]

WithSources(a, b) == [DefaultControl EXCEPT !.alu_srcA = a, !.alu_srcB = b]

WriteRd(c, src) ==
  [c EXCEPT !.write_reg = TRUE, !.dest_reg = "RD", !.reg_src = src]

WriteRt(c, src) ==
  [c EXCEPT !.write_reg = TRUE, !.dest_reg = "RT", !.reg_src = src]

Link(c) ==
  [c EXCEPT !.write_reg = TRUE, !.dest_reg = "31", !.reg_src = "LINKADDR"]

BranchWith(c, flag) == [c EXCEPT !.pc_src = "BRANCH", !.flag_sel = flag]

Reserved(c) ==
  [c EXCEPT !.opd_use = "NONE", !.pc_src = "EXECPTION", !.exc_chk = "RESERVERD"]

\* The comparison an instruction's name asks for.
FlagOf ==
  [ SLT |-> "LT",  SLTU |-> "LTU", SLTI |-> "LT",  SLTIU |-> "LTU",
    TGE |-> "GE",  TGEU |-> "GEU", TLT  |-> "LT",  TLTU  |-> "LTU",
    TEQ |-> "EQ",  TNE  |-> "NE",  TGEI |-> "GE",  TGEIU |-> "GEU",
    TLTI |-> "LT", TLTIU |-> "LTU", TEQI |-> "EQ", TNEI  |-> "NE",
    MOVZ |-> "EQ", MOVN |-> "NE" ]

\* The function of the ALU, or of the bit-field unit, it asks for.
FunctOf ==
  [ SLL  |-> "SHIFT_LEFT",        SLLV  |-> "SHIFT_LEFT",
    SRL  |-> "SHIFT_LOGIC_RIGHT", SRLV  |-> "SHIFT_LOGIC_RIGHT",
    ROTR |-> "ROTATE_RIGHT",      ROTRV |-> "ROTATE_RIGHT",
    SRA  |-> "SHIFT_ARITHMATIC_RIGHT", SRAV |-> "SHIFT_ARITHMATIC_RIGHT",
    ADD  |-> "ADD", ADDU |-> "ADD", SUB |-> "SUB", SUBU |-> "SUB",
    AND  |-> "AND", OR   |-> "OR",  XOR |-> "XOR", NOR  |-> "NOR",
    ANDI |-> "AND", ORI  |-> "OR",  XORI |-> "XOR",
    CLZ  |-> "CLZ", CLO  |-> "CLO",
    WSBH |-> "SWAP_BYTE_IN_HALF", SEB |-> "SIGN_EXT_BYTE",
    SEH  |-> "SIGN_EXT_HALF" ]

\* How a load reads, and a store writes, the word it addresses.
ReadModeOf ==
  [ LB |-> "BYTE", LBU |-> "UNSIGN_BYTE", LH |-> "HALF", LHU |-> "UNSIGN_HALF",
    LW |-> "WORD", LWR |-> "LWR", LWL |-> "LWL" ]

WriteModeOf ==
  [ SB |-> "BYTE", SH |-> "HALF", SW |-> "WORD", SWR |-> "SWR", SWL |-> "SWL" ]

----------------------------------------------------------------------------
\* rtype_decoder.sv: opcode SPECIAL, selected by funct.
RtypeControl(op) ==
  CASE op \in ShiftSaOps ->
         [WriteRd(DefaultControl, "ALU") EXCEPT
            !.alu_srcB = "RT", !.alu_srcSa = "SA", !.opd_use = "RT",
            !.alu_funct = FunctOf[op]]
    [] op \in ShiftVarOps ->
         [WriteRd(DefaultControl, "ALU") EXCEPT
            !.alu_srcB = "RT", !.alu_srcSa = "RS", !.alu_funct = FunctOf[op]]
    [] op \in {"SYSCALL", "BREAK"} ->
         [DefaultControl EXCEPT !.opd_use = "NONE", !.pc_src = "EXECPTION",
                                !.exc_chk = op]
    [] op = "JR" ->
         [DefaultControl EXCEPT !.opd_use = "RS", !.pc_src = "REGISTER"]
    [] op = "JALR" ->
         [WriteRd(DefaultControl, "LINKADDR") EXCEPT
            !.opd_use = "RS", !.pc_src = "REGISTER"]
    [] op \in {"MOVZ", "MOVN"} ->
         [WriteRd(WithSources("RT", "ZERO"), "RS") EXCEPT
            !.write_cond = "WHEN_FLAG", !.flag_sel = FlagOf[op]]
    [] op = "MFHI" -> WriteRd(DefaultControl, "HI")
    [] op = "MFLO" -> WriteRd(DefaultControl, "LO")
    [] op = "MTHI" ->
         [DefaultControl EXCEPT !.opd_use = "RS", !.hilo_src = "RS",
                                !.write_hi = TRUE]
    [] op = "MTLO" ->
         [DefaultControl EXCEPT !.opd_use = "RS", !.hilo_src = "RS",
                                !.write_lo = TRUE]
    [] op \in MulDivOps ->
         [DefaultControl EXCEPT !.hilo_src = "MULDIV", !.write_hi = TRUE,
                                !.write_lo = TRUE, !.muldiv_funct = op]
    [] op \in AluOps ->
         [WriteRd(WithSources("RS", "RT"), "ALU") EXCEPT
            !.alu_funct = FunctOf[op],
            !.exc_chk = IF op \in {"ADD", "SUB"} THEN "OVERFLOW" ELSE "NONE"]
    [] op \in {"SLT", "SLTU"} ->
         [WriteRd(WithSources("RS", "RT"), "FLAG") EXCEPT !.flag_sel = FlagOf[op]]
    [] op \in TrapOps ->
         [WithSources("RS", "RT") EXCEPT !.exc_chk = "TRAP",
                                         !.flag_sel = FlagOf[op]]
    [] OTHER -> Reserved(DefaultControl)

\* regimm_decoder.sv: opcode REGIMM, selected by the rt field.
RegimmControl(op) ==
  LET branch(flag) ==
        [BranchWith(WithSources("RS", "ZERO"), flag) EXCEPT !.opd_use = "RS"]
  IN  CASE op \in LtzOps \cap LinkBranchOps -> Link(branch("LT"))
        [] op \in LtzOps \ LinkBranchOps    -> branch("LT")
        [] op \in GezOps \cap LinkBranchOps -> Link(branch("GE"))
        [] op \in GezOps \ LinkBranchOps    -> branch("GE")
        [] op \in TrapImmOps ->
             [WithSources("RS", "SIGN_IMMED") EXCEPT
                !.opd_use = "RS", !.exc_chk = "TRAP", !.flag_sel = FlagOf[op]]
        [] OTHER -> Reserved(DefaultControl)

\* cop0_decoder.sv: opcode COP0.
Cop0Control(op) ==
  CASE op = "MTC0" ->
         [DefaultControl EXCEPT !.opd_use = "RT", !.cop0_src = "RT",
                                !.dest_cop0 = "RDSEL", !.write_cop0 = TRUE]
    [] op = "MFC0" ->
         [WriteRt(DefaultControl, "COP0") EXCEPT !.opd_use = "NONE"]
    [] op \in {"EI", "DI"} ->
         [WriteRt(DefaultControl, "COP0") EXCEPT
            !.opd_use = "NONE", !.dest_cop0 = "STATUS", !.write_cop0 = TRUE,
            !.cop0_src = IF op = "EI" THEN "STATUS_EI" ELSE "STATUS_DI"]
    [] op = "ERET" ->
         [DefaultControl EXCEPT !.opd_use = "NONE", !.pc_src = "ERET",
                                !.cop0_src = "STATUS_ERET",
                                !.dest_cop0 = "STATUS", !.write_cop0 = TRUE]
    [] OTHER -> Reserved(DefaultControl)

\* special2_decoder.sv: opcode SPECIAL2.
Special2Control(op) ==
  CASE op \in MulAccOps ->
         [DefaultControl EXCEPT !.hilo_src = "MULDIV", !.write_hi = TRUE,
                                !.write_lo = TRUE, !.muldiv_funct = op]
    [] op = "MUL" ->
         [WriteRd(DefaultControl, "MUL") EXCEPT !.muldiv_funct = "MULT"]
    [] op \in {"CLZ", "CLO"} ->
         [WriteRd(DefaultControl, "ALU") EXCEPT
            !.opd_use = "RS", !.alu_srcA = "RS", !.alu_funct = FunctOf[op]]
    [] OTHER -> Reserved(DefaultControl)

\* special3_decoder.sv: opcode SPECIAL3.
Special3Control(op) ==
  CASE op = "EXT" ->
         [WriteRt(DefaultControl, "SPECIAL3") EXCEPT
            !.opd_use = "RS", !.alu_funct = "EXTRACT_BIT", !.alu_srcA = "RS"]
    [] op = "INS" ->
         [WriteRt(WithSources("RS", "RT"), "SPECIAL3") EXCEPT
            !.alu_funct = "INSERT_BIT"]
    [] op \in ByteShuffleOps ->
         [WriteRd(DefaultControl, "SPECIAL3") EXCEPT
            !.opd_use = "RS", !.alu_srcA = "RT", !.alu_funct = FunctOf[op]]
    [] OTHER -> Reserved(DefaultControl)

\* The addressing half of every load and store.
MemAddrControl == [WithSources("RS", "SIGN_IMMED") EXCEPT !.alu_funct = "ADD"]

\* main_decoder.sv: the opcode itself, or the decoder it selects.
Control(op) ==
  CASE op \in RtypeOps    -> RtypeControl(op)
    [] op \in RegimmOps   -> RegimmControl(op)
    [] op \in Cop0Ops     -> Cop0Control(op)
    [] op \in Special2Ops -> Special2Control(op)
    [] op \in Special3Ops -> Special3Control(op)
    [] op = "J" ->
         [DefaultControl EXCEPT !.opd_use = "NONE", !.pc_src = "JUMP"]
    [] op = "JAL" ->
         [Link(DefaultControl) EXCEPT !.opd_use = "NONE", !.pc_src = "JUMP"]
    [] op \in BranchEqOps -> BranchWith(WithSources("RS", "RT"), "EQ")
    [] op \in BranchNeOps -> BranchWith(WithSources("RS", "RT"), "NE")
    [] op \in BranchLeOps -> BranchWith(WithSources("RS", "RT"), "LE")
    [] op \in BranchGtOps -> BranchWith(WithSources("RS", "RT"), "GT")
    [] op \in {"ADDI", "ADDIU"} ->
         [WriteRt(WithSources("RS", "SIGN_IMMED"), "ALU") EXCEPT
            !.opd_use = "RS", !.alu_funct = "ADD",
            !.exc_chk = IF op = "ADDI" THEN "OVERFLOW" ELSE "NONE"]
    [] op \in {"SLTI", "SLTIU"} ->
         [WriteRt(WithSources("RS", "SIGN_IMMED"), "FLAG") EXCEPT
            !.opd_use = "RS", !.flag_sel = FlagOf[op]]
    [] op \in LogicImmOps ->
         [WriteRt(WithSources("RS", "IMMED"), "ALU") EXCEPT
            !.opd_use = "RS", !.alu_funct = FunctOf[op]]
    [] op \in LoadOps ->
         [WriteRt(MemAddrControl, "MEM") EXCEPT
            !.opd_use = "RS", !.read_mem = TRUE, !.read_mode = ReadModeOf[op]]
    [] op \in StoreOps ->
         [MemAddrControl EXCEPT !.mem_write_cond = "ALWAYS",
                                !.write_mode = WriteModeOf[op]]
    [] op = "LL" ->
         [WriteRt(MemAddrControl, "MEM") EXCEPT
            !.opd_use = "RS", !.write_llbit = TRUE, !.read_mode = "WORD",
            !.read_mem = TRUE, !.write_cop0 = TRUE,
            !.cop0_src = "LLADDR", !.dest_cop0 = "LLADDR"]
    [] op = "SC" ->
         [WriteRt(MemAddrControl, "LLBIT") EXCEPT
            !.write_mode = "WORD", !.mem_write_cond = "WHEN_LLBIT"]
    [] op = "LUI" ->
         [WriteRt(WithSources("RS", "UP_IMMED"), "ALU") EXCEPT
            !.opd_use = "NONE", !.alu_funct = "ADD"]
    [] OTHER -> Reserved(DefaultControl)

=============================================================================
