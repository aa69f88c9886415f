----------------------------- MODULE OperandUse -----------------------------
(***************************************************************************)
(* The operands an instruction announces to the flow controller            *)
(* (opd_use, decoder) against the operands the execute and the memory      *)
(* stages take from it (src/pipeline/stage_execute_partial,                *)
(* stage_memory_partial).                                                  *)
(*                                                                         *)
(* A stream of instructions passes decode and execute.  Only the load-use  *)
(* condition of the flow controller is kept: what stands in decode, behind *)
(* a load in execute, and whether it is stalled.                           *)
(***************************************************************************)
EXTENDS Decoder

CONSTANTS Mnemonics,   \* the instructions of the stream
          Regs         \* register numbers

ASSUME MnemonicsAssumption == Mnemonics \subseteq Op

VARIABLES decode,      \* the instruction in decode
          execute      \* control signals and rt of the one in execute

vars == <<decode, execute>>

\* LUI has no rs field: its encoding holds zeros there.
Instruction ==
  {i \in [op : Mnemonics, rs : Regs, rt : Regs] : i.op = "LUI" => i.rs = 0}

\* The operands the multiplexers of the later stages select.
ReadsRs(c) ==
  \/ c.alu_srcA = "RS" \/ c.alu_srcSa = "RS"
  \/ c.reg_src = "RS" \/ c.hilo_src = "RS"
  \/ c.muldiv_funct # "NCARE"
  \/ c.read_mem \/ c.mem_write_cond # "KEEP"
  \/ c.pc_src = "REGISTER"

ReadsRt(c) ==
  \/ c.alu_srcA = "RT" \/ c.alu_srcB = "RT"
  \/ c.muldiv_funct # "NCARE"
  \/ c.mem_write_cond # "KEEP" \/ c.read_mode \in {"LWL", "LWR"}
  \/ c.cop0_src = "RT"

\* The decoders announce another operand than these take (special3_decoder.sv:30,
\* main_decoder.sv:103).
Misannounced == ByteShuffleOps \cup {"LWL", "LWR"}

\* The register that a load in execute will get from the memory stage.  Every
\* load writes rt.
Delivers(r) ==
  execute.ctl.write_reg /\ execute.ctl.reg_src = "MEM" /\ execute.rt = r

\* Mutant: the second operand is forgotten.
StallsRsOnly ==
  Delivers(decode.rs) /\ Control(decode.op).opd_use \in {"BOTH", "RS"}

\* The flow controller stalls the instruction in decode.
Stalls ==
  LET use == Control(decode.op).opd_use
  IN  \/ Delivers(decode.rs) /\ use \in {"BOTH", "RS"}
      \/ Delivers(decode.rt) /\ use \in {"BOTH", "RT"}

Init == decode \in Instruction /\ execute = [ctl |-> ClearControl, rt |-> 0]

\* The next instruction is fetched; or a stalled one leaves a bubble behind.
Advance ==
  /\ ~Stalls
  /\ execute' = [ctl |-> Control(decode.op), rt |-> decode.rt]
  /\ decode' \in Instruction
Bubble ==
  /\ Stalls
  /\ execute' = [ctl |-> ClearControl, rt |-> decode.rt]
  /\ UNCHANGED decode

Next == Advance \/ Bubble

Spec == Init /\ [][Next]_vars

\* An instruction that takes an operand from a load just ahead of it is
\* stalled until the load has read the memory: "to avoid unnecessary stall,
\* you must announce which operand you are using" (selector.sv:114-115).
OperandsAnnounced ==
  /\ decode.rs # 0 /\ Delivers(decode.rs) /\ ReadsRs(Control(decode.op)) => Stalls
  /\ decode.rt # 0 /\ Delivers(decode.rt) /\ ReadsRt(Control(decode.op)) => Stalls

=============================================================================
