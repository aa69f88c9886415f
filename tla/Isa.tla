-------------------------------- MODULE Isa --------------------------------
(***************************************************************************)
(* What the processor promises to a program: one instruction at a time, in *)
(* program order, with branch delay slots and precise exceptions.          *)
(*                                                                         *)
(* pc is the next instruction to execute and npc the one after it, so a    *)
(* taken branch changes npc and the instruction in its delay slot still    *)
(* executes.  slot says that pc is in the delay slot of the instruction    *)
(* that has just executed.                                                 *)
(***************************************************************************)
EXTENDS Machine

VARIABLES imem, dmem, pc, npc, slot, gpr, hi, lo, llbit, cop0, cause

vars == <<imem, dmem, pc, npc, slot, gpr, hi, lo, llbit, cop0, cause>>

TypeOK ==
  /\ imem \in [Word -> Instr]
  /\ dmem \in [DataAddr -> Word]
  /\ pc \in Word /\ npc \in Word /\ slot \in BOOLEAN
  /\ gpr \in [Reg -> Word]
  /\ hi \in Word /\ lo \in Word /\ llbit \in BOOLEAN
  /\ cop0 \in [Cop0Reg -> Word]
  /\ cause \in Cause

----------------------------------------------------------------------------

Init ==
  /\ imem \in [Word -> Instr] /\ dmem = InitData
  /\ pc = 0 /\ npc = 1 /\ slot = FALSE
  /\ gpr = ResetGpr /\ hi = 0 /\ lo = 0 /\ llbit = FALSE
  /\ cop0 = ResetCop0 /\ cause = ResetCause

----------------------------------------------------------------------------
\* The instruction at pc and its operands.

i  == imem[pc]
rs == gpr[i.rs]
rt == gpr[i.rt]
ea == (rs + i.imm) % N
Status == cop0["Status"]

Succ(a) == (a + 1) % N

Sequential == pc' = npc /\ npc' = Succ(npc) /\ slot' = FALSE
Write(r, v) == gpr' = IF r = 0 THEN gpr ELSE [gpr EXCEPT ![r] = v]

\* Which exception the instruction at pc raises, if any.
Raises(code) ==
  \/ code = "ADEL" /\ i.op \in {"LW", "LL"} /\ ea % 2 = 1
  \/ code = "ADES" /\ (i.op = "SW" \/ (i.op = "SC" /\ llbit)) /\ ea % 2 = 1
  \/ code = "SYS"  /\ i.op = "SYSCALL"
  \/ code = "BP"   /\ i.op = "BREAK"
  \/ code = "RI"   /\ i.op = "RESERVED"
  \/ code = "TR"   /\ i.op = "TEQ" /\ rs = rt
  \/ code = "OV"   /\ \/ i.op = "ADD"  /\ Signed(rs) + Signed(rt) \notin -(N \div 2) .. N \div 2 - 1
                      \/ i.op = "ADDI" /\ Signed(rs) + Signed(i.imm) \notin -(N \div 2) .. N \div 2 - 1

Completes == \A code \in ExcCode : ~Raises(code)

\* Enter the exception handler; nothing of the instruction at pc is done.
Enter(code) ==
  /\ cop0' = [cop0 EXCEPT
       !["EPC"]      = IF slot THEN (pc - 1) % N ELSE pc,
       !["Status"]   = SetEXL(@),
       !["BadVAddr"] = IF code \in {"ADEL", "ADES"} THEN ea ELSE @]
  /\ cause' = [code |-> code, bd |-> slot]
  /\ llbit' = FALSE
  /\ pc' = ExcVector(code) /\ npc' = Succ(ExcVector(code)) /\ slot' = FALSE
  /\ UNCHANGED <<imem, dmem, gpr, hi, lo>>

Exception == \E code \in ExcCode : Raises(code) /\ Enter(code)

Interrupt == InterruptsEnabled(Status) /\ Enter("INT")

----------------------------------------------------------------------------
\* The instructions.

Arithmetic ==
  /\ \/ i.op = "SLL"              /\ Write(i.rd, (rt * 2^i.imm) % N)
     \/ i.op \in {"ADD", "ADDU"}  /\ Write(i.rd, (rs + rt) % N)
     \/ i.op = "SUBU"             /\ Write(i.rd, (rs - rt) % N)
     \/ i.op = "SLT"              /\ Write(i.rd, Bit(Signed(rs) < Signed(rt)))
     \/ i.op \in {"ADDI", "ADDIU"} /\ Write(i.rt, ea)
     \/ i.op = "MUL"              /\ Write(i.rd, (rs * rt) % N)
     \/ i.op = "MOVZ" /\ Write(IF rt = 0 THEN i.rd ELSE 0, rs)
     \/ i.op = "MOVN" /\ Write(IF rt # 0 THEN i.rd ELSE 0, rs)
     \/ i.op = "MFHI" /\ Write(i.rd, hi)
     \/ i.op = "MFLO" /\ Write(i.rd, lo)
     \/ i.op = "MFC0" /\ Write(i.rt, cop0[i.c0])
     \/ i.op = "TEQ"  /\ UNCHANGED gpr
  /\ Sequential
  /\ UNCHANGED <<imem, dmem, hi, lo, llbit, cop0, cause>>

\* Products are signed and two words long; MADD accumulates into hi and lo.
Product == Signed(rs) * Signed(rt)
WriteHiLo(p) == hi' = (p \div N) % N /\ lo' = p % N

Multiply ==
  /\ \/ i.op = "MULT" /\ WriteHiLo(Product)
     \/ i.op = "MADD" /\ WriteHiLo(hi * N + lo + Product)
     \/ i.op = "MTHI" /\ hi' = rs /\ UNCHANGED lo
     \/ i.op = "MTLO" /\ lo' = rs /\ UNCHANGED hi
  /\ Sequential
  /\ UNCHANGED <<imem, dmem, gpr, llbit, cop0, cause>>

\* Loads and stores outside the data memory are not described.
Memory ==
  /\ (i.op = "SC" /\ ~llbit) \/ ea \in DataAddr
  /\ \/ i.op = "LW" /\ Write(i.rt, dmem[ea]) /\ UNCHANGED <<dmem, llbit, cop0>>
     \/ i.op = "SW" /\ dmem' = [dmem EXCEPT ![ea] = rt] /\ UNCHANGED <<gpr, llbit, cop0>>
     \/ /\ i.op = "LL"
        /\ Write(i.rt, dmem[ea]) /\ llbit' = TRUE
        /\ cop0' = [cop0 EXCEPT !["LLAddr"] = ea]
        /\ UNCHANGED dmem
     \/ /\ i.op = "SC"
        /\ Write(i.rt, Bit(llbit))
        /\ dmem' = IF llbit THEN [dmem EXCEPT ![ea] = rt] ELSE dmem
        /\ UNCHANGED <<llbit, cop0>>
  /\ Sequential
  /\ UNCHANGED <<imem, hi, lo, cause>>

\* Control transfers: the target replaces the instruction after the slot.
Transfer(taken, target) ==
  /\ pc' = npc
  /\ npc' = IF taken THEN target ELSE Succ(npc)
  /\ slot' = TRUE

Branch ==
  LET target == (pc + 1 + i.imm) % N
      link   == (pc + 2) % N
  IN  /\ \/ i.op = "BEQ"    /\ Transfer(rs = rt, target)     /\ UNCHANGED gpr
         \/ i.op = "BNE"    /\ Transfer(rs # rt, target)     /\ UNCHANGED gpr
         \/ i.op = "BGEZAL" /\ Transfer(~Negative(rs), target) /\ Write(RA, link)
         \/ i.op = "J"      /\ Transfer(TRUE, i.imm)         /\ UNCHANGED gpr
         \/ i.op = "JAL"    /\ Transfer(TRUE, i.imm)         /\ Write(RA, link)
         \/ i.op = "JR"     /\ Transfer(TRUE, rs)            /\ UNCHANGED gpr
         \/ i.op = "JALR"   /\ Transfer(TRUE, rs)            /\ Write(i.rd, link)
      /\ UNCHANGED <<imem, dmem, hi, lo, llbit, cop0, cause>>

System ==
  /\ \/ /\ i.op = "MTC0" /\ cop0' = [cop0 EXCEPT ![i.c0] = rt]
        /\ Sequential /\ UNCHANGED gpr
     \/ /\ i.op = "EI" /\ cop0' = [cop0 EXCEPT !["Status"] = SetIE(@)]
        /\ Sequential /\ Write(i.rt, Status)
     \/ /\ i.op = "DI" /\ cop0' = [cop0 EXCEPT !["Status"] = ClearIE(@)]
        /\ Sequential /\ Write(i.rt, Status)
     \/ /\ i.op = "ERET" /\ cop0' = [cop0 EXCEPT !["Status"] = AfterEret(@)]
        /\ pc' = ReturnAddress(Status, cop0["ErrorEPC"], cop0["EPC"])
        /\ npc' = Succ(pc') /\ slot' = FALSE /\ UNCHANGED gpr
  /\ UNCHANGED <<imem, dmem, hi, lo, llbit, cause>>

Execute ==
  Completes /\ (Arithmetic \/ Multiply \/ Memory \/ Branch \/ System)

Reset ==
  /\ pc' = 0 /\ npc' = 1 /\ slot' = FALSE
  /\ gpr' = ResetGpr /\ hi' = 0 /\ lo' = 0 /\ llbit' = FALSE
  /\ cop0' = ResetCop0 /\ cause' = ResetCause
  /\ UNCHANGED <<imem, dmem>>

Next == Execute \/ Exception \/ Interrupt \/ Reset

Spec == Init /\ [][Next]_vars

=============================================================================
