-------------------------------- MODULE Core --------------------------------
(***************************************************************************)
(* The five-stage pipeline (src/core.sv and src/pipeline): fetch, decode,  *)
(* execute, memory and write back, with the forwarding network, the flow   *)
(* controller that stalls and nullifies stages, and the exception          *)
(* controller.                                                             *)
(*                                                                         *)
(* One step is one clock edge.  The state is what the flip-flops hold; the *)
(* combinational logic between them is the operators below, and Tick takes *)
(* every register to the value its always_ff block loads.                  *)
(***************************************************************************)
EXTENDS Machine

CONSTANTS TextAddr,   \* data addresses in the memory that holds the program
          IrqInput    \* the values the interrupt line may take: BOOLEAN or {FALSE}

ASSUME EnvironmentAssumption == TextAddr \subseteq Word /\ IrqInput \subseteq BOOLEAN

VARIABLES
  imem,        \* the program
  dmem,        \* data memory
  pc_reg,      \* the address being fetched
  id,          \* pipeline register of the decode stage
  ex,          \* pipeline register of the execute stage
  mem,         \* pipeline register of the memory stage
  wb,          \* pipeline register of the write-back stage
  rf,          \* general registers
  hi, lo,      \* the multiplier's result registers
  llbit,       \* load-linked bit
  cop0,        \* coprocessor 0 registers
  cause,       \* the exception code and the BD bit of Cause
  md,          \* state of the multiplier/divider
  irq,         \* a stored interrupt
  prev_stall   \* the memory stage was stalled at the last clock edge

stages == <<pc_reg, id, ex, mem, wb, md, prev_stall>>
arch   == <<rf, hi, lo, llbit, cop0, cause, dmem>>
vars   == <<imem, stages, arch, irq>>

----------------------------------------------------------------------------
\* The registers of the stages at reset.

NoException ==
  [ happen |-> FALSE, code |-> "INT", bd |-> FALSE, epc |-> 0,
    load_addr |-> FALSE, badvaddr |-> 0 ]

EmptyDecode == [fetch |-> FALSE, pc |-> 0, ins |-> Nop]

EmptyExecute ==
  [ fetch |-> FALSE, pc |-> 0, ins |-> Nop, ctl |-> ClearControl,
    rs |-> 0, rt |-> 0, hi |-> 0, lo |-> 0, llbit |-> FALSE,
    cop0 |-> 0, status |-> 0, epc |-> 0, errorepc |-> 0 ]

EmptyMemory ==
  [ fetch |-> FALSE, ctl |-> ClearControl, write_mem |-> FALSE,
    dest_reg |-> 0, dest_reg_data |-> 0, mem_addr |-> 0, rt |-> 0,
    dest_hi_data |-> 0, dest_lo_data |-> 0,
    dest_cop0 |-> "Status", dest_cop0_data |-> 0, dest_cop0_mask |-> FALSE,
    excdata |-> NoException ]

EmptyWriteBack ==
  [ctl |-> ClearControl, dest_reg |-> 0, dest_reg_data |-> 0, mem_data |-> 0]

Init ==
  /\ imem \in Programs /\ dmem = InitData
  /\ pc_reg = 0
  /\ id = EmptyDecode /\ ex = EmptyExecute
  /\ mem = EmptyMemory /\ wb = EmptyWriteBack
  /\ rf = ResetGpr /\ hi = 0 /\ lo = 0 /\ llbit = FALSE
  /\ cop0 = ResetCop0 /\ cause = ResetCause
  /\ md = "WAIT" /\ irq = FALSE /\ prev_stall = FALSE

----------------------------------------------------------------------------
\* What the memory and the write-back stages send back.

\* Mutant: the strobe lasts as long as the stage is stalled.
MemWriteWhileStalled == mem.write_mem

\* The write strobe: only in the first cycle an instruction spends here.
MemWrite == mem.write_mem /\ ~prev_stall

\* What the memory returns; a read beside a write returns the old word.
MemData ==
  IF (mem.ctl.read_mem \/ MemWrite) /\ mem.mem_addr \in DataAddr
  THEN dmem[mem.mem_addr] ELSE X

\* An exception clears the load-linked bit.
WriteLlbit    == mem.ctl.write_llbit \/ mem.excdata.happen
DestLlbitData == ~mem.excdata.happen

WbData == IF wb.ctl.reg_src = "MEM" THEN wb.mem_data ELSE wb.dest_reg_data

\* Mutant: instruction and data fetches share one port.
InstructionBusyWithData == mem.ctl.read_mem \/ MemWrite

\* The instruction memory cannot be read while the data side uses the same
\* region.
InstructionBusy ==
  /\ mem.ctl.read_mem \/ MemWrite
  /\ mem.mem_addr \in TextAddr

----------------------------------------------------------------------------
\* Forwarding (main_forwarder): the memory stage has the newest value, then
\* write back; what the stage itself holds is the oldest.

Supplies(stage, r) == stage.ctl.write_reg /\ stage.dest_reg # 0 /\ stage.dest_reg = r

ForwardToDecode(r) ==
  IF Supplies(wb, r) THEN WbData ELSE IF r = 0 THEN 0 ELSE rf[r]

\* Mutant: write back goes before the memory stage.
ForwardOldestFirst(r, held) ==
  IF Supplies(wb, r) THEN WbData
  ELSE IF Supplies(mem, r) THEN mem.dest_reg_data ELSE held

ForwardToExecute(r, held) ==
  IF Supplies(mem, r) THEN mem.dest_reg_data
  ELSE IF Supplies(wb, r) THEN WbData ELSE held

ForwardHi(held)    == IF mem.ctl.write_hi THEN mem.dest_hi_data ELSE held
ForwardLo(held)    == IF mem.ctl.write_lo THEN mem.dest_lo_data ELSE held
ForwardLlbit(held) == IF WriteLlbit THEN DestLlbitData ELSE held

WritesCop0(c) == mem.ctl.write_cop0 /\ mem.dest_cop0 = c

ForwardCop0(c, held) ==
  LET v == IF WritesCop0(c) THEN mem.dest_cop0_data ELSE held
  IN  IF c = "Status" /\ mem.excdata.happen THEN IfDefined(v, SetEXL(v)) ELSE v

\* The register an instruction reads, unlike those above, is forwarded under
\* the mask of the write.
ForwardCop0Read(c, held) ==
  IF WritesCop0(c) /\ ~mem.dest_cop0_mask THEN held ELSE ForwardCop0(c, held)

----------------------------------------------------------------------------
\* The decode stage: read the registers, with forwarding.
DecodeOut ==
  [ fetch    |-> id.fetch,
    pc       |-> id.pc,
    ins      |-> id.ins,
    ctl      |-> Control(id.ins.op),
    rs       |-> ForwardToDecode(id.ins.rs),
    rt       |-> ForwardToDecode(id.ins.rt),
    hi       |-> ForwardHi(hi),
    lo       |-> ForwardLo(lo),
    llbit    |-> ForwardLlbit(llbit),
    cop0     |-> ForwardCop0Read(id.ins.c0, cop0[id.ins.c0]),
    status   |-> ForwardCop0("Status", cop0["Status"]),
    epc      |-> ForwardCop0("EPC", cop0["EPC"]),
    errorepc |-> ForwardCop0("ErrorEPC", cop0["ErrorEPC"]) ]

\* The operands the execute stage works on: what it holds, with forwarding.
ExecuteIn ==
  [ex EXCEPT
     !.rs       = ForwardToExecute(ex.ins.rs, @),
     !.rt       = ForwardToExecute(ex.ins.rt, @),
     !.hi       = ForwardHi(@),
     !.lo       = ForwardLo(@),
     !.llbit    = ForwardLlbit(@),
     !.cop0     = ForwardCop0Read(ex.ins.c0, @),
     !.status   = ForwardCop0("Status", @),
     !.epc      = ForwardCop0("EPC", @),
     !.errorepc = ForwardCop0("ErrorEPC", @)]

----------------------------------------------------------------------------
\* The execute stage.  p is ExecuteIn.

AluA(p) == CASE p.ctl.alu_srcA = "RS" -> p.rs
             [] p.ctl.alu_srcA = "RT" -> p.rt
             [] OTHER -> X

AluB(p) == CASE p.ctl.alu_srcB = "RT"         -> p.rt
             [] p.ctl.alu_srcB = "SIGN_IMMED" -> p.ins.imm
             [] p.ctl.alu_srcB = "ZERO"       -> 0
             [] OTHER -> X

\* The shift amount is the sa field, which imm stands for here.
AluOut(p) ==
  CASE p.ctl.alu_funct = "ADD" -> Plus(AluA(p), AluB(p))
    [] p.ctl.alu_funct = "SUB" -> Minus(AluA(p), AluB(p))
    [] p.ctl.alu_funct = "SHIFT_LEFT" ->
         IfDefined(AluB(p), (AluB(p) * 2^p.ins.imm) % N)
    [] OTHER -> X

\* The overflow flag of alu_arithmatic, of an addition.
Overflow(p) ==
  /\ Defined(AluA(p), AluB(p))
  /\ Negative(AluA(p)) <=> Negative(AluB(p))
  /\ ~(Negative(AluOut(p)) <=> Negative(AluA(p)))

FlagSelected(p) == Compare(p.ctl.flag_sel, AluA(p), AluB(p))

\* The signed product, accumulated into hi and lo by MADD.
MulDivOut(p) ==
  LET madd == p.ctl.muldiv_funct = "MADD"
      sum  == (IF madd THEN p.hi * N + p.lo ELSE 0) + Signed(p.rs) * Signed(p.rt)
  IN  IF Defined(p.rs, p.rt) /\ (madd => Defined(p.hi, p.lo))
      THEN [hi |-> (sum \div N) % N, lo |-> sum % N]
      ELSE [hi |-> X, lo |-> X]

\* After the delay slot.
LinkAddr(p) == Plus(p.pc, 2)

RegisterData(p) ==
  CASE p.ctl.reg_src = "ALU"      -> AluOut(p)
    [] p.ctl.reg_src = "MUL"      -> MulDivOut(p).lo
    [] p.ctl.reg_src = "LINKADDR" -> LinkAddr(p)
    [] p.ctl.reg_src = "RS"       -> p.rs
    [] p.ctl.reg_src = "FLAG"     -> Bit(FlagSelected(p))
    [] p.ctl.reg_src = "LLBIT"    -> Bit(p.llbit)
    [] p.ctl.reg_src = "HI"       -> p.hi
    [] p.ctl.reg_src = "LO"       -> p.lo
    [] p.ctl.reg_src = "COP0"     -> p.cop0
    [] OTHER -> X

DestReg(p) ==
  CASE p.ctl.dest_reg = "RD" -> p.ins.rd
    [] p.ctl.dest_reg = "RT" -> p.ins.rt
    [] p.ctl.dest_reg = "31" -> RA
    [] OTHER -> X

HiData(p) == CASE p.ctl.hilo_src = "RS"     -> p.rs
               [] p.ctl.hilo_src = "MULDIV" -> MulDivOut(p).hi
               [] OTHER -> X

LoData(p) == CASE p.ctl.hilo_src = "RS"     -> p.rs
               [] p.ctl.hilo_src = "MULDIV" -> MulDivOut(p).lo
               [] OTHER -> X

\* cop0_mux: what is written to coprocessor 0.
Cop0Data(p) ==
  CASE p.ctl.cop0_src = "RT"          -> p.rt
    [] p.ctl.cop0_src = "LLADDR"      -> Plus(p.rs, p.ins.imm)
    [] p.ctl.cop0_src = "STATUS_ERET" -> IfDefined(p.status, AfterEret(p.status))
    [] p.ctl.cop0_src = "STATUS_EI"   -> IfDefined(p.status, SetIE(p.status))
    [] p.ctl.cop0_src = "STATUS_DI"   -> IfDefined(p.status, ClearIE(p.status))
    [] OTHER -> p.status

DestCop0(p) == CASE p.ctl.dest_cop0 = "STATUS" -> "Status"
                 [] p.ctl.dest_cop0 = "LLADDR" -> "LLAddr"
                 [] OTHER -> p.ins.c0

\* cop0_write_filter: mtc0 has no access to these registers, an internal write
\* has.  The masks of the other registers are not modelled.
ReadOnlyCop0 == {"BadVAddr", "LLAddr"}
Cop0Mask(p)  == p.ctl.cop0_src = "RT" => p.ins.c0 \notin ReadOnlyCop0

\* What the execute stage hands to the memory stage.
ExecuteOut(p) ==
  [ fetch          |-> p.fetch,
    ctl            |-> [p.ctl EXCEPT
                          !.write_reg = @ /\ (p.ctl.write_cond = "WHEN_FLAG"
                                                => FlagSelected(p))],
    write_mem      |-> \/ p.ctl.mem_write_cond = "ALWAYS"
                       \/ p.ctl.mem_write_cond = "WHEN_LLBIT" /\ p.llbit,
    dest_reg       |-> DestReg(p),
    dest_reg_data  |-> RegisterData(p),
    mem_addr       |-> Plus(p.rs, p.ins.imm),
    rt             |-> p.rt,
    dest_hi_data   |-> HiData(p),
    dest_lo_data   |-> LoData(p),
    dest_cop0      |-> DestCop0(p),
    dest_cop0_data |-> Cop0Data(p),
    dest_cop0_mask |-> Cop0Mask(p),
    excdata        |-> NoException ]

----------------------------------------------------------------------------
\* The exception controller.  p is ExecuteIn and o is ExecuteOut(p).

\* address_error_checker, for word accesses: o.mem_addr is not aligned.
Unaligned(o) == o.mem_addr \in Word /\ o.mem_addr % 2 = 1
ReadError(p, o)  == p.ctl.read_mem /\ Unaligned(o)
StoreError(o)    == o.write_mem /\ Unaligned(o)

\* Mutant: wait until no control transfer is just ahead.
TakesInterruptAtBoundary(p) ==
  /\ p.fetch /\ irq /\ p.status \in Word /\ InterruptsEnabled(p.status)
  /\ p.ctl.pc_src = "NEXT" /\ mem.ctl.pc_src = "NEXT"

TakesInterrupt(p) ==
  p.fetch /\ irq /\ p.status \in Word /\ InterruptsEnabled(p.status)

\* The exceptions of the instruction itself, in the order of exc_chk.
ChecksFail(p, code) ==
  \/ p.ctl.exc_chk = "SYSCALL"   /\ code = "SYS"
  \/ p.ctl.exc_chk = "BREAK"     /\ code = "BP"
  \/ p.ctl.exc_chk = "RESERVERD" /\ code = "RI"
  \/ p.ctl.exc_chk = "TRAP"      /\ code = "TR" /\ FlagSelected(p)
  \/ p.ctl.exc_chk = "OVERFLOW"  /\ code = "OV" /\ Overflow(p)

\* Mutant: an address error comes before the interrupt that was accepted.
RaisedAddressFirst(p, o) ==
  IF ~p.fetch THEN {}
  ELSE IF ReadError(p, o) THEN {"ADEL"}
  ELSE IF StoreError(o) THEN {"ADES"}
  ELSE IF TakesInterrupt(p) THEN {"INT"}
  ELSE {code \in ExcCode : ChecksFail(p, code)}

\* An interrupt comes before an address error, and both before the rest.  A
\* bubble raises nothing.
Raised(p, o) ==
  IF ~p.fetch THEN {}
  ELSE IF TakesInterrupt(p) THEN {"INT"}
  ELSE IF ReadError(p, o) THEN {"ADEL"}
  ELSE IF StoreError(o) THEN {"ADES"}
  ELSE {code \in ExcCode : ChecksFail(p, code)}

\* The instruction is in a delay slot when a control transfer is just ahead.
InDelaySlot == mem.ctl.pc_src # "NEXT"

ExceptionData(p, o) ==
  LET raised == Raised(p, o)
  IN  IF raised = {} THEN NoException
      ELSE LET code    == CHOOSE c \in raised : TRUE
               address == code \in {"ADEL", "ADES"}
           IN  [ happen    |-> TRUE,
                 code      |-> code,
                 bd        |-> InDelaySlot,
                 epc       |-> IF InDelaySlot THEN Minus(p.pc, 1) ELSE p.pc,
                 load_addr |-> address,
                 badvaddr  |-> IF address THEN o.mem_addr ELSE 0 ]

----------------------------------------------------------------------------
\* The flow controller.  A later assignment of its always_comb block wins.

TakesBranch(p) == p.ctl.pc_src = "BRANCH" /\ FlagSelected(p)
Jumps          == Control(id.ins.op).pc_src = "JUMP"

\* Mutant: the second operand is forgotten.
LoadUseRsOnly(o) ==
  /\ o.ctl.write_reg /\ o.ctl.reg_src = "MEM"
  /\ o.dest_reg = id.ins.rs /\ Control(id.ins.op).opd_use \in {"BOTH", "RS"}

\* The instruction in decode announces that it uses what a load in execute
\* will deliver.
LoadUse(o) ==
  LET use == Control(id.ins.op).opd_use
  IN  /\ o.ctl.write_reg /\ o.ctl.reg_src = "MEM"
      /\ \/ o.dest_reg = id.ins.rs /\ use \in {"BOTH", "RS"}
         \/ o.dest_reg = id.ins.rt /\ use \in {"BOTH", "RT"}

Multiplies(p) == p.ctl.muldiv_funct # "NCARE"

\* Mutants: a nullified multiplication still waits for its result; the result
\* is waited for after it was stored.
ExecuteBusyUncleared(p, nul) == md = "RUN" \/ (md = "WAIT" /\ Multiplies(p))
ExecuteBusyAtStorage(p, nul) ==
  ~nul /\ (md \in {"RUN", "STORAGE"} \/ (md = "WAIT" /\ Multiplies(p)))

\* The multiplier's waiting_result, unless its stage is nullified.
ExecuteBusy(p, nul) == ~nul /\ (md = "RUN" \/ (md = "WAIT" /\ Multiplies(p)))

Flow(p, o, e) ==
  LET branch   == TakesBranch(p)
      register == p.ctl.pc_src = "REGISTER"
      eret     == p.ctl.pc_src = "ERET"
      redirect == branch \/ register \/ eret
      loaduse  == LoadUse(o)
      nullify  == e.happen \/ eret \/ loaduse
      busy     == ExecuteBusy(p, nullify)
  IN  [ load        |-> e.happen \/ redirect \/ Jumps,
        pc          |-> IF e.happen THEN ExcVector(e.code)
                        ELSE IF eret THEN
                          IfDefined(p.status, ReturnAddress(p.status, p.errorepc, p.epc))
                        ELSE IF register THEN p.rs
                        ELSE IF branch THEN Plus(Plus(p.pc, 1), p.ins.imm)
                        ELSE id.ins.imm,
        stall_fetch |-> ~e.happen /\ (InstructionBusy \/ loaduse \/ busy),
        id_nullify  |-> e.happen \/ redirect \/ InstructionBusy,
        id_hold     |-> ~e.happen /\ (busy \/ loaduse),
        ex_nullify  |-> nullify,
        ex_hold     |-> ~e.happen /\ busy,
        mem_nullify |-> e.happen,
        stall       |-> busy ]     \* the memory and write-back stages

----------------------------------------------------------------------------
\* One clock edge.

\* pipeline_base: hold has priority over nullify, which keeps the data and
\* clears the control signals.
Latch(reg, in, hold, nullify, nullified) ==
  IF hold THEN reg ELSE IF nullify THEN nullified ELSE in

FetchStep(f) ==
  pc_reg' = IF f.stall_fetch THEN pc_reg
            ELSE IF f.load THEN f.pc ELSE Plus(pc_reg, 1)

\* A nullified decode stage holds the all-zero instruction.
DecodeStep(f) ==
  LET in == [fetch |-> TRUE, pc |-> pc_reg,
             ins |-> IF pc_reg \in Word THEN imem[pc_reg] ELSE Nop]
  IN  id' = Latch(id, in, f.id_hold, f.id_nullify,
                  [in EXCEPT !.fetch = FALSE, !.ins = Nop])

ExecuteStep(f) ==
  LET in == DecodeOut
  IN  ex' = Latch(ex, in, f.ex_hold, f.ex_nullify,
                  [in EXCEPT !.fetch = FALSE, !.ctl = ClearControl])

\* Mutant: the write strobe survives the nullification.
MemoryStepKeepsStore(f, o, e) ==
  LET in == [o EXCEPT !.excdata = e]
  IN  /\ mem' = Latch(mem, in, f.stall, f.mem_nullify,
                      [in EXCEPT !.fetch = FALSE, !.ctl = ClearControl])
      /\ prev_stall' = f.stall

\* The exception data stay when the stage is nullified.
MemoryStep(f, o, e) ==
  LET in == [o EXCEPT !.excdata = e]
  IN  /\ mem' = Latch(mem, in, f.stall, f.mem_nullify,
                      [in EXCEPT !.fetch = FALSE, !.ctl = ClearControl,
                                 !.write_mem = FALSE])
      /\ prev_stall' = f.stall

\* Mutant: write back drains while the rest of the pipeline is stalled.
WriteBackStepDrains(f) ==
  wb' = [ctl |-> mem.ctl, dest_reg |-> mem.dest_reg,
         dest_reg_data |-> mem.dest_reg_data, mem_data |-> MemData]

WriteBackStep(f) ==
  LET in == [ctl |-> mem.ctl, dest_reg |-> mem.dest_reg,
             dest_reg_data |-> mem.dest_reg_data, mem_data |-> MemData]
  IN  wb' = Latch(wb, in, f.stall, FALSE, in)

\* div_mul: its states between WAIT and STORAGE are one state, RUN, left when
\* done.  Clearing it wins.
MulDivStep(f, p, done) ==
  md' = CASE f.ex_nullify -> "WAIT"
          [] ~f.ex_nullify /\ md = "WAIT" -> IF Multiplies(p) THEN "RUN" ELSE "WAIT"
          [] ~f.ex_nullify /\ md = "RUN"  -> IF done THEN "STORAGE" ELSE "RUN"
          [] ~f.ex_nullify /\ md = "STORAGE" -> IF f.ex_hold THEN "STORAGE" ELSE "WAIT"

\* The data memory, after the write strobe.
Stored ==
  IF MemWrite /\ mem.mem_addr \in DataAddr
  THEN [dmem EXCEPT ![mem.mem_addr] = mem.rt] ELSE dmem

RegisterStep ==
  /\ rf' = IF wb.ctl.write_reg /\ wb.dest_reg # 0
           THEN [rf EXCEPT ![wb.dest_reg] = WbData] ELSE rf
  /\ hi' = ForwardHi(hi) /\ lo' = ForwardLo(lo) /\ llbit' = ForwardLlbit(llbit)
  /\ dmem' = Stored

\* register_cop0: a write by an instruction, and what an exception records.
Cop0Written ==
  IF mem.ctl.write_cop0 THEN [cop0 EXCEPT ![mem.dest_cop0] = mem.dest_cop0_data]
  ELSE cop0

Cop0Next ==
  LET x == mem.excdata
  IN  IF ~x.happen THEN Cop0Written
      ELSE [Cop0Written EXCEPT
              !["EPC"]      = x.epc,
              !["Status"]   = IfDefined(@, SetEXL(@)),
              !["BadVAddr"] = IF x.load_addr THEN x.badvaddr ELSE @]

CauseNext ==
  IF mem.excdata.happen
  THEN [code |-> mem.excdata.code, bd |-> mem.excdata.bd] ELSE cause

\* interrupt_storage, reduced to one line whose synchroniser is part of the
\* environment: a stored interrupt stays until one is accepted.
InterruptStep(f, p, in) ==
  irq' = IF TakesInterrupt(p) /\ ~f.stall THEN FALSE ELSE irq \/ in

Signals == LET p == ExecuteIn
               o == ExecuteOut(p)
           IN  Flow(p, o, ExceptionData(p, o))

Tick(in, done) ==
  LET p == ExecuteIn
      o == ExecuteOut(p)
      e == ExceptionData(p, o)
      f == Flow(p, o, e)
  IN  /\ FetchStep(f) /\ DecodeStep(f) /\ ExecuteStep(f)
      /\ MemoryStep(f, o, e) /\ WriteBackStep(f)
      /\ MulDivStep(f, p, done)
      /\ RegisterStep
      /\ cop0' = Cop0Next /\ cause' = CauseNext
      /\ InterruptStep(f, p, in)
      /\ UNCHANGED imem

Clock == \E in \in IrqInput, done \in BOOLEAN : Tick(in, done)

\* Reset clears every register.  A store already in the memory stage is
\* strobed on that same clock edge, for the memories have no reset.
Reset ==
  /\ pc_reg' = 0
  /\ id' = EmptyDecode /\ ex' = EmptyExecute
  /\ mem' = EmptyMemory /\ wb' = EmptyWriteBack
  /\ rf' = ResetGpr /\ hi' = 0 /\ lo' = 0 /\ llbit' = FALSE
  /\ cop0' = ResetCop0 /\ cause' = ResetCause
  /\ md' = "WAIT" /\ irq' = FALSE /\ prev_stall' = FALSE
  /\ dmem' = Stored /\ UNCHANGED imem

Next == Clock \/ Reset

Spec == Init /\ [][Next]_vars

----------------------------------------------------------------------------
\* Properties.

ControlSignal == {Control(op) : op \in CoreOp} \cup {ClearControl}
MemControl    ==
  ControlSignal \cup {[c EXCEPT !.write_reg = b] : c \in ControlSignal, b \in BOOLEAN}

ExceptionInfo ==
  [ happen : BOOLEAN, code : ExcCode, bd : BOOLEAN, epc : Value,
    load_addr : BOOLEAN, badvaddr : Value ]

DecodeRegister == [fetch : BOOLEAN, pc : Value, ins : Instr]

ExecuteRegister ==
  [ fetch : BOOLEAN, pc : Value, ins : Instr, ctl : ControlSignal,
    rs : Value, rt : Value, hi : Value, lo : Value, llbit : BOOLEAN,
    cop0 : Value, status : Value, epc : Value, errorepc : Value ]

MemoryRegister ==
  [ fetch : BOOLEAN, ctl : MemControl, write_mem : BOOLEAN,
    dest_reg : Reg \cup {X}, dest_reg_data : Value, mem_addr : Value, rt : Value,
    dest_hi_data : Value, dest_lo_data : Value,
    dest_cop0 : Cop0Reg, dest_cop0_data : Value, dest_cop0_mask : BOOLEAN,
    excdata : ExceptionInfo ]

WriteBackRegister ==
  [ ctl : MemControl, dest_reg : Reg \cup {X}, dest_reg_data : Value,
    mem_data : Value ]

\* Every register holds a value its signal can carry; a data signal may be
\* undefined, an address or a value never exceeds the width of a word.
TypeOK ==
  /\ imem \in [Word -> Instr]
  /\ dmem \in [DataAddr -> Value]
  /\ pc_reg \in Value
  /\ id \in DecodeRegister
  /\ ex \in ExecuteRegister
  /\ mem \in MemoryRegister
  /\ wb \in WriteBackRegister
  /\ rf \in [Reg -> Value] /\ hi \in Value /\ lo \in Value /\ llbit \in BOOLEAN
  /\ cop0 \in [Cop0Reg -> Value] /\ cause \in Cause
  /\ md \in {"WAIT", "RUN", "STORAGE"}
  /\ irq \in BOOLEAN /\ prev_stall \in BOOLEAN

\* A store strobes the memory, which may be a device, in one clock cycle only,
\* however long a multiplication behind it keeps it in the memory stage
\* (stage_memory.sv, prev_stall).
StoreOnce == [][MemWrite /\ Signals.stall => ~MemWrite']_vars

\* What a load delivers is not there before the write-back stage, so the memory
\* stage never has to forward it to an instruction that announced it uses it
\* (pipeline_flow_controller.sv:100-111).
Announces(e, r) ==
  \/ r = e.ins.rs /\ e.ctl.opd_use \in {"BOTH", "RS"}
  \/ r = e.ins.rt /\ e.ctl.opd_use \in {"BOTH", "RT"}
LoadNotForwarded ==
  ex.fetch /\ mem.ctl.write_reg /\ mem.ctl.reg_src = "MEM"
    => ~Announces(ex, mem.dest_reg)

\* While the multiplier computes, the operands it reads from the execute stage
\* do not change although they may be forwarded from the stages ahead: "we can
\* assume it's not change in caculate" (div_mul.sv:10-13).
Operands == [rs |-> ExecuteIn.rs, rt |-> ExecuteIn.rt,
             hi |-> ExecuteIn.hi, lo |-> ExecuteIn.lo]
OperandsStable == [][Signals.ex_hold /\ Clock => Operands' = Operands]_vars

\* When the fetch stage is told to load a new address, the address is loaded
\* before the instruction that asked for it has moved on: "jal send load
\* signal to fetch stage and want pc load target address" (stage_fetch.sv:24).
TransfersTaken ==
  [][Clock /\ Signals.load /\ ~Signals.id_hold => pc_reg' = Signals.pc]_vars

\* Exceptions are precise in the pipeline: when one reaches coprocessor 0, the
\* instruction that raised it and the younger ones in decode and execute are
\* bubbles that write nothing, and the handler is being fetched
\* (pipeline_flow_controller.sv:132-146).
WritesNothing(m) ==
  /\ ~m.write_mem /\ ~m.ctl.write_reg /\ ~m.ctl.write_hi /\ ~m.ctl.write_lo
  /\ ~m.ctl.write_cop0 /\ ~m.ctl.write_llbit
PreciseException ==
  mem.excdata.happen =>
    /\ ~mem.fetch /\ WritesNothing(mem)
    /\ ~ex.fetch /\ ex.ctl = ClearControl
    /\ ~id.fetch /\ id.ins = Nop
    /\ md = "WAIT"
    /\ pc_reg = ExcVector(mem.excdata.code)

\* A stored interrupt is dropped only by entering the interrupt handler
\* (core.sv:44, interrupt_storage.sv:32).
AcceptedIsTaken ==
  [][Clock /\ irq /\ ~irq'
       => mem'.excdata.happen /\ mem'.excdata.code = "INT"]_vars

\* BadVAddr is read only for mtc0: "we still have some bit can be written by
\* some internal control and read only for mtc0" (cop0_write_filter.sv:4-5,
\* whose mask for BadVaddr, line 20, is zero).
BadVAddrByException ==
  [][Clock /\ cop0'["BadVAddr"] # cop0["BadVAddr"] => mem.excdata.load_addr]_vars

----------------------------------------------------------------------------
\* The instruction-set state the pipeline stands for.  An instruction has
\* executed once it has left the execute stage, so what the memory and the
\* write-back stages still carry counts as done, and the next instructions
\* are the valid ones in execute, decode and fetch, oldest first.

AbsGpr ==
  [r \in Reg |-> IF ~Supplies(mem, r) THEN ForwardToDecode(r)
                 ELSE IF mem.ctl.reg_src = "MEM" THEN MemData
                 ELSE mem.dest_reg_data]

AbsPc  == IF ex.fetch THEN ex.pc ELSE IF id.fetch THEN id.pc ELSE pc_reg
AbsNpc == IF ~ex.fetch /\ ~id.fetch THEN Plus(pc_reg, 1)
          ELSE IF ex.fetch /\ id.fetch THEN id.pc ELSE pc_reg
AbsSlot == ex.fetch /\ InDelaySlot

Arch == INSTANCE Isa WITH
         dmem <- Stored, pc <- AbsPc, npc <- AbsNpc, slot <- AbsSlot,
         gpr <- AbsGpr, hi <- ForwardHi(hi), lo <- ForwardLo(lo),
         llbit <- ForwardLlbit(llbit), cop0 <- Cop0Next, cause <- CauseNext

\* Every run of the pipeline is a run of the instruction-set specification:
\* forwarding, stalls, nullified instructions, delay slots and exceptions
\* never show in what a program computes (core.sv).
CoreImplementsIsa == Arch!Spec

\* What this asks of a program.  A control transfer is not in the delay slot of
\* another; mtc0 writes no register that is read only; ei and di name Status, as
\* their encoding does.
Transfers(i)  == Control(i.op).pc_src \in {"BRANCH", "JUMP", "REGISTER", "ERET"}
WellFormed(p) == \A a \in Word : Transfers(p[a]) => ~Transfers(p[(a + 1) % N])

Allowed(p) ==
  /\ WellFormed(p)
  /\ \A a \in Word : p[a].op = "MTC0" => p[a].c0 \notin ReadOnlyCop0
  /\ \A a \in Word : p[a].op \in {"EI", "DI"} => p[a].c0 = "Status"

\* And of its use of the memories: loads and stores stay in the data memory, and
\* none that makes the instruction memory busy is one or two instructions ahead
\* of a control transfer (that one is lost).
Predictable ==
  /\ Allowed(imem)
  /\ InstructionBusy => ~Transfers(id.ins) /\ ~(ex.fetch /\ Transfers(ex.ins))
  /\ mem.ctl.read_mem \/ MemWrite => mem.mem_addr \in DataAddr

=============================================================================
