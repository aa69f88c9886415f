----------------------------- MODULE CoreProofs -----------------------------
(***************************************************************************)
(* Theorems about the pipeline (Core), for every program, memory and width *)
(* of a word.  First the types, and what one instruction makes of the      *)
(* signals of its execute stage: the decoder's control signals, the        *)
(* multiplexers they select, the checks of the exception controller.       *)
(* Then the refinement: Core implements the instruction-set specification  *)
(* (Isa), that is, one clock edge executes one instruction, enters an      *)
(* exception handler, or changes nothing that a program sees.              *)
(***************************************************************************)
EXTENDS Core, BinaryLemmas, TLAPS

----------------------------------------------------------------------------
\* Arithmetic stays in the word.
LEMMA ArithType ==
  \A a, b : Plus(a, b) \in Value /\ Minus(a, b) \in Value
<1>1. \A a, b \in Word : (a + b) % N \in Word /\ (a - b) % N \in Word
  BY SizeAssumption, SMT DEF Word
<1>. QED  BY <1>1 DEF Plus, Minus, Defined, Value

\* What EI, DI, ERET and an exception make of Status is a word.
LEMMA StatusType ==
  \A s \in Word :
    /\ SetIE(s) \in Word /\ ClearIE(s) \in Word
    /\ SetEXL(s) \in Word /\ AfterEret(s) \in Word
<1>. TAKE s \in Word
<1>1. PICK k \in Nat : N = 16 * k
  BY SizeAssumption, SMT
<1>2. s \in Nat /\ s < 16 * k
  BY <1>1, SizeAssumption, SMT DEF Word
<1>3. SetIE(s) \in Word /\ ClearIE(s) \in Word
  BY <1>1, <1>2, SMT DEF SetIE, ClearIE, IE, Word
<1>4. SetEXL(s) \in Word /\ ClearEXL(s) \in Word
  BY <1>1, <1>2, SMT DEF SetEXL, ClearEXL, EXL, Word
<1>5. ClearERL(s) \in Word
  BY <1>1, <1>2, SMT DEF ClearERL, ERL, Word
<1>. QED  BY <1>3, <1>4, <1>5 DEF AfterEret

\* What the forwarding network delivers is a value of the register it stands for.
LEMMA ForwardType ==
  ASSUME TypeOK
  PROVE  /\ MemData \in Value /\ WbData \in Value
         /\ \A r \in Reg : ForwardToDecode(r) \in Value
         /\ \A r : \A held \in Value : ForwardToExecute(r, held) \in Value
         /\ \A held \in Value : ForwardHi(held) \in Value /\ ForwardLo(held) \in Value
         /\ \A held \in BOOLEAN : ForwardLlbit(held) \in BOOLEAN
         /\ \A c : \A held \in Value :
              ForwardCop0(c, held) \in Value /\ ForwardCop0Read(c, held) \in Value
<1>1. MemData \in Value
  BY DEF TypeOK, MemData, Value
<1>2. WbData \in Value
  BY DEF TypeOK, WriteBackRegister, WbData
<1>3. \A r \in Reg : ForwardToDecode(r) \in Value
  BY <1>2, SizeAssumption DEF TypeOK, ForwardToDecode, Value, Word
<1>4. \A r : \A held \in Value : ForwardToExecute(r, held) \in Value
  BY <1>2 DEF TypeOK, MemoryRegister, ForwardToExecute
<1>5. \A held \in Value : ForwardHi(held) \in Value /\ ForwardLo(held) \in Value
  BY DEF TypeOK, MemoryRegister, ForwardHi, ForwardLo
<1>6. \A held \in BOOLEAN : ForwardLlbit(held) \in BOOLEAN
  BY DEF TypeOK, MemoryRegister, ExceptionInfo, ForwardLlbit, DestLlbitData
<1>7. \A c : \A held \in Value : ForwardCop0(c, held) \in Value
  BY StatusType DEF TypeOK, MemoryRegister, ForwardCop0, IfDefined, Value
<1>. QED
  BY <1>1, <1>2, <1>3, <1>4, <1>5, <1>6, <1>7 DEF ForwardCop0Read

\* The decode stage hands the execute stage a well-formed register.
LEMMA DecodeOutType == TypeOK => DecodeOut \in ExecuteRegister
<1>. SUFFICES ASSUME TypeOK PROVE DecodeOut \in ExecuteRegister
  OBVIOUS
<1>1. id.ins \in Instr /\ id.fetch \in BOOLEAN /\ id.pc \in Value
  BY DEF TypeOK, DecodeRegister
<1>2. id.ins.rs \in Reg /\ id.ins.rt \in Reg /\ id.ins.c0 \in Cop0Reg
      /\ Control(id.ins.op) \in ControlSignal
  BY <1>1 DEF Instr, ControlSignal
<1>3. /\ cop0[id.ins.c0] \in Value /\ cop0["Status"] \in Value
      /\ cop0["EPC"] \in Value /\ cop0["ErrorEPC"] \in Value
  BY <1>2 DEF TypeOK, Cop0Reg
<1>4. /\ hi \in Value /\ lo \in Value /\ llbit \in BOOLEAN
  BY DEF TypeOK
<1>. QED  BY <1>1, <1>2, <1>3, <1>4, ForwardType DEF DecodeOut, ExecuteRegister

\* Forwarding keeps the register of the execute stage well formed.
LEMMA ExecuteInType == TypeOK => ExecuteIn \in ExecuteRegister
  BY ForwardType DEF TypeOK, ExecuteIn, ExecuteRegister

\* A product, with or without accumulation, is two words or undefined.
LEMMA MulDivType ==
  \A p \in ExecuteRegister : MulDivOut(p).hi \in Value /\ MulDivOut(p).lo \in Value
<1>. SUFFICES ASSUME NEW p \in ExecuteRegister
              PROVE  MulDivOut(p).hi \in Value /\ MulDivOut(p).lo \in Value
  OBVIOUS
<1>1. \A s \in Int : (s \div N) % N \in Word /\ s % N \in Word
  BY SizeAssumption, SMT DEF Word
<1>2. \A a \in Word : Signed(a) \in Int /\ a \in Int
  BY SizeAssumption, SMT DEF Signed, Negative, Word
<1>3. \A a, b \in Int : a * b \in Int /\ a + b \in Int /\ N \in Int /\ 0 \in Int
  BY SizeAssumption, SMT
<1>. DEFINE madd == p.ctl.muldiv_funct = "MADD"
            sum  == (IF madd THEN p.hi * N + p.lo ELSE 0) + Signed(p.rs) * Signed(p.rt)
<1>4. CASE Defined(p.rs, p.rt) /\ (madd => Defined(p.hi, p.lo))
  <2>1. (IF madd THEN p.hi * N + p.lo ELSE 0) \in Int
    BY <1>2, <1>3, <1>4 DEF Defined
  <2>2. Signed(p.rs) * Signed(p.rt) \in Int
    BY <1>2, <1>3, <1>4 DEF Defined
  <2>3. sum \in Int
    BY <2>1, <2>2, <1>3
  <2>4. MulDivOut(p) = [hi |-> (sum \div N) % N, lo |-> sum % N]
    BY <1>4 DEF MulDivOut
  <2>. HIDE DEF sum
  <2>. QED  BY <2>3, <2>4, <1>1 DEF Value
<1>5. CASE ~(Defined(p.rs, p.rt) /\ (madd => Defined(p.hi, p.lo)))
  BY <1>5 DEF MulDivOut, Value
<1>. QED  BY <1>4, <1>5

\* The ALU, and the multiplexer of the register data, deliver a value.
LEMMA AluType ==
  \A p \in ExecuteRegister : AluOut(p) \in Value /\ RegisterData(p) \in Value
<1>. SUFFICES ASSUME NEW p \in ExecuteRegister
              PROVE  AluOut(p) \in Value /\ RegisterData(p) \in Value
  OBVIOUS
<1>1. p.ins.imm \in Word
  BY DEF ExecuteRegister, Instr
<1>2. \A a, k \in Word : (a * 2^k) % N \in Word
  BY SizeAssumption, SMT DEF Word
<1>3. AluOut(p) \in Value
  BY <1>1, <1>2, ArithType DEF AluOut, IfDefined, Value
<1>4. \A b : Bit(b) \in Value
  BY SizeAssumption, SMT DEF Bit, Value, Word
<1>5. p.rs \in Value /\ p.hi \in Value /\ p.lo \in Value /\ p.cop0 \in Value
  BY DEF ExecuteRegister
<1>6. X \in Value /\ LinkAddr(p) \in Value
  BY ArithType DEF Value, LinkAddr
<1>. QED  BY <1>3, <1>4, <1>5, <1>6, MulDivType DEF RegisterData

\* The execute stage hands the memory stage a well-formed register.
LEMMA ExecuteOutType == \A p \in ExecuteRegister : ExecuteOut(p) \in MemoryRegister
<1>. SUFFICES ASSUME NEW p \in ExecuteRegister PROVE ExecuteOut(p) \in MemoryRegister
  OBVIOUS
<1>1. /\ p.fetch \in BOOLEAN /\ p.pc \in Value /\ p.ins \in Instr /\ p.ctl \in ControlSignal
      /\ p.rs \in Value /\ p.rt \in Value /\ p.llbit \in BOOLEAN /\ p.status \in Value
  BY DEF ExecuteRegister
<1>2. \A b \in BOOLEAN : [p.ctl EXCEPT !.write_reg = b] \in MemControl
  BY <1>1 DEF MemControl
<1>3. DestReg(p) \in Reg \cup {X}
  BY <1>1, SizeAssumption DEF DestReg, RA, Reg, Instr
<1>4. HiData(p) \in Value /\ LoData(p) \in Value
  BY <1>1, MulDivType DEF HiData, LoData, Value
<1>5. DestCop0(p) \in Cop0Reg
  BY <1>1 DEF DestCop0, Cop0Reg, Instr
<1>6. Cop0Data(p) \in Value
  BY <1>1, ArithType, StatusType DEF Cop0Data, IfDefined, Value
<1>7. NoException \in ExceptionInfo
  BY SizeAssumption DEF NoException, ExceptionInfo, ExcCode, Value, Word
<1>8. Cop0Mask(p) \in BOOLEAN
  BY DEF Cop0Mask
<1>. QED
  BY <1>1, <1>2, <1>3, <1>4, <1>5, <1>6, <1>7, <1>8, AluType, ArithType
  DEF ExecuteOut, MemoryRegister

\* The exception controller delivers well-formed exception data.
LEMMA ExceptionDataType ==
  \A p \in ExecuteRegister, o \in MemoryRegister : ExceptionData(p, o) \in ExceptionInfo
<1>. SUFFICES ASSUME NEW p \in ExecuteRegister, NEW o \in MemoryRegister
              PROVE  ExceptionData(p, o) \in ExceptionInfo
  OBVIOUS
<1>1. Raised(p, o) \subseteq ExcCode
  BY DEF Raised, ExcCode
<1>2. NoException \in ExceptionInfo /\ 0 \in Value
  BY SizeAssumption DEF NoException, ExceptionInfo, ExcCode, Value, Word
<1>3. p.pc \in Value /\ o.mem_addr \in Value
  BY DEF ExecuteRegister, MemoryRegister
<1>4. CASE Raised(p, o) = {}
  BY <1>2, <1>4 DEF ExceptionData
<1>5. CASE Raised(p, o) # {}
  <2>. DEFINE code == CHOOSE c \in Raised(p, o) : TRUE
  <2>1. code \in ExcCode
    BY <1>1, <1>5
  <2>. HIDE DEF code
  <2>2. ExceptionData(p, o) =
          [ happen    |-> TRUE,
            code      |-> code,
            bd        |-> InDelaySlot,
            epc       |-> IF InDelaySlot THEN Minus(p.pc, 1) ELSE p.pc,
            load_addr |-> code \in {"ADEL", "ADES"},
            badvaddr  |-> IF code \in {"ADEL", "ADES"} THEN o.mem_addr ELSE 0 ]
    BY <1>5 DEF ExceptionData, code
  <2>3. InDelaySlot \in BOOLEAN
    BY DEF InDelaySlot
  <2>. QED  BY <2>1, <2>2, <2>3, <1>2, <1>3, ArithType DEF ExceptionInfo
<1>. QED  BY <1>4, <1>5

\* The flow controller delivers an address, or an undefined one.
LEMMA FlowType ==
  ASSUME TypeOK, NEW p \in ExecuteRegister, NEW o, NEW e
  PROVE  Flow(p, o, e).pc \in Value /\ Flow(p, o, e).stall \in BOOLEAN
<1>1. /\ p.pc \in Value /\ p.rs \in Value /\ p.epc \in Value /\ p.errorepc \in Value
      /\ id.ins.imm \in Value
  BY DEF TypeOK, ExecuteRegister, DecodeRegister, Instr, Value
<1>2. ExcVector(e.code) \in Value
  BY SizeAssumption DEF ExcVector, Value
<1>3. IfDefined(p.status, ReturnAddress(p.status, p.errorepc, p.epc)) \in Value
  BY <1>1 DEF IfDefined, ReturnAddress, Value
<1>. QED  BY <1>1, <1>2, <1>3, ArithType DEF Flow, ExecuteBusy

\* The registers of the clock edge, one lemma for each stage.

\* What a nullified stage holds is well formed.
LEMMA BubbleType == Nop \in Instr /\ ClearControl \in ControlSignal /\ ClearControl \in MemControl
<1>1. Nop \in Instr
  BY SizeAssumption DEF Nop, Instr, CoreOp, Reg, Word, Cop0Reg
<1>2. ClearControl \in ControlSignal
  BY DEF ControlSignal
<1>. QED  BY <1>1, <1>2 DEF MemControl

\* A clock edge leaves the decode register well formed.
LEMMA DecodeStepType ==
  ASSUME TypeOK, NEW f, DecodeStep(f)
  PROVE  id' \in DecodeRegister
<1>. DEFINE in == [fetch |-> TRUE, pc |-> pc_reg,
                   ins |-> IF pc_reg \in Word THEN imem[pc_reg] ELSE Nop]
<1>1. in \in DecodeRegister
  BY BubbleType DEF TypeOK, DecodeRegister
<1>2. [in EXCEPT !.fetch = FALSE, !.ins = Nop] \in DecodeRegister
  BY <1>1, BubbleType DEF DecodeRegister
<1>3. id' = Latch(id, in, f.id_hold, f.id_nullify, [in EXCEPT !.fetch = FALSE, !.ins = Nop])
  BY DEF DecodeStep
<1>. HIDE DEF in
<1>. QED  BY <1>1, <1>2, <1>3 DEF TypeOK, Latch

\* A clock edge leaves the execute register well formed.
LEMMA ExecuteStepType ==
  ASSUME TypeOK, NEW f, ExecuteStep(f)
  PROVE  ex' \in ExecuteRegister
<1>. DEFINE in == DecodeOut
<1>1. in \in ExecuteRegister
  BY DecodeOutType
<1>3. ex' = Latch(ex, in, f.ex_hold, f.ex_nullify,
                   [in EXCEPT !.fetch = FALSE, !.ctl = ClearControl])
  BY DEF ExecuteStep
<1>. HIDE DEF in
<1>2. [in EXCEPT !.fetch = FALSE, !.ctl = ClearControl] \in ExecuteRegister
  BY <1>1, BubbleType DEF ExecuteRegister
<1>. QED  BY <1>1, <1>2, <1>3 DEF TypeOK, Latch

\* A clock edge leaves the memory register well formed.
LEMMA MemoryStepType ==
  ASSUME TypeOK, NEW f, f.stall \in BOOLEAN, NEW o \in MemoryRegister,
         NEW e \in ExceptionInfo, MemoryStep(f, o, e)
  PROVE  mem' \in MemoryRegister /\ prev_stall' \in BOOLEAN
<1>. DEFINE in == [o EXCEPT !.excdata = e]
            nullified == [in EXCEPT !.fetch = FALSE, !.ctl = ClearControl, !.write_mem = FALSE]
<1>1. in \in MemoryRegister
  BY DEF MemoryRegister
<1>3. mem' = Latch(mem, in, f.stall, f.mem_nullify, nullified) /\ prev_stall' = f.stall
  BY DEF MemoryStep
<1>. HIDE DEF in
<1>2. nullified \in MemoryRegister
  BY <1>1, BubbleType DEF MemoryRegister
<1>. HIDE DEF nullified
<1>. QED  BY <1>1, <1>2, <1>3 DEF TypeOK, Latch

\* A clock edge leaves the write-back register well formed.
LEMMA WriteBackStepType ==
  ASSUME TypeOK, NEW f, WriteBackStep(f)
  PROVE  wb' \in WriteBackRegister
  BY ForwardType DEF TypeOK, MemoryRegister, WriteBackRegister, WriteBackStep, Latch

\* An instruction or an exception leaves coprocessor 0 well formed.
LEMMA Cop0NextType == TypeOK => Cop0Next \in [Cop0Reg -> Value] /\ CauseNext \in Cause
<1>. SUFFICES ASSUME TypeOK
              PROVE  Cop0Next \in [Cop0Reg -> Value] /\ CauseNext \in Cause
  OBVIOUS
<1>1. /\ mem.excdata \in ExceptionInfo /\ mem.dest_cop0 \in Cop0Reg
      /\ mem.dest_cop0_data \in Value
  BY DEF TypeOK, MemoryRegister
<1>2. Cop0Written \in [Cop0Reg -> Value]
  BY <1>1 DEF TypeOK, Cop0Written
<1>3. mem.excdata.epc \in Value /\ mem.excdata.badvaddr \in Value
  BY <1>1 DEF ExceptionInfo
<1>4. \A v \in Value : IfDefined(v, SetEXL(v)) \in Value
  BY StatusType DEF IfDefined, Value
<1>5. Cop0Next \in [Cop0Reg -> Value]
  BY <1>2, <1>3, <1>4 DEF Cop0Next, Cop0Reg
<1>6. CauseNext \in Cause
  BY <1>1 DEF TypeOK, CauseNext, Cause, ExceptionInfo
<1>. QED  BY <1>5, <1>6

\* A clock edge leaves the registers and the data memory well formed.
LEMMA RegisterStepType ==
  ASSUME TypeOK, RegisterStep
  PROVE  /\ rf' \in [Reg -> Value] /\ hi' \in Value /\ lo' \in Value /\ llbit' \in BOOLEAN
         /\ dmem' \in [DataAddr -> Value]
<1>1. rf' \in [Reg -> Value]
  BY ForwardType DEF TypeOK, RegisterStep
<1>2. hi' \in Value /\ lo' \in Value /\ llbit' \in BOOLEAN
  BY ForwardType DEF TypeOK, RegisterStep
<1>3. Stored \in [DataAddr -> Value]
  BY DEF TypeOK, Stored, MemoryRegister
<1>. QED  BY <1>1, <1>2, <1>3 DEF RegisterStep

\* Reset leaves every register well formed.
LEMMA ResetType ==
  /\ 0 \in Value
  /\ EmptyDecode \in DecodeRegister /\ EmptyExecute \in ExecuteRegister
  /\ EmptyMemory \in MemoryRegister /\ EmptyWriteBack \in WriteBackRegister
  /\ ResetGpr \in [Reg -> Value] /\ ResetCop0 \in [Cop0Reg -> Value] /\ ResetCause \in Cause
<1>1. 0 \in Word /\ 0 \in Reg /\ 4 \in Word
  BY SizeAssumption DEF Word, Reg
<1>2. NoException \in ExceptionInfo
  BY <1>1 DEF NoException, ExceptionInfo, ExcCode, Value
<1>. QED
  BY <1>1, <1>2, BubbleType
  DEF EmptyDecode, DecodeRegister, EmptyExecute, ExecuteRegister, EmptyMemory,
      MemoryRegister, EmptyWriteBack, WriteBackRegister, ResetGpr, ResetCop0,
      ResetStatus, ResetCause, Cause, ExcCode, Cop0Reg, Value

----------------------------------------------------------------------------
\* Every register always holds a value its signal can carry (TypeOK): at reset,
\* after every clock edge, and whatever the program.
THEOREM TypeCorrect == Spec => []TypeOK
<1>1. Init => TypeOK
  BY ResetType, MemoryAssumption DEF Init, TypeOK, Value
<1>2. ASSUME TypeOK, Reset PROVE TypeOK'
  <2>1. dmem' \in [DataAddr -> Value]
    BY <1>2 DEF Reset, TypeOK, Stored, MemoryRegister
  <2>. QED  BY <1>2, <2>1, ResetType DEF Reset, TypeOK
<1>3. ASSUME TypeOK, Clock PROVE TypeOK'
  <2>1. PICK in \in IrqInput, done \in BOOLEAN : Tick(in, done)
    BY <1>3 DEF Clock
  <2>. DEFINE p == ExecuteIn
              o == ExecuteOut(p)
              e == ExceptionData(p, o)
              f == Flow(p, o, e)
  <2>2. /\ p \in ExecuteRegister /\ o \in MemoryRegister /\ e \in ExceptionInfo
        /\ f.pc \in Value /\ f.stall \in BOOLEAN
    BY <1>3, ExecuteInType, ExecuteOutType, ExceptionDataType, FlowType
  <2>3. /\ FetchStep(f) /\ DecodeStep(f) /\ ExecuteStep(f)
        /\ MemoryStep(f, o, e) /\ WriteBackStep(f)
        /\ MulDivStep(f, p, done)
        /\ RegisterStep
        /\ cop0' = Cop0Next /\ cause' = CauseNext
        /\ InterruptStep(f, p, in)
        /\ UNCHANGED imem
    BY <2>1 DEF Tick
  <2>. HIDE DEF p, o, e, f
  <2>4. pc_reg' \in Value
    BY <1>3, <2>2, <2>3, ArithType DEF FetchStep, TypeOK
  <2>5. md' \in {"WAIT", "RUN", "STORAGE"}
    BY <1>3, <2>3 DEF MulDivStep, TypeOK
  <2>6. irq' \in BOOLEAN
    BY <1>3, <2>3, EnvironmentAssumption DEF InterruptStep, TypeOK
  <2>7. id' \in DecodeRegister /\ ex' \in ExecuteRegister /\ wb' \in WriteBackRegister
    BY <1>3, <2>3, DecodeStepType, ExecuteStepType, WriteBackStepType
  <2>8. mem' \in MemoryRegister /\ prev_stall' \in BOOLEAN
    BY <1>3, <2>2, <2>3, MemoryStepType
  <2>. QED
    BY <1>3, <2>3, <2>4, <2>5, <2>6, <2>7, <2>8, RegisterStepType, Cop0NextType DEF TypeOK
<1>4. TypeOK /\ UNCHANGED vars => TypeOK'
  BY DEF TypeOK, vars, stages, arch
<1>. QED  BY <1>1, <1>2, <1>3, <1>4, PTL DEF Spec, Next

----------------------------------------------------------------------------
\* Exceptions.

\* Neither a bubble nor a nullified multiplication holds the pipeline.
LEMMA ExceptionSignals ==
  ASSUME NEW p, NEW o, NEW e, e.happen
  PROVE  LET f == Flow(p, o, e)
         IN  /\ f.load /\ ~f.stall_fetch /\ f.id_nullify /\ ~f.id_hold
             /\ f.ex_nullify /\ ~f.ex_hold /\ f.mem_nullify /\ ~f.stall
             /\ f.pc = ExcVector(e.code)
  BY DEF Flow, ExecuteBusy

\* A bubble in the execute stage raises nothing and asks nothing of the fetch stage.
LEMMA BubbleIsIdle ==
  ASSUME NEW p, NEW o, NEW e, md = "WAIT", p.ctl = ClearControl
  PROVE  ~Flow(p, o, e).stall
<1>1. ClearControl.muldiv_funct = "NCARE"
  BY DEF ClearControl
<1>. QED  BY <1>1 DEF Flow, ExecuteBusy, Multiplies

\* An exception reaches coprocessor 0 together with nothing else: the
\* instruction that raised it and those behind it are bubbles, and the handler
\* is being fetched (PreciseException).
THEOREM ExceptionsArePrecise == Spec => []PreciseException
<1>1. Init => PreciseException
  BY DEF Init, EmptyMemory, NoException, PreciseException
<1>2. Reset => PreciseException'
  BY DEF Reset, EmptyMemory, NoException, PreciseException
<1>3. ASSUME PreciseException, Clock PROVE PreciseException'
  <2>. SUFFICES ASSUME mem'.excdata.happen
                PROVE  /\ ~mem'.fetch /\ WritesNothing(mem')
                       /\ ~ex'.fetch /\ ex'.ctl = ClearControl
                       /\ ~id'.fetch /\ id'.ins = Nop
                       /\ md' = "WAIT"
                       /\ pc_reg' = ExcVector(mem'.excdata.code)
    BY DEF PreciseException, WritesNothing
  <2>1. PICK in \in IrqInput, done \in BOOLEAN : Tick(in, done)
    BY <1>3 DEF Clock
  <2>. DEFINE p == ExecuteIn
              o == ExecuteOut(p)
              e == ExceptionData(p, o)
              f == Flow(p, o, e)
  <2>2. /\ FetchStep(f) /\ DecodeStep(f) /\ ExecuteStep(f)
        /\ MemoryStep(f, o, e) /\ MulDivStep(f, p, done)
    BY <2>1 DEF Tick
  <2>3. p.ctl = ex.ctl
    BY DEF ExecuteIn
  <2>. HIDE DEF p
  <2>5. e.happen
    <3>1. CASE f.stall
      <4>1. mem' = mem
        BY <2>2, <3>1 DEF MemoryStep, Latch
      <4>2. md = "WAIT" /\ p.ctl = ClearControl
        BY <1>3, <4>1, <2>3 DEF PreciseException
      <4>. QED  BY <4>2, <3>1, BubbleIsIdle
    <3>2. CASE ~f.stall
      <4>1. mem'.excdata = e
        BY <2>2, <3>2 DEF MemoryStep, Latch, ExecuteOut
      <4>. QED  BY <4>1
    <3>. QED  BY <3>1, <3>2
  <2>6. /\ f.load /\ ~f.stall_fetch /\ f.id_nullify /\ ~f.id_hold
        /\ f.ex_nullify /\ ~f.ex_hold /\ f.mem_nullify /\ ~f.stall
        /\ f.pc = ExcVector(e.code)
    BY <2>5, ExceptionSignals
  <2>. HIDE DEF e, f
  <2>7. /\ ~mem'.fetch /\ ~mem'.write_mem /\ mem'.ctl = ClearControl /\ mem'.excdata = e
    BY <2>2, <2>6 DEF MemoryStep, Latch, ExecuteOut
  <2>8. ~ex'.fetch /\ ex'.ctl = ClearControl
    BY <2>2, <2>6 DEF ExecuteStep, Latch, DecodeOut
  <2>9. ~id'.fetch /\ id'.ins = Nop
    BY <2>2, <2>6 DEF DecodeStep, Latch
  <2>10. md' = "WAIT"
    BY <2>2, <2>6 DEF MulDivStep
  <2>11. pc_reg' = ExcVector(e.code)
    BY <2>2, <2>6 DEF FetchStep
  <2>. QED
    BY <2>7, <2>8, <2>9, <2>10, <2>11 DEF WritesNothing, ClearControl
<1>4. PreciseException /\ UNCHANGED vars => PreciseException'
  BY DEF PreciseException, WritesNothing, vars, stages, arch
<1>. QED  BY <1>1, <1>2, <1>3, <1>4, PTL DEF Spec, Next

----------------------------------------------------------------------------
\* Stalls and interrupts.

\* While a multiplication holds the execute stage nothing ahead of it moves, so
\* the operands it is given stay the same (OperandsStable).
THEOREM MultiplierOperandsStable == Spec => OperandsStable
<1>1. ASSUME Clock, Signals.ex_hold PROVE Operands' = Operands
  <2>1. PICK in \in IrqInput, done \in BOOLEAN : Tick(in, done)
    BY <1>1 DEF Clock
  <2>. DEFINE p == ExecuteIn
              o == ExecuteOut(p)
              e == ExceptionData(p, o)
              f == Flow(p, o, e)
  <2>2. /\ ExecuteStep(f) /\ MemoryStep(f, o, e) /\ WriteBackStep(f)
    BY <2>1 DEF Tick
  <2>3. f.ex_hold
    BY <1>1 DEF Signals
  <2>4. f.ex_hold => f.stall
    BY DEF Flow
  <2>5. ex' = ex /\ mem' = mem /\ wb' = wb
    BY <2>2, <2>3, <2>4 DEF ExecuteStep, MemoryStep, WriteBackStep, Latch
  <2>. QED
    BY <2>5 DEF Operands, ExecuteIn, ForwardToExecute, Supplies, WbData, ForwardHi,
                ForwardLo, ForwardLlbit, WriteLlbit, DestLlbitData, ForwardCop0Read,
                ForwardCop0, WritesCop0
<1>. QED  BY <1>1, PTL DEF Spec, OperandsStable

\* A stored interrupt disappears only when the interrupt exception is on its
\* way to coprocessor 0 (AcceptedIsTaken).
THEOREM InterruptsAreNotLost == Spec => AcceptedIsTaken
<1>1. ASSUME Clock, irq, ~irq'
      PROVE  mem'.excdata.happen /\ mem'.excdata.code = "INT"
  <2>1. PICK in \in IrqInput, done \in BOOLEAN : Tick(in, done)
    BY <1>1 DEF Clock
  <2>. DEFINE p == ExecuteIn
              o == ExecuteOut(p)
              e == ExceptionData(p, o)
              f == Flow(p, o, e)
  <2>2. MemoryStep(f, o, e) /\ InterruptStep(f, p, in)
    BY <2>1 DEF Tick
  <2>. HIDE DEF p
  <2>3. TakesInterrupt(p) /\ ~f.stall
    BY <2>2, <1>1 DEF InterruptStep
  <2>4. Raised(p, o) = {"INT"}
    BY <2>3 DEF Raised, TakesInterrupt
  <2>5. (CHOOSE c \in Raised(p, o) : TRUE) = "INT"
    BY <2>4
  <2>6. e.happen /\ e.code = "INT"
    BY <2>4, <2>5 DEF ExceptionData
  <2>. HIDE DEF e, f
  <2>7. mem'.excdata = e
    BY <2>2, <2>3 DEF MemoryStep, Latch, ExecuteOut
  <2>. QED  BY <2>6, <2>7
<1>. QED  BY <1>1, PTL DEF Spec, AcceptedIsTaken

----------------------------------------------------------------------------
\* The memory stage.

\* A store is strobed in the first cycle of a stall only (StoreOnce).
THEOREM StoresStrobeOnce == Spec => StoreOnce
<1>1. ASSUME MemWrite, Signals.stall, Next PROVE ~MemWrite'
  <2>1. CASE Reset
    BY <2>1 DEF Reset, EmptyMemory, MemWrite
  <2>2. CASE Clock
    BY <2>2, <1>1 DEF Clock, Tick, MemoryStep, Signals, MemWrite
  <2>. QED  BY <1>1, <2>1, <2>2 DEF Next
<1>. QED  BY <1>1, PTL DEF Spec, StoreOnce

\* The load-use stall is enough: a loaded register is never forwarded before
\* the data is there (LoadNotForwarded).
THEOREM LoadsAreNotForwarded == Spec => []LoadNotForwarded
<1>1. Init => LoadNotForwarded
  BY DEF Init, EmptyExecute, LoadNotForwarded
<1>2. Reset => LoadNotForwarded'
  BY DEF Reset, EmptyExecute, LoadNotForwarded
<1>3. ASSUME LoadNotForwarded, Clock PROVE LoadNotForwarded'
  <2>. SUFFICES ASSUME ex'.fetch, mem'.ctl.write_reg, mem'.ctl.reg_src = "MEM",
                       Announces(ex', mem'.dest_reg)
                PROVE  FALSE
    BY DEF LoadNotForwarded, Announces
  <2>1. PICK in \in IrqInput, done \in BOOLEAN : Tick(in, done)
    BY <1>3 DEF Clock
  <2>. DEFINE p == ExecuteIn
              o == ExecuteOut(p)
              e == ExceptionData(p, o)
              f == Flow(p, o, e)
  <2>2. ExecuteStep(f) /\ MemoryStep(f, o, e)
    BY <2>1 DEF Tick
  <2>3. CASE e.happen
    <3>1. mem'.ctl = ClearControl
      BY <2>2, <2>3, ExceptionSignals DEF MemoryStep, Latch, ExecuteOut
    <3>. QED  BY <3>1 DEF ClearControl
  <2>4. CASE ~e.happen /\ f.stall
    <3>1. f.ex_hold
      BY <2>4 DEF Flow
    <3>2. ex' = ex /\ mem' = mem
      BY <2>2, <2>4, <3>1 DEF ExecuteStep, MemoryStep, Latch
    <3>. QED  BY <1>3, <3>2 DEF LoadNotForwarded, Announces
  <2>5. CASE ~e.happen /\ ~f.stall
    <3>1. ~f.ex_hold /\ ~f.mem_nullify /\ (LoadUse(o) => f.ex_nullify)
      BY <2>5 DEF Flow
    <3>2. mem'.ctl = o.ctl /\ mem'.dest_reg = o.dest_reg
      BY <2>2, <2>5, <3>1 DEF MemoryStep, Latch, ExecuteOut
    <3>3. ~f.ex_nullify /\ ex' = DecodeOut
      BY <2>2, <3>1 DEF ExecuteStep, Latch, DecodeOut
    <3>4. ex'.ins = id.ins /\ ex'.ctl = Control(id.ins.op)
      BY <3>3 DEF DecodeOut
    <3>5. LoadUse(o)
      BY <3>2, <3>4 DEF LoadUse, Announces
    <3>. QED  BY <3>1, <3>3, <3>5
  <2>. QED  BY <2>3, <2>4, <2>5
<1>4. LoadNotForwarded /\ UNCHANGED vars => LoadNotForwarded'
  BY DEF LoadNotForwarded, Announces, vars, stages, arch
<1>. QED  BY <1>1, <1>2, <1>3, <1>4, PTL DEF Spec, Next

----------------------------------------------------------------------------
\* The control signals, by the unit they are for.

Steers(c, pc, exc, use) == c.pc_src = pc /\ c.exc_chk = exc /\ c.opd_use = use

Selects(c, a, b, fn)    == c.alu_srcA = a /\ c.alu_srcB = b /\ c.alu_funct = fn
Compares(c, a, b, flag) == c.alu_srcA = a /\ c.alu_srcB = b /\ c.flag_sel = flag

Result(c, dest, src, cond) ==
  c.write_reg /\ c.dest_reg = dest /\ c.reg_src = src /\ c.write_cond = cond

Quiet(c)    == ~c.write_hi /\ ~c.write_lo /\ ~c.write_llbit /\ ~c.write_cop0
NoMemory(c) == ~c.read_mem /\ c.mem_write_cond = "KEEP"

\* It has all the signals, so setting one leaves the others alone.
IsControl(c) == DOMAIN c = DOMAIN ClearControl

USE DEF RtypeOps, ShiftSaOps, ShiftVarOps, TrapOps, AluOps, MulDivOps, RegimmOps, LtzOps,
        GezOps, LinkBranchOps, TrapImmOps, Cop0Ops, Special2Ops, MulAccOps, Special3Ops,
        ByteShuffleOps, BranchEqOps, BranchNeOps, BranchLeOps, BranchGtOps, LogicImmOps,
        LoadOps, StoreOps

\* What the decoder makes of SLL.
LEMMA DecodedSLL ==
  ASSUME NEW c, c = Control("SLL")
  PROVE  /\ c.alu_srcB = "RT" /\ c.alu_funct = "SHIFT_LEFT" /\ Steers(c, "NEXT", "NONE", "RT")
         /\ Result(c, "RD", "ALU", "ALWAYS") /\ Quiet(c) /\ NoMemory(c)
         /\ c.muldiv_funct = "NCARE" /\ IsControl(c)
<1>1. c = [WriteRd(DefaultControl, "ALU") EXCEPT !.alu_srcB = "RT", !.alu_srcSa = "SA",
                  !.opd_use = "RT", !.alu_funct = "SHIFT_LEFT"]
  BY DEF Control, RtypeControl, FunctOf
<1>. QED  BY ONLY <1>1 DEF WriteRd, DefaultControl, ClearControl, Steers, Result, Quiet,
     NoMemory, IsControl

\* What the decoder makes of ADD.
LEMMA DecodedADD ==
  ASSUME NEW c, c = Control("ADD")
  PROVE  /\ Selects(c, "RS", "RT", "ADD") /\ Steers(c, "NEXT", "OVERFLOW", "BOTH")
         /\ Result(c, "RD", "ALU", "ALWAYS") /\ Quiet(c) /\ NoMemory(c)
         /\ c.muldiv_funct = "NCARE" /\ IsControl(c)
<1>1. c = [WriteRd(WithSources("RS", "RT"), "ALU") EXCEPT
             !.alu_funct = "ADD", !.exc_chk = "OVERFLOW"]
  BY DEF Control, RtypeControl, FunctOf
<1>. QED  BY ONLY <1>1 DEF WriteRd, WithSources, DefaultControl, ClearControl, Steers,
     Selects, Result, Quiet, NoMemory, IsControl

\* What the decoder makes of ADDU.
LEMMA DecodedADDU ==
  ASSUME NEW c, c = Control("ADDU")
  PROVE  /\ Selects(c, "RS", "RT", "ADD") /\ Steers(c, "NEXT", "NONE", "BOTH")
         /\ Result(c, "RD", "ALU", "ALWAYS") /\ Quiet(c) /\ NoMemory(c)
         /\ c.muldiv_funct = "NCARE" /\ IsControl(c)
<1>1. c = [WriteRd(WithSources("RS", "RT"), "ALU") EXCEPT !.alu_funct = "ADD", !.exc_chk = "NONE"]
  BY DEF Control, RtypeControl, FunctOf
<1>. QED  BY ONLY <1>1 DEF WriteRd, WithSources, DefaultControl, ClearControl, Steers,
     Selects, Result, Quiet, NoMemory, IsControl

\* What the decoder makes of SUBU.
LEMMA DecodedSUBU ==
  ASSUME NEW c, c = Control("SUBU")
  PROVE  /\ Selects(c, "RS", "RT", "SUB") /\ Steers(c, "NEXT", "NONE", "BOTH")
         /\ Result(c, "RD", "ALU", "ALWAYS") /\ Quiet(c) /\ NoMemory(c)
         /\ c.muldiv_funct = "NCARE" /\ IsControl(c)
<1>1. c = [WriteRd(WithSources("RS", "RT"), "ALU") EXCEPT !.alu_funct = "SUB", !.exc_chk = "NONE"]
  BY DEF Control, RtypeControl, FunctOf
<1>. QED  BY ONLY <1>1 DEF WriteRd, WithSources, DefaultControl, ClearControl, Steers,
     Selects, Result, Quiet, NoMemory, IsControl

\* What the decoder makes of SLT.
LEMMA DecodedSLT ==
  ASSUME NEW c, c = Control("SLT")
  PROVE  /\ Compares(c, "RS", "RT", "LT") /\ Steers(c, "NEXT", "NONE", "BOTH")
         /\ Result(c, "RD", "FLAG", "ALWAYS") /\ Quiet(c) /\ NoMemory(c)
         /\ c.muldiv_funct = "NCARE" /\ IsControl(c)
<1>1. c = [WriteRd(WithSources("RS", "RT"), "FLAG") EXCEPT !.flag_sel = "LT"]
  BY DEF Control, RtypeControl, FlagOf
<1>. QED  BY ONLY <1>1 DEF WriteRd, WithSources, DefaultControl, ClearControl, Steers,
     Compares, Result, Quiet, NoMemory, IsControl

\* What the decoder makes of ADDI.
LEMMA DecodedADDI ==
  ASSUME NEW c, c = Control("ADDI")
  PROVE  /\ Selects(c, "RS", "SIGN_IMMED", "ADD") /\ Steers(c, "NEXT", "OVERFLOW", "RS")
         /\ Result(c, "RT", "ALU", "ALWAYS") /\ Quiet(c) /\ NoMemory(c)
         /\ c.muldiv_funct = "NCARE" /\ IsControl(c)
<1>1. c = [WriteRt(WithSources("RS", "SIGN_IMMED"), "ALU") EXCEPT !.opd_use = "RS",
                  !.alu_funct = "ADD", !.exc_chk = "OVERFLOW"]
  BY DEF Control
<1>. QED  BY ONLY <1>1 DEF WriteRt, WithSources, DefaultControl, ClearControl, Steers,
     Selects, Result, Quiet, NoMemory, IsControl

\* What the decoder makes of ADDIU.
LEMMA DecodedADDIU ==
  ASSUME NEW c, c = Control("ADDIU")
  PROVE  /\ Selects(c, "RS", "SIGN_IMMED", "ADD") /\ Steers(c, "NEXT", "NONE", "RS")
         /\ Result(c, "RT", "ALU", "ALWAYS") /\ Quiet(c) /\ NoMemory(c)
         /\ c.muldiv_funct = "NCARE" /\ IsControl(c)
<1>1. c = [WriteRt(WithSources("RS", "SIGN_IMMED"), "ALU") EXCEPT !.opd_use = "RS",
                  !.alu_funct = "ADD", !.exc_chk = "NONE"]
  BY DEF Control
<1>. QED  BY ONLY <1>1 DEF WriteRt, WithSources, DefaultControl, ClearControl, Steers,
     Selects, Result, Quiet, NoMemory, IsControl

\* What the decoder makes of MOVZ.
LEMMA DecodedMOVZ ==
  ASSUME NEW c, c = Control("MOVZ")
  PROVE  /\ Compares(c, "RT", "ZERO", "EQ") /\ Steers(c, "NEXT", "NONE", "BOTH")
         /\ Result(c, "RD", "RS", "WHEN_FLAG") /\ Quiet(c) /\ NoMemory(c)
         /\ c.muldiv_funct = "NCARE" /\ IsControl(c)
<1>1. c = [WriteRd(WithSources("RT", "ZERO"), "RS") EXCEPT !.write_cond = "WHEN_FLAG",
                  !.flag_sel = "EQ"]
  BY DEF Control, RtypeControl, FlagOf
<1>. QED  BY ONLY <1>1 DEF WriteRd, WithSources, DefaultControl, ClearControl, Steers,
     Compares, Result, Quiet, NoMemory, IsControl

\* What the decoder makes of MOVN.
LEMMA DecodedMOVN ==
  ASSUME NEW c, c = Control("MOVN")
  PROVE  /\ Compares(c, "RT", "ZERO", "NE") /\ Steers(c, "NEXT", "NONE", "BOTH")
         /\ Result(c, "RD", "RS", "WHEN_FLAG") /\ Quiet(c) /\ NoMemory(c)
         /\ c.muldiv_funct = "NCARE" /\ IsControl(c)
<1>1. c = [WriteRd(WithSources("RT", "ZERO"), "RS") EXCEPT !.write_cond = "WHEN_FLAG",
                  !.flag_sel = "NE"]
  BY DEF Control, RtypeControl, FlagOf
<1>. QED  BY ONLY <1>1 DEF WriteRd, WithSources, DefaultControl, ClearControl, Steers,
     Compares, Result, Quiet, NoMemory, IsControl

\* What the decoder makes of MFHI.
LEMMA DecodedMFHI ==
  ASSUME NEW c, c = Control("MFHI")
  PROVE  /\ Steers(c, "NEXT", "NONE", "BOTH") /\ Result(c, "RD", "HI", "ALWAYS") /\ Quiet(c)
         /\ NoMemory(c) /\ c.muldiv_funct = "NCARE" /\ IsControl(c)
<1>1. c = WriteRd(DefaultControl, "HI")
  BY DEF Control, RtypeControl
<1>. QED  BY ONLY <1>1 DEF WriteRd, DefaultControl, ClearControl, Steers, Result, Quiet,
     NoMemory, IsControl

\* What the decoder makes of MFLO.
LEMMA DecodedMFLO ==
  ASSUME NEW c, c = Control("MFLO")
  PROVE  /\ Steers(c, "NEXT", "NONE", "BOTH") /\ Result(c, "RD", "LO", "ALWAYS") /\ Quiet(c)
         /\ NoMemory(c) /\ c.muldiv_funct = "NCARE" /\ IsControl(c)
<1>1. c = WriteRd(DefaultControl, "LO")
  BY DEF Control, RtypeControl
<1>. QED  BY ONLY <1>1 DEF WriteRd, DefaultControl, ClearControl, Steers, Result, Quiet,
     NoMemory, IsControl

\* What the decoder makes of MTHI.
LEMMA DecodedMTHI ==
  ASSUME NEW c, c = Control("MTHI")
  PROVE  /\ Steers(c, "NEXT", "NONE", "RS") /\ ~c.write_reg
         /\ c.write_hi /\ ~c.write_lo /\ c.hilo_src = "RS" /\ ~c.write_llbit /\ ~c.write_cop0
         /\ NoMemory(c) /\ c.muldiv_funct = "NCARE" /\ IsControl(c)
<1>1. c = [DefaultControl EXCEPT !.opd_use = "RS", !.hilo_src = "RS", !.write_hi = TRUE]
  BY DEF Control, RtypeControl
<1>. QED  BY ONLY <1>1 DEF DefaultControl, ClearControl, Steers, NoMemory, IsControl

\* What the decoder makes of MTLO.
LEMMA DecodedMTLO ==
  ASSUME NEW c, c = Control("MTLO")
  PROVE  /\ Steers(c, "NEXT", "NONE", "RS") /\ ~c.write_reg
         /\ c.write_lo /\ ~c.write_hi /\ c.hilo_src = "RS" /\ ~c.write_llbit /\ ~c.write_cop0
         /\ NoMemory(c) /\ c.muldiv_funct = "NCARE" /\ IsControl(c)
<1>1. c = [DefaultControl EXCEPT !.opd_use = "RS", !.hilo_src = "RS", !.write_lo = TRUE]
  BY DEF Control, RtypeControl
<1>. QED  BY ONLY <1>1 DEF DefaultControl, ClearControl, Steers, NoMemory, IsControl

\* What the decoder makes of MULT.
LEMMA DecodedMULT ==
  ASSUME NEW c, c = Control("MULT")
  PROVE  /\ Steers(c, "NEXT", "NONE", "BOTH") /\ ~c.write_reg
         /\ c.write_hi /\ c.write_lo /\ c.hilo_src = "MULDIV" /\ ~c.write_llbit /\ ~c.write_cop0
         /\ NoMemory(c) /\ c.muldiv_funct = "MULT" /\ IsControl(c)
<1>1. c = [DefaultControl EXCEPT !.hilo_src = "MULDIV", !.write_hi = TRUE, !.write_lo = TRUE,
                  !.muldiv_funct = "MULT"]
  BY DEF Control, RtypeControl
<1>. QED  BY ONLY <1>1 DEF DefaultControl, ClearControl, Steers, NoMemory, IsControl

\* What the decoder makes of MADD.
LEMMA DecodedMADD ==
  ASSUME NEW c, c = Control("MADD")
  PROVE  /\ Steers(c, "NEXT", "NONE", "BOTH") /\ ~c.write_reg
         /\ c.write_hi /\ c.write_lo /\ c.hilo_src = "MULDIV" /\ ~c.write_llbit /\ ~c.write_cop0
         /\ NoMemory(c) /\ c.muldiv_funct = "MADD" /\ IsControl(c)
<1>1. c = [DefaultControl EXCEPT !.hilo_src = "MULDIV", !.write_hi = TRUE, !.write_lo = TRUE,
                  !.muldiv_funct = "MADD"]
  BY DEF Control, Special2Control
<1>. QED  BY ONLY <1>1 DEF DefaultControl, ClearControl, Steers, NoMemory, IsControl

\* What the decoder makes of MUL.
LEMMA DecodedMUL ==
  ASSUME NEW c, c = Control("MUL")
  PROVE  /\ Steers(c, "NEXT", "NONE", "BOTH") /\ Result(c, "RD", "MUL", "ALWAYS") /\ Quiet(c)
         /\ NoMemory(c) /\ c.muldiv_funct = "MULT" /\ IsControl(c)
<1>1. c = [WriteRd(DefaultControl, "MUL") EXCEPT !.muldiv_funct = "MULT"]
  BY DEF Control, Special2Control
<1>. QED  BY ONLY <1>1 DEF WriteRd, DefaultControl, ClearControl, Steers, Result, Quiet,
     NoMemory, IsControl

\* What the decoder makes of TEQ.
LEMMA DecodedTEQ ==
  ASSUME NEW c, c = Control("TEQ")
  PROVE  /\ Compares(c, "RS", "RT", "EQ") /\ Steers(c, "NEXT", "TRAP", "BOTH") /\ ~c.write_reg
         /\ Quiet(c) /\ NoMemory(c) /\ c.muldiv_funct = "NCARE" /\ IsControl(c)
<1>1. c = [WithSources("RS", "RT") EXCEPT !.exc_chk = "TRAP", !.flag_sel = "EQ"]
  BY DEF Control, RtypeControl, FlagOf
<1>. QED  BY ONLY <1>1 DEF WithSources, DefaultControl, ClearControl, Steers, Compares,
     Quiet, NoMemory, IsControl

\* What the decoder makes of SYSCALL.
LEMMA DecodedSYSCALL ==
  ASSUME NEW c, c = Control("SYSCALL")
  PROVE  /\ Steers(c, "EXECPTION", "SYSCALL", "NONE") /\ ~c.write_reg /\ Quiet(c) /\ NoMemory(c)
         /\ c.muldiv_funct = "NCARE" /\ IsControl(c)
<1>1. c = [DefaultControl EXCEPT !.opd_use = "NONE", !.pc_src = "EXECPTION", !.exc_chk = "SYSCALL"]
  BY DEF Control, RtypeControl
<1>. QED  BY ONLY <1>1 DEF DefaultControl, ClearControl, Steers, Quiet, NoMemory, IsControl

\* What the decoder makes of BREAK.
LEMMA DecodedBREAK ==
  ASSUME NEW c, c = Control("BREAK")
  PROVE  /\ Steers(c, "EXECPTION", "BREAK", "NONE") /\ ~c.write_reg /\ Quiet(c) /\ NoMemory(c)
         /\ c.muldiv_funct = "NCARE" /\ IsControl(c)
<1>1. c = [DefaultControl EXCEPT !.opd_use = "NONE", !.pc_src = "EXECPTION", !.exc_chk = "BREAK"]
  BY DEF Control, RtypeControl
<1>. QED  BY ONLY <1>1 DEF DefaultControl, ClearControl, Steers, Quiet, NoMemory, IsControl

\* What the decoder makes of RESERVED.
LEMMA DecodedRESERVED ==
  ASSUME NEW c, c = Control("RESERVED")
  PROVE  /\ Steers(c, "EXECPTION", "RESERVERD", "NONE") /\ ~c.write_reg /\ Quiet(c) /\ NoMemory(c)
         /\ c.muldiv_funct = "NCARE" /\ IsControl(c)
<1>1. c = Reserved(DefaultControl)
  BY DEF Control
<1>. QED  BY ONLY <1>1 DEF Reserved, DefaultControl, ClearControl, Steers, Quiet, NoMemory,
     IsControl

\* What the decoder makes of J.
LEMMA DecodedJ ==
  ASSUME NEW c, c = Control("J")
  PROVE  /\ Steers(c, "JUMP", "NONE", "NONE") /\ ~c.write_reg /\ Quiet(c) /\ NoMemory(c)
         /\ c.muldiv_funct = "NCARE" /\ IsControl(c)
<1>1. c = [DefaultControl EXCEPT !.opd_use = "NONE", !.pc_src = "JUMP"]
  BY DEF Control
<1>. QED  BY ONLY <1>1 DEF DefaultControl, ClearControl, Steers, Quiet, NoMemory, IsControl

\* What the decoder makes of JAL.
LEMMA DecodedJAL ==
  ASSUME NEW c, c = Control("JAL")
  PROVE  /\ Steers(c, "JUMP", "NONE", "NONE") /\ Result(c, "31", "LINKADDR", "ALWAYS") /\ Quiet(c)
         /\ NoMemory(c) /\ c.muldiv_funct = "NCARE" /\ IsControl(c)
<1>1. c = [Link(DefaultControl) EXCEPT !.opd_use = "NONE", !.pc_src = "JUMP"]
  BY DEF Control
<1>. QED  BY ONLY <1>1 DEF Link, DefaultControl, ClearControl, Steers, Result, Quiet,
     NoMemory, IsControl

\* What the decoder makes of JR.
LEMMA DecodedJR ==
  ASSUME NEW c, c = Control("JR")
  PROVE  /\ Steers(c, "REGISTER", "NONE", "RS") /\ ~c.write_reg /\ Quiet(c) /\ NoMemory(c)
         /\ c.muldiv_funct = "NCARE" /\ IsControl(c)
<1>1. c = [DefaultControl EXCEPT !.opd_use = "RS", !.pc_src = "REGISTER"]
  BY DEF Control, RtypeControl
<1>. QED  BY ONLY <1>1 DEF DefaultControl, ClearControl, Steers, Quiet, NoMemory, IsControl

\* What the decoder makes of JALR.
LEMMA DecodedJALR ==
  ASSUME NEW c, c = Control("JALR")
  PROVE  /\ Steers(c, "REGISTER", "NONE", "RS") /\ Result(c, "RD", "LINKADDR", "ALWAYS")
         /\ Quiet(c) /\ NoMemory(c) /\ c.muldiv_funct = "NCARE" /\ IsControl(c)
<1>1. c = [WriteRd(DefaultControl, "LINKADDR") EXCEPT !.opd_use = "RS", !.pc_src = "REGISTER"]
  BY DEF Control, RtypeControl
<1>. QED  BY ONLY <1>1 DEF WriteRd, DefaultControl, ClearControl, Steers, Result, Quiet,
     NoMemory, IsControl

\* What the decoder makes of BEQ.
LEMMA DecodedBEQ ==
  ASSUME NEW c, c = Control("BEQ")
  PROVE  /\ Compares(c, "RS", "RT", "EQ") /\ Steers(c, "BRANCH", "NONE", "BOTH") /\ ~c.write_reg
         /\ Quiet(c) /\ NoMemory(c) /\ c.muldiv_funct = "NCARE" /\ IsControl(c)
<1>1. c = BranchWith(WithSources("RS", "RT"), "EQ")
  BY DEF Control
<1>. QED  BY ONLY <1>1 DEF BranchWith, WithSources, DefaultControl, ClearControl, Steers,
     Compares, Quiet, NoMemory, IsControl

\* What the decoder makes of BNE.
LEMMA DecodedBNE ==
  ASSUME NEW c, c = Control("BNE")
  PROVE  /\ Compares(c, "RS", "RT", "NE") /\ Steers(c, "BRANCH", "NONE", "BOTH") /\ ~c.write_reg
         /\ Quiet(c) /\ NoMemory(c) /\ c.muldiv_funct = "NCARE" /\ IsControl(c)
<1>1. c = BranchWith(WithSources("RS", "RT"), "NE")
  BY DEF Control
<1>. QED  BY ONLY <1>1 DEF BranchWith, WithSources, DefaultControl, ClearControl, Steers,
     Compares, Quiet, NoMemory, IsControl

\* What the decoder makes of BGEZAL.
LEMMA DecodedBGEZAL ==
  ASSUME NEW c, c = Control("BGEZAL")
  PROVE  /\ Compares(c, "RS", "ZERO", "GE") /\ Steers(c, "BRANCH", "NONE", "RS")
         /\ Result(c, "31", "LINKADDR", "ALWAYS") /\ Quiet(c) /\ NoMemory(c)
         /\ c.muldiv_funct = "NCARE" /\ IsControl(c)
<1>1. c = Link([BranchWith(WithSources("RS", "ZERO"), "GE") EXCEPT !.opd_use = "RS"])
  BY DEF Control, RegimmControl
<1>. QED  BY ONLY <1>1 DEF BranchWith, Link, WithSources, DefaultControl, ClearControl,
     Steers, Compares, Result, Quiet, NoMemory, IsControl

\* What the decoder makes of LW.
LEMMA DecodedLW ==
  ASSUME NEW c, c = Control("LW")
  PROVE  /\ Steers(c, "NEXT", "NONE", "RS") /\ Result(c, "RT", "MEM", "ALWAYS") /\ Quiet(c)
         /\ c.read_mem /\ c.mem_write_cond = "KEEP" /\ c.muldiv_funct = "NCARE" /\ IsControl(c)
<1>1. c = [WriteRt(MemAddrControl, "MEM") EXCEPT !.opd_use = "RS", !.read_mem = TRUE,
                  !.read_mode = "WORD"]
  BY DEF Control, ReadModeOf
<1>. QED  BY ONLY <1>1 DEF WriteRt, MemAddrControl, WithSources, DefaultControl,
     ClearControl, Steers, Result, Quiet, IsControl

\* What the decoder makes of SW.
LEMMA DecodedSW ==
  ASSUME NEW c, c = Control("SW")
  PROVE  /\ Steers(c, "NEXT", "NONE", "BOTH") /\ ~c.write_reg /\ Quiet(c)
         /\ ~c.read_mem /\ c.mem_write_cond = "ALWAYS" /\ c.muldiv_funct = "NCARE" /\ IsControl(c)
<1>1. c = [MemAddrControl EXCEPT !.mem_write_cond = "ALWAYS", !.write_mode = "WORD"]
  BY DEF Control, WriteModeOf
<1>. QED  BY ONLY <1>1 DEF MemAddrControl, WithSources, DefaultControl, ClearControl,
     Steers, Quiet, IsControl

\* What the decoder makes of LL.
LEMMA DecodedLL ==
  ASSUME NEW c, c = Control("LL")
  PROVE  /\ Steers(c, "NEXT", "NONE", "RS") /\ Result(c, "RT", "MEM", "ALWAYS")
         /\ ~c.write_hi /\ ~c.write_lo /\ c.write_llbit
         /\ c.write_cop0 /\ c.cop0_src = "LLADDR" /\ c.dest_cop0 = "LLADDR"
         /\ c.read_mem /\ c.mem_write_cond = "KEEP" /\ c.muldiv_funct = "NCARE" /\ IsControl(c)
<1>1. c = [WriteRt(MemAddrControl, "MEM") EXCEPT !.opd_use = "RS", !.write_llbit = TRUE,
                  !.read_mode = "WORD", !.read_mem = TRUE, !.write_cop0 = TRUE,
                  !.cop0_src = "LLADDR", !.dest_cop0 = "LLADDR"]
  BY DEF Control
<1>. QED  BY ONLY <1>1 DEF WriteRt, MemAddrControl, WithSources, DefaultControl,
     ClearControl, Steers, Result, IsControl

\* What the decoder makes of SC.
LEMMA DecodedSC ==
  ASSUME NEW c, c = Control("SC")
  PROVE  /\ Steers(c, "NEXT", "NONE", "BOTH") /\ Result(c, "RT", "LLBIT", "ALWAYS") /\ Quiet(c)
         /\ ~c.read_mem /\ c.mem_write_cond = "WHEN_LLBIT" /\ c.muldiv_funct = "NCARE"
         /\ IsControl(c)
<1>1. c = [WriteRt(MemAddrControl, "LLBIT") EXCEPT !.write_mode = "WORD",
                  !.mem_write_cond = "WHEN_LLBIT"]
  BY DEF Control
<1>. QED  BY ONLY <1>1 DEF WriteRt, MemAddrControl, WithSources, DefaultControl,
     ClearControl, Steers, Result, Quiet, IsControl

\* What the decoder makes of MTC0.
LEMMA DecodedMTC0 ==
  ASSUME NEW c, c = Control("MTC0")
  PROVE  /\ Steers(c, "NEXT", "NONE", "RT") /\ ~c.write_reg
         /\ ~c.write_hi /\ ~c.write_lo /\ ~c.write_llbit
         /\ c.write_cop0 /\ c.cop0_src = "RT" /\ c.dest_cop0 = "RDSEL" /\ NoMemory(c)
         /\ c.muldiv_funct = "NCARE" /\ IsControl(c)
<1>1. c = [DefaultControl EXCEPT !.opd_use = "RT", !.cop0_src = "RT", !.dest_cop0 = "RDSEL",
                  !.write_cop0 = TRUE]
  BY DEF Control, Cop0Control
<1>. QED  BY ONLY <1>1 DEF DefaultControl, ClearControl, Steers, NoMemory, IsControl

\* What the decoder makes of MFC0.
LEMMA DecodedMFC0 ==
  ASSUME NEW c, c = Control("MFC0")
  PROVE  /\ Steers(c, "NEXT", "NONE", "NONE") /\ Result(c, "RT", "COP0", "ALWAYS") /\ Quiet(c)
         /\ NoMemory(c) /\ c.muldiv_funct = "NCARE" /\ IsControl(c)
<1>1. c = [WriteRt(DefaultControl, "COP0") EXCEPT !.opd_use = "NONE"]
  BY DEF Control, Cop0Control
<1>. QED  BY ONLY <1>1 DEF WriteRt, DefaultControl, ClearControl, Steers, Result, Quiet,
     NoMemory, IsControl

\* What the decoder makes of EI.
LEMMA DecodedEI ==
  ASSUME NEW c, c = Control("EI")
  PROVE  /\ Steers(c, "NEXT", "NONE", "NONE") /\ Result(c, "RT", "COP0", "ALWAYS")
         /\ ~c.write_hi /\ ~c.write_lo /\ ~c.write_llbit
         /\ c.write_cop0 /\ c.cop0_src = "STATUS_EI" /\ c.dest_cop0 = "STATUS" /\ NoMemory(c)
         /\ c.muldiv_funct = "NCARE" /\ IsControl(c)
<1>1. c = [WriteRt(DefaultControl, "COP0") EXCEPT !.opd_use = "NONE", !.dest_cop0 = "STATUS",
                  !.write_cop0 = TRUE, !.cop0_src = "STATUS_EI"]
  BY DEF Control, Cop0Control
<1>. QED  BY ONLY <1>1 DEF WriteRt, DefaultControl, ClearControl, Steers, Result, NoMemory,
     IsControl

\* What the decoder makes of DI.
LEMMA DecodedDI ==
  ASSUME NEW c, c = Control("DI")
  PROVE  /\ Steers(c, "NEXT", "NONE", "NONE") /\ Result(c, "RT", "COP0", "ALWAYS")
         /\ ~c.write_hi /\ ~c.write_lo /\ ~c.write_llbit
         /\ c.write_cop0 /\ c.cop0_src = "STATUS_DI" /\ c.dest_cop0 = "STATUS" /\ NoMemory(c)
         /\ c.muldiv_funct = "NCARE" /\ IsControl(c)
<1>1. c = [WriteRt(DefaultControl, "COP0") EXCEPT !.opd_use = "NONE", !.dest_cop0 = "STATUS",
                  !.write_cop0 = TRUE, !.cop0_src = "STATUS_DI"]
  BY DEF Control, Cop0Control
<1>. QED  BY ONLY <1>1 DEF WriteRt, DefaultControl, ClearControl, Steers, Result, NoMemory,
     IsControl

\* What the decoder makes of ERET.
LEMMA DecodedERET ==
  ASSUME NEW c, c = Control("ERET")
  PROVE  /\ Steers(c, "ERET", "NONE", "NONE") /\ ~c.write_reg
         /\ ~c.write_hi /\ ~c.write_lo /\ ~c.write_llbit
         /\ c.write_cop0 /\ c.cop0_src = "STATUS_ERET" /\ c.dest_cop0 = "STATUS" /\ NoMemory(c)
         /\ c.muldiv_funct = "NCARE" /\ IsControl(c)
<1>1. c = [DefaultControl EXCEPT !.opd_use = "NONE", !.pc_src = "ERET", !.cop0_src = "STATUS_ERET",
                  !.dest_cop0 = "STATUS", !.write_cop0 = TRUE]
  BY DEF Control, Cop0Control
<1>. QED  BY ONLY <1>1 DEF DefaultControl, ClearControl, Steers, NoMemory, IsControl

HIDE DEF RtypeOps, ShiftSaOps, ShiftVarOps, TrapOps, AluOps, MulDivOps, RegimmOps, LtzOps,
         GezOps, LinkBranchOps, TrapImmOps, Cop0Ops, Special2Ops, MulAccOps, Special3Ops,
         ByteShuffleOps, BranchEqOps, BranchNeOps, BranchLeOps, BranchGtOps, LogicImmOps,
         LoadOps, StoreOps

----------------------------------------------------------------------------
\* The signals that tell one instruction from the others.

Branches  == {"BEQ", "BNE", "BGEZAL"}
JumpsTo   == {"J", "JAL"}
JumpsReg  == {"JR", "JALR"}
Stops     == {"SYSCALL", "BREAK", "RESERVED"}

\* What the flow controller and the exception controller look at (Control).
Characterises(c, op) ==
  /\ IsControl(c)
  /\ c.pc_src = IF op \in Branches THEN "BRANCH" ELSE IF op \in JumpsTo THEN "JUMP"
                ELSE IF op \in JumpsReg THEN "REGISTER" ELSE IF op = "ERET" THEN "ERET"
                ELSE IF op \in Stops THEN "EXECPTION" ELSE "NEXT"
  /\ c.exc_chk = IF op = "SYSCALL" THEN "SYSCALL" ELSE IF op = "BREAK" THEN "BREAK"
                 ELSE IF op = "RESERVED" THEN "RESERVERD" ELSE IF op = "TEQ" THEN "TRAP"
                 ELSE IF op \in {"ADD", "ADDI"} THEN "OVERFLOW" ELSE "NONE"
  /\ c.read_mem <=> op \in {"LW", "LL"}
  /\ c.write_reg /\ c.reg_src = "MEM" <=> op \in {"LW", "LL"}
  /\ c.mem_write_cond = IF op = "SW" THEN "ALWAYS"
                        ELSE IF op = "SC" THEN "WHEN_LLBIT" ELSE "KEEP"
  /\ c.write_cop0 /\ c.cop0_src = "RT" <=> op = "MTC0"

\* Those of the arithmetic instructions that write rd.
LEMMA CharacterisesAlu ==
  ASSUME NEW op \in {"SLL", "ADD", "ADDU", "SUBU", "SLT", "ADDI", "ADDIU", "MOVZ", "MOVN"}
  PROVE  Characterises(Control(op), op)
  BY DecodedSLL, DecodedADD, DecodedADDU, DecodedSUBU, DecodedSLT, DecodedADDI, DecodedADDIU,
     DecodedMOVZ, DecodedMOVN
  DEF Characterises, Branches, JumpsTo, JumpsReg, Stops, Steers, Result, Quiet, NoMemory

\* The same of those that use hi, lo and the multiplier.
LEMMA CharacterisesMul ==
  ASSUME NEW op \in {"MFHI", "MFLO", "MTHI", "MTLO", "MULT", "MADD", "MUL"}
  PROVE  Characterises(Control(op), op)
  BY DecodedMFHI, DecodedMFLO, DecodedMTHI, DecodedMTLO, DecodedMULT, DecodedMADD, DecodedMUL
  DEF Characterises, Branches, JumpsTo, JumpsReg, Stops, Steers, Result, Quiet, NoMemory

\* The same of the control transfers.
LEMMA CharacterisesTransfer ==
  ASSUME NEW op \in {"J", "JAL", "JR", "JALR", "BEQ", "BNE", "BGEZAL"}
  PROVE  Characterises(Control(op), op)
  BY DecodedJ, DecodedJAL, DecodedJR, DecodedJALR, DecodedBEQ, DecodedBNE, DecodedBGEZAL
  DEF Characterises, Branches, JumpsTo, JumpsReg, Stops, Steers, Result, Quiet, NoMemory

\* The same of the loads and stores.
LEMMA CharacterisesMem ==
  ASSUME NEW op \in {"LW", "SW", "LL", "SC"}
  PROVE  Characterises(Control(op), op)
  BY DecodedLW, DecodedSW, DecodedLL, DecodedSC
  DEF Characterises, Branches, JumpsTo, JumpsReg, Stops, Steers, Result, Quiet, NoMemory

\* The same of the traps and the system control instructions.
LEMMA CharacterisesSystem ==
  ASSUME NEW op \in {"TEQ", "SYSCALL", "BREAK", "RESERVED", "MTC0", "MFC0", "EI", "DI", "ERET"}
  PROVE  Characterises(Control(op), op)
  BY DecodedTEQ, DecodedSYSCALL, DecodedBREAK, DecodedRESERVED,
     DecodedMTC0, DecodedMFC0, DecodedEI, DecodedDI, DecodedERET
  DEF Characterises, Branches, JumpsTo, JumpsReg, Stops, Steers, Result, Quiet, NoMemory

\* The decoder characterises every instruction.
LEMMA Characterised == \A op \in CoreOp : Characterises(Control(op), op)
  BY CharacterisesAlu, CharacterisesMul, CharacterisesTransfer, CharacterisesMem,
     CharacterisesSystem, Zenon DEF CoreOp

----------------------------------------------------------------------------
\* What the execute stage hands on.

\* An instruction that writes no register; one whose result is in the memory
\* stage already; one whose result the memory is to deliver.
KeepsGpr(o)       == ~o.ctl.write_reg
Delivers(o, r, v) == /\ o.ctl.write_reg /\ o.ctl.reg_src # "MEM"
                     /\ o.dest_reg = r /\ o.dest_reg_data = v
Loads(o, r)       == /\ o.ctl.write_reg /\ o.ctl.reg_src = "MEM"
                     /\ o.dest_reg = r
KeepsMemory(o)    == ~o.ctl.read_mem /\ ~o.write_mem

\* ExecuteOut passes the control signals on.
LEMMA Outputs ==
  ASSUME NEW p, IsControl(p.ctl)
  PROVE  LET o == ExecuteOut(p)
         IN  /\ o.ctl.write_reg <=> /\ p.ctl.write_reg
                                    /\ p.ctl.write_cond = "WHEN_FLAG" => FlagSelected(p)
             /\ o.ctl.reg_src = p.ctl.reg_src /\ o.ctl.pc_src = p.ctl.pc_src
             /\ o.ctl.write_hi = p.ctl.write_hi /\ o.ctl.write_lo = p.ctl.write_lo
             /\ o.ctl.write_llbit = p.ctl.write_llbit /\ o.ctl.write_cop0 = p.ctl.write_cop0
             /\ o.ctl.read_mem = p.ctl.read_mem
  BY DEF IsControl, ClearControl, ExecuteOut

\* ExecuteOut is a register of the memory stage.
LEMMA OutputData ==
  ASSUME NEW p
  PROVE  LET o == ExecuteOut(p)
         IN  /\ o.dest_reg = DestReg(p) /\ o.dest_reg_data = RegisterData(p)
             /\ o.write_mem <=> \/ p.ctl.mem_write_cond = "ALWAYS"
                                \/ p.ctl.mem_write_cond = "WHEN_LLBIT" /\ p.llbit
             /\ o.mem_addr = Plus(p.rs, p.ins.imm) /\ o.rt = p.rt /\ o.fetch = p.fetch
             /\ o.dest_hi_data = HiData(p) /\ o.dest_lo_data = LoData(p)
             /\ o.dest_cop0 = DestCop0(p) /\ o.dest_cop0_data = Cop0Data(p)
             /\ o.dest_cop0_mask = Cop0Mask(p) /\ o.excdata = NoException
  BY DEF ExecuteOut

\* An instruction that writes nothing but registers.
LEMMA QuietOutputs ==
  ASSUME NEW p, IsControl(p.ctl)
  PROVE  /\ Quiet(p.ctl) => Quiet(ExecuteOut(p).ctl)
         /\ NoMemory(p.ctl) => KeepsMemory(ExecuteOut(p))
         /\ ~p.ctl.write_reg => KeepsGpr(ExecuteOut(p))
  BY Outputs, OutputData DEF Quiet, NoMemory, KeepsMemory, KeepsGpr

\* Where a result goes.
LEMMA Destination ==
  ASSUME NEW p
  PROVE  /\ p.ctl.dest_reg = "RD" => DestReg(p) = p.ins.rd
         /\ p.ctl.dest_reg = "RT" => DestReg(p) = p.ins.rt
         /\ p.ctl.dest_reg = "31" => DestReg(p) = RA
  BY DEF DestReg

\* Where a result comes from.
LEMMA Source ==
  ASSUME NEW p
  PROVE  /\ p.ctl.reg_src = "ALU" => RegisterData(p) = AluOut(p)
         /\ p.ctl.reg_src = "MUL" => RegisterData(p) = MulDivOut(p).lo
         /\ p.ctl.reg_src = "LINKADDR" => RegisterData(p) = LinkAddr(p)
         /\ p.ctl.reg_src = "RS" => RegisterData(p) = p.rs
         /\ p.ctl.reg_src = "FLAG" => RegisterData(p) = Bit(FlagSelected(p))
         /\ p.ctl.reg_src = "LLBIT" => RegisterData(p) = Bit(p.llbit)
         /\ p.ctl.reg_src = "HI" => RegisterData(p) = p.hi
         /\ p.ctl.reg_src = "LO" => RegisterData(p) = p.lo
         /\ p.ctl.reg_src = "COP0" => RegisterData(p) = p.cop0
  BY DEF RegisterData

\* A result of any source but the memory.
LEMMA ResultDelivered ==
  ASSUME NEW p, IsControl(p.ctl), NEW dest, NEW src, Result(p.ctl, dest, src, "ALWAYS"),
         src # "MEM"
  PROVE  Delivers(ExecuteOut(p), DestReg(p), RegisterData(p))
  BY Outputs, OutputData DEF Result, Delivers

\* The operands of the ALU and of the comparator.
LEMMA AluOperands ==
  ASSUME NEW p
  PROVE  /\ p.ctl.alu_srcA = "RS" => AluA(p) = p.rs
         /\ p.ctl.alu_srcA = "RT" => AluA(p) = p.rt
         /\ p.ctl.alu_srcB = "RT" => AluB(p) = p.rt
         /\ p.ctl.alu_srcB = "SIGN_IMMED" => AluB(p) = p.ins.imm
         /\ p.ctl.alu_srcB = "ZERO" => AluB(p) = 0
  BY DEF AluA, AluB

\* The function of the ALU.
LEMMA AluFunction ==
  ASSUME NEW p
  PROVE  /\ p.ctl.alu_funct = "ADD" => AluOut(p) = Plus(AluA(p), AluB(p))
         /\ p.ctl.alu_funct = "SUB" => AluOut(p) = Minus(AluA(p), AluB(p))
         /\ p.ctl.alu_funct = "SHIFT_LEFT"
              => AluOut(p) = IfDefined(AluB(p), (AluB(p) * 2^p.ins.imm) % N)
  BY DEF AluOut

----------------------------------------------------------------------------
\* Arithmetic modulo N.

\* A multiple of N does not show.
LEMMA ModShift ==
  ASSUME NEW n \in Int, NEW k \in Int
  PROVE  (n + k * N) % N = n % N
<1>1. N \in Nat \ {0}
  BY SizeAssumption, SMT
<1>2. PICK q \in Int, r \in 0 .. N - 1 : n = N * q + r /\ n \div N = q /\ n % N = r
  BY ONLY n \in Int, <1>1, IntDivision, Zenon
<1>3. q + k \in Int /\ n + k * N \in Int /\ n + k * N = N * (q + k) + r
  BY ONLY <1>1, <1>2, n \in Int, k \in Int, Z3
<1>. QED  BY ONLY <1>1, <1>2, <1>3, IntQuotient, Zenon

\* A sum may be reduced before the next addition.
LEMMA ModSum ==
  ASSUME NEW a \in Int, NEW b \in Int
  PROVE  ((a % N) + b) % N = (a + b) % N
<1>1. N \in Nat \ {0}
  BY SizeAssumption, SMT
<1>2. PICK q \in Int, r \in 0 .. N - 1 : a = N * q + r /\ a \div N = q /\ a % N = r
  BY ONLY a \in Int, <1>1, IntDivision, Zenon
<1>3. r + b \in Int /\ a + b = (r + b) + q * N
  BY ONLY <1>1, <1>2, b \in Int, Z3
<1>4. ((r + b) + q * N) % N = (r + b) % N
  BY ONLY <1>3, <1>2, ModShift
<1>. QED  BY ONLY <1>2, <1>3, <1>4

\* The low word of a product does not depend on the signs.
LEMMA SignedProduct ==
  ASSUME NEW a \in Word, NEW b \in Word
  PROVE  (Signed(a) * Signed(b)) % N = (a * b) % N
<1>1. a \in Int /\ b \in Int /\ N \in Int
  BY SizeAssumption, SMT DEF Word
<1>2. PICK x \in {0, 1} : Signed(a) = a - x * N
  BY <1>1, SMT DEF Signed
<1>3. PICK y \in {0, 1} : Signed(b) = b - y * N
  BY <1>1, SMT DEF Signed
<1>. DEFINE k == x * y * N - x * b - y * a
<1>4. k \in Int /\ a * b \in Int /\ (a - x * N) * (b - y * N) = a * b + k * N
  BY ONLY <1>1, x \in {0, 1}, y \in {0, 1}, SMT
<1>. HIDE DEF k
<1>. QED  BY ONLY <1>2, <1>3, <1>4, ModShift

\* The overflow flag is set when the sum of two signed words is not one.
LEMMA OverflowFlag ==
  ASSUME NEW a \in Word, NEW b \in Word
  PROVE  (/\ Negative(a) <=> Negative(b)
          /\ ~(Negative((a + b) % N) <=> Negative(a)))
         <=> Signed(a) + Signed(b) \notin -(N \div 2) .. N \div 2 - 1
<1>1. PICK h \in Nat : N = 2 * h /\ h >= 8 /\ N \div 2 = h
  BY SizeAssumption, SMT
<1>2. a \in Nat /\ a < 2 * h /\ b \in Nat /\ b < 2 * h
  BY <1>1, SMT DEF Word
<1>3. (a + b) % N = IF a + b < 2 * h THEN a + b ELSE a + b - 2 * h
  BY <1>1, <1>2, SMT
<1>4. (a + b) % N \in Word
  BY <1>1, <1>2, <1>3, SMT DEF Word
<1>. QED  BY <1>1, <1>2, <1>3, <1>4, SMT DEF Negative, Signed

----------------------------------------------------------------------------
\* Instruction by instruction: what is handed on, from operands that are words.

\* What the execute stage hands on for sll is what Isa computes.
LEMMA ExecutesSLL ==
  ASSUME NEW p, p.ctl = Control("SLL"), p.rt \in Word
  PROVE  Delivers(ExecuteOut(p), p.ins.rd, (p.rt * 2^p.ins.imm) % N)
<1>1. AluOut(p) = (p.rt * 2^p.ins.imm) % N
  BY DecodedSLL, AluOperands, AluFunction DEF IfDefined
<1>. QED  BY <1>1, DecodedSLL, ResultDelivered, Destination, Source DEF Result

\* add and addu.
LEMMA ExecutesADD ==
  ASSUME NEW p, p.ctl \in {Control("ADD"), Control("ADDU")}, p.rs \in Word, p.rt \in Word
  PROVE  Delivers(ExecuteOut(p), p.ins.rd, (p.rs + p.rt) % N)
<1>1. IsControl(p.ctl) /\ Selects(p.ctl, "RS", "RT", "ADD") /\ Result(p.ctl, "RD", "ALU", "ALWAYS")
  BY DecodedADD, DecodedADDU
<1>2. AluOut(p) = (p.rs + p.rt) % N
  BY <1>1, AluOperands, AluFunction DEF Selects, Plus, Defined
<1>. QED  BY <1>1, <1>2, ResultDelivered, Destination, Source DEF Result

\* What the execute stage hands on for subu is what Isa computes.
LEMMA ExecutesSUBU ==
  ASSUME NEW p, p.ctl = Control("SUBU"), p.rs \in Word, p.rt \in Word
  PROVE  Delivers(ExecuteOut(p), p.ins.rd, (p.rs - p.rt) % N)
<1>1. AluOut(p) = (p.rs - p.rt) % N
  BY DecodedSUBU, AluOperands, AluFunction DEF Selects, Minus, Defined
<1>. QED  BY <1>1, DecodedSUBU, ResultDelivered, Destination, Source DEF Result

\* addi and addiu.
LEMMA ExecutesADDI ==
  ASSUME NEW p, p.ctl \in {Control("ADDI"), Control("ADDIU")}, p.rs \in Word, p.ins.imm \in Word
  PROVE  Delivers(ExecuteOut(p), p.ins.rt, (p.rs + p.ins.imm) % N)
<1>1. /\ IsControl(p.ctl) /\ Selects(p.ctl, "RS", "SIGN_IMMED", "ADD")
      /\ Result(p.ctl, "RT", "ALU", "ALWAYS")
  BY DecodedADDI, DecodedADDIU
<1>2. AluOut(p) = (p.rs + p.ins.imm) % N
  BY <1>1, AluOperands, AluFunction DEF Selects, Plus, Defined
<1>. QED  BY <1>1, <1>2, ResultDelivered, Destination, Source DEF Result

\* The comparator, for the comparison that is selected.
LEMMA FlagFunction ==
  ASSUME NEW p
  PROVE  /\ p.ctl.flag_sel = "EQ" => (FlagSelected(p) <=> AluA(p) = AluB(p))
         /\ p.ctl.flag_sel = "NE" => (FlagSelected(p) <=> AluA(p) # AluB(p))
         /\ p.ctl.flag_sel = "LT" /\ AluA(p) \in Word /\ AluB(p) \in Word
              => (FlagSelected(p) <=> Signed(AluA(p)) < Signed(AluB(p)))
         /\ p.ctl.flag_sel = "GE" /\ AluA(p) \in Word /\ AluB(p) \in Word
              => (FlagSelected(p) <=> Signed(AluA(p)) >= Signed(AluB(p)))
  BY DEF FlagSelected, Compare, Defined

\* What the execute stage hands on for slt is what Isa computes.
LEMMA ExecutesSLT ==
  ASSUME NEW p, p.ctl = Control("SLT"), p.rs \in Word, p.rt \in Word
  PROVE  Delivers(ExecuteOut(p), p.ins.rd, Bit(Signed(p.rs) < Signed(p.rt)))
<1>1. FlagSelected(p) <=> Signed(p.rs) < Signed(p.rt)
  BY DecodedSLT, AluOperands, FlagFunction DEF Compares
<1>2. Bit(FlagSelected(p)) = Bit(Signed(p.rs) < Signed(p.rt))
  BY <1>1 DEF Bit
<1>. QED  BY <1>2, DecodedSLT, ResultDelivered, Destination, Source DEF Result

\* movz and movn.
LEMMA ExecutesMOV ==
  ASSUME NEW p, NEW moves,
         \/ p.ctl = Control("MOVZ") /\ (moves <=> p.rt = 0)
         \/ p.ctl = Control("MOVN") /\ (moves <=> p.rt # 0)
  PROVE  /\ moves => Delivers(ExecuteOut(p), p.ins.rd, p.rs)
         /\ ~moves => KeepsGpr(ExecuteOut(p))
<1>1. IsControl(p.ctl) /\ Result(p.ctl, "RD", "RS", "WHEN_FLAG")
  BY DecodedMOVZ, DecodedMOVN
<1>2. FlagSelected(p) <=> moves
  BY DecodedMOVZ, DecodedMOVN, AluOperands, FlagFunction DEF Compares
<1>. QED
  BY <1>1, <1>2, Outputs, OutputData, Destination, Source DEF Result, Delivers, KeepsGpr

\* mfhi, mflo and mfc0.
LEMMA ExecutesMoveFrom ==
  ASSUME NEW p
  PROVE  /\ p.ctl = Control("MFHI") => Delivers(ExecuteOut(p), p.ins.rd, p.hi)
         /\ p.ctl = Control("MFLO") => Delivers(ExecuteOut(p), p.ins.rd, p.lo)
         /\ p.ctl \in {Control("MFC0"), Control("EI"), Control("DI")}
              => Delivers(ExecuteOut(p), p.ins.rt, p.cop0)
<1>1. p.ctl = Control("MFHI") => Delivers(ExecuteOut(p), p.ins.rd, p.hi)
  BY DecodedMFHI, ResultDelivered, Destination, Source DEF Result
<1>2. p.ctl = Control("MFLO") => Delivers(ExecuteOut(p), p.ins.rd, p.lo)
  BY DecodedMFLO, ResultDelivered, Destination, Source DEF Result
<1>3. ASSUME p.ctl \in {Control("MFC0"), Control("EI"), Control("DI")}
      PROVE  Delivers(ExecuteOut(p), p.ins.rt, p.cop0)
  <2>1. IsControl(p.ctl) /\ Result(p.ctl, "RT", "COP0", "ALWAYS")
    BY <1>3, DecodedMFC0, DecodedEI, DecodedDI
  <2>. QED  BY <2>1, ResultDelivered, Destination, Source DEF Result
<1>. QED  BY <1>1, <1>2, <1>3

\* The multiplier, without and with accumulation.
LEMMA Multiplier ==
  ASSUME NEW p, p.rs \in Word, p.rt \in Word
  PROVE  LET product == Signed(p.rs) * Signed(p.rt)
         IN  /\ p.ctl.muldiv_funct # "MADD"
                  => MulDivOut(p) = [hi |-> (product \div N) % N, lo |-> product % N]
             /\ p.ctl.muldiv_funct = "MADD" /\ p.hi \in Word /\ p.lo \in Word
                  => MulDivOut(p) = [hi |-> ((p.hi * N + p.lo + product) \div N) % N,
                                     lo |-> (p.hi * N + p.lo + product) % N]
<1>. DEFINE product == Signed(p.rs) * Signed(p.rt)
<1>1. \A a \in Word : Signed(a) \in Int
  BY SizeAssumption, SMT DEF Signed, Negative, Word
<1>2. product \in Int
  BY <1>1
<1>. HIDE DEF product
<1>3. 0 + product = product
  BY <1>2
<1>4. MulDivOut(p) =
        LET madd == p.ctl.muldiv_funct = "MADD"
            sum  == (IF madd THEN p.hi * N + p.lo ELSE 0) + product
        IN  IF Defined(p.rs, p.rt) /\ (madd => Defined(p.hi, p.lo))
            THEN [hi |-> (sum \div N) % N, lo |-> sum % N]
            ELSE [hi |-> X, lo |-> X]
  BY DEF MulDivOut, product
<1>5. Defined(p.rs, p.rt)
  BY DEF Defined
<1>6. p.ctl.muldiv_funct # "MADD"
        => MulDivOut(p) = [hi |-> (product \div N) % N, lo |-> product % N]
  BY <1>3, <1>4, <1>5, Zenon
<1>7. p.ctl.muldiv_funct = "MADD" /\ p.hi \in Word /\ p.lo \in Word
        => MulDivOut(p) = [hi |-> ((p.hi * N + p.lo + product) \div N) % N,
                           lo |-> (p.hi * N + p.lo + product) % N]
  BY <1>4, <1>5, Zenon DEF Defined
<1>. QED  BY <1>6, <1>7 DEF product

\* What the execute stage hands on for mul is what Isa computes.
LEMMA ExecutesMUL ==
  ASSUME NEW p, p.ctl = Control("MUL"), p.rs \in Word, p.rt \in Word
  PROVE  Delivers(ExecuteOut(p), p.ins.rd, (p.rs * p.rt) % N)
<1>1. p.ctl.muldiv_funct = "MULT"
  BY DecodedMUL
<1>2. MulDivOut(p).lo = (Signed(p.rs) * Signed(p.rt)) % N
  BY <1>1, Multiplier
<1>3. MulDivOut(p).lo = (p.rs * p.rt) % N
  BY ONLY <1>2, p.rs \in Word, p.rt \in Word, SignedProduct
<1>4. RegisterData(p) = (p.rs * p.rt) % N
  BY <1>3, DecodedMUL, Source DEF Result
<1>. QED  BY <1>4, DecodedMUL, ResultDelivered, Destination DEF Result

\* mult, madd, mthi and mtlo.
LEMMA ExecutesHiLo ==
  ASSUME NEW p
  PROVE  /\ p.ctl.hilo_src = "RS" => HiData(p) = p.rs /\ LoData(p) = p.rs
         /\ p.ctl.hilo_src = "MULDIV" => HiData(p) = MulDivOut(p).hi /\ LoData(p) = MulDivOut(p).lo
  BY DEF HiData, LoData

\* The instructions that link.
LEMMA ExecutesLink ==
  ASSUME NEW p, p.pc \in Word
  PROVE  /\ p.ctl \in {Control("JAL"), Control("BGEZAL")}
              => Delivers(ExecuteOut(p), RA, (p.pc + 2) % N)
         /\ p.ctl = Control("JALR") => Delivers(ExecuteOut(p), p.ins.rd, (p.pc + 2) % N)
<1>1. LinkAddr(p) = (p.pc + 2) % N
  BY SizeAssumption DEF LinkAddr, Plus, Defined, Word
<1>2. ASSUME p.ctl \in {Control("JAL"), Control("BGEZAL")}
      PROVE  Delivers(ExecuteOut(p), RA, (p.pc + 2) % N)
  <2>1. IsControl(p.ctl) /\ Result(p.ctl, "31", "LINKADDR", "ALWAYS")
    BY <1>2, DecodedJAL, DecodedBGEZAL
  <2>. QED  BY <1>1, <2>1, ResultDelivered, Destination, Source DEF Result
<1>3. p.ctl = Control("JALR") => Delivers(ExecuteOut(p), p.ins.rd, (p.pc + 2) % N)
  BY <1>1, DecodedJALR, ResultDelivered, Destination, Source DEF Result
<1>. QED  BY <1>2, <1>3

\* Whether a branch is taken, and to where.
LEMMA ExecutesBranch ==
  ASSUME NEW p, p.rs \in Word
  PROVE  /\ p.ctl = Control("BEQ") => (TakesBranch(p) <=> p.rs = p.rt)
         /\ p.ctl = Control("BNE") => (TakesBranch(p) <=> p.rs # p.rt)
         /\ p.ctl = Control("BGEZAL") => (TakesBranch(p) <=> ~Negative(p.rs))
<1>1. p.ctl = Control("BEQ") => (TakesBranch(p) <=> p.rs = p.rt)
  BY DecodedBEQ, AluOperands, FlagFunction DEF TakesBranch, Compares, Steers
<1>2. p.ctl = Control("BNE") => (TakesBranch(p) <=> p.rs # p.rt)
  BY DecodedBNE, AluOperands, FlagFunction DEF TakesBranch, Compares, Steers
<1>3. ASSUME p.ctl = Control("BGEZAL") PROVE TakesBranch(p) <=> ~Negative(p.rs)
  <2>1. 0 \in Word /\ Signed(0) = 0 /\ (Signed(p.rs) >= 0 <=> ~Negative(p.rs))
    BY SizeAssumption, SMT DEF Signed, Negative, Word
  <2>. QED
    BY <1>3, <2>1, DecodedBGEZAL, AluOperands, FlagFunction DEF TakesBranch, Compares, Steers
<1>. QED  BY <1>1, <1>2, <1>3

\* A branch counts from the instruction after it.
LEMMA BranchTarget ==
  ASSUME NEW pc \in Word, NEW imm \in Word
  PROVE  Plus(Plus(pc, 1), imm) = (pc + 1 + imm) % N
<1>1. 1 \in Word /\ pc \in Int /\ imm \in Int /\ pc + 1 \in Int /\ pc + 1 + imm = (pc + 1) + imm
  BY SizeAssumption, SMT DEF Word
<1>2. Plus(pc, 1) = (pc + 1) % N /\ Plus(pc, 1) \in Word
  BY <1>1, SizeAssumption, SMT DEF Plus, Defined, Word
<1>3. Plus(Plus(pc, 1), imm) = (((pc + 1) % N) + imm) % N
  BY <1>2 DEF Plus, Defined
<1>. QED  BY ONLY <1>1, <1>3, ModSum

\* What is written to coprocessor 0.
LEMMA ExecutesCop0 ==
  ASSUME NEW p
  PROVE  /\ p.ctl = Control("MTC0") => DestCop0(p) = p.ins.c0 /\ Cop0Data(p) = p.rt
         /\ p.ctl = Control("LL") => DestCop0(p) = "LLAddr" /\ Cop0Data(p) = Plus(p.rs, p.ins.imm)
         /\ p.ctl = Control("EI") /\ p.status \in Word
              => DestCop0(p) = "Status" /\ Cop0Data(p) = SetIE(p.status)
         /\ p.ctl = Control("DI") /\ p.status \in Word
              => DestCop0(p) = "Status" /\ Cop0Data(p) = ClearIE(p.status)
         /\ p.ctl = Control("ERET") /\ p.status \in Word
              => DestCop0(p) = "Status" /\ Cop0Data(p) = AfterEret(p.status)
<1>1. p.ctl = Control("MTC0") => DestCop0(p) = p.ins.c0 /\ Cop0Data(p) = p.rt
  BY DecodedMTC0 DEF DestCop0, Cop0Data
<1>2. p.ctl = Control("LL") => DestCop0(p) = "LLAddr" /\ Cop0Data(p) = Plus(p.rs, p.ins.imm)
  BY DecodedLL DEF DestCop0, Cop0Data
<1>3. p.ctl = Control("EI") /\ p.status \in Word
        => DestCop0(p) = "Status" /\ Cop0Data(p) = SetIE(p.status)
  BY DecodedEI DEF DestCop0, Cop0Data, IfDefined
<1>4. p.ctl = Control("DI") /\ p.status \in Word
        => DestCop0(p) = "Status" /\ Cop0Data(p) = ClearIE(p.status)
  BY DecodedDI DEF DestCop0, Cop0Data, IfDefined
<1>5. p.ctl = Control("ERET") /\ p.status \in Word
        => DestCop0(p) = "Status" /\ Cop0Data(p) = AfterEret(p.status)
  BY DecodedERET DEF DestCop0, Cop0Data, IfDefined
<1>. QED  BY <1>1, <1>2, <1>3, <1>4, <1>5

----------------------------------------------------------------------------
\* The inductive invariant.  A bubble is a stage that holds no instruction.

Succ(a) == (a + 1) % N

Jump(s) == s.ctl.pc_src = "JUMP"

\* The stages hold instructions of the program, or bubbles.
StagesHold ==
  /\ pc_reg \in Word
  /\ IF id.fetch THEN id.pc \in Word /\ id.ins = imem[id.pc] ELSE id.ins = Nop
  /\ IF ex.fetch THEN ex.pc \in Word /\ ex.ins = imem[ex.pc] /\ ex.ctl = Control(ex.ins.op)
     ELSE ex.ctl \in {ClearControl, Control("SLL")} /\ (ex.ctl # ClearControl => ex.ins = Nop)

\* They follow one another: the next stage holds the instruction after, and a
\* jump that has left the decode stage has set the address being fetched.
PcFollows ==
  /\ id.fetch => pc_reg = IF ex.fetch /\ Jump(ex) THEN ex.ins.imm ELSE Succ(id.pc)
  /\ ex.fetch /\ Transfers(ex.ins) => id.fetch /\ id.pc = Succ(ex.pc)

\* What the execute stage holds is current where nothing is forwarded to it.
HeldRegister(r, held) ==
  ~Supplies(mem, r) /\ ~Supplies(wb, r) => held = IF r = 0 THEN 0 ELSE rf[r]

OperandsHeld ==
  /\ HeldRegister(ex.ins.rs, ex.rs) /\ HeldRegister(ex.ins.rt, ex.rt)
  /\ ForwardHi(ex.hi) = ForwardHi(hi) /\ ForwardLo(ex.lo) = ForwardLo(lo)
  /\ ForwardLlbit(ex.llbit) = ForwardLlbit(llbit)
  /\ ex.fetch =>
       /\ ForwardCop0("Status", ex.status) = Cop0Next["Status"]
       /\ ForwardCop0Read(ex.ins.c0, ex.cop0) = Cop0Next[ex.ins.c0]
       /\ ForwardCop0("EPC", ex.epc) = Cop0Next["EPC"]
       /\ ForwardCop0("ErrorEPC", ex.errorepc) = Cop0Next["ErrorEPC"]

\* A load does not write the memory, what it delivers is read there, and a
\* write of coprocessor 0 has access to its register.
MemoryHolds ==
  /\ mem.ctl.read_mem => ~mem.write_mem
  /\ mem.ctl.write_reg /\ mem.ctl.reg_src = "MEM" => mem.ctl.read_mem
  /\ mem.ctl.write_cop0 => mem.dest_cop0_mask

\* Nothing a program sees is undefined (Arch!TypeOK).
RInv == StagesHold /\ PcFollows /\ OperandsHeld /\ MemoryHolds /\ Arch!TypeOK

----------------------------------------------------------------------------
\* The clock edge.

Out == ExecuteOut(ExecuteIn)
Exc == ExceptionData(ExecuteIn, Out)

ClockEdge ==
  /\ FetchStep(Signals) /\ DecodeStep(Signals) /\ ExecuteStep(Signals)
  /\ MemoryStep(Signals, Out, Exc) /\ WriteBackStep(Signals)
  /\ RegisterStep
  /\ cop0' = Cop0Next /\ cause' = CauseNext /\ imem' = imem

\* Tick, without what a program never sees.
LEMMA ClockIsEdge == Clock => ClockEdge
  BY DEF Clock, Tick, ClockEdge, Signals, Out, Exc

\* The flow controller, for the instruction in the execute stage.
LEMMA SignalsDefined ==
  LET s       == Signals
      p       == ExecuteIn
      eret    == p.ctl.pc_src = "ERET"
      nullify == Exc.happen \/ eret \/ LoadUse(Out)
  IN  /\ s.stall <=> ExecuteBusy(p, nullify)
      /\ s.ex_nullify <=> nullify
      /\ s.mem_nullify <=> Exc.happen
      /\ s.id_hold <=> ~Exc.happen /\ (s.stall \/ LoadUse(Out))
      /\ s.ex_hold <=> ~Exc.happen /\ s.stall
      /\ s.stall_fetch <=> ~Exc.happen /\ (InstructionBusy \/ LoadUse(Out) \/ s.stall)
      /\ s.id_nullify <=> \/ Exc.happen \/ TakesBranch(p) \/ p.ctl.pc_src \in {"REGISTER", "ERET"}
                          \/ InstructionBusy
      /\ s.load <=> \/ Exc.happen \/ TakesBranch(p) \/ p.ctl.pc_src \in {"REGISTER", "ERET"}
                    \/ Jumps
      /\ s.pc = IF Exc.happen THEN ExcVector(Exc.code)
                ELSE IF eret THEN
                  IfDefined(p.status, ReturnAddress(p.status, p.errorepc, p.epc))
                ELSE IF p.ctl.pc_src = "REGISTER" THEN p.rs
                ELSE IF TakesBranch(p) THEN Plus(Plus(p.pc, 1), p.ins.imm)
                ELSE id.ins.imm
<1>. DEFINE p == ExecuteIn
<1>1. Signals = Flow(p, Out, Exc)
  BY DEF Signals, Out, Exc
<1>. HIDE DEF p
<1>2. \A b : ExecuteBusy(p, b) \in BOOLEAN
  BY DEF ExecuteBusy
<1>. QED  BY <1>1, <1>2 DEF Flow, p

\* An exception: all the stages but write back become bubbles.
LEMMA ExceptionEdge ==
  ASSUME ClockEdge, Exc.happen
  PROVE  /\ ~Signals.stall
         /\ ~mem'.fetch /\ mem'.ctl = ClearControl /\ ~mem'.write_mem /\ mem'.excdata = Exc
         /\ ~ex'.fetch /\ ex'.ctl = ClearControl
         /\ ~id'.fetch /\ id'.ins = Nop
         /\ pc_reg' = ExcVector(Exc.code)
<1>1. /\ Signals.load /\ ~Signals.stall_fetch /\ Signals.id_nullify /\ ~Signals.id_hold
      /\ Signals.ex_nullify /\ ~Signals.ex_hold /\ Signals.mem_nullify /\ ~Signals.stall
      /\ Signals.pc = ExcVector(Exc.code)
  BY ExceptionSignals DEF Signals, Out, Exc
<1>2. ~mem'.fetch /\ mem'.ctl = ClearControl /\ ~mem'.write_mem /\ mem'.excdata = Exc
  BY <1>1, OutputData DEF ClockEdge, MemoryStep, Latch, Out, ExecuteOut
<1>3. ~ex'.fetch /\ ex'.ctl = ClearControl
  BY <1>1 DEF ClockEdge, ExecuteStep, Latch, DecodeOut
<1>4. ~id'.fetch /\ id'.ins = Nop
  BY <1>1 DEF ClockEdge, DecodeStep, Latch
<1>5. pc_reg' = ExcVector(Exc.code)
  BY <1>1 DEF ClockEdge, FetchStep
<1>. QED  BY <1>1, <1>2, <1>3, <1>4, <1>5

\* The multiplier holds the execute stage, and every stage with it.
LEMMA StalledEdge ==
  ASSUME ClockEdge, Signals.stall
  PROVE  /\ ~Exc.happen
         /\ pc_reg' = pc_reg /\ id' = id /\ ex' = ex /\ mem' = mem /\ wb' = wb
         /\ prev_stall' = TRUE
<1>1. Signals.stall \in BOOLEAN /\ ~Exc.happen
  BY SignalsDefined DEF ExecuteBusy, Signals, Flow
<1>2. Signals.stall_fetch /\ Signals.id_hold /\ Signals.ex_hold
  BY <1>1, SignalsDefined
<1>. QED
  BY <1>1, <1>2
  DEF ClockEdge, FetchStep, DecodeStep, ExecuteStep, MemoryStep, WriteBackStep, Latch

\* The instruction in the execute stage moves on.
LEMMA MovingEdge ==
  ASSUME TypeOK, ClockEdge, ~Signals.stall, ~Exc.happen
  PROVE  /\ mem' = Out /\ prev_stall' = FALSE
         /\ ex' = IF Signals.ex_nullify
                  THEN [DecodeOut EXCEPT !.fetch = FALSE, !.ctl = ClearControl] ELSE DecodeOut
<1>1. ~Signals.ex_hold /\ ~Signals.mem_nullify /\ Signals.stall \in BOOLEAN
  BY SignalsDefined DEF Signals, Flow, ExecuteBusy
<1>2. Exc = NoException
  BY DEF Exc, ExceptionData
<1>3. [Out EXCEPT !.excdata = NoException] = Out
  <2>1. Out \in MemoryRegister /\ Out.excdata = NoException
    BY ExecuteInType, ExecuteOutType, OutputData DEF Out
  <2>. QED  BY <2>1 DEF MemoryRegister
<1>4. mem' = Out
  BY <1>1, <1>2, <1>3 DEF ClockEdge, MemoryStep, Latch
<1>5. prev_stall' = FALSE
  BY <1>1 DEF ClockEdge, MemoryStep
<1>. QED  BY <1>1, <1>4, <1>5 DEF ClockEdge, ExecuteStep, Latch

\* The memory stage moves on to write back.
LEMMA AdvancingEdge ==
  ASSUME ClockEdge, ~Signals.stall
  PROVE  /\ prev_stall' = FALSE
         /\ wb' = [ctl |-> mem.ctl, dest_reg |-> mem.dest_reg,
                   dest_reg_data |-> mem.dest_reg_data, mem_data |-> MemData]
         /\ ex'.ins = id.ins
         /\ ex'.rs = ForwardToDecode(id.ins.rs) /\ ex'.rt = ForwardToDecode(id.ins.rt)
         /\ ex'.hi = ForwardHi(hi) /\ ex'.lo = ForwardLo(lo) /\ ex'.llbit = ForwardLlbit(llbit)
         /\ ex'.status = ForwardCop0("Status", cop0["Status"])
         /\ ex'.cop0 = ForwardCop0Read(id.ins.c0, cop0[id.ins.c0])
         /\ ex'.epc = ForwardCop0("EPC", cop0["EPC"])
         /\ ex'.errorepc = ForwardCop0("ErrorEPC", cop0["ErrorEPC"])
<1>1. ~Signals.ex_hold /\ Signals.stall \in BOOLEAN
  BY SignalsDefined DEF Signals, Flow, ExecuteBusy
<1>2. prev_stall' = FALSE
  BY <1>1 DEF ClockEdge, MemoryStep
<1>3. wb' = [ctl |-> mem.ctl, dest_reg |-> mem.dest_reg,
             dest_reg_data |-> mem.dest_reg_data, mem_data |-> MemData]
  BY DEF ClockEdge, WriteBackStep, Latch
<1>4. \/ ex' = DecodeOut
      \/ ex' = [DecodeOut EXCEPT !.fetch = FALSE, !.ctl = ClearControl]
  BY <1>1 DEF ClockEdge, ExecuteStep, Latch
<1>5. CASE ex' = DecodeOut
  BY <1>2, <1>3, <1>5 DEF DecodeOut
<1>6. CASE ex' = [DecodeOut EXCEPT !.fetch = FALSE, !.ctl = ClearControl]
  BY <1>2, <1>3, <1>6 DEF DecodeOut
<1>. QED  BY <1>4, <1>5, <1>6

----------------------------------------------------------------------------
\* What a program sees of the clock edge.

\* What moves on to write back, and what was there, are in the registers the
\* decode stage reads.
LEMMA DecodeReadsNext ==
  ASSUME TypeOK, ClockEdge, ~Signals.stall, NEW r \in Reg
  PROVE  ForwardToDecode(r)' = AbsGpr[r]
<1>1. /\ Supplies(wb', r) <=> Supplies(mem, r)
      /\ wb'.ctl.reg_src = mem.ctl.reg_src
      /\ wb'.mem_data = MemData /\ wb'.dest_reg_data = mem.dest_reg_data
  <2>1. /\ wb'.ctl = mem.ctl /\ wb'.dest_reg = mem.dest_reg
        /\ wb'.mem_data = MemData /\ wb'.dest_reg_data = mem.dest_reg_data
    <3>1. wb' = [ctl |-> mem.ctl, dest_reg |-> mem.dest_reg,
                 dest_reg_data |-> mem.dest_reg_data, mem_data |-> MemData]
      BY AdvancingEdge, Zenon
    <3>. QED  BY ONLY <3>1
  <2>. QED  BY ONLY <2>1 DEF Supplies
<1>2. WbData' = IF mem.ctl.reg_src = "MEM" THEN MemData ELSE mem.dest_reg_data
  BY <1>1 DEF WbData
<1>3. rf' = IF wb.ctl.write_reg /\ wb.dest_reg # 0
            THEN [rf EXCEPT ![wb.dest_reg] = WbData] ELSE rf
  BY DEF ClockEdge, RegisterStep
<1>4. AbsGpr[r] = IF ~Supplies(mem, r) THEN ForwardToDecode(r)
                  ELSE IF mem.ctl.reg_src = "MEM" THEN MemData ELSE mem.dest_reg_data
  BY DEF AbsGpr
<1>5. ForwardToDecode(r)' = IF Supplies(wb', r) THEN WbData' ELSE IF r = 0 THEN 0 ELSE rf'[r]
  BY DEF ForwardToDecode
<1>6. CASE Supplies(mem, r)
  BY <1>1, <1>2, <1>4, <1>5, <1>6
<1>7. CASE ~Supplies(mem, r)
  <2>1. rf \in [Reg -> Value]
    BY DEF TypeOK
  <2>2. r # 0 => rf'[r] = IF Supplies(wb, r) THEN WbData ELSE rf[r]
    BY <1>3, <2>1 DEF Supplies
  <2>3. Supplies(wb, r) => r # 0
    BY DEF Supplies
  <2>. QED  BY <1>1, <1>4, <1>5, <1>7, <2>2, <2>3 DEF ForwardToDecode
<1>. QED  BY <1>6, <1>7

\* The general registers: what the memory stage now holds has been executed.
LEMMA GprNext ==
  ASSUME TypeOK, ClockEdge, ~Signals.stall
  PROVE  AbsGpr' = [r \in Reg |-> IF ~Supplies(mem', r) THEN AbsGpr[r]
                                  ELSE IF mem'.ctl.reg_src = "MEM" THEN MemData'
                                  ELSE mem'.dest_reg_data]
<1>1. AbsGpr' = [r \in Reg |-> IF ~Supplies(mem', r) THEN ForwardToDecode(r)'
                               ELSE IF mem'.ctl.reg_src = "MEM" THEN MemData'
                               ELSE mem'.dest_reg_data]
  BY DEF AbsGpr
<1>. QED  BY <1>1, DecodeReadsNext

\* The memory: the store in the memory stage has been strobed.
LEMMA MemoryNext ==
  ASSUME ClockEdge, ~Signals.stall
  PROVE  /\ Stored' = IF mem'.write_mem /\ mem'.mem_addr \in DataAddr
                      THEN [Stored EXCEPT ![mem'.mem_addr] = mem'.rt] ELSE Stored
         /\ ~mem'.write_mem
              => MemData' = IF mem'.ctl.read_mem /\ mem'.mem_addr \in DataAddr
                            THEN Stored[mem'.mem_addr] ELSE X
<1>1. dmem' = Stored /\ prev_stall' = FALSE
  BY AdvancingEdge DEF ClockEdge, RegisterStep
<1>. QED  BY <1>1 DEF Stored, MemData, MemWrite

\* The other registers.
LEMMA RegistersNext ==
  ASSUME ClockEdge
  PROVE  /\ ForwardHi(hi)' = IF mem'.ctl.write_hi THEN mem'.dest_hi_data ELSE ForwardHi(hi)
         /\ ForwardLo(lo)' = IF mem'.ctl.write_lo THEN mem'.dest_lo_data ELSE ForwardLo(lo)
         /\ ForwardLlbit(llbit)' = IF mem'.ctl.write_llbit \/ mem'.excdata.happen
                                   THEN ~mem'.excdata.happen ELSE ForwardLlbit(llbit)
         /\ CauseNext' = IF mem'.excdata.happen
                         THEN [code |-> mem'.excdata.code, bd |-> mem'.excdata.bd]
                         ELSE CauseNext
         /\ ~mem'.excdata.happen
              => Cop0Next' = IF mem'.ctl.write_cop0
                             THEN [Cop0Next EXCEPT ![mem'.dest_cop0] = mem'.dest_cop0_data]
                             ELSE Cop0Next
<1>1. /\ hi' = ForwardHi(hi) /\ lo' = ForwardLo(lo) /\ llbit' = ForwardLlbit(llbit)
      /\ cop0' = Cop0Next /\ cause' = CauseNext
  BY DEF ClockEdge, RegisterStep
<1>2. /\ ForwardHi(hi)' = IF mem'.ctl.write_hi THEN mem'.dest_hi_data ELSE hi'
      /\ ForwardLo(lo)' = IF mem'.ctl.write_lo THEN mem'.dest_lo_data ELSE lo'
      /\ ForwardLlbit(llbit)' = IF mem'.ctl.write_llbit \/ mem'.excdata.happen
                                THEN ~mem'.excdata.happen ELSE llbit'
  BY DEF ForwardHi, ForwardLo, ForwardLlbit, WriteLlbit, DestLlbitData
<1>3. CauseNext' = IF mem'.excdata.happen
                   THEN [code |-> mem'.excdata.code, bd |-> mem'.excdata.bd] ELSE cause'
  BY DEF CauseNext
<1>4. ~mem'.excdata.happen => Cop0Next' = Cop0Written'
  BY DEF Cop0Next
<1>5. Cop0Written' = IF mem'.ctl.write_cop0
                     THEN [cop0' EXCEPT ![mem'.dest_cop0] = mem'.dest_cop0_data] ELSE cop0'
  BY DEF Cop0Written
<1>. QED  BY <1>1, <1>2, <1>3, <1>4, <1>5, Zenon

----------------------------------------------------------------------------
\* Isa and Core have the words, registers and instructions of Machine in common.
LEMMA ArchSets ==
  /\ Arch!Word = Word /\ Arch!Reg = Reg /\ Arch!Cop0Reg = Cop0Reg /\ Arch!CoreOp = CoreOp
  /\ Arch!Instr = Instr /\ Arch!ExcCode = ExcCode /\ Arch!Cause = Cause /\ Arch!RA = RA
  /\ Arch!ResetGpr = ResetGpr /\ Arch!ResetCop0 = ResetCop0 /\ Arch!ResetCause = ResetCause
<1>1. /\ Arch!Word = Word /\ Arch!Reg = Reg /\ Arch!Cop0Reg = Cop0Reg /\ Arch!CoreOp = CoreOp
      /\ Arch!ExcCode = ExcCode /\ Arch!RA = RA /\ Arch!ResetCause = ResetCause
  BY DEF Word, Reg, Cop0Reg, CoreOp, ExcCode, RA, ResetCause, Arch!Word, Arch!Reg, Arch!Cop0Reg,
         Arch!CoreOp, Arch!ExcCode, Arch!RA, Arch!ResetCause
<1>. QED
  BY <1>1 DEF Instr, Cause, ResetGpr, ResetCop0, ResetStatus, Arch!Instr, Arch!Cause,
              Arch!ResetGpr, Arch!ResetCop0, Arch!ResetStatus

\* So are the operators on them.
LEMMA ArchOperators ==
  /\ \A a : Arch!Negative(a) = Negative(a) /\ Arch!Signed(a) = Signed(a) /\ Arch!Bit(a) = Bit(a)
  /\ \A s : /\ Arch!SetIE(s) = SetIE(s) /\ Arch!ClearIE(s) = ClearIE(s)
            /\ Arch!SetEXL(s) = SetEXL(s) /\ Arch!AfterEret(s) = AfterEret(s)
            /\ Arch!InterruptsEnabled(s) = InterruptsEnabled(s)
  /\ \A s, ee, e : Arch!ReturnAddress(s, ee, e) = ReturnAddress(s, ee, e)
  /\ \A c : Arch!ExcVector(c) = ExcVector(c)
  /\ \A a : Arch!Succ(a) = Succ(a)
<1>1. \A s : /\ Arch!IE(s) = IE(s) /\ Arch!EXL(s) = EXL(s) /\ Arch!ERL(s) = ERL(s)
            /\ Arch!IM(s) = IM(s)
  BY DEF IE, EXL, ERL, IM, Arch!IE, Arch!EXL, Arch!ERL, Arch!IM
<1>2. \A s : Arch!ClearEXL(s) = ClearEXL(s) /\ Arch!ClearERL(s) = ClearERL(s)
  BY <1>1 DEF ClearEXL, ClearERL, Arch!ClearEXL, Arch!ClearERL
<1>3. \A a : Arch!Negative(a) = Negative(a)
  BY ArchSets DEF Negative, Arch!Negative
<1>. QED
  BY <1>1, <1>2, <1>3
  DEF Signed, Bit, SetIE, ClearIE, SetEXL, AfterEret, InterruptsEnabled, ReturnAddress,
      ExcVector, Succ, Arch!Signed, Arch!Bit, Arch!SetIE, Arch!ClearIE, Arch!SetEXL,
      Arch!AfterEret, Arch!InterruptsEnabled, Arch!ReturnAddress, Arch!ExcVector, Arch!Succ

\* The type invariant of Isa, of the state the pipeline stands for.
LEMMA ArchTyped ==
  Arch!TypeOK <=>
    /\ imem \in [Word -> Instr] /\ Stored \in [DataAddr -> Word]
    /\ AbsPc \in Word /\ AbsNpc \in Word /\ AbsSlot \in BOOLEAN
    /\ AbsGpr \in [Reg -> Word] /\ ForwardHi(hi) \in Word /\ ForwardLo(lo) \in Word
    /\ ForwardLlbit(llbit) \in BOOLEAN
    /\ Cop0Next \in [Cop0Reg -> Word] /\ CauseNext \in Cause
  BY ArchSets DEF Arch!TypeOK

----------------------------------------------------------------------------
\* The operands of the instruction in the execute stage are those of the next
\* instruction to execute.

\* ExecuteIn keeps what is not forwarded.
LEMMA ExecuteInKeeps ==
  ASSUME TypeOK
  PROVE  LET p == ExecuteIn
         IN  /\ p.fetch = ex.fetch /\ p.pc = ex.pc /\ p.ins = ex.ins /\ p.ctl = ex.ctl
             /\ p.rs = ForwardToExecute(ex.ins.rs, ex.rs)
             /\ p.rt = ForwardToExecute(ex.ins.rt, ex.rt)
             /\ p.hi = ForwardHi(ex.hi) /\ p.lo = ForwardLo(ex.lo)
             /\ p.llbit = ForwardLlbit(ex.llbit)
             /\ p.cop0 = ForwardCop0Read(ex.ins.c0, ex.cop0)
             /\ p.status = ForwardCop0("Status", ex.status)
             /\ p.epc = ForwardCop0("EPC", ex.epc)
             /\ p.errorepc = ForwardCop0("ErrorEPC", ex.errorepc)
  BY DEF TypeOK, ExecuteRegister, ExecuteIn

\* A register the instruction announces it uses.
LEMMA RegisterCurrent ==
  ASSUME LoadNotForwarded, ex.fetch, NEW r \in Reg, Announces(ex, r),
         NEW held, HeldRegister(r, held)
  PROVE  ForwardToExecute(r, held) = AbsGpr[r]
<1>1. Supplies(mem, r) => mem.ctl.reg_src # "MEM"
  BY DEF LoadNotForwarded, Supplies
<1>2. AbsGpr[r] = IF ~Supplies(mem, r) THEN ForwardToDecode(r)
                  ELSE IF mem.ctl.reg_src = "MEM" THEN MemData ELSE mem.dest_reg_data
  BY DEF AbsGpr
<1>. QED  BY <1>1, <1>2 DEF ForwardToExecute, ForwardToDecode, HeldRegister

\* The instruction at pc is the one in the execute stage.
LEMMA InstructionInExecute ==
  ASSUME StagesHold, ex.fetch
  PROVE  /\ AbsPc = ex.pc /\ Arch!i = ex.ins /\ ex.ctl = Control(ex.ins.op)
         /\ Arch!rs = AbsGpr[ex.ins.rs] /\ Arch!rt = AbsGpr[ex.ins.rt]
         /\ Arch!ea = (Arch!rs + ex.ins.imm) % N
         /\ Arch!Status = Cop0Next["Status"]
<1>1. AbsPc = ex.pc
  BY DEF AbsPc
<1>2. Arch!i = ex.ins /\ ex.ctl = Control(ex.ins.op)
  BY <1>1 DEF Arch!i, StagesHold
<1>. QED  BY <1>1, <1>2 DEF Arch!rs, Arch!rt, Arch!ea, Arch!Status

\* Every operand is current, and a word.
LEMMA OperandsCurrent ==
  ASSUME TypeOK, RInv, LoadNotForwarded, ex.fetch
  PROVE  LET p == ExecuteIn
         IN  /\ p.ctl.opd_use \in {"BOTH", "RS"} => p.rs = Arch!rs
             /\ p.ctl.opd_use \in {"BOTH", "RT"} => p.rt = Arch!rt
             /\ p.hi = ForwardHi(hi) /\ p.lo = ForwardLo(lo)
             /\ p.llbit = ForwardLlbit(llbit)
             /\ p.cop0 = Cop0Next[ex.ins.c0] /\ p.status = Arch!Status
             /\ p.epc = Cop0Next["EPC"] /\ p.errorepc = Cop0Next["ErrorEPC"]
<1>1. ex.ins \in Instr /\ ex.ins.rs \in Reg /\ ex.ins.rt \in Reg
  BY DEF TypeOK, ExecuteRegister, Instr
<1>2. OperandsHeld /\ StagesHold
  BY DEF RInv
<1>3. ExecuteIn.ctl = ex.ctl
  BY ExecuteInKeeps
<1>4. ex.ctl.opd_use \in {"BOTH", "RS"} => ExecuteIn.rs = Arch!rs
  <2>1. ex.ctl.opd_use \in {"BOTH", "RS"} => Announces(ex, ex.ins.rs)
    BY DEF Announces
  <2>2. HeldRegister(ex.ins.rs, ex.rs) /\ Arch!rs = AbsGpr[ex.ins.rs]
    BY <1>2, InstructionInExecute DEF OperandsHeld
  <2>. QED  BY <1>1, <2>1, <2>2, RegisterCurrent, ExecuteInKeeps
<1>5. ex.ctl.opd_use \in {"BOTH", "RT"} => ExecuteIn.rt = Arch!rt
  <2>1. ex.ctl.opd_use \in {"BOTH", "RT"} => Announces(ex, ex.ins.rt)
    BY DEF Announces
  <2>2. HeldRegister(ex.ins.rt, ex.rt) /\ Arch!rt = AbsGpr[ex.ins.rt]
    BY <1>2, InstructionInExecute DEF OperandsHeld
  <2>. QED  BY <1>1, <2>1, <2>2, RegisterCurrent, ExecuteInKeeps
<1>6. /\ ExecuteIn.hi = ForwardHi(hi) /\ ExecuteIn.lo = ForwardLo(lo)
      /\ ExecuteIn.llbit = ForwardLlbit(llbit)
      /\ ExecuteIn.cop0 = Cop0Next[ex.ins.c0] /\ ExecuteIn.status = Arch!Status
      /\ ExecuteIn.epc = Cop0Next["EPC"] /\ ExecuteIn.errorepc = Cop0Next["ErrorEPC"]
  BY <1>2, ExecuteInKeeps, InstructionInExecute DEF OperandsHeld
<1>. QED  BY <1>3, <1>4, <1>5, <1>6

\* What the instruction-set specification works on.
LEMMA ArchWords ==
  ASSUME TypeOK, RInv, ex.fetch
  PROVE  /\ ex.ins \in Instr /\ ex.ins.op \in CoreOp /\ ex.ins.imm \in Word
         /\ ex.ins.rs \in Reg /\ ex.ins.rt \in Reg /\ ex.ins.rd \in Reg
         /\ ex.ins.c0 \in Cop0Reg /\ ex.pc \in Word
         /\ Arch!rs \in Word /\ Arch!rt \in Word /\ Arch!ea \in Word
         /\ Arch!Status \in Word
<1>1. /\ ex.ins \in Instr /\ ex.ins.op \in CoreOp /\ ex.ins.imm \in Word
      /\ ex.ins.rs \in Reg /\ ex.ins.rt \in Reg /\ ex.ins.rd \in Reg /\ ex.ins.c0 \in Cop0Reg
  BY DEF TypeOK, ExecuteRegister, Instr
<1>2. StagesHold /\ ex.pc \in Word /\ AbsGpr \in [Reg -> Word] /\ Cop0Next \in [Cop0Reg -> Word]
  <2>1. StagesHold /\ Arch!TypeOK
    BY DEF RInv
  <2>2. ex.pc \in Word
    BY <2>1 DEF StagesHold
  <2>. QED  BY <2>1, <2>2, ArchTyped
<1>3. Arch!rs \in Word /\ Arch!rt \in Word /\ Arch!Status \in Word
  BY <1>1, <1>2, InstructionInExecute DEF Cop0Reg
<1>4. \A a, b \in Word : (a + b) % N \in Word
  BY SizeAssumption, SMT DEF Word
<1>5. Arch!ea \in Word
  BY <1>1, <1>2, <1>3, <1>4, InstructionInExecute
<1>. QED  BY <1>1, <1>2, <1>3, <1>5

----------------------------------------------------------------------------
\* The effect of an instruction that leaves the execute stage.

\* On the general registers.
LEMMA RetiresGpr ==
  ASSUME TypeOK, Arch!TypeOK, ClockEdge, ~Signals.stall, ~Exc.happen
  PROVE  /\ KeepsGpr(Out) => AbsGpr' = AbsGpr
         /\ \A r \in Reg : \A v : Delivers(Out, r, v) => Arch!Write(r, v)
         /\ \A r \in Reg : Loads(Out, r) => Arch!Write(r, MemData')
<1>1. mem' = Out
  BY MovingEdge
<1>2. AbsGpr \in [Reg -> Word]
  BY ArchTyped
<1>3. AbsGpr' = [r \in Reg |-> IF ~Supplies(Out, r) THEN AbsGpr[r]
                               ELSE IF Out.ctl.reg_src = "MEM" THEN MemData'
                               ELSE Out.dest_reg_data]
  BY <1>1, GprNext
<1>. HIDE DEF Out
<1>4. KeepsGpr(Out) => AbsGpr' = AbsGpr
  BY <1>2, <1>3 DEF KeepsGpr, Supplies
<1>5. ASSUME NEW r \in Reg, NEW v, NEW o, ~Supplies(o, 0),
             \A s \in Reg : Supplies(o, s) <=> s = r /\ r # 0,
             AbsGpr' = [s \in Reg |-> IF ~Supplies(o, s) THEN AbsGpr[s] ELSE v]
      PROVE  Arch!Write(r, v)
  <2>1. CASE r = 0
    BY <1>2, <1>5, <2>1 DEF Arch!Write
  <2>2. CASE r # 0
    BY <1>2, <1>5, <2>2 DEF Arch!Write
  <2>. QED  BY <2>1, <2>2
<1>6. ASSUME NEW r \in Reg, NEW v, Delivers(Out, r, v) PROVE Arch!Write(r, v)
  <2>1. AbsGpr' = [s \in Reg |-> IF ~Supplies(Out, s) THEN AbsGpr[s] ELSE v]
    BY <1>3, <1>6 DEF Delivers
  <2>2. ~Supplies(Out, 0) /\ \A s \in Reg : Supplies(Out, s) <=> s = r /\ r # 0
    BY <1>6 DEF Delivers, Supplies
  <2>. QED  BY <1>5, <2>1, <2>2
<1>7. ASSUME NEW r \in Reg, Loads(Out, r) PROVE Arch!Write(r, MemData')
  <2>1. AbsGpr' = [s \in Reg |-> IF ~Supplies(Out, s) THEN AbsGpr[s] ELSE MemData']
    BY <1>3, <1>7 DEF Loads
  <2>2. ~Supplies(Out, 0) /\ \A s \in Reg : Supplies(Out, s) <=> s = r /\ r # 0
    BY <1>7 DEF Loads, Supplies
  <2>. QED  BY <1>5, <2>1, <2>2
<1>. QED  BY <1>4, <1>6, <1>7

\* On the other registers and on the memory.
LEMMA RetiresRest ==
  ASSUME TypeOK, ClockEdge, ~Signals.stall, ~Exc.happen
  PROVE  /\ ForwardHi(hi)' = IF Out.ctl.write_hi THEN Out.dest_hi_data ELSE ForwardHi(hi)
         /\ ForwardLo(lo)' = IF Out.ctl.write_lo THEN Out.dest_lo_data ELSE ForwardLo(lo)
         /\ ForwardLlbit(llbit)' = IF Out.ctl.write_llbit THEN TRUE ELSE ForwardLlbit(llbit)
         /\ CauseNext' = CauseNext
         /\ Cop0Next' = IF Out.ctl.write_cop0
                        THEN [Cop0Next EXCEPT ![Out.dest_cop0] = Out.dest_cop0_data]
                        ELSE Cop0Next
         /\ Stored' = IF Out.write_mem /\ Out.mem_addr \in DataAddr
                      THEN [Stored EXCEPT ![Out.mem_addr] = Out.rt] ELSE Stored
         /\ ~Out.write_mem
              => MemData' = IF Out.ctl.read_mem /\ Out.mem_addr \in DataAddr
                            THEN Stored[Out.mem_addr] ELSE X
         /\ imem' = imem
<1>1. mem' = Out
  BY MovingEdge
<1>2. ~Out.excdata.happen
  BY OutputData DEF Out, NoException
<1>3. imem' = imem
  BY DEF ClockEdge
<1>. HIDE DEF Out
<1>. QED  BY <1>1, <1>2, <1>3, RegistersNext, MemoryNext

\* An instruction that writes general registers only, or nothing.
LEMMA RetiresQuietly ==
  ASSUME TypeOK, ClockEdge, ~Signals.stall, ~Exc.happen, Quiet(Out.ctl), KeepsMemory(Out)
  PROVE  /\ ForwardHi(hi)' = ForwardHi(hi) /\ ForwardLo(lo)' = ForwardLo(lo)
         /\ ForwardLlbit(llbit)' = ForwardLlbit(llbit)
         /\ Cop0Next' = Cop0Next /\ CauseNext' = CauseNext
         /\ Stored' = Stored /\ imem' = imem
<1>. HIDE DEF Out
<1>. QED  BY RetiresRest DEF Quiet, KeepsMemory

----------------------------------------------------------------------------
\* The fetch and decode stages.

\* A bubble in the execute stage is one in every respect.
LEMMA BubbleOut ==
  ASSUME TypeOK, StagesHold, ~ex.fetch
  PROVE  /\ ExecuteIn.ctl.pc_src = "NEXT" /\ Out.ctl.pc_src = "NEXT"
         /\ ~(Out.ctl.write_reg /\ Out.ctl.reg_src = "MEM")
         /\ Quiet(Out.ctl) /\ KeepsMemory(Out)
         /\ KeepsGpr(Out) \/ (Out.ctl.write_reg /\ Out.dest_reg = 0 /\ Out.ctl.reg_src # "MEM")
         /\ ~Exc.happen
<1>1. /\ ExecuteIn.ctl = ex.ctl /\ ExecuteIn.ins = ex.ins /\ ~ExecuteIn.fetch
  BY ExecuteInKeeps
<1>2. ex.ctl = ClearControl \/ (ex.ctl = Control("SLL") /\ ex.ins = Nop)
  BY DEF StagesHold
<1>3. ~Exc.happen
  BY <1>1 DEF Exc, ExceptionData, Raised, NoException
<1>4. CASE ex.ctl = ClearControl
  <2>1. /\ IsControl(ex.ctl) /\ Quiet(ex.ctl) /\ NoMemory(ex.ctl) /\ ~ex.ctl.write_reg
        /\ ex.ctl.pc_src = "NEXT"
    BY <1>4 DEF IsControl, Quiet, NoMemory, ClearControl
  <2>. QED  BY <1>1, <1>3, <2>1, QuietOutputs, Outputs DEF Out, KeepsGpr
<1>5. CASE ex.ctl = Control("SLL") /\ ex.ins = Nop
  <2>1. /\ IsControl(ex.ctl) /\ Quiet(ex.ctl) /\ NoMemory(ex.ctl) /\ ex.ctl.pc_src = "NEXT"
        /\ ex.ctl.reg_src = "ALU" /\ ex.ctl.dest_reg = "RD"
    BY <1>5, DecodedSLL DEF Steers, Result
  <2>2. Out.dest_reg = 0
    BY <1>1, <1>5, <2>1, OutputData, Destination DEF Out, Nop
  <2>. QED  BY <1>1, <1>3, <2>1, <2>2, QuietOutputs, Outputs DEF Out, KeepsGpr
<1>. QED  BY <1>2, <1>4, <1>5

\* Only a load makes the instruction behind it wait for its result.
LEMMA LoadUseIsLoad ==
  ASSUME TypeOK, StagesHold, LoadUse(Out)
  PROVE  ex.fetch /\ ex.ins.op \in {"LW", "LL"} /\ ex.ctl.pc_src = "NEXT"
<1>1. Out.ctl.write_reg /\ Out.ctl.reg_src = "MEM"
  BY DEF LoadUse
<1>2. ex.fetch
  BY <1>1, BubbleOut
<1>3. ex.ins.op \in CoreOp /\ ex.ctl = Control(ex.ins.op)
  BY <1>2 DEF StagesHold, TypeOK, ExecuteRegister, Instr
<1>4. Characterises(ex.ctl, ex.ins.op)
  BY <1>3, Characterised
<1>5. Out.ctl.write_reg => ex.ctl.write_reg
  BY <1>4, ExecuteInKeeps, Outputs DEF Out, Characterises
<1>6. Out.ctl.reg_src = ex.ctl.reg_src
  BY <1>4, ExecuteInKeeps, Outputs DEF Out, Characterises
<1>. QED
  BY <1>1, <1>2, <1>4, <1>5, <1>6
  DEF Characterises, Branches, JumpsTo, JumpsReg, Stops

\* While a load makes it wait, the instruction in the decode stage stays.
LEMMA LoadUseEdge ==
  ASSUME ClockEdge, ~Signals.stall, ~Exc.happen, LoadUse(Out), TypeOK
  PROVE  /\ id' = id /\ pc_reg' = pc_reg
         /\ ~ex'.fetch /\ ex'.ctl = ClearControl
<1>1. Signals.id_hold /\ Signals.stall_fetch /\ Signals.ex_nullify
  BY SignalsDefined
<1>2. id' = id /\ pc_reg' = pc_reg
  BY <1>1 DEF ClockEdge, DecodeStep, FetchStep, Latch
<1>. QED  BY <1>1, <1>2, MovingEdge DEF DecodeOut

\* The instruction being fetched is nullified when the one in the execute stage
\* goes elsewhere.
Redirects == TakesBranch(ExecuteIn) \/ ExecuteIn.ctl.pc_src \in {"REGISTER", "ERET"}

\* Otherwise the fetch and the decode stage move on.
LEMMA FetchEdge ==
  ASSUME ClockEdge, ~Signals.stall, ~Exc.happen, ~LoadUse(Out), pc_reg \in Word
  PROVE  /\ id'.fetch <=> ~Redirects /\ ~InstructionBusy
         /\ id'.fetch => id'.pc = pc_reg /\ id'.ins = imem[pc_reg]
         /\ ~id'.fetch => id'.ins = Nop
         /\ pc_reg' = IF InstructionBusy THEN pc_reg
                      ELSE IF Redirects \/ Jumps THEN Signals.pc ELSE Succ(pc_reg)
<1>1. /\ ~Signals.id_hold
      /\ Signals.id_nullify <=> Redirects \/ InstructionBusy
      /\ Signals.stall_fetch <=> InstructionBusy
      /\ Signals.load <=> Redirects \/ Jumps
  BY SignalsDefined DEF Redirects
<1>. DEFINE in == [fetch |-> TRUE, pc |-> pc_reg, ins |-> imem[pc_reg]]
<1>2. id' = IF Signals.id_nullify THEN [in EXCEPT !.fetch = FALSE, !.ins = Nop] ELSE in
  BY <1>1 DEF ClockEdge, DecodeStep, Latch
<1>3. Plus(pc_reg, 1) = Succ(pc_reg)
  BY SizeAssumption, SMT DEF Plus, Defined, Succ, Word
<1>4. pc_reg' = IF InstructionBusy THEN pc_reg
                ELSE IF Redirects \/ Jumps THEN Signals.pc ELSE Succ(pc_reg)
  BY <1>1, <1>3 DEF ClockEdge, FetchStep
<1>5. CASE Signals.id_nullify
  BY <1>1, <1>2, <1>4, <1>5
<1>6. CASE ~Signals.id_nullify
  BY <1>1, <1>2, <1>4, <1>6
<1>. QED  BY <1>5, <1>6

\* The instruction in the decode stage goes to the execute stage.
LEMMA DecodeEdge ==
  ASSUME TypeOK, ClockEdge, ~Signals.stall, ~Exc.happen, ~LoadUse(Out),
         ExecuteIn.ctl.pc_src # "ERET"
  PROVE  /\ ex'.fetch = id.fetch /\ ex'.pc = id.pc /\ ex'.ins = id.ins
         /\ ex'.ctl = Control(id.ins.op)
<1>1. ~Signals.ex_nullify
  BY SignalsDefined
<1>2. ex' = DecodeOut
  BY <1>1, MovingEdge
<1>. QED  BY ONLY <1>2 DEF DecodeOut

----------------------------------------------------------------------------
\* The program counters.

\* A control transfer, by what the decoder makes of it.
LEMMA TransferSource ==
  ASSUME TypeOK, StagesHold, ex.fetch, ~Exc.happen
  PROVE  /\ ex.ctl.pc_src \in {"NEXT", "BRANCH", "JUMP", "REGISTER", "ERET", "EXECPTION"}
         /\ Transfers(ex.ins) <=> ex.ctl.pc_src \notin {"NEXT", "EXECPTION"}
         /\ Out.ctl.pc_src = ex.ctl.pc_src /\ ExecuteIn.ctl = ex.ctl
<1>1. ex.ins.op \in CoreOp /\ ex.ctl = Control(ex.ins.op)
  BY DEF StagesHold, TypeOK, ExecuteRegister, Instr
<1>2. Characterises(ex.ctl, ex.ins.op)
  BY <1>1, Characterised
<1>3. ex.ctl.pc_src \in {"NEXT", "BRANCH", "JUMP", "REGISTER", "ERET", "EXECPTION"}
  BY <1>2 DEF Characterises
<1>4. Transfers(ex.ins) <=> ex.ctl.pc_src \notin {"NEXT", "EXECPTION"}
  BY <1>1, <1>3 DEF Transfers
<1>5. ExecuteIn.ctl = ex.ctl
  BY ExecuteInKeeps
<1>6. Out.ctl.pc_src = ex.ctl.pc_src
  BY <1>2, <1>5, Outputs DEF Out, Characterises
<1>. QED  BY <1>3, <1>4, <1>5, <1>6

\* A bubble in the execute stage takes no branch.
LEMMA NoTransferNoRedirect ==
  ASSUME ExecuteIn.ctl.pc_src \notin {"BRANCH", "REGISTER", "ERET"}
  PROVE  ~Redirects
  BY DEF Redirects, TakesBranch

\* The instruction in the decode stage jumps.
LEMMA JumpInDecode ==
  ASSUME TypeOK, StagesHold
  PROVE  /\ Jumps => id.fetch /\ Transfers(id.ins)
         /\ Jumps <=> Control(id.ins.op).pc_src = "JUMP"
<1>1. Control("SLL").pc_src = "NEXT" /\ Nop.op = "SLL"
  BY DecodedSLL DEF Steers, Nop
<1>. QED  BY <1>1 DEF Jumps, Transfers, StagesHold

\* After an instruction that is not a transfer the next one follows.
LEMMA PcSequential ==
  ASSUME TypeOK, RInv, Predictable, ClockEdge, ~Signals.stall, ~Exc.happen, ex.fetch,
         ex.ctl.pc_src = "NEXT"
  PROVE  AbsPc' = AbsNpc /\ AbsNpc' = Succ(AbsNpc) /\ AbsSlot' = FALSE
<1>1. StagesHold /\ PcFollows /\ pc_reg \in Word
  BY DEF RInv, StagesHold
<1>2. ~Redirects /\ mem'.ctl.pc_src = "NEXT" /\ ExecuteIn.ctl.pc_src = "NEXT"
  BY <1>1, TransferSource, NoTransferNoRedirect, MovingEdge
<1>3. AbsSlot' = FALSE
  BY <1>2 DEF AbsSlot, InDelaySlot
<1>4. Plus(pc_reg, 1) = Succ(pc_reg)
  BY <1>1, SizeAssumption, SMT DEF Plus, Defined, Succ, Word
<1>5. CASE LoadUse(Out)
  <2>1. id' = id /\ pc_reg' = pc_reg /\ ~ex'.fetch
    BY <1>5, LoadUseEdge
  <2>2. id.fetch => pc_reg = Succ(id.pc)
    BY <1>1 DEF PcFollows, Jump
  <2>. QED  BY <1>3, <1>4, <2>1, <2>2 DEF AbsPc, AbsNpc
<1>6. CASE ~LoadUse(Out)
  <2>1. /\ ex'.fetch = id.fetch /\ ex'.pc = id.pc
        /\ id'.fetch <=> ~InstructionBusy
        /\ id'.fetch => id'.pc = pc_reg
        /\ pc_reg' = IF InstructionBusy THEN pc_reg
                     ELSE IF Jumps THEN Signals.pc ELSE Succ(pc_reg)
    BY <1>1, <1>2, <1>6, FetchEdge, DecodeEdge
  <2>2. CASE id.fetch
    <3>1. pc_reg = Succ(id.pc)
      BY <1>1, <2>2 DEF PcFollows, Jump
    <3>. QED  BY <1>3, <2>1, <2>2, <3>1 DEF AbsPc, AbsNpc
  <2>3. CASE ~id.fetch
    <3>1. ~Jumps
      BY <1>1, <2>3, JumpInDecode
    <3>2. AbsNpc = pc_reg
      BY <2>3 DEF AbsNpc
    <3>3. CASE InstructionBusy
      <4>1. Plus(pc_reg', 1) = Succ(pc_reg)
        BY <1>4, <2>1, <3>3
      <4>. QED  BY <1>3, <2>1, <2>3, <3>2, <3>3, <4>1 DEF AbsPc, AbsNpc
    <3>4. CASE ~InstructionBusy
      BY <1>3, <2>1, <2>3, <3>1, <3>2, <3>4 DEF AbsPc, AbsNpc
    <3>. QED  BY <3>3, <3>4
  <2>. QED  BY <2>2, <2>3
<1>. QED  BY <1>5, <1>6

\* Where a transfer goes, if it is taken.
Target == IF ex.ctl.pc_src = "JUMP" THEN ex.ins.imm
          ELSE IF ex.ctl.pc_src = "REGISTER" THEN ExecuteIn.rs
          ELSE Plus(Plus(ex.pc, 1), ex.ins.imm)

\* A transfer, of which the delay slot is already in the decode stage.
LEMMA PcTransfers ==
  ASSUME TypeOK, RInv, Predictable, ClockEdge, ~Signals.stall, ~Exc.happen, ex.fetch,
         ex.ctl.pc_src \in {"BRANCH", "JUMP", "REGISTER"}
  PROVE  /\ AbsPc' = AbsNpc /\ AbsSlot' = TRUE
         /\ AbsNpc' = IF ex.ctl.pc_src = "BRANCH" /\ ~TakesBranch(ExecuteIn)
                      THEN Succ(AbsNpc) ELSE Target
<1>1. StagesHold /\ PcFollows /\ pc_reg \in Word
  BY DEF RInv, StagesHold
<1>2. /\ Transfers(ex.ins) /\ mem'.ctl.pc_src = ex.ctl.pc_src
      /\ ExecuteIn.ctl = ex.ctl /\ ~LoadUse(Out)
  BY <1>1, TransferSource, MovingEdge, LoadUseIsLoad
<1>3. id.fetch /\ id.pc = Succ(ex.pc)
  BY <1>1, <1>2 DEF PcFollows
<1>4. ~InstructionBusy
  BY <1>2 DEF Predictable, Allowed
<1>5. ~Transfers(id.ins)
  <2>1. id.ins = imem[(ex.pc + 1) % N] /\ ex.ins = imem[ex.pc] /\ ex.pc \in Word
    BY <1>1, <1>3 DEF StagesHold, Succ
  <2>. QED  BY <1>2, <2>1 DEF Predictable, Allowed, WellFormed
<1>6. ~Jumps
  BY <1>1, <1>5, JumpInDecode
<1>7. /\ ex'.fetch /\ ex'.pc = id.pc
      /\ id'.fetch <=> ~Redirects
      /\ id'.fetch => id'.pc = pc_reg
      /\ pc_reg' = IF Redirects THEN Signals.pc ELSE Succ(pc_reg)
  BY <1>1, <1>2, <1>3, <1>4, <1>6, FetchEdge, DecodeEdge
<1>8. AbsPc' = AbsNpc /\ AbsSlot' = TRUE
  BY <1>2, <1>3, <1>7 DEF AbsPc, AbsNpc, AbsSlot, InDelaySlot
<1>9. AbsNpc = id.pc /\ AbsNpc' = IF Redirects THEN Signals.pc ELSE pc_reg
  BY <1>3, <1>7 DEF AbsNpc
<1>10. CASE ex.ctl.pc_src = "BRANCH"
  <2>1. Redirects <=> TakesBranch(ExecuteIn)
    BY <1>2, <1>10 DEF Redirects
  <2>2. pc_reg = Succ(id.pc)
    BY <1>1, <1>3, <1>10 DEF PcFollows, Jump
  <2>3. TakesBranch(ExecuteIn) => Signals.pc = Target
    BY <1>2, <1>10, SignalsDefined, ExecuteInKeeps DEF Target
  <2>. QED  BY <1>8, <1>9, <1>10, <2>1, <2>2, <2>3
<1>11. CASE ex.ctl.pc_src = "JUMP"
  <2>1. ~Redirects
    BY <1>2, <1>11, NoTransferNoRedirect
  <2>2. pc_reg = Target
    BY <1>1, <1>3, <1>11 DEF PcFollows, Jump, Target
  <2>. QED  BY <1>8, <1>9, <1>11, <2>1, <2>2
<1>12. CASE ex.ctl.pc_src = "REGISTER"
  <2>1. Redirects
    BY <1>2, <1>12 DEF Redirects
  <2>2. Signals.pc = Target
    BY <1>2, <1>12, SignalsDefined DEF Target
  <2>. QED  BY <1>8, <1>9, <1>12, <2>1, <2>2
<1>. QED  BY <1>10, <1>11, <1>12

\* The return from an exception has no delay slot.
LEMMA PcReturns ==
  ASSUME TypeOK, RInv, Predictable, LoadNotForwarded, ClockEdge, ~Signals.stall, ~Exc.happen,
         ex.fetch, ex.ctl.pc_src = "ERET"
  PROVE  /\ AbsPc' = ReturnAddress(Arch!Status, Cop0Next["ErrorEPC"], Cop0Next["EPC"])
         /\ AbsNpc' = Succ(AbsPc') /\ AbsSlot' = FALSE
<1>1. StagesHold /\ pc_reg \in Word /\ Cop0Next \in [Cop0Reg -> Word]
  BY ArchTyped DEF RInv, StagesHold
<1>2. ExecuteIn.ctl = ex.ctl /\ Transfers(ex.ins) /\ ~LoadUse(Out)
  BY <1>1, TransferSource, LoadUseIsLoad
<1>3. ~InstructionBusy
  BY <1>2 DEF Predictable, Allowed
<1>4. Redirects /\ Signals.ex_nullify
  BY <1>2, SignalsDefined DEF Redirects
<1>5. ~id'.fetch /\ pc_reg' = Signals.pc
  BY <1>1, <1>2, <1>3, <1>4, FetchEdge
<1>6. ~ex'.fetch
  BY <1>4, MovingEdge DEF DecodeOut
<1>. DEFINE return == ReturnAddress(Arch!Status, Cop0Next["ErrorEPC"], Cop0Next["EPC"])
<1>7. return \in Word
  BY <1>1 DEF ReturnAddress, Cop0Reg
<1>8. Signals.pc = return
  <2>1. /\ ExecuteIn.status = Arch!Status /\ ExecuteIn.epc = Cop0Next["EPC"]
        /\ ExecuteIn.errorepc = Cop0Next["ErrorEPC"] /\ Arch!Status \in Word
    BY OperandsCurrent, ArchWords
  <2>2. Signals.pc = IfDefined(ExecuteIn.status,
                       ReturnAddress(ExecuteIn.status, ExecuteIn.errorepc, ExecuteIn.epc))
    BY <1>2, SignalsDefined
  <2>. QED  BY <2>1, <2>2 DEF IfDefined
<1>. HIDE DEF return
<1>9. Plus(return, 1) = Succ(return)
  BY <1>7, SizeAssumption, SMT DEF Plus, Defined, Succ, Word
<1>. QED  BY <1>5, <1>6, <1>8, <1>9 DEF AbsPc, AbsNpc, AbsSlot, return

----------------------------------------------------------------------------
\* The edges a program does not see.

\* A bubble in the execute stage does nothing: the program counters stay where
\* they are although the stages behind the bubble move.
LEMMA BubbleStutters ==
  ASSUME TypeOK, RInv, Predictable, ClockEdge, ~Signals.stall, ~ex.fetch
  PROVE  UNCHANGED Arch!vars
<1>1. StagesHold /\ PcFollows /\ pc_reg \in Word /\ Arch!TypeOK
  BY DEF RInv, StagesHold
<1>2. /\ ~Exc.happen /\ ~Redirects /\ ~LoadUse(Out) /\ ExecuteIn.ctl.pc_src = "NEXT"
      /\ mem'.ctl.pc_src = "NEXT"
  BY <1>1, BubbleOut, NoTransferNoRedirect, MovingEdge DEF LoadUse
<1>3. AbsSlot' = AbsSlot
  BY <1>2 DEF AbsSlot, InDelaySlot
<1>4. /\ ex'.fetch = id.fetch /\ ex'.pc = id.pc
      /\ id'.fetch <=> ~InstructionBusy
      /\ id'.fetch => id'.pc = pc_reg
      /\ pc_reg' = IF InstructionBusy THEN pc_reg
                   ELSE IF Jumps THEN Signals.pc ELSE Succ(pc_reg)
  BY <1>1, <1>2, FetchEdge, DecodeEdge
<1>5. Plus(pc_reg, 1) = Succ(pc_reg)
  BY <1>1, SizeAssumption, SMT DEF Plus, Defined, Succ, Word
<1>6. AbsPc' = AbsPc /\ AbsNpc' = AbsNpc
  <2>1. CASE id.fetch
    BY <1>4, <2>1 DEF AbsPc, AbsNpc
  <2>2. CASE ~id.fetch
    <3>1. ~Jumps
      BY <1>1, <2>2, JumpInDecode
    <3>2. AbsPc = pc_reg /\ AbsNpc = Succ(pc_reg)
      BY <1>5, <2>2 DEF AbsPc, AbsNpc
    <3>3. CASE InstructionBusy
      <4>1. Plus(pc_reg', 1) = Succ(pc_reg)
        BY <1>4, <1>5, <3>3
      <4>. QED  BY <1>4, <2>2, <3>2, <3>3, <4>1 DEF AbsPc, AbsNpc
    <3>4. CASE ~InstructionBusy
      BY <1>4, <2>2, <3>1, <3>2, <3>4 DEF AbsPc, AbsNpc
    <3>. QED  BY <3>3, <3>4
  <2>. QED  BY <2>1, <2>2
<1>7. AbsGpr' = AbsGpr
  <2>1. CASE KeepsGpr(Out)
    BY <1>1, <1>2, <2>1, RetiresGpr
  <2>2. CASE Out.ctl.write_reg /\ Out.dest_reg = 0 /\ Out.ctl.reg_src # "MEM"
    <3>1. 0 \in Reg /\ Delivers(Out, 0, Out.dest_reg_data)
      BY <2>2, SizeAssumption, SMT DEF Reg, Delivers
    <3>2. Arch!Write(0, Out.dest_reg_data)
      BY <1>1, <1>2, <3>1, RetiresGpr
    <3>. QED  BY <3>2 DEF Arch!Write
  <2>. QED  BY <1>1, <2>1, <2>2, BubbleOut
<1>8. /\ ForwardHi(hi)' = ForwardHi(hi) /\ ForwardLo(lo)' = ForwardLo(lo)
      /\ ForwardLlbit(llbit)' = ForwardLlbit(llbit)
      /\ Cop0Next' = Cop0Next /\ CauseNext' = CauseNext
      /\ Stored' = Stored /\ imem' = imem
  BY <1>1, <1>2, BubbleOut, RetiresQuietly
<1>. QED  BY <1>3, <1>6, <1>7, <1>8 DEF Arch!vars

\* No exception is on its way to coprocessor 0 while the multiplier stalls.
LEMMA StallWithoutException ==
  ASSUME PreciseException, Signals.stall, TypeOK
  PROVE  ~mem.excdata.happen
<1>1. ExecuteIn.ctl = ex.ctl
  BY ExecuteInKeeps
<1>. QED  BY <1>1, BubbleIsIdle DEF PreciseException, Signals

\* While the multiplier stalls, what the memory and the write-back stages hold
\* is written again and again, to the same effect.
LEMMA StallStutters ==
  ASSUME TypeOK, RInv, PreciseException, ClockEdge, Signals.stall
  PROVE  UNCHANGED Arch!vars
<1>1. /\ pc_reg' = pc_reg /\ id' = id /\ ex' = ex /\ mem' = mem /\ wb' = wb
      /\ prev_stall' = TRUE /\ MemoryHolds
  BY StalledEdge DEF RInv
<1>2. ~mem.excdata.happen
  BY StallWithoutException
<1>3. AbsPc' = AbsPc /\ AbsNpc' = AbsNpc /\ AbsSlot' = AbsSlot
  BY <1>1 DEF AbsPc, AbsNpc, AbsSlot, InDelaySlot
<1>4. Stored' = Stored /\ dmem' = Stored /\ imem' = imem
  BY <1>1 DEF ClockEdge, RegisterStep, Stored, MemWrite
<1>5. AbsGpr' = AbsGpr
  <2>1. ASSUME NEW r \in Reg PROVE ForwardToDecode(r)' = ForwardToDecode(r)
    <3>1. WbData' = WbData /\ (Supplies(wb, r)' <=> Supplies(wb, r))
      BY <1>1 DEF WbData, Supplies
    <3>2. rf' = IF wb.ctl.write_reg /\ wb.dest_reg # 0
                THEN [rf EXCEPT ![wb.dest_reg] = WbData] ELSE rf
      BY DEF ClockEdge, RegisterStep
    <3>3. r # 0 /\ ~Supplies(wb, r) => rf'[r] = rf[r]
      BY <3>2 DEF TypeOK, Supplies
    <3>. QED  BY <3>1, <3>3 DEF ForwardToDecode
  <2>2. ASSUME NEW r \in Reg, Supplies(mem, r), mem.ctl.reg_src = "MEM"
        PROVE  MemData' = MemData
    <3>1. mem.ctl.read_mem /\ ~mem.write_mem
      BY <1>1, <2>2 DEF MemoryHolds, Supplies
    <3>2. dmem' = dmem
      BY <1>4, <3>1 DEF Stored, MemWrite
    <3>. QED  BY <1>1, <3>1, <3>2 DEF MemData, MemWrite
  <2>3. \A r \in Reg : Supplies(mem, r)' <=> Supplies(mem, r)
    BY <1>1 DEF Supplies
  <2>4. AbsGpr' = [r \in Reg |-> IF ~Supplies(mem, r)' THEN ForwardToDecode(r)'
                                 ELSE IF mem'.ctl.reg_src = "MEM" THEN MemData'
                                 ELSE mem'.dest_reg_data]
    BY DEF AbsGpr
  <2>. QED  BY <1>1, <2>1, <2>2, <2>3, <2>4 DEF AbsGpr
<1>6. /\ ForwardHi(hi)' = ForwardHi(hi) /\ ForwardLo(lo)' = ForwardLo(lo)
      /\ ForwardLlbit(llbit)' = ForwardLlbit(llbit)
      /\ CauseNext' = CauseNext
  BY <1>1, <1>2, RegistersNext
     DEF ForwardHi, ForwardLo, ForwardLlbit, WriteLlbit, DestLlbitData
<1>7. Cop0Next' = Cop0Next
  <2>1. Cop0Next = IF mem.ctl.write_cop0
                   THEN [cop0 EXCEPT ![mem.dest_cop0] = mem.dest_cop0_data] ELSE cop0
    BY <1>2 DEF Cop0Next, Cop0Written
  <2>2. Cop0Next' = IF mem.ctl.write_cop0
                    THEN [Cop0Next EXCEPT ![mem.dest_cop0] = mem.dest_cop0_data] ELSE Cop0Next
    BY <1>1, <1>2, RegistersNext
  <2>3. cop0 \in [Cop0Reg -> Value]
    BY DEF TypeOK
  <2>. QED  BY <2>1, <2>2, <2>3
<1>. QED  BY <1>3, <1>4, <1>5, <1>6, <1>7 DEF Arch!vars

----------------------------------------------------------------------------
\* Exceptions.

\* The instruction in the execute stage and its operands, as Isa names them.
LEMMA Executing ==
  ASSUME TypeOK, RInv, LoadNotForwarded, ex.fetch
  PROVE  LET p == ExecuteIn
         IN  /\ p.fetch /\ p.pc = ex.pc /\ p.pc \in Word /\ p.ins = ex.ins /\ Arch!i = ex.ins
             /\ p.ctl = ex.ctl /\ p.ctl = Control(ex.ins.op)
             /\ ex.ins.op \in CoreOp /\ Characterises(p.ctl, ex.ins.op) /\ IsControl(p.ctl)
             /\ ex.ins.imm \in Word /\ ex.ins.rs \in Reg /\ ex.ins.rt \in Reg
             /\ ex.ins.rd \in Reg /\ ex.ins.c0 \in Cop0Reg
             /\ p.ctl.opd_use \in {"BOTH", "RS"} => p.rs = Arch!rs
             /\ p.ctl.opd_use \in {"BOTH", "RT"} => p.rt = Arch!rt
             /\ p.hi = ForwardHi(hi) /\ p.lo = ForwardLo(lo) /\ p.llbit = ForwardLlbit(llbit)
             /\ p.cop0 = Cop0Next[ex.ins.c0] /\ p.status = Arch!Status
             /\ Arch!rs \in Word /\ Arch!rt \in Word /\ Arch!ea \in Word /\ Arch!Status \in Word
             /\ Arch!ea = (Arch!rs + ex.ins.imm) % N
<1>1. StagesHold
  BY DEF RInv
<1>2. /\ ExecuteIn.fetch /\ ExecuteIn.pc = ex.pc /\ ExecuteIn.ins = ex.ins
      /\ ExecuteIn.ctl = ex.ctl
  BY ExecuteInKeeps
<1>3. /\ Arch!i = ex.ins /\ ex.ctl = Control(ex.ins.op)
      /\ Arch!ea = (Arch!rs + ex.ins.imm) % N
  BY <1>1, InstructionInExecute
<1>4. ex.ins.op \in CoreOp
  BY ArchWords
<1>5. Characterises(ex.ctl, ex.ins.op) /\ IsControl(ex.ctl)
  BY <1>3, <1>4, Characterised DEF Characterises
<1>. QED  BY <1>2, <1>3, <1>4, <1>5, OperandsCurrent, ArchWords

\* An unaligned address is found where Isa says so.
LEMMA AddressErrors ==
  ASSUME TypeOK, RInv, LoadNotForwarded, ex.fetch
  PROVE  /\ ReadError(ExecuteIn, Out) <=> Arch!Raises("ADEL")
         /\ StoreError(Out) <=> Arch!Raises("ADES")
         /\ Arch!Raises("ADEL") \/ Arch!Raises("ADES") => Out.mem_addr = Arch!ea
<1>. DEFINE p  == ExecuteIn
            op == ex.ins.op
<1>1. /\ p.ins = ex.ins /\ Arch!i = ex.ins /\ p.ctl = Control(op) /\ Characterises(p.ctl, op)
      /\ op \in CoreOp /\ ex.ins.imm \in Word /\ Arch!rs \in Word /\ Arch!ea \in Word
      /\ Arch!ea = (Arch!rs + ex.ins.imm) % N /\ p.llbit = ForwardLlbit(llbit)
      /\ p.ctl.opd_use \in {"BOTH", "RS"} => p.rs = Arch!rs
  BY Executing
<1>2. op \in {"LW", "LL", "SW", "SC"} => p.ctl.opd_use \in {"BOTH", "RS"}
  BY <1>1, DecodedLW, DecodedLL, DecodedSW, DecodedSC DEF Steers
<1>3. /\ Out.mem_addr = Plus(p.rs, p.ins.imm)
      /\ Out.write_mem <=> \/ p.ctl.mem_write_cond = "ALWAYS"
                           \/ p.ctl.mem_write_cond = "WHEN_LLBIT" /\ p.llbit
  BY OutputData DEF Out
<1>4. op \in {"LW", "LL", "SW", "SC"} => Out.mem_addr = Arch!ea
  BY <1>1, <1>2, <1>3 DEF Plus, Defined
<1>5. /\ p.ctl.read_mem <=> op \in {"LW", "LL"}
      /\ Out.write_mem <=> op = "SW" \/ (op = "SC" /\ ForwardLlbit(llbit))
  BY <1>1, <1>3 DEF Characterises
<1>6. /\ Arch!Raises("ADEL") <=> op \in {"LW", "LL"} /\ Arch!ea % 2 = 1
      /\ Arch!Raises("ADES") <=> (op = "SW" \/ (op = "SC" /\ ForwardLlbit(llbit)))
                                 /\ Arch!ea % 2 = 1
  BY <1>1 DEF Arch!Raises
<1>. HIDE DEF p, Out
<1>. QED  BY <1>1, <1>4, <1>5, <1>6 DEF ReadError, StoreError, Unaligned, p

\* The other exceptions of an instruction.
LEMMA InstructionChecks ==
  ASSUME TypeOK, RInv, LoadNotForwarded, ex.fetch, NEW code \in ExcCode
  PROVE  /\ code \notin {"INT", "ADEL", "ADES"}
              => (ChecksFail(ExecuteIn, code) <=> Arch!Raises(code))
         /\ code \in {"INT", "ADEL", "ADES"} => ~ChecksFail(ExecuteIn, code)
         /\ ~Arch!Raises("INT")
<1>. DEFINE p  == ExecuteIn
            op == ex.ins.op
<1>1. /\ p.ins = ex.ins /\ Arch!i = ex.ins /\ p.ctl = Control(op) /\ Characterises(p.ctl, op)
      /\ op \in CoreOp /\ ex.ins.imm \in Word /\ Arch!rs \in Word /\ Arch!rt \in Word
      /\ p.ctl.opd_use \in {"BOTH", "RS"} => p.rs = Arch!rs
      /\ p.ctl.opd_use \in {"BOTH", "RT"} => p.rt = Arch!rt
  BY Executing
<1>2. op = "TEQ" => (FlagSelected(p) <=> Arch!rs = Arch!rt)
  <2>1. SUFFICES ASSUME op = "TEQ" PROVE FlagSelected(p) <=> Arch!rs = Arch!rt
    OBVIOUS
  <2>2. p.ctl = Control("TEQ")
    BY <1>1, <2>1
  <2>3. Compares(p.ctl, "RS", "RT", "EQ") /\ p.ctl.opd_use = "BOTH"
    BY <2>2, DecodedTEQ DEF Steers
  <2>. QED  BY <1>1, <2>3, AluOperands, FlagFunction DEF Compares
<1>3. op = "ADD" => (Overflow(p) <=> Signed(Arch!rs) + Signed(Arch!rt) \notin
                                       -(N \div 2) .. N \div 2 - 1)
  <2>1. SUFFICES ASSUME op = "ADD"
                 PROVE  Overflow(p) <=> Signed(Arch!rs) + Signed(Arch!rt) \notin
                                          -(N \div 2) .. N \div 2 - 1
    OBVIOUS
  <2>2. p.ctl = Control("ADD")
    BY <1>1, <2>1
  <2>3. Selects(p.ctl, "RS", "RT", "ADD") /\ p.ctl.opd_use = "BOTH"
    BY <2>2, DecodedADD DEF Steers
  <2>4. AluA(p) = Arch!rs /\ AluB(p) = Arch!rt /\ AluOut(p) = (Arch!rs + Arch!rt) % N
    BY <1>1, <2>3, AluOperands, AluFunction DEF Selects, Plus, Defined
  <2>5. Overflow(p) <=> /\ Negative(Arch!rs) <=> Negative(Arch!rt)
                        /\ ~(Negative((Arch!rs + Arch!rt) % N) <=> Negative(Arch!rs))
    BY <1>1, <2>4 DEF Overflow, Defined
  <2>. QED  BY <1>1, <2>5, OverflowFlag
<1>4. op = "ADDI" => (Overflow(p) <=> Signed(Arch!rs) + Signed(ex.ins.imm) \notin
                                        -(N \div 2) .. N \div 2 - 1)
  <2>1. SUFFICES ASSUME op = "ADDI"
                 PROVE  Overflow(p) <=> Signed(Arch!rs) + Signed(ex.ins.imm) \notin
                                          -(N \div 2) .. N \div 2 - 1
    OBVIOUS
  <2>2. p.ctl = Control("ADDI")
    BY <1>1, <2>1
  <2>3. Selects(p.ctl, "RS", "SIGN_IMMED", "ADD") /\ p.ctl.opd_use = "RS"
    BY <2>2, DecodedADDI DEF Steers
  <2>4. /\ AluA(p) = Arch!rs /\ AluB(p) = ex.ins.imm
        /\ AluOut(p) = (Arch!rs + ex.ins.imm) % N
    BY <1>1, <2>3, AluOperands, AluFunction DEF Selects, Plus, Defined
  <2>5. Overflow(p) <=> /\ Negative(Arch!rs) <=> Negative(ex.ins.imm)
                        /\ ~(Negative((Arch!rs + ex.ins.imm) % N) <=> Negative(Arch!rs))
    BY <1>1, <2>4 DEF Overflow, Defined
  <2>. QED  BY <1>1, <2>5, OverflowFlag
<1>. DEFINE range == -(N \div 2) .. N \div 2 - 1
<1>5. Arch!Raises(code) <=>
        \/ code = "ADEL" /\ op \in {"LW", "LL"} /\ Arch!ea % 2 = 1
        \/ code = "ADES" /\ (op = "SW" \/ (op = "SC" /\ ForwardLlbit(llbit))) /\ Arch!ea % 2 = 1
        \/ code = "SYS" /\ op = "SYSCALL"
        \/ code = "BP" /\ op = "BREAK"
        \/ code = "RI" /\ op = "RESERVED"
        \/ code = "TR" /\ op = "TEQ" /\ Arch!rs = Arch!rt
        \/ code = "OV" /\ \/ op = "ADD" /\ Signed(Arch!rs) + Signed(Arch!rt) \notin range
                          \/ op = "ADDI" /\ Signed(Arch!rs) + Signed(ex.ins.imm) \notin range
  BY <1>1, ArchOperators DEF Arch!Raises
<1>6. ChecksFail(p, code) <=> \/ op = "SYSCALL" /\ code = "SYS"
                              \/ op = "BREAK" /\ code = "BP"
                              \/ op = "RESERVED" /\ code = "RI"
                              \/ op = "TEQ" /\ code = "TR" /\ FlagSelected(p)
                              \/ op \in {"ADD", "ADDI"} /\ code = "OV" /\ Overflow(p)
  <2>1. /\ p.ctl.exc_chk = "SYSCALL" <=> op = "SYSCALL"
        /\ p.ctl.exc_chk = "BREAK" <=> op = "BREAK"
        /\ p.ctl.exc_chk = "RESERVERD" <=> op = "RESERVED"
        /\ p.ctl.exc_chk = "TRAP" <=> op = "TEQ"
        /\ p.ctl.exc_chk = "OVERFLOW" <=> op \in {"ADD", "ADDI"}
    BY <1>1 DEF Characterises
  <2>. HIDE DEF p, op
  <2>. QED  BY ONLY <2>1 DEF ChecksFail
<1>7. ~Arch!Raises("INT")
  BY DEF Arch!Raises
<1>. HIDE DEF range, p, op
<1>8. code \notin {"INT", "ADEL", "ADES"} => (ChecksFail(p, code) <=> Arch!Raises(code))
  BY ONLY <1>2, <1>3, <1>4, <1>5, <1>6 DEF range
<1>9. code \in {"INT", "ADEL", "ADES"} => ~ChecksFail(p, code)
  BY ONLY <1>6
<1>. QED  BY <1>7, <1>8, <1>9 DEF p

\* What the exception controller raises is what Isa raises, or an interrupt.
LEMMA RaisedByIsa ==
  ASSUME TypeOK, RInv, LoadNotForwarded, ex.fetch
  PROVE  /\ Raised(ExecuteIn, Out) = {} => Arch!Completes
         /\ \A code \in Raised(ExecuteIn, Out) :
              /\ code \in ExcCode
              /\ Arch!Raises(code) \/ (code = "INT" /\ InterruptsEnabled(Arch!Status))
<1>. DEFINE raised == Raised(ExecuteIn, Out)
<1>1. ExecuteIn.fetch /\ ExecuteIn.status = Arch!Status
  BY Executing
<1>2. TakesInterrupt(ExecuteIn) => InterruptsEnabled(Arch!Status)
  BY <1>1 DEF TakesInterrupt
<1>3. raised = IF TakesInterrupt(ExecuteIn) THEN {"INT"}
               ELSE IF Arch!Raises("ADEL") THEN {"ADEL"}
               ELSE IF Arch!Raises("ADES") THEN {"ADES"}
               ELSE {code \in ExcCode : ChecksFail(ExecuteIn, code)}
  BY <1>1, AddressErrors DEF Raised
<1>4. \A code \in ExcCode : ChecksFail(ExecuteIn, code) => Arch!Raises(code)
  BY InstructionChecks, Zenon
<1>5. \A code \in ExcCode : Arch!Raises(code)
                              => code \in {"ADEL", "ADES"} \/ ChecksFail(ExecuteIn, code)
  BY InstructionChecks, Zenon
<1>. HIDE DEF Out
<1>6. {"INT", "ADEL", "ADES"} \subseteq ExcCode
  BY DEF ExcCode
<1>7. ASSUME raised = {} PROVE Arch!Completes
  <2>1. \A code \in ExcCode : ~ChecksFail(ExecuteIn, code)
    BY <1>3, <1>7
  <2>2. ~Arch!Raises("ADEL") /\ ~Arch!Raises("ADES")
    BY <1>3, <1>7
  <2>3. \A code \in ExcCode : ~Arch!Raises(code)
    BY <1>5, <2>1, <2>2, Zenon
  <2>. QED  BY <2>3, ArchSets DEF Arch!Completes
<1>8. ASSUME NEW code \in raised
      PROVE  /\ code \in ExcCode
             /\ Arch!Raises(code) \/ (code = "INT" /\ InterruptsEnabled(Arch!Status))
  BY <1>2, <1>3, <1>4, <1>6
<1>. HIDE DEF raised
<1>. QED  BY <1>7, <1>8, Zenon DEF raised

\* What the exception controller records.
LEMMA ExceptionRecorded ==
  ASSUME TypeOK, RInv, LoadNotForwarded, Exc.happen
  PROVE  /\ ex.fetch /\ Exc.code \in ExcCode
         /\ Arch!Raises(Exc.code) \/ (Exc.code = "INT" /\ InterruptsEnabled(Arch!Status))
         /\ Exc.bd = AbsSlot
         /\ Exc.epc = IF AbsSlot THEN (AbsPc - 1) % N ELSE AbsPc
         /\ Exc.load_addr <=> Exc.code \in {"ADEL", "ADES"}
         /\ Exc.load_addr => Exc.badvaddr = Arch!ea
<1>1. ex.fetch
  BY BubbleOut DEF RInv
<1>. DEFINE raised == Raised(ExecuteIn, Out)
            code   == CHOOSE c \in raised : TRUE
<1>2. raised # {}
  BY DEF Exc, ExceptionData, NoException
<1>3. code \in raised
  BY <1>2
<1>4. Exc = [ happen |-> TRUE, code |-> code, bd |-> InDelaySlot,
              epc |-> IF InDelaySlot THEN Minus(ExecuteIn.pc, 1) ELSE ExecuteIn.pc,
              load_addr |-> code \in {"ADEL", "ADES"},
              badvaddr |-> IF code \in {"ADEL", "ADES"} THEN Out.mem_addr ELSE 0 ]
  BY <1>2 DEF Exc, ExceptionData
<1>5. /\ code \in ExcCode
      /\ Arch!Raises(code) \/ (code = "INT" /\ InterruptsEnabled(Arch!Status))
  BY <1>1, <1>3, RaisedByIsa
<1>6. code \in {"ADEL", "ADES"} => Out.mem_addr = Arch!ea
  BY <1>1, <1>5, AddressErrors
<1>7. AbsSlot = InDelaySlot /\ AbsPc = ExecuteIn.pc /\ ExecuteIn.pc \in Word
  BY <1>1, Executing DEF AbsSlot, AbsPc, InDelaySlot
<1>8. Minus(ExecuteIn.pc, 1) = (AbsPc - 1) % N
  BY <1>7, SizeAssumption DEF Minus, Defined, Word
<1>. HIDE DEF code, raised, Out
<1>. QED  BY <1>1, <1>4, <1>5, <1>6, <1>7, <1>8

\* What a program sees of it.
LEMMA ExceptionSeen ==
  ASSUME TypeOK, ClockEdge, Exc.happen
  PROVE  /\ Cop0Next' = [Cop0Next EXCEPT
              !["EPC"]      = Exc.epc,
              !["Status"]   = IfDefined(@, SetEXL(@)),
              !["BadVAddr"] = IF Exc.load_addr THEN Exc.badvaddr ELSE @]
         /\ CauseNext' = [code |-> Exc.code, bd |-> Exc.bd]
         /\ ForwardLlbit(llbit)' = FALSE
         /\ AbsPc' = ExcVector(Exc.code) /\ AbsNpc' = Plus(ExcVector(Exc.code), 1)
         /\ AbsSlot' = FALSE
         /\ imem' = imem /\ Stored' = Stored /\ AbsGpr' = AbsGpr
         /\ ForwardHi(hi)' = ForwardHi(hi) /\ ForwardLo(lo)' = ForwardLo(lo)
<1>1. /\ ~Signals.stall
      /\ ~mem'.fetch /\ mem'.ctl = ClearControl /\ ~mem'.write_mem /\ mem'.excdata = Exc
      /\ ~ex'.fetch /\ ~id'.fetch /\ pc_reg' = ExcVector(Exc.code)
  BY ExceptionEdge
<1>2. /\ ~mem'.ctl.write_reg /\ ~mem'.ctl.write_hi /\ ~mem'.ctl.write_lo
      /\ ~mem'.ctl.write_cop0
  BY <1>1 DEF ClearControl
<1>3. Cop0Next' = [Cop0Next EXCEPT
              !["EPC"]      = Exc.epc,
              !["Status"]   = IfDefined(@, SetEXL(@)),
              !["BadVAddr"] = IF Exc.load_addr THEN Exc.badvaddr ELSE @]
  <2>1. cop0' = Cop0Next
    BY DEF ClockEdge
  <2>2. Cop0Written' = Cop0Next
    BY <1>2, <2>1 DEF Cop0Written
  <2>. DEFINE Recorded(c, x) == [c EXCEPT !["EPC"]      = x.epc,
                                          !["Status"]   = IfDefined(@, SetEXL(@)),
                                          !["BadVAddr"] = IF x.load_addr THEN x.badvaddr ELSE @]
  <2>3. Cop0Next' = IF mem'.excdata.happen THEN Recorded(Cop0Written', mem'.excdata)
                    ELSE Cop0Written'
    BY DEF Cop0Next
  <2>. QED  BY <1>1, <2>2, <2>3, Zenon
<1>4. /\ CauseNext' = [code |-> Exc.code, bd |-> Exc.bd] /\ ForwardLlbit(llbit)' = FALSE
      /\ ForwardHi(hi)' = ForwardHi(hi) /\ ForwardLo(lo)' = ForwardLo(lo)
  BY <1>1, <1>2, RegistersNext
<1>5. AbsPc' = ExcVector(Exc.code) /\ AbsNpc' = Plus(ExcVector(Exc.code), 1) /\ AbsSlot' = FALSE
  BY <1>1 DEF AbsPc, AbsNpc, AbsSlot
<1>6. imem' = imem /\ Stored' = Stored
  BY <1>1, MemoryNext DEF ClockEdge
<1>7. AbsGpr' = AbsGpr
  BY <1>1, <1>2, GprNext DEF Supplies, AbsGpr
<1>. QED  BY <1>3, <1>4, <1>5, <1>6, <1>7

\* Entering the handler is one step of Isa.
LEMMA ExceptionImplemented ==
  ASSUME TypeOK, RInv, LoadNotForwarded, ClockEdge, Exc.happen
  PROVE  Arch!Exception \/ Arch!Interrupt
<1>. DEFINE code == Exc.code
<1>1. /\ ex.fetch /\ code \in ExcCode
      /\ Arch!Raises(code) \/ (code = "INT" /\ InterruptsEnabled(Arch!Status))
      /\ Exc.bd = AbsSlot
      /\ Exc.epc = IF AbsSlot THEN (AbsPc - 1) % N ELSE AbsPc
      /\ Exc.load_addr <=> code \in {"ADEL", "ADES"}
      /\ Exc.load_addr => Exc.badvaddr = Arch!ea
  BY ExceptionRecorded
<1>2. Cop0Next \in [Cop0Reg -> Word]
  BY ArchTyped DEF RInv
<1>. HIDE DEF code
<1>3. ExcVector(code) \in Word
  BY SizeAssumption DEF ExcVector
<1>4. Plus(ExcVector(code), 1) = Succ(ExcVector(code))
  BY <1>3, SizeAssumption, SMT DEF Plus, Defined, Succ, Word
<1>5. Cop0Next' = [Cop0Next EXCEPT
        !["EPC"]      = IF AbsSlot THEN (AbsPc - 1) % N ELSE AbsPc,
        !["Status"]   = SetEXL(@),
        !["BadVAddr"] = IF code \in {"ADEL", "ADES"} THEN Arch!ea ELSE @]
  <2>. DEFINE epc == IF AbsSlot THEN (AbsPc - 1) % N ELSE AbsPc
  <2>1. Cop0Next' = [Cop0Next EXCEPT
              !["EPC"]      = Exc.epc,
              !["Status"]   = IfDefined(@, SetEXL(@)),
              !["BadVAddr"] = IF Exc.load_addr THEN Exc.badvaddr ELSE @]
    BY ExceptionSeen
  <2>2. Cop0Next["Status"] \in Word /\ Exc.epc = epc
    BY <1>1, <1>2 DEF Cop0Reg
  <2>. HIDE DEF epc
  <2>3. Cop0Next' = [Cop0Next EXCEPT
              !["EPC"]      = epc,
              !["Status"]   = SetEXL(@),
              !["BadVAddr"] = IF code \in {"ADEL", "ADES"} THEN Arch!ea ELSE @]
    BY ONLY <1>1, <1>2, <2>1, <2>2 DEF IfDefined, Cop0Reg
  <2>. QED  BY <2>3 DEF epc
<1>6. /\ CauseNext' = [code |-> code, bd |-> AbsSlot] /\ ForwardLlbit(llbit)' = FALSE
      /\ AbsPc' = ExcVector(code) /\ AbsNpc' = Succ(ExcVector(code)) /\ AbsSlot' = FALSE
      /\ imem' = imem /\ Stored' = Stored /\ AbsGpr' = AbsGpr
      /\ ForwardHi(hi)' = ForwardHi(hi) /\ ForwardLo(lo)' = ForwardLo(lo)
  BY <1>1, <1>4, ExceptionSeen DEF code
<1>7. Arch!Enter(code)
  BY <1>5, <1>6, ArchOperators DEF Arch!Enter
<1>8. CASE Arch!Raises(code)
  BY <1>1, <1>7, <1>8, ArchSets DEF Arch!Exception
<1>9. CASE code = "INT" /\ InterruptsEnabled(Arch!Status)
  BY <1>7, <1>9, ArchOperators DEF Arch!Interrupt
<1>. QED  BY <1>1, <1>8, <1>9

----------------------------------------------------------------------------
\* Instruction by instruction: what leaves the execute stage is what Isa says.

\* The instruction in the execute stage completes.
Retiring ==
  /\ TypeOK /\ RInv /\ LoadNotForwarded /\ Predictable /\ Predictable'
  /\ ClockEdge /\ ~Signals.stall /\ ~Exc.happen /\ ex.fetch

QuietRest ==
  /\ imem' = imem /\ Stored' = Stored
  /\ ForwardHi(hi)' = ForwardHi(hi) /\ ForwardLo(lo)' = ForwardLo(lo)
  /\ ForwardLlbit(llbit)' = ForwardLlbit(llbit)
  /\ Cop0Next' = Cop0Next /\ CauseNext' = CauseNext

\* Isa raises nothing either.
LEMMA RetiringCompletes ==
  ASSUME Retiring
  PROVE  Arch!Completes
<1>1. Raised(ExecuteIn, Out) = {}
  BY DEF Retiring, Exc, ExceptionData
<1>. QED  BY <1>1, RaisedByIsa DEF Retiring

\* The program counters, unless the instruction is a transfer.
LEMMA RetiringSequential ==
  ASSUME Retiring, ex.ctl.pc_src = "NEXT"
  PROVE  Arch!Sequential
<1>1. AbsPc' = AbsNpc /\ AbsNpc' = Succ(AbsNpc) /\ AbsSlot' = FALSE
  BY PcSequential DEF Retiring
<1>. QED  BY <1>1, ArchOperators DEF Arch!Sequential

\* The registers and the memory, for an instruction that writes general
\* registers only.
LEMMA RetiringQuietly ==
  ASSUME Retiring, Quiet(ex.ctl), NoMemory(ex.ctl)
  PROVE  QuietRest
<1>1. ExecuteIn.ctl = ex.ctl /\ IsControl(ExecuteIn.ctl)
  BY Executing DEF Retiring
<1>2. Quiet(Out.ctl) /\ KeepsMemory(Out)
  BY <1>1, QuietOutputs DEF Out
<1>. QED  BY <1>2, RetiresQuietly DEF Retiring, QuietRest

\* The general registers.
LEMMA RetiringGpr ==
  ASSUME Retiring
  PROVE  /\ KeepsGpr(Out) => AbsGpr' = AbsGpr
         /\ \A r \in Reg : \A v : Delivers(Out, r, v) => Arch!Write(r, v)
         /\ \A r \in Reg : Loads(Out, r) => Arch!Write(r, MemData')
  BY RetiresGpr DEF Retiring, RInv

\* The arithmetic instructions.
ArithmeticOps == {"SLL", "ADD", "ADDU", "SUBU", "SLT", "ADDI", "ADDIU", "MUL", "MOVZ", "MOVN",
                  "MFHI", "MFLO", "MFC0", "TEQ"}

\* They steer neither the program counter nor the memory, and say which registers
\* they read.
LEMMA ArithmeticQuiet ==
  ASSUME NEW op \in ArithmeticOps
  PROVE  /\ Quiet(Control(op)) /\ NoMemory(Control(op)) /\ Control(op).pc_src = "NEXT"
         /\ Control(op).opd_use = IF op = "SLL" THEN "RT"
                                  ELSE IF op \in {"ADDI", "ADDIU"} THEN "RS"
                                  ELSE IF op = "MFC0" THEN "NONE" ELSE "BOTH"
  BY DecodedSLL, DecodedADD, DecodedADDU, DecodedSUBU, DecodedSLT, DecodedADDI, DecodedADDIU,
     DecodedMUL, DecodedMOVZ, DecodedMOVN, DecodedMFHI, DecodedMFLO, DecodedMFC0, DecodedTEQ
  DEF ArithmeticOps, Steers

\* The result of an arithmetic instruction is written to its register.
LEMMA ArithmeticImplemented ==
  ASSUME Retiring, ex.ins.op \in ArithmeticOps
  PROVE  Arch!Arithmetic
<1>. DEFINE p  == ExecuteIn
            op == ex.ins.op
<1>1. /\ p.ins = ex.ins /\ Arch!i = ex.ins /\ p.ctl = ex.ctl /\ p.ctl = Control(op)
      /\ IsControl(p.ctl)
      /\ ex.ins.imm \in Word /\ ex.ins.rt \in Reg /\ ex.ins.rd \in Reg
      /\ p.ctl.opd_use \in {"BOTH", "RS"} => p.rs = Arch!rs
      /\ p.ctl.opd_use \in {"BOTH", "RT"} => p.rt = Arch!rt
      /\ p.hi = ForwardHi(hi) /\ p.lo = ForwardLo(lo) /\ p.cop0 = Cop0Next[ex.ins.c0]
      /\ Arch!rs \in Word /\ Arch!rt \in Word
      /\ Arch!ea = (Arch!rs + ex.ins.imm) % N
  BY Executing DEF Retiring
<1>2. Arch!Sequential /\ QuietRest
  BY <1>1, ArithmeticQuiet, RetiringSequential, RetiringQuietly
<1>3. /\ op # "MFC0" /\ op \notin {"ADDI", "ADDIU"} => p.rt = Arch!rt
      /\ op # "MFC0" /\ op # "SLL" => p.rs = Arch!rs
  BY <1>1, ArithmeticQuiet
<1>4. Out = ExecuteOut(p)
  BY DEF Out
<1>5. /\ KeepsGpr(Out) => AbsGpr' = AbsGpr
      /\ \A r \in Reg : \A v : Delivers(Out, r, v) => Arch!Write(r, v)
  BY RetiringGpr
<1>. HIDE DEF Out, p
<1>6. op = "SLL" => Arch!Write(ex.ins.rd, (Arch!rt * 2^ex.ins.imm) % N)
  BY <1>1, <1>3, <1>4, <1>5, ExecutesSLL
<1>7. op \in {"ADD", "ADDU"} => Arch!Write(ex.ins.rd, (Arch!rs + Arch!rt) % N)
  BY <1>1, <1>3, <1>4, <1>5, ExecutesADD
<1>8. op = "SUBU" => Arch!Write(ex.ins.rd, (Arch!rs - Arch!rt) % N)
  BY <1>1, <1>3, <1>4, <1>5, ExecutesSUBU
<1>9. op = "SLT" => Arch!Write(ex.ins.rd, Bit(Signed(Arch!rs) < Signed(Arch!rt)))
  BY <1>1, <1>3, <1>4, <1>5, ExecutesSLT
<1>10. op \in {"ADDI", "ADDIU"} => Arch!Write(ex.ins.rt, Arch!ea)
  BY <1>1, <1>3, <1>4, <1>5, ExecutesADDI
<1>11. op = "MUL" => Arch!Write(ex.ins.rd, (Arch!rs * Arch!rt) % N)
  BY <1>1, <1>3, <1>4, <1>5, ExecutesMUL
<1>12. 0 \in Reg /\ (AbsGpr' = AbsGpr => \A v : Arch!Write(0, v))
  BY SizeAssumption, SMT DEF Reg, Arch!Write
<1>13. op = "MOVZ" => Arch!Write(IF Arch!rt = 0 THEN ex.ins.rd ELSE 0, Arch!rs)
  <2>1. SUFFICES ASSUME op = "MOVZ"
                 PROVE  Arch!Write(IF Arch!rt = 0 THEN ex.ins.rd ELSE 0, Arch!rs)
    OBVIOUS
  <2>2. p.ctl = Control("MOVZ") /\ p.rt = Arch!rt /\ p.rs = Arch!rs
    BY <1>1, <1>3, <2>1
  <2>3. CASE Arch!rt = 0
    BY <1>1, <1>4, <1>5, <2>2, <2>3, ExecutesMOV
  <2>4. CASE Arch!rt # 0
    BY <1>1, <1>4, <1>5, <1>12, <2>2, <2>4, ExecutesMOV
  <2>. QED  BY <2>3, <2>4
<1>14. op = "MOVN" => Arch!Write(IF Arch!rt # 0 THEN ex.ins.rd ELSE 0, Arch!rs)
  <2>1. SUFFICES ASSUME op = "MOVN"
                 PROVE  Arch!Write(IF Arch!rt # 0 THEN ex.ins.rd ELSE 0, Arch!rs)
    OBVIOUS
  <2>2. p.ctl = Control("MOVN") /\ p.rt = Arch!rt /\ p.rs = Arch!rs
    BY <1>1, <1>3, <2>1
  <2>3. CASE Arch!rt # 0
    BY <1>1, <1>4, <1>5, <2>2, <2>3, ExecutesMOV
  <2>4. CASE Arch!rt = 0
    BY <1>1, <1>4, <1>5, <1>12, <2>2, <2>4, ExecutesMOV
  <2>. QED  BY <2>3, <2>4
<1>15. /\ op = "MFHI" => Arch!Write(ex.ins.rd, ForwardHi(hi))
       /\ op = "MFLO" => Arch!Write(ex.ins.rd, ForwardLo(lo))
       /\ op = "MFC0" => Arch!Write(ex.ins.rt, Cop0Next[ex.ins.c0])
  BY <1>1, <1>4, <1>5, ExecutesMoveFrom
<1>16. op = "TEQ" => AbsGpr' = AbsGpr
  BY <1>1, <1>4, <1>5, DecodedTEQ, QuietOutputs
<1>17. \/ op = "SLL" /\ Arch!Write(ex.ins.rd, (Arch!rt * 2^ex.ins.imm) % N)
       \/ op \in {"ADD", "ADDU"} /\ Arch!Write(ex.ins.rd, (Arch!rs + Arch!rt) % N)
       \/ op = "SUBU" /\ Arch!Write(ex.ins.rd, (Arch!rs - Arch!rt) % N)
       \/ op = "SLT" /\ Arch!Write(ex.ins.rd, Arch!Bit(Arch!Signed(Arch!rs) < Arch!Signed(Arch!rt)))
       \/ op \in {"ADDI", "ADDIU"} /\ Arch!Write(ex.ins.rt, Arch!ea)
       \/ op = "MUL" /\ Arch!Write(ex.ins.rd, (Arch!rs * Arch!rt) % N)
       \/ op = "MOVZ" /\ Arch!Write(IF Arch!rt = 0 THEN ex.ins.rd ELSE 0, Arch!rs)
       \/ op = "MOVN" /\ Arch!Write(IF Arch!rt # 0 THEN ex.ins.rd ELSE 0, Arch!rs)
       \/ op = "MFHI" /\ Arch!Write(ex.ins.rd, ForwardHi(hi))
       \/ op = "MFLO" /\ Arch!Write(ex.ins.rd, ForwardLo(lo))
       \/ op = "MFC0" /\ Arch!Write(ex.ins.rt, Cop0Next[ex.ins.c0])
       \/ op = "TEQ" /\ AbsGpr' = AbsGpr
  BY <1>6, <1>7, <1>8, <1>9, <1>10, <1>11, <1>13, <1>14, <1>15, <1>16, ArchOperators
     DEF ArithmeticOps
<1>. QED  BY <1>1, <1>2, <1>17 DEF Arch!Arithmetic, QuietRest

\* The instructions that write hi and lo.
MultiplyOps == {"MULT", "MADD", "MTHI", "MTLO"}

\* They write hi and lo, and nothing else.
LEMMA MultiplySignals ==
  ASSUME NEW op \in MultiplyOps
  PROVE  /\ ~Control(op).write_reg /\ ~Control(op).write_llbit /\ ~Control(op).write_cop0
         /\ NoMemory(Control(op)) /\ Control(op).pc_src = "NEXT"
         /\ Control(op).opd_use = IF op \in {"MTHI", "MTLO"} THEN "RS" ELSE "BOTH"
         /\ Control(op).write_hi <=> op # "MTLO"
         /\ Control(op).write_lo <=> op # "MTHI"
         /\ Control(op).hilo_src = IF op \in {"MTHI", "MTLO"} THEN "RS" ELSE "MULDIV"
         /\ op = "MULT" => Control(op).muldiv_funct = "MULT"
         /\ op = "MADD" => Control(op).muldiv_funct = "MADD"
  BY DecodedMULT, DecodedMADD, DecodedMTHI, DecodedMTLO DEF MultiplyOps, Steers

\* What the multiplier, or the register, delivers is written to hi and lo.
LEMMA MultiplyImplemented ==
  ASSUME Retiring, ex.ins.op \in MultiplyOps
  PROVE  Arch!Multiply
<1>. DEFINE p       == ExecuteIn
            op      == ex.ins.op
            product == Signed(Arch!rs) * Signed(Arch!rt)
            hilo    == ForwardHi(hi) * N + ForwardLo(lo)
<1>1. /\ p.ins = ex.ins /\ Arch!i = ex.ins /\ p.ctl = ex.ctl /\ p.ctl = Control(op)
      /\ IsControl(p.ctl)
      /\ p.ctl.opd_use \in {"BOTH", "RS"} => p.rs = Arch!rs
      /\ p.ctl.opd_use \in {"BOTH", "RT"} => p.rt = Arch!rt
      /\ p.hi = ForwardHi(hi) /\ p.lo = ForwardLo(lo)
      /\ Arch!rs \in Word /\ Arch!rt \in Word
  BY Executing DEF Retiring
<1>2. ForwardHi(hi) \in Word /\ ForwardLo(lo) \in Word
  BY ArchTyped DEF Retiring, RInv
<1>3. /\ ~p.ctl.write_reg /\ ~p.ctl.write_llbit /\ ~p.ctl.write_cop0 /\ NoMemory(p.ctl)
      /\ p.ctl.pc_src = "NEXT"
      /\ p.ctl.opd_use = IF op \in {"MTHI", "MTLO"} THEN "RS" ELSE "BOTH"
      /\ p.ctl.write_hi <=> op # "MTLO"
      /\ p.ctl.write_lo <=> op # "MTHI"
      /\ p.ctl.hilo_src = IF op \in {"MTHI", "MTLO"} THEN "RS" ELSE "MULDIV"
      /\ op = "MULT" => p.ctl.muldiv_funct = "MULT"
      /\ op = "MADD" => p.ctl.muldiv_funct = "MADD"
  BY <1>1, MultiplySignals
<1>4. Arch!Sequential
  BY <1>1, <1>3, RetiringSequential
<1>5. Out = ExecuteOut(p)
  BY DEF Out
<1>6. /\ Out.ctl.write_hi = p.ctl.write_hi /\ Out.ctl.write_lo = p.ctl.write_lo
      /\ ~Out.ctl.write_llbit /\ ~Out.ctl.write_cop0
      /\ KeepsGpr(Out) /\ KeepsMemory(Out)
      /\ Out.dest_hi_data = HiData(p) /\ Out.dest_lo_data = LoData(p)
  BY <1>1, <1>3, <1>5, Outputs, OutputData, QuietOutputs
<1>7. /\ ForwardHi(hi)' = IF Out.ctl.write_hi THEN Out.dest_hi_data ELSE ForwardHi(hi)
      /\ ForwardLo(lo)' = IF Out.ctl.write_lo THEN Out.dest_lo_data ELSE ForwardLo(lo)
      /\ ForwardLlbit(llbit)' = IF Out.ctl.write_llbit THEN TRUE ELSE ForwardLlbit(llbit)
      /\ CauseNext' = CauseNext
      /\ ~Out.ctl.write_cop0 => Cop0Next' = Cop0Next
      /\ ~Out.write_mem => Stored' = Stored
      /\ imem' = imem
  BY RetiresRest DEF Retiring
<1>8. AbsGpr' = AbsGpr
  BY <1>6, RetiringGpr
<1>. HIDE DEF Out, p
<1>9. /\ ForwardHi(hi)' = IF op # "MTLO" THEN HiData(p) ELSE ForwardHi(hi)
      /\ ForwardLo(lo)' = IF op # "MTHI" THEN LoData(p) ELSE ForwardLo(lo)
      /\ UNCHANGED <<imem, Stored, AbsGpr, ForwardLlbit(llbit), Cop0Next, CauseNext>>
  BY <1>3, <1>6, <1>7, <1>8 DEF KeepsMemory
<1>10. op \in {"MTHI", "MTLO"} => HiData(p) = Arch!rs /\ LoData(p) = Arch!rs
  BY <1>1, <1>3, ExecutesHiLo
<1>11. op \in {"MULT", "MADD"}
         => HiData(p) = MulDivOut(p).hi /\ LoData(p) = MulDivOut(p).lo
            /\ p.rs = Arch!rs /\ p.rt = Arch!rt
  BY <1>1, <1>3, ExecutesHiLo
<1>12. op = "MULT" => HiData(p) = (product \div N) % N /\ LoData(p) = product % N
  <2>1. SUFFICES ASSUME op = "MULT"
                 PROVE  HiData(p) = (product \div N) % N /\ LoData(p) = product % N
    OBVIOUS
  <2>2. MulDivOut(p) = [hi |-> (product \div N) % N, lo |-> product % N]
    BY <1>1, <1>3, <1>11, <2>1, Multiplier
  <2>. HIDE DEF product
  <2>. QED  BY <1>11, <2>1, <2>2
<1>13. op = "MADD" => /\ HiData(p) = ((hilo + product) \div N) % N
                      /\ LoData(p) = (hilo + product) % N
  <2>1. SUFFICES ASSUME op = "MADD"
                 PROVE  /\ HiData(p) = ((hilo + product) \div N) % N
                        /\ LoData(p) = (hilo + product) % N
    OBVIOUS
  <2>2. MulDivOut(p) = [hi |-> ((hilo + product) \div N) % N, lo |-> (hilo + product) % N]
    BY <1>1, <1>2, <1>3, <1>11, <2>1, Multiplier
  <2>. HIDE DEF product, hilo
  <2>. QED  BY <1>11, <2>1, <2>2
<1>14. /\ Arch!Product = product
       /\ \A q : Arch!WriteHiLo(q) <=> /\ ForwardHi(hi)' = (q \div N) % N
                                       /\ ForwardLo(lo)' = q % N
  BY ArchOperators DEF Arch!Product, Arch!WriteHiLo
<1>. HIDE DEF product, hilo
<1>15. op = "MULT" => Arch!WriteHiLo(Arch!Product)
  BY <1>9, <1>12, <1>14
<1>16. op = "MADD" => Arch!WriteHiLo(hilo + Arch!Product)
  BY <1>9, <1>13, <1>14
<1>17. \/ op = "MULT" /\ Arch!WriteHiLo(Arch!Product)
       \/ op = "MADD" /\ Arch!WriteHiLo(hilo + Arch!Product)
       \/ op = "MTHI" /\ ForwardHi(hi)' = Arch!rs /\ UNCHANGED ForwardLo(lo)
       \/ op = "MTLO" /\ ForwardLo(lo)' = Arch!rs /\ UNCHANGED ForwardHi(hi)
  BY <1>9, <1>10, <1>15, <1>16 DEF MultiplyOps
<1>. QED  BY <1>1, <1>4, <1>9, <1>17 DEF Arch!Multiply, hilo

\* Loads and stores.
MemoryOps == {"LW", "SW", "LL", "SC"}

\* What loads and stores read and write, ll and sc among them.
LEMMA MemorySignals ==
  ASSUME NEW op \in MemoryOps
  PROVE  /\ ~Control(op).write_hi /\ ~Control(op).write_lo /\ Control(op).pc_src = "NEXT"
         /\ Control(op).opd_use = IF op \in {"LW", "LL"} THEN "RS" ELSE "BOTH"
         /\ Control(op).write_llbit <=> op = "LL"
         /\ Control(op).write_cop0 <=> op = "LL"
         /\ Control(op).read_mem <=> op \in {"LW", "LL"}
         /\ Control(op).mem_write_cond = IF op = "SW" THEN "ALWAYS"
                                         ELSE IF op = "SC" THEN "WHEN_LLBIT" ELSE "KEEP"
         /\ op = "SW" => ~Control(op).write_reg
         /\ op \in {"LW", "LL"} => Result(Control(op), "RT", "MEM", "ALWAYS")
         /\ op = "SC" => Result(Control(op), "RT", "LLBIT", "ALWAYS")
  BY DecodedLW, DecodedSW, DecodedLL, DecodedSC DEF MemoryOps, Steers, Quiet

\* A load delivers what the stores before it have left in the memory.
LEMMA MemoryImplemented ==
  ASSUME Retiring, ex.ins.op \in MemoryOps
  PROVE  Arch!Memory
<1>. DEFINE p  == ExecuteIn
            op == ex.ins.op
<1>1. /\ p.ins = ex.ins /\ Arch!i = ex.ins /\ p.ctl = ex.ctl /\ p.ctl = Control(op)
      /\ IsControl(p.ctl)
      /\ ex.ins.imm \in Word /\ ex.ins.rt \in Reg
      /\ p.ctl.opd_use \in {"BOTH", "RS"} => p.rs = Arch!rs
      /\ p.ctl.opd_use \in {"BOTH", "RT"} => p.rt = Arch!rt
      /\ p.llbit = ForwardLlbit(llbit)
      /\ Arch!rs \in Word /\ Arch!rt \in Word
      /\ Arch!ea = (Arch!rs + ex.ins.imm) % N
  BY Executing DEF Retiring
<1>2. /\ ~p.ctl.write_hi /\ ~p.ctl.write_lo /\ p.ctl.pc_src = "NEXT"
      /\ p.ctl.opd_use = IF op \in {"LW", "LL"} THEN "RS" ELSE "BOTH"
      /\ p.ctl.write_llbit <=> op = "LL"
      /\ p.ctl.write_cop0 <=> op = "LL"
      /\ p.ctl.read_mem <=> op \in {"LW", "LL"}
      /\ p.ctl.mem_write_cond = IF op = "SW" THEN "ALWAYS"
                                ELSE IF op = "SC" THEN "WHEN_LLBIT" ELSE "KEEP"
      /\ op = "SW" => ~p.ctl.write_reg
      /\ op \in {"LW", "LL"} => Result(p.ctl, "RT", "MEM", "ALWAYS")
      /\ op = "SC" => Result(p.ctl, "RT", "LLBIT", "ALWAYS")
  BY <1>1, MemorySignals
<1>3. Arch!Sequential
  BY <1>1, <1>2, RetiringSequential
<1>4. Out = ExecuteOut(p)
  BY DEF Out
<1>5. /\ ~Out.ctl.write_hi /\ ~Out.ctl.write_lo
      /\ Out.ctl.write_llbit <=> op = "LL"
      /\ Out.ctl.write_cop0 <=> op = "LL"
      /\ Out.ctl.read_mem <=> op \in {"LW", "LL"}
  BY <1>1, <1>2, <1>4, Outputs
<1>6. Out.mem_addr = Arch!ea
  BY <1>1, <1>2, <1>4, OutputData DEF Plus, Defined
<1>7. /\ Out.write_mem <=> op = "SW" \/ (op = "SC" /\ ForwardLlbit(llbit))
      /\ op \in {"SW", "SC"} => Out.rt = Arch!rt
  BY <1>1, <1>2, <1>4, OutputData
<1>8. /\ op = "SW" => KeepsGpr(Out)
      /\ op \in {"LW", "LL"} => Loads(Out, ex.ins.rt)
      /\ op = "SC" => Delivers(Out, ex.ins.rt, Bit(ForwardLlbit(llbit)))
  <2>1. op = "SW" => KeepsGpr(Out)
    BY <1>1, <1>2, <1>4, QuietOutputs
  <2>2. op \in {"LW", "LL"} => Loads(Out, ex.ins.rt)
    BY <1>1, <1>2, <1>4, Outputs, OutputData, Destination DEF Result, Loads
  <2>3. op = "SC" => Delivers(Out, ex.ins.rt, Bit(ForwardLlbit(llbit)))
    BY <1>1, <1>2, <1>4, ResultDelivered, Destination, Source DEF Result
  <2>. QED  BY <2>1, <2>2, <2>3
<1>9. op = "LL" => Out.dest_cop0 = "LLAddr" /\ Out.dest_cop0_data = Arch!ea
  <2>1. SUFFICES ASSUME op = "LL"
                 PROVE  Out.dest_cop0 = "LLAddr" /\ Out.dest_cop0_data = Arch!ea
    OBVIOUS
  <2>2. DestCop0(p) = "LLAddr" /\ Cop0Data(p) = Plus(p.rs, p.ins.imm)
    BY <1>1, <2>1, ExecutesCop0
  <2>. QED  BY <1>4, <1>6, <2>2, OutputData
<1>10. Out.ctl.read_mem \/ Out.write_mem => Arch!ea \in DataAddr
  <2>1. mem' = Out /\ prev_stall' = FALSE
    BY MovingEdge DEF Retiring
  <2>2. mem'.ctl.read_mem \/ MemWrite' => mem'.mem_addr \in DataAddr
    BY DEF Retiring, Predictable, Allowed
  <2>. QED  BY <1>6, <2>1, <2>2 DEF MemWrite
<1>11. /\ ForwardHi(hi)' = ForwardHi(hi) /\ ForwardLo(lo)' = ForwardLo(lo)
       /\ ForwardLlbit(llbit)' = IF op = "LL" THEN TRUE ELSE ForwardLlbit(llbit)
       /\ CauseNext' = CauseNext
       /\ Cop0Next' = IF op = "LL" THEN [Cop0Next EXCEPT !["LLAddr"] = Arch!ea] ELSE Cop0Next
       /\ Stored' = IF op = "SW" \/ (op = "SC" /\ ForwardLlbit(llbit))
                    THEN [Stored EXCEPT ![Arch!ea] = Arch!rt] ELSE Stored
       /\ op \in {"LW", "LL"} => MemData' = Stored[Arch!ea]
       /\ imem' = imem
  <2>1. /\ ForwardHi(hi)' = IF Out.ctl.write_hi THEN Out.dest_hi_data ELSE ForwardHi(hi)
        /\ ForwardLo(lo)' = IF Out.ctl.write_lo THEN Out.dest_lo_data ELSE ForwardLo(lo)
        /\ ForwardLlbit(llbit)' = IF Out.ctl.write_llbit THEN TRUE ELSE ForwardLlbit(llbit)
        /\ CauseNext' = CauseNext
        /\ Cop0Next' = IF Out.ctl.write_cop0
                       THEN [Cop0Next EXCEPT ![Out.dest_cop0] = Out.dest_cop0_data] ELSE Cop0Next
        /\ Stored' = IF Out.write_mem /\ Out.mem_addr \in DataAddr
                     THEN [Stored EXCEPT ![Out.mem_addr] = Out.rt] ELSE Stored
        /\ ~Out.write_mem => MemData' = IF Out.ctl.read_mem /\ Out.mem_addr \in DataAddr
                                        THEN Stored[Out.mem_addr] ELSE X
        /\ imem' = imem
    BY RetiresRest DEF Retiring
  <2>. HIDE DEF Out
  <2>. QED  BY ONLY <1>5, <1>6, <1>7, <1>9, <1>10, <2>1
<1>. HIDE DEF Out, p
<1>12. /\ op = "SW" => AbsGpr' = AbsGpr
       /\ op \in {"LW", "LL"} => Arch!Write(ex.ins.rt, Stored[Arch!ea])
       /\ op = "SC" => Arch!Write(ex.ins.rt, Bit(ForwardLlbit(llbit)))
  BY <1>1, <1>8, <1>11, RetiringGpr
<1>13. (op = "SC" /\ ~ForwardLlbit(llbit)) \/ Arch!ea \in DataAddr
  BY <1>5, <1>7, <1>10 DEF MemoryOps
<1>14. \/ /\ op = "LW" /\ Arch!Write(ex.ins.rt, Stored[Arch!ea])
          /\ UNCHANGED <<Stored, ForwardLlbit(llbit), Cop0Next>>
       \/ /\ op = "SW" /\ Stored' = [Stored EXCEPT ![Arch!ea] = Arch!rt]
          /\ UNCHANGED <<AbsGpr, ForwardLlbit(llbit), Cop0Next>>
       \/ /\ op = "LL" /\ Arch!Write(ex.ins.rt, Stored[Arch!ea]) /\ ForwardLlbit(llbit)' = TRUE
          /\ Cop0Next' = [Cop0Next EXCEPT !["LLAddr"] = Arch!ea]
          /\ UNCHANGED Stored
       \/ /\ op = "SC" /\ Arch!Write(ex.ins.rt, Bit(ForwardLlbit(llbit)))
          /\ Stored' = IF ForwardLlbit(llbit) THEN [Stored EXCEPT ![Arch!ea] = Arch!rt]
                       ELSE Stored
          /\ UNCHANGED <<ForwardLlbit(llbit), Cop0Next>>
  BY <1>11, <1>12 DEF MemoryOps
<1>. QED  BY <1>1, <1>3, <1>11, <1>13, <1>14, ArchOperators DEF Arch!Memory

\* Control transfers.
TransferOps == {"BEQ", "BNE", "BGEZAL", "J", "JAL", "JR", "JALR"}

\* They write the link register at most, and say where their target is from.
LEMMA TransferSignals ==
  ASSUME NEW op \in TransferOps
  PROVE  /\ Quiet(Control(op)) /\ NoMemory(Control(op))
         /\ Control(op).pc_src = IF op \in {"BEQ", "BNE", "BGEZAL"} THEN "BRANCH"
                                 ELSE IF op \in {"J", "JAL"} THEN "JUMP" ELSE "REGISTER"
         /\ op \in {"BEQ", "BNE"} => Control(op).opd_use = "BOTH"
         /\ op \in {"BGEZAL", "JR", "JALR"} => Control(op).opd_use = "RS"
         /\ op \in {"BEQ", "BNE", "J", "JR"} => ~Control(op).write_reg
  BY DecodedBEQ, DecodedBNE, DecodedBGEZAL, DecodedJ, DecodedJAL, DecodedJR, DecodedJALR
  DEF TransferOps, Steers

\* The delay slot is executed, then the target, and the link is written.
LEMMA BranchImplemented ==
  ASSUME Retiring, ex.ins.op \in TransferOps
  PROVE  Arch!Branch
<1>. DEFINE p      == ExecuteIn
            op     == ex.ins.op
            target == (AbsPc + 1 + ex.ins.imm) % N
            link   == (AbsPc + 2) % N
<1>1. /\ p.ins = ex.ins /\ Arch!i = ex.ins /\ p.ctl = ex.ctl /\ p.ctl = Control(op)
      /\ IsControl(p.ctl) /\ p.pc = ex.pc /\ ex.pc \in Word
      /\ ex.ins.imm \in Word /\ ex.ins.rt \in Reg /\ ex.ins.rd \in Reg
      /\ p.ctl.opd_use \in {"BOTH", "RS"} => p.rs = Arch!rs
      /\ p.ctl.opd_use \in {"BOTH", "RT"} => p.rt = Arch!rt
      /\ Arch!rs \in Word /\ Arch!rt \in Word
  BY Executing DEF Retiring
<1>2. /\ Quiet(p.ctl) /\ NoMemory(p.ctl)
      /\ p.ctl.pc_src = IF op \in {"BEQ", "BNE", "BGEZAL"} THEN "BRANCH"
                        ELSE IF op \in {"J", "JAL"} THEN "JUMP" ELSE "REGISTER"
      /\ op \in {"BEQ", "BNE"} => p.rs = Arch!rs /\ p.rt = Arch!rt
      /\ op \in {"BGEZAL", "JR", "JALR"} => p.rs = Arch!rs
      /\ op \in {"BEQ", "BNE", "J", "JR"} => ~p.ctl.write_reg
  BY <1>1, TransferSignals
<1>3. QuietRest
  BY <1>1, <1>2, RetiringQuietly
<1>4. AbsPc = ex.pc
  BY DEF AbsPc, Retiring
<1>5. /\ AbsPc' = AbsNpc /\ AbsSlot' = TRUE
      /\ AbsNpc' = IF ex.ctl.pc_src = "BRANCH" /\ ~TakesBranch(p) THEN Succ(AbsNpc) ELSE Target
  BY <1>1, <1>2, PcTransfers DEF Retiring, TransferOps
<1>6. Target = IF op \in {"BEQ", "BNE", "BGEZAL"} THEN target
               ELSE IF op \in {"J", "JAL"} THEN ex.ins.imm ELSE Arch!rs
  BY <1>1, <1>2, <1>4, BranchTarget DEF Target, TransferOps
<1>7. \A taken \in BOOLEAN : \A t :
        Arch!Transfer(taken, t) <=> /\ AbsPc' = AbsNpc /\ AbsSlot' = TRUE
                                    /\ AbsNpc' = IF taken THEN t ELSE Succ(AbsNpc)
  BY ArchOperators DEF Arch!Transfer
<1>8. /\ KeepsGpr(Out) => AbsGpr' = AbsGpr
      /\ \A r \in Reg : \A v : Delivers(Out, r, v) => Arch!Write(r, v)
  BY RetiringGpr
<1>9. Out = ExecuteOut(p)
  BY DEF Out
<1>. HIDE DEF Out, p, target
<1>10. /\ op = "BEQ" => Arch!Transfer(Arch!rs = Arch!rt, target)
       /\ op = "BNE" => Arch!Transfer(Arch!rs # Arch!rt, target)
  <2>1. op \in {"BEQ", "BNE"} => (TakesBranch(p) <=> (op = "BEQ" <=> Arch!rs = Arch!rt))
    BY <1>1, <1>2, ExecutesBranch
  <2>. QED  BY <1>1, <1>2, <1>5, <1>6, <1>7, <2>1
<1>11. op = "BGEZAL" => Arch!Transfer(~Negative(Arch!rs), target)
  <2>1. op = "BGEZAL" => (TakesBranch(p) <=> ~Negative(Arch!rs))
    BY <1>1, <1>2, ExecutesBranch
  <2>2. Negative(Arch!rs) \in BOOLEAN
    BY DEF Negative
  <2>. QED  BY <1>1, <1>2, <1>5, <1>6, <1>7, <2>1, <2>2
<1>12. /\ op \in {"J", "JAL"} => Arch!Transfer(TRUE, ex.ins.imm)
       /\ op \in {"JR", "JALR"} => Arch!Transfer(TRUE, Arch!rs)
  BY <1>1, <1>2, <1>5, <1>6, <1>7
<1>13. op \in {"BEQ", "BNE", "J", "JR"} => AbsGpr' = AbsGpr
  BY <1>1, <1>2, <1>8, <1>9, QuietOutputs
<1>14. RA \in Reg
  BY SizeAssumption, SMT DEF RA, Reg
<1>15. /\ op \in {"BGEZAL", "JAL"} => Arch!Write(RA, link)
       /\ op = "JALR" => Arch!Write(ex.ins.rd, link)
  <2>1. p.pc \in Word /\ link = (p.pc + 2) % N
    BY <1>1, <1>4
  <2>. HIDE DEF link
  <2>. QED  BY <1>1, <1>8, <1>9, <1>14, <2>1, ExecutesLink
<1>. HIDE DEF link
<1>16. \/ op = "BEQ" /\ Arch!Transfer(Arch!rs = Arch!rt, target) /\ AbsGpr' = AbsGpr
       \/ op = "BNE" /\ Arch!Transfer(Arch!rs # Arch!rt, target) /\ AbsGpr' = AbsGpr
       \/ op = "BGEZAL" /\ Arch!Transfer(~Negative(Arch!rs), target) /\ Arch!Write(RA, link)
       \/ op = "J" /\ Arch!Transfer(TRUE, ex.ins.imm) /\ AbsGpr' = AbsGpr
       \/ op = "JAL" /\ Arch!Transfer(TRUE, ex.ins.imm) /\ Arch!Write(RA, link)
       \/ op = "JR" /\ Arch!Transfer(TRUE, Arch!rs) /\ AbsGpr' = AbsGpr
       \/ op = "JALR" /\ Arch!Transfer(TRUE, Arch!rs) /\ Arch!Write(ex.ins.rd, link)
  BY <1>10, <1>11, <1>12, <1>13, <1>15 DEF TransferOps
<1>17. Arch!Negative(Arch!rs) = Negative(Arch!rs) /\ Arch!RA = RA
  BY ArchOperators, ArchSets
<1>. QED  BY <1>1, <1>3, <1>16, <1>17 DEF Arch!Branch, QuietRest, target, link

\* What the system control instructions write to coprocessor 0.
SystemOps == {"MTC0", "EI", "DI", "ERET"}

\* They write coprocessor 0, and a register only where Status is read.
LEMMA SystemSignals ==
  ASSUME NEW op \in SystemOps
  PROVE  /\ ~Control(op).write_hi /\ ~Control(op).write_lo /\ ~Control(op).write_llbit
         /\ Control(op).write_cop0 /\ NoMemory(Control(op))
         /\ Control(op).pc_src = IF op = "ERET" THEN "ERET" ELSE "NEXT"
         /\ op = "MTC0" => Control(op).opd_use = "RT"
         /\ op \in {"MTC0", "ERET"} => ~Control(op).write_reg
  BY DecodedMTC0, DecodedEI, DecodedDI, DecodedERET DEF SystemOps, Steers

\* They change Status as Isa says, and ERET returns where the exception was.
LEMMA SystemImplemented ==
  ASSUME Retiring, ex.ins.op \in SystemOps
  PROVE  Arch!System
<1>. DEFINE p  == ExecuteIn
            op == ex.ins.op
<1>1. /\ p.ins = ex.ins /\ Arch!i = ex.ins /\ p.ctl = ex.ctl /\ p.ctl = Control(op)
      /\ IsControl(p.ctl) /\ ex.ins.rt \in Reg
      /\ p.ctl.opd_use \in {"BOTH", "RT"} => p.rt = Arch!rt
      /\ p.cop0 = Cop0Next[ex.ins.c0] /\ p.status = Arch!Status /\ Arch!Status \in Word
  BY Executing DEF Retiring
<1>2. /\ ~p.ctl.write_hi /\ ~p.ctl.write_lo /\ ~p.ctl.write_llbit
      /\ p.ctl.write_cop0 /\ NoMemory(p.ctl)
      /\ p.ctl.pc_src = IF op = "ERET" THEN "ERET" ELSE "NEXT"
      /\ op = "MTC0" => p.rt = Arch!rt
      /\ op \in {"MTC0", "ERET"} => ~p.ctl.write_reg
  BY <1>1, SystemSignals
<1>3. Out = ExecuteOut(p)
  BY DEF Out
<1>4. /\ ~Out.ctl.write_hi /\ ~Out.ctl.write_lo /\ ~Out.ctl.write_llbit /\ Out.ctl.write_cop0
      /\ KeepsMemory(Out)
      /\ op \in {"MTC0", "ERET"} => KeepsGpr(Out)
  BY <1>1, <1>2, <1>3, Outputs, QuietOutputs
<1>5. /\ op = "MTC0" => Out.dest_cop0 = ex.ins.c0 /\ Out.dest_cop0_data = Arch!rt
      /\ op = "EI" => Out.dest_cop0 = "Status" /\ Out.dest_cop0_data = SetIE(Arch!Status)
      /\ op = "DI" => Out.dest_cop0 = "Status" /\ Out.dest_cop0_data = ClearIE(Arch!Status)
      /\ op = "ERET" => Out.dest_cop0 = "Status" /\ Out.dest_cop0_data = AfterEret(Arch!Status)
  <2>1. Out.dest_cop0 = DestCop0(p) /\ Out.dest_cop0_data = Cop0Data(p)
    BY <1>3, OutputData
  <2>2. /\ p.ctl = Control("MTC0") => DestCop0(p) = p.ins.c0 /\ Cop0Data(p) = p.rt
        /\ p.ctl = Control("EI") => DestCop0(p) = "Status" /\ Cop0Data(p) = SetIE(p.status)
        /\ p.ctl = Control("DI") => DestCop0(p) = "Status" /\ Cop0Data(p) = ClearIE(p.status)
        /\ p.ctl = Control("ERET")
             => DestCop0(p) = "Status" /\ Cop0Data(p) = AfterEret(p.status)
    BY <1>1, ExecutesCop0
  <2>. HIDE DEF p, Out
  <2>. QED  BY <1>1, <1>2, <2>1, <2>2
<1>6. /\ UNCHANGED <<imem, Stored, ForwardHi(hi), ForwardLo(lo), ForwardLlbit(llbit), CauseNext>>
      /\ Cop0Next' = [Cop0Next EXCEPT ![Out.dest_cop0] = Out.dest_cop0_data]
  <2>1. /\ ForwardHi(hi)' = IF Out.ctl.write_hi THEN Out.dest_hi_data ELSE ForwardHi(hi)
        /\ ForwardLo(lo)' = IF Out.ctl.write_lo THEN Out.dest_lo_data ELSE ForwardLo(lo)
        /\ ForwardLlbit(llbit)' = IF Out.ctl.write_llbit THEN TRUE ELSE ForwardLlbit(llbit)
        /\ CauseNext' = CauseNext
        /\ Cop0Next' = IF Out.ctl.write_cop0
                       THEN [Cop0Next EXCEPT ![Out.dest_cop0] = Out.dest_cop0_data] ELSE Cop0Next
        /\ ~Out.write_mem => Stored' = Stored
        /\ imem' = imem
    BY RetiresRest DEF Retiring
  <2>. HIDE DEF Out
  <2>. QED  BY <1>4, <2>1 DEF KeepsMemory
<1>7. /\ KeepsGpr(Out) => AbsGpr' = AbsGpr
      /\ \A r \in Reg : \A v : Delivers(Out, r, v) => Arch!Write(r, v)
  BY RetiringGpr
<1>. HIDE DEF Out, p
<1>8. op \in {"MTC0", "ERET"} => AbsGpr' = AbsGpr
  BY <1>4, <1>7
<1>9. op \in {"EI", "DI"} => Arch!Write(ex.ins.rt, Arch!Status)
  <2>1. SUFFICES ASSUME op \in {"EI", "DI"} PROVE Arch!Write(ex.ins.rt, Arch!Status)
    OBVIOUS
  <2>2. ex.ins.c0 = "Status"
    <3>1. ex.pc \in Word /\ ex.ins = imem[ex.pc]
      BY DEF Retiring, RInv, StagesHold
    <3>. QED  BY <2>1, <3>1 DEF Retiring, Predictable, Allowed
  <2>3. p.cop0 = Arch!Status
    BY <1>1, <2>2 DEF Arch!Status
  <2>4. Delivers(Out, p.ins.rt, p.cop0)
    BY <1>1, <1>3, <2>1, ExecutesMoveFrom
  <2>. QED  BY <1>1, <1>7, <2>3, <2>4
<1>10. op # "ERET" => Arch!Sequential
  BY <1>1, <1>2, RetiringSequential
<1>11. op = "ERET" => /\ AbsPc' = ReturnAddress(Arch!Status, Cop0Next["ErrorEPC"], Cop0Next["EPC"])
                      /\ AbsNpc' = Succ(AbsPc') /\ AbsSlot' = FALSE
  BY <1>1, <1>2, PcReturns DEF Retiring
<1>12. Arch!Status = Cop0Next["Status"]
  BY DEF Arch!Status
<1>13. \/ /\ op = "MTC0" /\ Cop0Next' = [Cop0Next EXCEPT ![ex.ins.c0] = Arch!rt]
          /\ Arch!Sequential /\ UNCHANGED AbsGpr
       \/ /\ op = "EI" /\ Cop0Next' = [Cop0Next EXCEPT !["Status"] = SetIE(@)]
          /\ Arch!Sequential /\ Arch!Write(ex.ins.rt, Arch!Status)
       \/ /\ op = "DI" /\ Cop0Next' = [Cop0Next EXCEPT !["Status"] = ClearIE(@)]
          /\ Arch!Sequential /\ Arch!Write(ex.ins.rt, Arch!Status)
       \/ /\ op = "ERET" /\ Cop0Next' = [Cop0Next EXCEPT !["Status"] = AfterEret(@)]
          /\ AbsPc' = ReturnAddress(Arch!Status, Cop0Next["ErrorEPC"], Cop0Next["EPC"])
          /\ AbsNpc' = Succ(AbsPc') /\ AbsSlot' = FALSE /\ UNCHANGED AbsGpr
  BY <1>5, <1>6, <1>8, <1>9, <1>10, <1>11, <1>12 DEF SystemOps
<1>. QED  BY <1>1, <1>6, <1>13, ArchOperators DEF Arch!System

\* Whatever completes is one step of Isa.
LEMMA InstructionImplemented ==
  ASSUME Retiring
  PROVE  Arch!Execute
<1>1. Arch!Completes
  BY RetiringCompletes
<1>2. ex.ins.op \in CoreOp
  BY Executing DEF Retiring
<1>3. ex.ins.op \notin Stops
  <2>1. Arch!i = ex.ins
    BY Executing DEF Retiring
  <2>2. ~Arch!Raises("SYS") /\ ~Arch!Raises("BP") /\ ~Arch!Raises("RI")
    BY <1>1 DEF Arch!Completes, Arch!ExcCode
  <2>. QED  BY <2>1, <2>2 DEF Arch!Raises, Stops
<1>4. \/ ex.ins.op \in ArithmeticOps \/ ex.ins.op \in MultiplyOps \/ ex.ins.op \in MemoryOps
      \/ ex.ins.op \in TransferOps \/ ex.ins.op \in SystemOps
  BY <1>2, <1>3
     DEF CoreOp, Stops, ArithmeticOps, MultiplyOps, MemoryOps, TransferOps, SystemOps
<1>. QED
  BY <1>1, <1>4, ArithmeticImplemented, MultiplyImplemented, MemoryImplemented,
     BranchImplemented, SystemImplemented
  DEF Arch!Execute

----------------------------------------------------------------------------
\* The invariant is inductive.

\* What the fetch stage is told to load, when it is told so.
LEMMA LoadedAddress ==
  ASSUME TypeOK, RInv, LoadNotForwarded, ~Exc.happen, Redirects \/ Jumps
  PROVE  Signals.pc \in Word /\ (~Redirects => Signals.pc = id.ins.imm)
<1>1. StagesHold /\ id.ins.imm \in Word /\ Cop0Next \in [Cop0Reg -> Word]
  BY ArchTyped DEF RInv, TypeOK, DecodeRegister, Instr
<1>2. Redirects => ex.fetch
  BY <1>1, BubbleOut, NoTransferNoRedirect
<1>3. Signals.pc = IF ExecuteIn.ctl.pc_src = "ERET" THEN
                     IfDefined(ExecuteIn.status, ReturnAddress(ExecuteIn.status,
                                                   ExecuteIn.errorepc, ExecuteIn.epc))
                   ELSE IF ExecuteIn.ctl.pc_src = "REGISTER" THEN ExecuteIn.rs
                   ELSE IF TakesBranch(ExecuteIn)
                   THEN Plus(Plus(ExecuteIn.pc, 1), ExecuteIn.ins.imm) ELSE id.ins.imm
  BY SignalsDefined
<1>4. CASE ~Redirects
  BY <1>1, <1>3, <1>4 DEF Redirects
<1>5. CASE Redirects
  <2>1. /\ ex.fetch /\ ExecuteIn.pc \in Word /\ ExecuteIn.ins = ex.ins /\ ex.ins.imm \in Word
        /\ ExecuteIn.ctl = Control(ex.ins.op) /\ Characterises(ExecuteIn.ctl, ex.ins.op)
        /\ ExecuteIn.ctl.opd_use \in {"BOTH", "RS"} => ExecuteIn.rs = Arch!rs
        /\ Arch!rs \in Word
    BY <1>2, <1>5, Executing
  <2>2. CASE ExecuteIn.ctl.pc_src = "ERET"
    <3>1. /\ ExecuteIn.status = Arch!Status /\ ExecuteIn.epc = Cop0Next["EPC"]
          /\ ExecuteIn.errorepc = Cop0Next["ErrorEPC"] /\ Arch!Status \in Word
      BY <2>1, OperandsCurrent, ArchWords
    <3>2. Cop0Next["EPC"] \in Word /\ Cop0Next["ErrorEPC"] \in Word
      BY <1>1 DEF Cop0Reg
    <3>. QED  BY <1>3, <1>5, <2>2, <3>1, <3>2 DEF IfDefined, ReturnAddress
  <2>3. CASE ExecuteIn.ctl.pc_src = "REGISTER"
    <3>1. ex.ins.op \in {"JR", "JALR"}
      BY <2>1, <2>3 DEF Characterises, JumpsReg, Branches, JumpsTo, Stops
    <3>2. ExecuteIn.ctl.opd_use = "RS"
      BY <2>1, <3>1, DecodedJR, DecodedJALR DEF Steers
    <3>. QED  BY <1>3, <1>5, <2>1, <2>3, <3>2
  <2>4. CASE TakesBranch(ExecuteIn)
    <3>1. ExecuteIn.ctl.pc_src = "BRANCH"
      BY <2>4 DEF TakesBranch
    <3>2. \A a, b \in Word : Plus(a, b) \in Word
      BY SizeAssumption, SMT DEF Plus, Defined, Word
    <3>3. 1 \in Word
      BY SizeAssumption, SMT DEF Word
    <3>. QED  BY <1>3, <1>5, <2>1, <2>4, <3>1, <3>2, <3>3
  <2>. QED  BY <1>5, <2>2, <2>3, <2>4 DEF Redirects
<1>. QED  BY <1>4, <1>5

\* A transfer that has been fetched after another one is not executed before it.
LEMMA NoTransferAfterTransfer ==
  ASSUME StagesHold, PcFollows, WellFormed(imem), ex.fetch, Transfers(ex.ins)
  PROVE  id.fetch /\ ~Transfers(id.ins)
<1>1. id.fetch /\ id.pc = (ex.pc + 1) % N
  BY DEF PcFollows, Succ
<1>2. id.ins = imem[(ex.pc + 1) % N] /\ ex.ins = imem[ex.pc] /\ ex.pc \in Word
  BY <1>1 DEF StagesHold
<1>. QED  BY <1>1, <1>2 DEF WellFormed

\* The stages hold what the program says, one after the other.
LEMMA StagesHoldNext ==
  ASSUME TypeOK, RInv, LoadNotForwarded, Predictable, ClockEdge
  PROVE  StagesHold' /\ PcFollows'
<1>1. StagesHold /\ PcFollows /\ pc_reg \in Word /\ imem' = imem
  BY DEF RInv, StagesHold, ClockEdge
<1>2. CASE Signals.stall
  BY <1>1, <1>2, StalledEdge DEF StagesHold, PcFollows, Jump
<1>3. CASE Exc.happen
  <2>1. ExcVector(Exc.code) \in Word
    BY SizeAssumption DEF ExcVector
  <2>. QED  BY <1>3, <2>1, ExceptionEdge DEF StagesHold, PcFollows
<1>4. CASE ~Signals.stall /\ ~Exc.happen /\ LoadUse(Out)
  <2>1. id' = id /\ pc_reg' = pc_reg /\ ~ex'.fetch /\ ex'.ctl = ClearControl
    BY <1>4, LoadUseEdge
  <2>2. id.fetch => pc_reg = Succ(id.pc)
    BY <1>1, <1>4, LoadUseIsLoad DEF PcFollows, Jump
  <2>. QED  BY <1>1, <2>1, <2>2 DEF StagesHold, PcFollows
<1>5. CASE ~Signals.stall /\ ~Exc.happen /\ ~LoadUse(Out)
  <2>1. /\ id'.fetch <=> ~Redirects /\ ~InstructionBusy
        /\ id'.fetch => id'.pc = pc_reg /\ id'.ins = imem[pc_reg]
        /\ ~id'.fetch => id'.ins = Nop
        /\ pc_reg' = IF InstructionBusy THEN pc_reg
                     ELSE IF Redirects \/ Jumps THEN Signals.pc ELSE Succ(pc_reg)
    BY <1>1, <1>5, FetchEdge
  <2>2. Succ(pc_reg) \in Word
    BY <1>1, SizeAssumption, SMT DEF Succ, Word
  <2>3. pc_reg' \in Word
    BY <1>1, <1>5, <2>1, <2>2, LoadedAddress
  <2>4. CASE ExecuteIn.ctl.pc_src = "ERET"
    <3>1. Redirects /\ Signals.ex_nullify
      BY <1>5, <2>4, SignalsDefined DEF Redirects
    <3>2. ~ex'.fetch /\ ex'.ctl = ClearControl
      BY <1>5, <3>1, MovingEdge DEF DecodeOut
    <3>. QED  BY <2>1, <2>3, <3>1, <3>2 DEF StagesHold, PcFollows
  <2>5. CASE ExecuteIn.ctl.pc_src # "ERET"
    <3>1. /\ ex'.fetch = id.fetch /\ ex'.pc = id.pc /\ ex'.ins = id.ins
          /\ ex'.ctl = Control(id.ins.op)
      BY <1>5, <2>5, DecodeEdge
    <3>2. Nop.op = "SLL"
      BY DEF Nop
    <3>3. StagesHold'
      BY <1>1, <2>1, <2>3, <3>1, <3>2 DEF StagesHold
    <3>4. (Jumps => id.fetch) /\ (Jumps <=> Jump(ex'))
      BY <1>1, <3>1, JumpInDecode DEF Jump
    <3>5. id'.fetch => pc_reg' = IF ex'.fetch /\ Jump(ex') THEN ex'.ins.imm ELSE Succ(id'.pc)
      BY <1>5, <2>1, <3>1, <3>4, LoadedAddress
    <3>6. Redirects \/ (ex.fetch /\ Jump(ex)) => ex.fetch /\ Transfers(ex.ins)
      <4>1. Redirects => ex.fetch
        BY <1>1, BubbleOut, NoTransferNoRedirect
      <4>2. ex.fetch /\ Redirects => ex.ctl.pc_src \in {"BRANCH", "REGISTER", "ERET"}
        BY ExecuteInKeeps DEF Redirects, TakesBranch
      <4>. QED  BY <1>1, <1>5, <4>1, <4>2, TransferSource DEF Jump
    <3>7. ASSUME id.fetch, Transfers(id.ins) PROVE id'.fetch /\ pc_reg = Succ(id.pc)
      <4>1. ~(ex.fetch /\ Transfers(ex.ins))
        BY <1>1, <3>7, NoTransferAfterTransfer DEF Predictable, Allowed
      <4>2. ~Redirects /\ ~(ex.fetch /\ Jump(ex))
        BY <3>6, <4>1
      <4>3. ~InstructionBusy
        BY <3>7 DEF Predictable, Allowed
      <4>. QED  BY <1>1, <2>1, <3>7, <4>2, <4>3 DEF PcFollows
    <3>8. ex'.fetch /\ Transfers(ex'.ins) => id'.fetch /\ id'.pc = Succ(ex'.pc)
      BY <2>1, <3>1, <3>7
    <3>. QED  BY <3>3, <3>5, <3>8 DEF PcFollows
  <2>. QED  BY <2>4, <2>5
<1>. QED  BY <1>2, <1>3, <1>4, <1>5

\* A write of coprocessor 0 on its way is forwarded like it will be written.
LEMMA Cop0Forwarded ==
  ASSUME MemoryHolds, cop0 \in [Cop0Reg -> Value], ~mem.excdata.happen, NEW c \in Cop0Reg
  PROVE  /\ ForwardCop0(c, cop0[c]) = Cop0Next[c]
         /\ ForwardCop0Read(c, cop0[c]) = Cop0Next[c]
<1>1. Cop0Next = IF mem.ctl.write_cop0
                 THEN [cop0 EXCEPT ![mem.dest_cop0] = mem.dest_cop0_data] ELSE cop0
  BY DEF Cop0Next, Cop0Written
<1>2. Cop0Next[c] = IF WritesCop0(c) THEN mem.dest_cop0_data ELSE cop0[c]
  BY <1>1 DEF WritesCop0
<1>3. ForwardCop0(c, cop0[c]) = IF WritesCop0(c) THEN mem.dest_cop0_data ELSE cop0[c]
  BY DEF ForwardCop0
<1>4. WritesCop0(c) => mem.dest_cop0_mask
  BY DEF WritesCop0, MemoryHolds
<1>. QED  BY <1>2, <1>3, <1>4 DEF ForwardCop0Read

\* What write back stores is what it forwards.
LEMMA RegisterHeld ==
  ASSUME TypeOK, ClockEdge, NEW r \in Reg, r # 0
  PROVE  rf'[r] = IF Supplies(wb, r) THEN WbData ELSE rf[r]
<1>1. rf' = IF wb.ctl.write_reg /\ wb.dest_reg # 0
            THEN [rf EXCEPT ![wb.dest_reg] = WbData] ELSE rf
  BY DEF ClockEdge, RegisterStep
<1>. QED  BY <1>1 DEF TypeOK, Supplies

\* A value read in the decode stage is current in the execute stage, for as
\* long as it stays there.
LEMMA OperandsHeldNext ==
  ASSUME TypeOK, TypeOK', RInv, Predictable, PreciseException, MemoryHolds', ClockEdge
  PROVE  OperandsHeld'
<1>1. OperandsHeld /\ MemoryHolds /\ StagesHold
  BY DEF RInv
<1>2. /\ ex.ins.rs \in Reg /\ ex.ins.rt \in Reg /\ id.ins.rs \in Reg /\ id.ins.rt \in Reg
      /\ ex.ins.c0 \in Cop0Reg /\ id.ins.c0 \in Cop0Reg
      /\ {"Status", "EPC", "ErrorEPC"} \subseteq Cop0Reg
  BY DEF TypeOK, ExecuteRegister, DecodeRegister, Instr, Cop0Reg
<1>3. /\ hi' = ForwardHi(hi) /\ lo' = ForwardLo(lo) /\ llbit' = ForwardLlbit(llbit)
      /\ cop0' = Cop0Next
  BY DEF ClockEdge, RegisterStep
<1>4. CASE Signals.stall
  <2>1. /\ ex' = ex /\ mem' = mem /\ wb' = wb /\ ~mem.excdata.happen
    BY <1>4, StalledEdge, StallWithoutException
  <2>2. ASSUME NEW r \in Reg, NEW held, HeldRegister(r, held), ~Supplies(mem, r),
               ~Supplies(wb, r)
        PROVE  held = IF r = 0 THEN 0 ELSE rf'[r]
    BY <2>2, RegisterHeld DEF HeldRegister
  <2>3. HeldRegister(ex.ins.rs, ex.rs)' /\ HeldRegister(ex.ins.rt, ex.rt)'
    <3>1. \A r : (Supplies(mem', r) <=> Supplies(mem, r)) /\ (Supplies(wb', r) <=> Supplies(wb, r))
      BY <2>1
    <3>. QED  BY <1>1, <1>2, <2>1, <2>2, <3>1 DEF OperandsHeld, HeldRegister
  <2>4. /\ ForwardHi(ex.hi)' = ForwardHi(hi)' /\ ForwardLo(ex.lo)' = ForwardLo(lo)'
        /\ ForwardLlbit(ex.llbit)' = ForwardLlbit(llbit)'
    BY <1>1, <1>3, <2>1
    DEF OperandsHeld, ForwardHi, ForwardLo, ForwardLlbit, WriteLlbit, DestLlbitData
  <2>5. Cop0Next' = Cop0Next
    BY <1>4, StallStutters DEF Arch!vars
  <2>6. /\ ForwardCop0("Status", ex.status)' = ForwardCop0("Status", ex.status)
        /\ ForwardCop0Read(ex.ins.c0, ex.cop0)' = ForwardCop0Read(ex.ins.c0, ex.cop0)
        /\ ForwardCop0("EPC", ex.epc)' = ForwardCop0("EPC", ex.epc)
        /\ ForwardCop0("ErrorEPC", ex.errorepc)' = ForwardCop0("ErrorEPC", ex.errorepc)
    BY <2>1 DEF ForwardCop0Read, ForwardCop0, WritesCop0
  <2>. QED  BY <1>1, <2>1, <2>3, <2>4, <2>5, <2>6 DEF OperandsHeld
<1>5. CASE ~Signals.stall
  <2>1. /\ ex'.ins = id.ins
        /\ ex'.rs = ForwardToDecode(id.ins.rs) /\ ex'.rt = ForwardToDecode(id.ins.rt)
        /\ ex'.hi = ForwardHi(hi) /\ ex'.lo = ForwardLo(lo) /\ ex'.llbit = ForwardLlbit(llbit)
        /\ ex'.status = ForwardCop0("Status", cop0["Status"])
        /\ ex'.cop0 = ForwardCop0Read(id.ins.c0, cop0[id.ins.c0])
        /\ ex'.epc = ForwardCop0("EPC", cop0["EPC"])
        /\ ex'.errorepc = ForwardCop0("ErrorEPC", cop0["ErrorEPC"])
    BY <1>5, AdvancingEdge
  <2>2. ASSUME NEW r \in Reg, ~Supplies(wb', r)
        PROVE  ForwardToDecode(r) = IF r = 0 THEN 0 ELSE rf'[r]
    <3>1. Supplies(wb, r) => r # 0
      BY DEF Supplies
    <3>. QED  BY <3>1, RegisterHeld DEF ForwardToDecode
  <2>3. HeldRegister(ex.ins.rs, ex.rs)' /\ HeldRegister(ex.ins.rt, ex.rt)'
    BY <1>2, <2>1, <2>2 DEF HeldRegister
  <2>4. /\ ForwardHi(ex.hi)' = ForwardHi(hi)' /\ ForwardLo(ex.lo)' = ForwardLo(lo)'
        /\ ForwardLlbit(ex.llbit)' = ForwardLlbit(llbit)'
    BY <1>3, <2>1 DEF ForwardHi, ForwardLo, ForwardLlbit, WriteLlbit, DestLlbitData
  <2>5. ASSUME ex'.fetch
        PROVE  /\ ForwardCop0("Status", ex.status)' = Cop0Next["Status"]'
               /\ ForwardCop0Read(ex.ins.c0, ex.cop0)' = Cop0Next[ex.ins.c0]'
               /\ ForwardCop0("EPC", ex.epc)' = Cop0Next["EPC"]'
               /\ ForwardCop0("ErrorEPC", ex.errorepc)' = Cop0Next["ErrorEPC"]'
    <3>1. ~Exc.happen
      BY <2>5, ExceptionEdge
    <3>2. mem' = Out /\ ~mem'.excdata.happen
      <4>1. mem' = Out
        BY <1>5, <3>1, MovingEdge, Zenon
      <4>2. Out.excdata = NoException
        BY OutputData DEF Out
      <4>. QED  BY ONLY <4>1, <4>2 DEF NoException
    <3>3. ~mem.excdata.happen
      <4>1. CASE Signals.ex_nullify
        BY <1>5, <2>5, <3>1, <4>1, MovingEdge DEF DecodeOut
      <4>2. CASE ~Signals.ex_nullify
        <5>1. ex' = DecodeOut
          BY <1>5, <3>1, <4>2, MovingEdge, Zenon
        <5>2. id.fetch
          BY ONLY <2>5, <5>1 DEF DecodeOut
        <5>. QED  BY <5>2 DEF PreciseException
      <4>. QED  BY <4>1, <4>2
    <3>4. \A c \in Cop0Reg : /\ ForwardCop0(c, cop0[c]) = cop0'[c]
                             /\ ForwardCop0Read(c, cop0[c]) = cop0'[c]
      BY <1>1, <1>3, <3>3, Cop0Forwarded DEF TypeOK
    <3>5. cop0' \in [Cop0Reg -> Value]
      BY DEF TypeOK
    <3>6. \A c \in Cop0Reg : Cop0Next'[c] = IF WritesCop0(c)' THEN mem'.dest_cop0_data
                                            ELSE cop0'[c]
      <4>1. Cop0Next' = IF mem'.ctl.write_cop0
                        THEN [cop0' EXCEPT ![mem'.dest_cop0] = mem'.dest_cop0_data] ELSE cop0'
        BY <3>2 DEF Cop0Next, Cop0Written
      <4>. QED  BY <3>5, <4>1 DEF WritesCop0
    <3>7. \A c : WritesCop0(c)' => mem'.dest_cop0_mask
      BY DEF WritesCop0, MemoryHolds
    <3>8. /\ ForwardCop0("Status", ex.status)' = IF WritesCop0("Status")'
                                                 THEN mem'.dest_cop0_data ELSE ex'.status
          /\ ForwardCop0("EPC", ex.epc)' = IF WritesCop0("EPC")'
                                           THEN mem'.dest_cop0_data ELSE ex'.epc
          /\ ForwardCop0("ErrorEPC", ex.errorepc)' = IF WritesCop0("ErrorEPC")'
                                                     THEN mem'.dest_cop0_data ELSE ex'.errorepc
      BY <3>2 DEF ForwardCop0
    <3>9. ForwardCop0Read(ex.ins.c0, ex.cop0)' = IF WritesCop0(ex.ins.c0)'
                                                 THEN mem'.dest_cop0_data ELSE ex'.cop0
      BY <3>2, <3>7 DEF ForwardCop0Read, ForwardCop0
    <3>10. /\ ex'.status = cop0'["Status"] /\ ex'.epc = cop0'["EPC"]
           /\ ex'.errorepc = cop0'["ErrorEPC"] /\ ex'.cop0 = cop0'[ex'.ins.c0]
           /\ ex'.ins.c0 \in Cop0Reg
      BY <1>2, <2>1, <3>4
    <3>. QED  BY <1>2, <3>6, <3>8, <3>9, <3>10
  <2>. QED  BY <2>3, <2>4, <2>5 DEF OperandsHeld
<1>. QED  BY <1>4, <1>5

\* What the execute stage hands to the memory stage.
LEMMA MemoryHoldsNext ==
  ASSUME TypeOK, RInv, LoadNotForwarded, Predictable, ClockEdge
  PROVE  MemoryHolds'
<1>1. StagesHold /\ MemoryHolds
  BY DEF RInv
<1>2. CASE Signals.stall
  BY <1>1, <1>2, StalledEdge DEF MemoryHolds
<1>3. CASE Exc.happen
  <2>1. mem'.ctl = ClearControl
    BY <1>3, ExceptionEdge
  <2>. QED  BY <2>1 DEF MemoryHolds, ClearControl
<1>4. CASE ~Signals.stall /\ ~Exc.happen /\ ~ex.fetch
  <2>1. /\ mem' = Out /\ Quiet(Out.ctl) /\ KeepsMemory(Out)
        /\ ~(Out.ctl.write_reg /\ Out.ctl.reg_src = "MEM")
    BY <1>1, <1>4, MovingEdge, BubbleOut
  <2>. HIDE DEF Out
  <2>. QED  BY <2>1 DEF MemoryHolds, Quiet, KeepsMemory
<1>5. CASE ~Signals.stall /\ ~Exc.happen /\ ex.fetch
  <2>. DEFINE p == ExecuteIn
  <2>1. mem' = Out
    BY <1>5, MovingEdge
  <2>2. /\ p.ins = ex.ins /\ Characterises(p.ctl, ex.ins.op) /\ IsControl(p.ctl)
    BY <1>5, Executing
  <2>3. Out = ExecuteOut(p)
    BY DEF Out
  <2>4. ex.pc \in Word /\ ex.ins = imem[ex.pc]
    BY <1>1, <1>5 DEF StagesHold
  <2>. HIDE DEF p, Out
  <2>5. /\ Out.ctl.write_reg => p.ctl.write_reg
        /\ Out.ctl.reg_src = p.ctl.reg_src /\ Out.ctl.read_mem = p.ctl.read_mem
        /\ Out.ctl.write_cop0 = p.ctl.write_cop0
        /\ Out.write_mem => p.ctl.mem_write_cond \in {"ALWAYS", "WHEN_LLBIT"}
        /\ Out.dest_cop0_mask = Cop0Mask(p)
    BY <2>2, <2>3, Outputs, OutputData
  <2>6. Out.ctl.read_mem => ~Out.write_mem
    BY <2>2, <2>5 DEF Characterises
  <2>7. Out.ctl.write_reg /\ Out.ctl.reg_src = "MEM" => Out.ctl.read_mem
    BY <2>2, <2>5 DEF Characterises
  <2>8. Out.ctl.write_cop0 => Out.dest_cop0_mask
    <3>1. p.ctl.write_cop0 /\ p.ctl.cop0_src = "RT" => ex.ins.op = "MTC0"
      BY <2>2 DEF Characterises
    <3>. QED  BY <2>2, <2>4, <2>5, <3>1 DEF Predictable, Allowed, Cop0Mask
  <2>. QED  BY <2>1, <2>6, <2>7, <2>8 DEF MemoryHolds
<1>. QED  BY <1>2, <1>3, <1>4, <1>5

\* The results of an instruction are words.
LEMMA WordResults ==
  /\ \A a \in Word : Succ(a) \in Word /\ (a + 2) % N \in Word /\ (a - 1) % N \in Word
  /\ \A a, b \in Word : /\ (a + b) % N \in Word /\ (a - b) % N \in Word /\ (a * b) % N \in Word
                        /\ (a * 2^b) % N \in Word /\ (a + 1 + b) % N \in Word
  /\ \A b : Bit(b) \in Word
  /\ \A s \in Int : (s \div N) % N \in Word /\ s % N \in Word
  /\ \A a, b \in Word : Signed(a) * Signed(b) \in Int
  /\ \A a, b \in Word : \A s \in Int : a * N + b + s \in Int
<1>1. \A a \in Word : Succ(a) \in Word /\ (a + 2) % N \in Word /\ (a - 1) % N \in Word
  BY SizeAssumption, SMT DEF Succ, Word
<1>2. \A s \in Int : (s \div N) % N \in Word /\ s % N \in Word
  BY SizeAssumption, SMT DEF Word
<1>3. \A a, b \in Word : /\ (a + b) % N \in Word /\ (a - b) % N \in Word
                         /\ (a + 1 + b) % N \in Word
  BY SizeAssumption, SMT DEF Word
<1>4. \A a, b \in Word : (a * b) % N \in Word
  <2>1. \A a, b \in Word : a * b \in Int
    BY SMT DEF Word
  <2>. QED  BY <1>2, <2>1
<1>5. \A a, b \in Word : (a * 2^b) % N \in Word
  BY SizeAssumption, SMT DEF Word
<1>6. \A b : Bit(b) \in Word
  BY SizeAssumption, SMT DEF Bit, Word
<1>7. \A a \in Word : Signed(a) \in Int /\ a \in Int
  BY SizeAssumption, SMT DEF Signed, Negative, Word
<1>8. \A a, b \in Int : a * b \in Int /\ a + b \in Int /\ N \in Int
  BY SizeAssumption, SMT
<1>9. \A a, b \in Word : Signed(a) * Signed(b) \in Int
  BY ONLY <1>7, <1>8
<1>10. \A a, b \in Word : \A s \in Int : a * N + b + s \in Int
  BY <1>7, <1>8
<1>. QED  BY <1>1, <1>2, <1>3, <1>4, <1>5, <1>6, <1>9, <1>10

\* The instruction at pc, whatever the stage it is in.
LEMMA ArchInstruction ==
  ASSUME Arch!TypeOK
  PROVE  /\ Arch!i \in Instr /\ Arch!i.imm \in Word
         /\ Arch!i.rs \in Reg /\ Arch!i.rt \in Reg /\ Arch!i.rd \in Reg /\ Arch!i.c0 \in Cop0Reg
         /\ Arch!rs \in Word /\ Arch!rt \in Word /\ Arch!ea \in Word /\ Arch!Status \in Word
<1>1. /\ imem \in [Word -> Instr] /\ AbsPc \in Word /\ AbsGpr \in [Reg -> Word]
      /\ Cop0Next \in [Cop0Reg -> Word]
  BY ArchTyped
<1>2. Arch!i \in Instr
  BY <1>1 DEF Arch!i
<1>3. /\ Arch!i.imm \in Word /\ Arch!i.c0 \in Cop0Reg
      /\ Arch!i.rs \in Reg /\ Arch!i.rt \in Reg /\ Arch!i.rd \in Reg
  BY <1>2 DEF Instr
<1>4. Arch!rs \in Word /\ Arch!rt \in Word /\ Arch!Status \in Word
  BY <1>1, <1>3 DEF Arch!rs, Arch!rt, Arch!Status, Cop0Reg
<1>5. Arch!ea = (Arch!rs + Arch!i.imm) % N
  BY DEF Arch!ea
<1>. QED  BY <1>2, <1>3, <1>4, <1>5, WordResults

\* A register that is written holds a word.
LEMMA WriteTyped ==
  ASSUME AbsGpr \in [Reg -> Word]
  PROVE  /\ \A r \in Reg : \A v \in Word : Arch!Write(r, v) => AbsGpr' \in [Reg -> Word]
         /\ \A v : Arch!Write(0, v) => AbsGpr' \in [Reg -> Word]
  BY DEF Arch!Write

\* A step of Isa leaves words.
LEMMA ArithmeticTyped ==
  ASSUME Arch!TypeOK, Arch!Arithmetic
  PROVE  AbsGpr' \in [Reg -> Word]
<1>1. /\ AbsGpr \in [Reg -> Word] /\ Cop0Next \in [Cop0Reg -> Word]
      /\ ForwardHi(hi) \in Word /\ ForwardLo(lo) \in Word
  BY ArchTyped
<1>2. /\ \A r \in Reg : \A v \in Word : Arch!Write(r, v) => AbsGpr' \in [Reg -> Word]
      /\ \A v : Arch!Write(0, v) => AbsGpr' \in [Reg -> Word]
  BY <1>1, WriteTyped
<1>3. /\ Arch!i.imm \in Word /\ Arch!i.rs \in Reg /\ Arch!i.rt \in Reg /\ Arch!i.rd \in Reg
      /\ Arch!i.c0 \in Cop0Reg /\ Arch!rs \in Word /\ Arch!rt \in Word /\ Arch!ea \in Word
  BY ArchInstruction
<1>. DEFINE Written == \E r \in Reg, v \in Word : Arch!Write(r, v)
<1>4. Written \/ (\E v : Arch!Write(0, v)) \/ AbsGpr' = AbsGpr
  <2>1. /\ (Arch!rt * 2^Arch!i.imm) % N \in Word /\ (Arch!rs + Arch!rt) % N \in Word
        /\ (Arch!rs - Arch!rt) % N \in Word /\ (Arch!rs * Arch!rt) % N \in Word
        /\ Arch!Bit(Arch!Signed(Arch!rs) < Arch!Signed(Arch!rt)) \in Word
        /\ Cop0Next[Arch!i.c0] \in Word
    BY <1>1, <1>3, WordResults, ArchOperators
  <2>. DEFINE shifted == (Arch!rt * 2^Arch!i.imm) % N
              sum     == (Arch!rs + Arch!rt) % N
              diff    == (Arch!rs - Arch!rt) % N
              product == (Arch!rs * Arch!rt) % N
              less    == Arch!Bit(Arch!Signed(Arch!rs) < Arch!Signed(Arch!rt))
  <2>2. \/ Arch!Write(Arch!i.rd, shifted) \/ Arch!Write(Arch!i.rd, sum)
        \/ Arch!Write(Arch!i.rd, diff) \/ Arch!Write(Arch!i.rd, less)
        \/ Arch!Write(Arch!i.rt, Arch!ea) \/ Arch!Write(Arch!i.rd, product)
        \/ Arch!Write(IF Arch!rt = 0 THEN Arch!i.rd ELSE 0, Arch!rs)
        \/ Arch!Write(IF Arch!rt # 0 THEN Arch!i.rd ELSE 0, Arch!rs)
        \/ Arch!Write(Arch!i.rd, ForwardHi(hi)) \/ Arch!Write(Arch!i.rd, ForwardLo(lo))
        \/ Arch!Write(Arch!i.rt, Cop0Next[Arch!i.c0]) \/ AbsGpr' = AbsGpr
    BY DEF Arch!Arithmetic
  <2>3. /\ shifted \in Word /\ sum \in Word /\ diff \in Word /\ product \in Word /\ less \in Word
    BY <2>1
  <2>. HIDE DEF shifted, sum, diff, product, less
  <2>. QED  BY <1>1, <1>3, <2>1, <2>2, <2>3
<1>. QED  BY <1>1, <1>2, <1>4

\* mult, madd, mthi and mtlo of Isa leave words in hi and lo.
LEMMA MultiplyTyped ==
  ASSUME Arch!TypeOK, Arch!Multiply
  PROVE  ForwardHi(hi)' \in Word /\ ForwardLo(lo)' \in Word
<1>1. ForwardHi(hi) \in Word /\ ForwardLo(lo) \in Word /\ Arch!rs \in Word /\ Arch!rt \in Word
  BY ArchTyped, ArchInstruction
<1>2. Arch!Product \in Int
  BY <1>1, WordResults, ArchOperators DEF Arch!Product
<1>3. ForwardHi(hi) * N + ForwardLo(lo) + Arch!Product \in Int
  BY <1>1, <1>2, WordResults
<1>4. \A q \in Int : Arch!WriteHiLo(q) => ForwardHi(hi)' \in Word /\ ForwardLo(lo)' \in Word
  BY WordResults DEF Arch!WriteHiLo
<1>. DEFINE sum == ForwardHi(hi) * N + ForwardLo(lo) + Arch!Product
<1>5. \/ Arch!WriteHiLo(Arch!Product) \/ Arch!WriteHiLo(sum)
      \/ ForwardHi(hi)' = Arch!rs /\ ForwardLo(lo)' = ForwardLo(lo)
      \/ ForwardLo(lo)' = Arch!rs /\ ForwardHi(hi)' = ForwardHi(hi)
  BY DEF Arch!Multiply
<1>. HIDE DEF sum
<1>. QED  BY <1>1, <1>2, <1>3, <1>4, <1>5 DEF sum

\* The loads and stores of Isa leave words in the registers and the memory.
LEMMA MemoryTyped ==
  ASSUME Arch!TypeOK, Arch!Memory
  PROVE  /\ AbsGpr' \in [Reg -> Word] /\ Stored' \in [DataAddr -> Word]
         /\ Cop0Next' \in [Cop0Reg -> Word] /\ ForwardLlbit(llbit)' \in BOOLEAN
<1>1. /\ AbsGpr \in [Reg -> Word] /\ Cop0Next \in [Cop0Reg -> Word]
      /\ Stored \in [DataAddr -> Word] /\ ForwardLlbit(llbit) \in BOOLEAN
  BY ArchTyped
<1>2. \A r \in Reg : \A v \in Word : Arch!Write(r, v) => AbsGpr' \in [Reg -> Word]
  BY <1>1, WriteTyped
<1>3. Arch!i.rt \in Reg /\ Arch!rt \in Word /\ Arch!ea \in Word
  BY ArchInstruction
<1>4. Arch!Bit(ForwardLlbit(llbit)) \in Word
  BY WordResults, ArchOperators
<1>5. Arch!ea \in DataAddr => Stored[Arch!ea] \in Word
  BY <1>1
<1>6. /\ (Arch!i.op = "SC" /\ ~ForwardLlbit(llbit)) \/ Arch!ea \in DataAddr
      /\ \/ /\ Arch!i.op = "LW" /\ Arch!Write(Arch!i.rt, Stored[Arch!ea])
            /\ UNCHANGED <<Stored, ForwardLlbit(llbit), Cop0Next>>
         \/ /\ Stored' = [Stored EXCEPT ![Arch!ea] = Arch!rt]
            /\ UNCHANGED <<AbsGpr, ForwardLlbit(llbit), Cop0Next>>
         \/ /\ Arch!i.op = "LL" /\ Arch!Write(Arch!i.rt, Stored[Arch!ea])
            /\ ForwardLlbit(llbit)' = TRUE
            /\ Cop0Next' = [Cop0Next EXCEPT !["LLAddr"] = Arch!ea]
            /\ UNCHANGED Stored
         \/ /\ Arch!Write(Arch!i.rt, Arch!Bit(ForwardLlbit(llbit)))
            /\ Stored' = IF ForwardLlbit(llbit) THEN [Stored EXCEPT ![Arch!ea] = Arch!rt]
                         ELSE Stored
            /\ UNCHANGED <<ForwardLlbit(llbit), Cop0Next>>
  BY DEF Arch!Memory
<1>. QED  BY <1>1, <1>2, <1>3, <1>4, <1>5, <1>6

\* The control transfers of Isa leave words in the program counters and the link.
LEMMA BranchTyped ==
  ASSUME Arch!TypeOK, Arch!Branch
  PROVE  /\ AbsGpr' \in [Reg -> Word]
         /\ AbsPc' \in Word /\ AbsNpc' \in Word /\ AbsSlot' \in BOOLEAN
<1>1. AbsGpr \in [Reg -> Word] /\ AbsPc \in Word /\ AbsNpc \in Word
  BY ArchTyped
<1>2. \A r \in Reg : \A v \in Word : Arch!Write(r, v) => AbsGpr' \in [Reg -> Word]
  BY <1>1, WriteTyped
<1>3. /\ Arch!i.imm \in Word /\ Arch!i.rd \in Reg /\ Arch!rs \in Word
      /\ Arch!RA \in Reg
  BY ArchInstruction, ArchSets, SizeAssumption, SMT DEF RA, Reg
<1>. DEFINE target == (AbsPc + 1 + Arch!i.imm) % N
            link   == (AbsPc + 2) % N
<1>4. target \in Word /\ link \in Word /\ Arch!Succ(AbsNpc) \in Word
  BY <1>1, <1>3, WordResults, ArchOperators
<1>5. \A t \in Word : \A taken : Arch!Transfer(taken, t)
                               => AbsPc' \in Word /\ AbsNpc' \in Word /\ AbsSlot' \in BOOLEAN
  BY <1>1, <1>4 DEF Arch!Transfer
<1>6. /\ \/ \E taken : Arch!Transfer(taken, target)
         \/ \E taken : Arch!Transfer(taken, Arch!i.imm)
         \/ \E taken : Arch!Transfer(taken, Arch!rs)
      /\ AbsGpr' = AbsGpr \/ Arch!Write(Arch!RA, link) \/ Arch!Write(Arch!i.rd, link)
  BY DEF Arch!Branch
<1>. HIDE DEF target, link
<1>. QED  BY <1>1, <1>2, <1>3, <1>4, <1>5, <1>6

\* The system control instructions of Isa leave words in coprocessor 0, in the
\* registers and in the program counters.
LEMMA SystemTyped ==
  ASSUME Arch!TypeOK, Arch!System
  PROVE  /\ AbsGpr' \in [Reg -> Word] /\ Cop0Next' \in [Cop0Reg -> Word]
         /\ Arch!Sequential \/ (AbsPc' \in Word /\ AbsNpc' \in Word /\ AbsSlot' \in BOOLEAN)
<1>1. AbsGpr \in [Reg -> Word] /\ Cop0Next \in [Cop0Reg -> Word]
  BY ArchTyped
<1>2. \A r \in Reg : \A v \in Word : Arch!Write(r, v) => AbsGpr' \in [Reg -> Word]
  BY <1>1, WriteTyped
<1>3. /\ Arch!i.rt \in Reg /\ Arch!i.c0 \in Cop0Reg /\ Arch!rt \in Word /\ Arch!Status \in Word
  BY ArchInstruction
<1>4. /\ {"Status", "EPC", "ErrorEPC"} \subseteq Cop0Reg
      /\ Cop0Next["Status"] \in Word /\ Cop0Next["EPC"] \in Word /\ Cop0Next["ErrorEPC"] \in Word
  BY <1>1 DEF Cop0Reg
<1>5. \A s \in Word : /\ Arch!SetIE(s) \in Word /\ Arch!ClearIE(s) \in Word
                       /\ Arch!AfterEret(s) \in Word
  BY StatusType, ArchOperators
<1>6. Arch!ReturnAddress(Arch!Status, Cop0Next["ErrorEPC"], Cop0Next["EPC"]) \in Word
  BY <1>4, ArchOperators DEF ReturnAddress
<1>7. \A a \in Word : Arch!Succ(a) \in Word
  BY WordResults, ArchOperators
<1>8. \/ /\ Cop0Next' = [Cop0Next EXCEPT ![Arch!i.c0] = Arch!rt]
         /\ Arch!Sequential /\ AbsGpr' = AbsGpr
      \/ /\ \/ Cop0Next' = [Cop0Next EXCEPT !["Status"] = Arch!SetIE(@)]
            \/ Cop0Next' = [Cop0Next EXCEPT !["Status"] = Arch!ClearIE(@)]
         /\ Arch!Sequential /\ Arch!Write(Arch!i.rt, Arch!Status)
      \/ /\ Cop0Next' = [Cop0Next EXCEPT !["Status"] = Arch!AfterEret(@)]
         /\ AbsPc' = Arch!ReturnAddress(Arch!Status, Cop0Next["ErrorEPC"], Cop0Next["EPC"])
         /\ AbsNpc' = Arch!Succ(AbsPc') /\ AbsSlot' = FALSE /\ AbsGpr' = AbsGpr
  BY DEF Arch!System
<1>9. Cop0Next' \in [Cop0Reg -> Word]
  BY <1>1, <1>3, <1>4, <1>5, <1>8
<1>10. AbsGpr' \in [Reg -> Word]
  BY <1>1, <1>2, <1>3, <1>8
<1>. QED  BY <1>6, <1>7, <1>8, <1>9, <1>10

\* Entering a handler of Isa keeps the types.
LEMMA EnterTyped ==
  ASSUME Arch!TypeOK, NEW code \in ExcCode, Arch!Enter(code)
  PROVE  Arch!TypeOK'
<1>1. /\ imem \in [Word -> Instr] /\ Stored \in [DataAddr -> Word]
      /\ AbsPc \in Word /\ AbsSlot \in BOOLEAN
      /\ AbsGpr \in [Reg -> Word] /\ ForwardHi(hi) \in Word /\ ForwardLo(lo) \in Word
      /\ Cop0Next \in [Cop0Reg -> Word]
  BY ArchTyped
<1>2. Arch!ea \in Word /\ (AbsPc - 1) % N \in Word
  BY <1>1, ArchInstruction, WordResults
<1>3. Arch!ExcVector(code) \in Word /\ Arch!Succ(Arch!ExcVector(code)) \in Word
  <2>1. ExcVector(code) \in Word
    BY SizeAssumption DEF ExcVector
  <2>. QED  BY <2>1, ArchOperators, WordResults
<1>4. \A s \in Word : Arch!SetEXL(s) \in Word
  BY StatusType, ArchOperators
<1>. DEFINE epc == IF AbsSlot THEN (AbsPc - 1) % N ELSE AbsPc
<1>5. epc \in Word /\ Cop0Next["Status"] \in Word /\ Cop0Next["BadVAddr"] \in Word
  BY <1>1, <1>2 DEF Cop0Reg
<1>6. Cop0Next' = [Cop0Next EXCEPT
        !["EPC"]      = epc,
        !["Status"]   = Arch!SetEXL(@),
        !["BadVAddr"] = IF code \in {"ADEL", "ADES"} THEN Arch!ea ELSE @]
  BY DEF Arch!Enter
<1>. HIDE DEF epc
<1>7. Cop0Next' \in [Cop0Reg -> Word]
  BY <1>1, <1>2, <1>4, <1>5, <1>6 DEF Cop0Reg
<1>8. /\ imem' = imem /\ Stored' = Stored /\ AbsGpr' = AbsGpr
      /\ ForwardHi(hi)' = ForwardHi(hi) /\ ForwardLo(lo)' = ForwardLo(lo)
      /\ ForwardLlbit(llbit)' = FALSE /\ AbsSlot' = FALSE
      /\ AbsPc' = Arch!ExcVector(code) /\ AbsNpc' = Arch!Succ(Arch!ExcVector(code))
      /\ CauseNext' = [code |-> code, bd |-> AbsSlot]
  BY DEF Arch!Enter
<1>9. CauseNext' \in Cause
  BY <1>1, <1>8 DEF Cause
<1>. QED  BY <1>1, <1>3, <1>7, <1>8, <1>9, ArchSets DEF Arch!TypeOK

\* Isa keeps its type invariant.
LEMMA ArchTypedNext ==
  ASSUME Arch!TypeOK, Arch!Execute \/ Arch!Exception \/ Arch!Interrupt
  PROVE  Arch!TypeOK'
<1>1. /\ imem \in [Word -> Instr] /\ Stored \in [DataAddr -> Word]
      /\ AbsPc \in Word /\ AbsNpc \in Word /\ AbsSlot \in BOOLEAN
      /\ AbsGpr \in [Reg -> Word] /\ ForwardHi(hi) \in Word /\ ForwardLo(lo) \in Word
      /\ ForwardLlbit(llbit) \in BOOLEAN
      /\ Cop0Next \in [Cop0Reg -> Word] /\ CauseNext \in Cause
  BY ArchTyped
<1>2. Arch!Sequential => AbsPc' \in Word /\ AbsNpc' \in Word /\ AbsSlot' \in BOOLEAN
  BY <1>1, WordResults, ArchOperators DEF Arch!Sequential
<1>3. Arch!TypeOK' <=>
        /\ imem' \in [Word -> Instr] /\ Stored' \in [DataAddr -> Word]
        /\ AbsPc' \in Word /\ AbsNpc' \in Word /\ AbsSlot' \in BOOLEAN
        /\ AbsGpr' \in [Reg -> Word] /\ ForwardHi(hi)' \in Word /\ ForwardLo(lo)' \in Word
        /\ ForwardLlbit(llbit)' \in BOOLEAN
        /\ Cop0Next' \in [Cop0Reg -> Word] /\ CauseNext' \in Cause
  BY ArchSets DEF Arch!TypeOK
<1>4. CASE Arch!Exception
  BY <1>4, EnterTyped, ArchSets DEF Arch!Exception
<1>5. CASE Arch!Interrupt
  BY <1>5, EnterTyped DEF Arch!Interrupt, ExcCode
<1>6. CASE Arch!Arithmetic
  <2>1. /\ Arch!Sequential
        /\ UNCHANGED <<imem, Stored, ForwardHi(hi), ForwardLo(lo), ForwardLlbit(llbit),
                       Cop0Next, CauseNext>>
    BY <1>6 DEF Arch!Arithmetic
  <2>. QED  BY <1>1, <1>2, <1>3, <1>6, <2>1, ArithmeticTyped
<1>7. CASE Arch!Multiply
  <2>1. /\ Arch!Sequential
        /\ UNCHANGED <<imem, Stored, AbsGpr, ForwardLlbit(llbit), Cop0Next, CauseNext>>
    BY <1>7 DEF Arch!Multiply
  <2>. QED  BY <1>1, <1>2, <1>3, <1>7, <2>1, MultiplyTyped
<1>8. CASE Arch!Memory
  <2>1. Arch!Sequential /\ UNCHANGED <<imem, ForwardHi(hi), ForwardLo(lo), CauseNext>>
    BY <1>8 DEF Arch!Memory
  <2>. QED  BY <1>1, <1>2, <1>3, <1>8, <2>1, MemoryTyped
<1>9. CASE Arch!Branch
  <2>1. UNCHANGED <<imem, Stored, ForwardHi(hi), ForwardLo(lo), ForwardLlbit(llbit),
                    Cop0Next, CauseNext>>
    BY <1>9 DEF Arch!Branch
  <2>. QED  BY <1>1, <1>3, <1>9, <2>1, BranchTyped
<1>10. CASE Arch!System
  <2>1. UNCHANGED <<imem, Stored, ForwardHi(hi), ForwardLo(lo), ForwardLlbit(llbit), CauseNext>>
    BY <1>10 DEF Arch!System
  <2>. QED  BY <1>1, <1>2, <1>3, <1>10, <2>1, SystemTyped
<1>. QED  BY <1>4, <1>5, <1>6, <1>7, <1>8, <1>9, <1>10 DEF Arch!Execute

----------------------------------------------------------------------------
\* The pipeline implements the instruction-set specification.

\* A clock edge is one step of Isa or none, and keeps the invariant.
LEMMA ClockImplements ==
  ASSUME TypeOK, TypeOK', RInv, LoadNotForwarded, PreciseException, Predictable, Predictable',
         Clock
  PROVE  RInv' /\ [Arch!Next]_(Arch!vars)
<1>1. ClockEdge /\ StagesHold /\ Arch!TypeOK
  BY ClockIsEdge DEF RInv
<1>2. StagesHold' /\ PcFollows' /\ MemoryHolds'
  BY <1>1, StagesHoldNext, MemoryHoldsNext
<1>3. OperandsHeld'
  BY <1>1, <1>2, OperandsHeldNext
<1>4. \/ Arch!Execute \/ Arch!Exception \/ Arch!Interrupt
      \/ UNCHANGED Arch!vars
  <2>1. CASE Signals.stall
    BY <1>1, <2>1, StallStutters
  <2>2. CASE Exc.happen
    BY <1>1, <2>2, ExceptionImplemented
  <2>3. CASE ~Signals.stall /\ ~Exc.happen /\ ~ex.fetch
    BY <1>1, <2>3, BubbleStutters
  <2>4. CASE ~Signals.stall /\ ~Exc.happen /\ ex.fetch
    BY <1>1, <2>4, InstructionImplemented DEF Retiring
  <2>. QED  BY <2>1, <2>2, <2>3, <2>4
<1>5. Arch!TypeOK'
  <2>1. UNCHANGED Arch!vars => Arch!TypeOK'
    BY <1>1 DEF Arch!TypeOK, Arch!vars
  <2>. QED  BY <1>1, <1>4, <2>1, ArchTypedNext
<1>. QED  BY <1>2, <1>3, <1>4, <1>5 DEF RInv, Arch!Next

\* An empty pipeline: what reset leaves, whatever the memories hold.
Emptied ==
  /\ imem \in [Word -> Instr] /\ dmem \in [DataAddr -> Word]
  /\ pc_reg = 0 /\ id = EmptyDecode /\ ex = EmptyExecute /\ mem = EmptyMemory
  /\ wb = EmptyWriteBack /\ rf = ResetGpr /\ hi = 0 /\ lo = 0 /\ llbit = FALSE
  /\ cop0 = ResetCop0 /\ cause = ResetCause

\* An empty pipeline satisfies the invariant, and is the reset state of Isa.
LEMMA EmptiedIsReset ==
  Emptied => /\ RInv /\ Stored = dmem
             /\ AbsPc = 0 /\ AbsNpc = 1 /\ AbsSlot = FALSE
             /\ AbsGpr = ResetGpr /\ ForwardHi(hi) = 0 /\ ForwardLo(lo) = 0
             /\ ForwardLlbit(llbit) = FALSE
             /\ Cop0Next = ResetCop0 /\ CauseNext = ResetCause
<1>. SUFFICES ASSUME Emptied
              PROVE  /\ RInv /\ Stored = dmem
                     /\ AbsPc = 0 /\ AbsNpc = 1 /\ AbsSlot = FALSE
                     /\ AbsGpr = ResetGpr /\ ForwardHi(hi) = 0 /\ ForwardLo(lo) = 0
                     /\ ForwardLlbit(llbit) = FALSE
                     /\ Cop0Next = ResetCop0 /\ CauseNext = ResetCause
  OBVIOUS
<1>1. /\ ~id.fetch /\ id.ins = Nop
      /\ ~ex.fetch /\ ex.ins = Nop /\ ex.ctl = ClearControl /\ ex.rs = 0 /\ ex.rt = 0
      /\ ex.hi = 0 /\ ex.lo = 0 /\ ex.llbit = FALSE
  BY DEF Emptied, EmptyDecode, EmptyExecute
<1>2. mem.ctl = ClearControl /\ ~mem.write_mem /\ ~mem.excdata.happen /\ wb.ctl = ClearControl
  BY DEF Emptied, EmptyMemory, EmptyWriteBack, NoException
<1>3. /\ ~ClearControl.write_reg /\ ~ClearControl.write_hi /\ ~ClearControl.write_lo
      /\ ~ClearControl.write_cop0 /\ ~ClearControl.write_llbit /\ ~ClearControl.read_mem
  BY DEF ClearControl
<1>4. 0 \in Word /\ 1 \in Word /\ 4 \in Word /\ 0 \in Reg /\ Plus(0, 1) = 1
  BY SizeAssumption, SMT DEF Word, Reg, Plus, Defined
<1>5. \A r : ~Supplies(mem, r) /\ ~Supplies(wb, r)
  BY <1>2, <1>3 DEF Supplies
<1>6. AbsGpr = ResetGpr
  <2>1. \A r \in Reg : ForwardToDecode(r) = 0
    BY <1>5 DEF ForwardToDecode, Emptied, ResetGpr
  <2>. QED  BY <1>5, <2>1 DEF AbsGpr, ResetGpr
<1>7. /\ ForwardHi(hi) = 0 /\ ForwardLo(lo) = 0 /\ ForwardLlbit(llbit) = FALSE
      /\ Stored = dmem /\ Cop0Next = ResetCop0 /\ CauseNext = ResetCause
  BY <1>2, <1>3 DEF Emptied, ForwardHi, ForwardLo, ForwardLlbit, WriteLlbit, Stored, MemWrite,
                    Cop0Next, Cop0Written, CauseNext
<1>8. AbsPc = 0 /\ AbsNpc = 1 /\ AbsSlot = FALSE
  BY <1>1, <1>4 DEF Emptied, AbsPc, AbsNpc, AbsSlot
<1>9. Arch!TypeOK
  <2>1. ResetGpr \in [Reg -> Word] /\ ResetCop0 \in [Cop0Reg -> Word] /\ ResetCause \in Cause
    BY <1>4 DEF ResetGpr, ResetCop0, ResetStatus, ResetCause, Cause, ExcCode
  <2>. QED  BY <1>4, <1>6, <1>7, <1>8, <2>1, ArchTyped DEF Emptied
<1>10. StagesHold /\ PcFollows /\ MemoryHolds
  BY <1>1, <1>2, <1>3, <1>4 DEF StagesHold, PcFollows, MemoryHolds, Emptied
<1>11. OperandsHeld
  <2>1. HeldRegister(ex.ins.rs, ex.rs) /\ HeldRegister(ex.ins.rt, ex.rt)
    BY <1>1 DEF HeldRegister, Nop
  <2>2. ForwardHi(ex.hi) = 0 /\ ForwardLo(ex.lo) = 0 /\ ForwardLlbit(ex.llbit) = FALSE
    BY <1>1, <1>2, <1>3 DEF ForwardHi, ForwardLo, ForwardLlbit, WriteLlbit
  <2>. QED  BY <1>1, <1>7, <2>1, <2>2 DEF OperandsHeld
<1>. QED  BY <1>6, <1>7, <1>8, <1>9, <1>10, <1>11 DEF RInv

\* What the architecture sees of an empty pipeline.
AsReset ==
  /\ Stored = dmem
  /\ AbsPc = 0 /\ AbsNpc = 1 /\ AbsSlot = FALSE
  /\ AbsGpr = ResetGpr /\ ForwardHi(hi) = 0 /\ ForwardLo(lo) = 0
  /\ ForwardLlbit(llbit) = FALSE
  /\ Cop0Next = ResetCop0 /\ CauseNext = ResetCause

\* The same of the state after a step.
LEMMA EmptiedNext == Emptied' => RInv' /\ AsReset'
<1>1. Emptied => RInv /\ AsReset
  BY EmptiedIsReset DEF AsReset
<1>. QED  BY <1>1, PTL

\* A reset is a reset of Isa: what the memory stage was writing is in the
\* memory, and the pipeline is empty.
LEMMA ResetImplements ==
  ASSUME RInv, Reset
  PROVE  RInv' /\ Arch!Reset
<1>1. imem \in [Word -> Instr] /\ Stored \in [DataAddr -> Word]
  BY ArchTyped DEF RInv
<1>2. Emptied' /\ dmem' = Stored /\ imem' = imem
  BY <1>1 DEF Reset, Emptied
<1>3. RInv' /\ AsReset'
  BY <1>2, EmptiedNext
<1>. QED  BY <1>2, <1>3, ArchSets DEF AsReset, Arch!Reset

\* Where nothing changes, nothing that the architecture sees does.
LEMMA StutterImplements ==
  ASSUME RInv, UNCHANGED vars
  PROVE  RInv' /\ UNCHANGED Arch!vars
<1>1. /\ UNCHANGED <<imem, pc_reg, id, ex, mem, wb, rf, hi, lo, llbit, cop0, cause, dmem>>
      /\ UNCHANGED <<irq, prev_stall>>
  BY DEF vars, stages, arch
<1>2. /\ \A r : Supplies(mem, r)' = Supplies(mem, r) /\ Supplies(wb, r)' = Supplies(wb, r)
      /\ UNCHANGED <<MemData, WbData, Stored, MemWrite>>
  <2>1. \A r : Supplies(mem, r)' = Supplies(mem, r) /\ Supplies(wb, r)' = Supplies(wb, r)
    BY <1>1 DEF Supplies
  <2>2. UNCHANGED <<MemData, WbData, MemWrite>>
    BY <1>1 DEF MemData, WbData, MemWrite
  <2>3. UNCHANGED Stored
    BY <1>1, <2>2 DEF Stored
  <2>. QED  BY <2>1, <2>2, <2>3
<1>3. \A r : ForwardToDecode(r)' = ForwardToDecode(r)
  BY <1>1, <1>2 DEF ForwardToDecode
<1>4. UNCHANGED AbsGpr
  BY <1>1, <1>2, <1>3 DEF AbsGpr
<1>5. UNCHANGED <<AbsPc, AbsNpc, AbsSlot>>
  BY <1>1 DEF AbsPc, AbsNpc, AbsSlot, InDelaySlot
<1>6. UNCHANGED <<ForwardHi(hi), ForwardLo(lo), ForwardLlbit(llbit)>>
  BY <1>1 DEF ForwardHi, ForwardLo, ForwardLlbit, WriteLlbit, DestLlbitData
<1>7. UNCHANGED <<Cop0Next, CauseNext>>
  BY <1>1 DEF Cop0Next, Cop0Written, CauseNext
<1>8. UNCHANGED Arch!vars
  BY <1>1, <1>2, <1>4, <1>5, <1>6, <1>7 DEF Arch!vars
<1>9. StagesHold' /\ PcFollows' /\ MemoryHolds'
  BY <1>1 DEF RInv, StagesHold, PcFollows, MemoryHolds, Jump
<1>10. OperandsHeld'
  <2>1. UNCHANGED <<ForwardHi(ex.hi), ForwardLo(ex.lo), ForwardLlbit(ex.llbit)>>
    BY <1>1 DEF ForwardHi, ForwardLo, ForwardLlbit, WriteLlbit, DestLlbitData
  <2>2. UNCHANGED <<HeldRegister(ex.ins.rs, ex.rs), HeldRegister(ex.ins.rt, ex.rt)>>
    BY <1>1 DEF HeldRegister, Supplies
  <2>3. UNCHANGED <<ForwardCop0("Status", ex.status), ForwardCop0Read(ex.ins.c0, ex.cop0),
                    ForwardCop0("EPC", ex.epc), ForwardCop0("ErrorEPC", ex.errorepc)>>
    BY <1>1 DEF ForwardCop0, ForwardCop0Read, WritesCop0
  <2>. QED  BY <1>1, <1>6, <1>7, <2>1, <2>2, <2>3 DEF RInv, OperandsHeld
<1>11. Arch!TypeOK'
  BY <1>8 DEF RInv, Arch!TypeOK, Arch!vars
<1>. QED  BY <1>8, <1>9, <1>10, <1>11 DEF RInv

\* The reset state is that of Isa.
LEMMA InitImplements ==
  ASSUME Init
  PROVE  RInv /\ Arch!Init
<1>1. Emptied /\ dmem = InitData
  BY MemoryAssumption DEF Init, Emptied
<1>. QED  BY <1>1, EmptiedIsReset, ArchSets DEF Arch!Init, Emptied

\* The invariant holds for as long as the program is one the architecture
\* allows.
THEOREM RefinementInvariant == Spec /\ []Predictable => []RInv
<1>1. Init => RInv
  BY InitImplements
<1>2. ASSUME TypeOK, TypeOK', LoadNotForwarded, PreciseException,
             Predictable, Predictable', RInv, Clock
      PROVE  RInv'
  BY <1>2, ClockImplements
<1>3. ASSUME RInv, Reset PROVE RInv'
  BY <1>3, ResetImplements
<1>4. ASSUME RInv, UNCHANGED vars PROVE RInv'
  BY <1>4, StutterImplements
<1>. QED
  BY <1>1, <1>2, <1>3, <1>4, TypeCorrect, LoadsAreNotForwarded, ExceptionsArePrecise, PTL
  DEF Spec, Next

\* Every run of the pipeline that is given a program the architecture allows
\* (Predictable) is a run of Isa, for every width of a word, number of
\* registers, program, memory and arrival of interrupts: stalls, forwarding,
\* nullified instructions, delay slots and exceptions never show
\* (CoreImplementsIsa).
THEOREM PipelineImplementsIsa == Spec /\ []Predictable => CoreImplementsIsa
<1>1. Init => Arch!Init
  BY InitImplements
<1>2. ASSUME TypeOK, TypeOK', LoadNotForwarded, PreciseException,
             Predictable, Predictable', RInv, Clock
      PROVE  [Arch!Next]_(Arch!vars)
  BY <1>2, ClockImplements
<1>3. ASSUME RInv, Reset PROVE [Arch!Next]_(Arch!vars)
  BY <1>3, ResetImplements DEF Arch!Next
<1>4. ASSUME RInv, UNCHANGED vars PROVE [Arch!Next]_(Arch!vars)
  BY <1>4, StutterImplements
<1>. QED
  BY <1>1, <1>2, <1>3, <1>4, RefinementInvariant, TypeCorrect, LoadsAreNotForwarded,
     ExceptionsArePrecise, PTL
  DEF Spec, Next, CoreImplementsIsa, Arch!Spec

----------------------------------------------------------------------------
\* Where the instructions and the data are in regions of their own.

\* Every access that has left the execute stage is to the data memory.
DataAccess == mem.ctl.read_mem \/ mem.write_mem => mem.mem_addr \in DataAddr

\* An access that raises no address error is aligned, and the data memory holds
\* every aligned word.
LEMMA DataAccessNext ==
  ASSUME TypeOK, RInv, LoadNotForwarded, DataAccess, ClockEdge,
         DataAddr = {a \in Word : a % 2 = 0}
  PROVE  DataAccess'
<1>1. StagesHold
  BY DEF RInv
<1>2. CASE Signals.stall
  BY <1>2, StalledEdge DEF DataAccess
<1>3. CASE Exc.happen
  <2>1. mem'.ctl = ClearControl /\ ~mem'.write_mem
    BY <1>3, ExceptionEdge
  <2>. QED  BY <2>1 DEF DataAccess, ClearControl
<1>4. CASE ~Signals.stall /\ ~Exc.happen /\ ~ex.fetch
  <2>1. mem' = Out /\ KeepsMemory(Out)
    BY <1>1, <1>4, MovingEdge, BubbleOut
  <2>. HIDE DEF Out
  <2>. QED  BY <2>1 DEF DataAccess, KeepsMemory
<1>5. CASE ~Signals.stall /\ ~Exc.happen /\ ex.fetch
  <2>. DEFINE p  == ExecuteIn
              op == ex.ins.op
  <2>1. mem' = Out
    BY <1>5, MovingEdge
  <2>2. /\ p.ins = ex.ins /\ p.ctl = Control(op) /\ Characterises(p.ctl, op) /\ IsControl(p.ctl)
        /\ op \in CoreOp /\ Arch!ea \in Word /\ Arch!ea = (Arch!rs + ex.ins.imm) % N
        /\ p.ctl.opd_use \in {"BOTH", "RS"} => p.rs = Arch!rs
        /\ Arch!rs \in Word /\ ex.ins.imm \in Word /\ Arch!i = ex.ins
        /\ p.llbit = ForwardLlbit(llbit)
    BY <1>5, Executing
  <2>3. Arch!Completes
    <3>1. Raised(p, Out) = {}
      BY <1>5 DEF Exc, ExceptionData
    <3>. QED  BY <1>5, <3>1, RaisedByIsa
  <2>4. ~Arch!Raises("ADEL") /\ ~Arch!Raises("ADES")
    BY <2>3 DEF Arch!Completes, Arch!ExcCode
  <2>5. Out = ExecuteOut(p)
    BY DEF Out
  <2>. HIDE DEF p, Out
  <2>6. /\ Out.mem_addr = Plus(p.rs, p.ins.imm) /\ Out.ctl.read_mem = p.ctl.read_mem
        /\ Out.write_mem <=> \/ p.ctl.mem_write_cond = "ALWAYS"
                             \/ p.ctl.mem_write_cond = "WHEN_LLBIT" /\ p.llbit
    BY <2>2, <2>5, Outputs, OutputData
  <2>7. /\ Out.ctl.read_mem <=> op \in {"LW", "LL"}
        /\ Out.write_mem <=> op = "SW" \/ (op = "SC" /\ ForwardLlbit(llbit))
    BY <2>2, <2>6 DEF Characterises
  <2>8. Out.ctl.read_mem \/ Out.write_mem => Arch!ea % 2 # 1
    BY <2>2, <2>4, <2>7 DEF Arch!Raises
  <2>9. op \in {"LW", "LL", "SW", "SC"} => Out.mem_addr = Arch!ea
    <3>1. op \in {"LW", "LL", "SW", "SC"} => p.ctl.opd_use \in {"BOTH", "RS"}
      BY <2>2, DecodedLW, DecodedLL, DecodedSW, DecodedSC DEF Steers
    <3>. QED  BY <2>2, <2>6, <3>1 DEF Plus, Defined
  <2>10. \A a \in Word : a % 2 # 1 => a \in DataAddr
    BY SizeAssumption, SMT DEF Word
  <2>. QED  BY <2>1, <2>2, <2>7, <2>8, <2>9, <2>10 DEF DataAccess
<1>. QED  BY <1>2, <1>3, <1>4, <1>5

\* Every run of the pipeline is a run of Isa, when the programs are allowed, the
\* data memory holds every aligned word, and no access makes the instruction
\* memory busy: nothing else is asked of what a run does (CoreImplementsIsa).
THEOREM SeparateMemoriesImplementIsa ==
  ASSUME TextAddr = {}, DataAddr = {a \in Word : a % 2 = 0}, \A p \in Programs : Allowed(p)
  PROVE  Spec => CoreImplementsIsa
<1>. DEFINE Inv == Allowed(imem) /\ DataAccess /\ RInv
<1>1. Init => Inv
  <2>. SUFFICES ASSUME Init PROVE Inv
    OBVIOUS
  <2>1. imem \in Programs /\ DataAccess
    BY DEF Init, EmptyMemory, ClearControl, DataAccess
  <2>. QED  BY <2>1, InitImplements
<1>2. Inv => Predictable
  BY DEF Predictable, DataAccess, InstructionBusy, MemWrite
<1>3. ASSUME TypeOK, TypeOK', LoadNotForwarded, PreciseException, Inv, Clock
      PROVE  Inv'
  <2>1. ClockEdge /\ Allowed(imem)'
    BY <1>3, ClockIsEdge DEF ClockEdge, Allowed, WellFormed
  <2>2. DataAccess'
    BY <1>3, <2>1, DataAccessNext
  <2>3. Predictable'
    BY <2>1, <2>2 DEF Predictable, DataAccess, InstructionBusy, MemWrite
  <2>4. RInv'
    BY <1>2, <1>3, <2>3, ClockImplements
  <2>. QED  BY <2>1, <2>2, <2>4
<1>4. ASSUME Inv, Reset
      PROVE  Inv'
  <2>1. Allowed(imem)' /\ DataAccess'
    BY <1>4 DEF Reset, Allowed, WellFormed, DataAccess, EmptyMemory, ClearControl
  <2>. QED  BY <1>4, <2>1, ResetImplements
<1>5. ASSUME Inv, UNCHANGED vars
      PROVE  Inv'
  <2>1. Allowed(imem)' /\ DataAccess'
    BY <1>5 DEF vars, stages, arch, Allowed, WellFormed, DataAccess
  <2>. QED  BY <1>5, <2>1, StutterImplements
<1>6. Spec => []Predictable
  BY <1>1, <1>2, <1>3, <1>4, <1>5, TypeCorrect, LoadsAreNotForwarded, ExceptionsArePrecise, PTL
  DEF Spec, Next
<1>. QED  BY <1>6, PipelineImplementsIsa, PTL

----------------------------------------------------------------------------
\* What the same programs are spared: the two ways in which the code departs
\* from its documentation.

\* A transfer of control that leaves the decode or the execute stage is fetched.
LEMMA TransferFetched ==
  ASSUME TypeOK, RInv, Predictable, Clock, Signals.load, ~Signals.id_hold
  PROVE  pc_reg' = Signals.pc
<1>1. ClockEdge /\ StagesHold
  BY ClockIsEdge DEF RInv
<1>. DEFINE p == ExecuteIn
<1>2. CASE InstructionBusy /\ ~Exc.happen
  <2>1. ~Transfers(id.ins) /\ ~(ex.fetch /\ Transfers(ex.ins))
    BY <1>2 DEF Predictable
  <2>2. ~Jumps
    BY <2>1 DEF Jumps, Transfers
  <2>3. p.ctl.pc_src \notin {"BRANCH", "REGISTER", "ERET"}
    <3>1. CASE ex.fetch
      <4>1. p.ctl = Control(ex.ins.op)
        BY <1>1, <3>1 DEF StagesHold, ExecuteIn
      <4>. QED  BY <2>1, <3>1, <4>1 DEF Transfers
    <3>2. CASE ~ex.fetch
      BY <1>1, <3>2, BubbleOut
    <3>. QED  BY <3>1, <3>2
  <2>. QED  BY <1>2, <2>2, <2>3, SignalsDefined DEF TakesBranch
<1>3. CASE ~InstructionBusy \/ Exc.happen
  <2>1. ~Signals.stall_fetch
    BY <1>3, SignalsDefined
  <2>. QED  BY <1>1, <2>1 DEF ClockEdge, FetchStep
<1>. QED  BY <1>2, <1>3

\* No transfer of control is lost while no access makes the instruction memory
\* busy ahead of it (TransfersTaken); core_busy_jump shows that one is otherwise.
THEOREM PredictableTransfersAreTaken == Spec /\ []Predictable => TransfersTaken
<1>1. ASSUME TypeOK, RInv, Predictable, Clock
      PROVE  Signals.load /\ ~Signals.id_hold => pc_reg' = Signals.pc
  BY <1>1, TransferFetched
<1>. QED
  BY <1>1, RefinementInvariant, TypeCorrect, PTL DEF Spec, TransfersTaken

\* What an instruction is to write to coprocessor 0 is not BadVAddr.
BadVAddrKept == mem.ctl.write_cop0 => mem.dest_cop0 # "BadVAddr"

\* Only mtc0 names the register it writes, and an allowed one names no register
\* that is read only.
LEMMA DestNotBadVAddr ==
  ASSUME NEW p, p.ctl = Control(p.ins.op), p.ins.op \in CoreOp, p.ctl.write_cop0,
         p.ins.op = "MTC0" => p.ins.c0 \notin ReadOnlyCop0
  PROVE  DestCop0(p) # "BadVAddr"
<1>1. p.ins.op \in {"MTC0", "EI", "DI", "ERET", "LL"}
  <2>1. p.ins.op \notin ArithmeticOps \cup TransferOps
    BY ArithmeticQuiet, TransferSignals DEF Quiet
  <2>2. p.ins.op \notin MultiplyOps \cup {"LW", "SW", "SC"}
    BY MultiplySignals, MemorySignals DEF MemoryOps
  <2>3. p.ins.op \notin {"SYSCALL", "BREAK", "RESERVED"}
    BY DecodedSYSCALL, DecodedBREAK, DecodedRESERVED DEF Quiet
  <2>. QED  BY <2>1, <2>2, <2>3 DEF CoreOp, ArithmeticOps, TransferOps, MultiplyOps
<1>2. CASE p.ins.op = "MTC0"
  BY <1>2, ExecutesCop0 DEF ReadOnlyCop0
<1>3. CASE p.ins.op = "LL"
  BY <1>3, ExecutesCop0
<1>4. CASE p.ins.op \in {"EI", "DI", "ERET"}
  <2>1. p.ctl.dest_cop0 = "STATUS"
    BY <1>4, DecodedEI, DecodedDI, DecodedERET
  <2>. QED  BY <2>1 DEF DestCop0
<1>. QED  BY <1>1, <1>2, <1>3, <1>4

\* The clock edge keeps it.
LEMMA BadVAddrKeptNext ==
  ASSUME TypeOK, RInv, LoadNotForwarded, Predictable, BadVAddrKept, ClockEdge
  PROVE  BadVAddrKept'
<1>1. StagesHold
  BY DEF RInv
<1>2. CASE Signals.stall
  BY <1>2, StalledEdge DEF BadVAddrKept
<1>3. CASE Exc.happen
  <2>1. mem'.ctl = ClearControl
    BY <1>3, ExceptionEdge
  <2>. QED  BY <2>1 DEF BadVAddrKept, ClearControl
<1>4. CASE ~Signals.stall /\ ~Exc.happen /\ ~ex.fetch
  <2>1. mem' = Out /\ Quiet(Out.ctl)
    BY <1>1, <1>4, MovingEdge, BubbleOut
  <2>. HIDE DEF Out
  <2>. QED  BY <2>1 DEF BadVAddrKept, Quiet
<1>5. CASE ~Signals.stall /\ ~Exc.happen /\ ex.fetch
  <2>. DEFINE p == ExecuteIn
  <2>1. mem' = Out
    BY <1>5, MovingEdge
  <2>2. p.ins = ex.ins /\ p.ctl = Control(ex.ins.op) /\ ex.ins.op \in CoreOp /\ IsControl(p.ctl)
    BY <1>5, Executing
  <2>3. ex.ins.op = "MTC0" => ex.ins.c0 \notin ReadOnlyCop0
    BY <1>1, <1>5 DEF StagesHold, Predictable, Allowed
  <2>4. Out = ExecuteOut(p)
    BY DEF Out
  <2>. HIDE DEF p, Out
  <2>5. Out.ctl.write_cop0 = p.ctl.write_cop0 /\ Out.dest_cop0 = DestCop0(p)
    BY <2>2, <2>4, Outputs, OutputData
  <2>6. p.ctl.write_cop0 => DestCop0(p) # "BadVAddr"
    BY <2>2, <2>3, DestNotBadVAddr
  <2>. QED  BY <2>1, <2>5, <2>6 DEF BadVAddrKept
<1>. QED  BY <1>2, <1>3, <1>4, <1>5

\* BadVAddr changes by an address error only (BadVAddrByException), when mtc0
\* names no read-only register; core_read_only shows the write that the mask of
\* the code lets through otherwise.
THEOREM BadVAddrIsReadOnly == Spec /\ []Predictable => BadVAddrByException
<1>1. Init => BadVAddrKept
  BY DEF Init, EmptyMemory, ClearControl, BadVAddrKept
<1>2. ASSUME TypeOK, LoadNotForwarded, RInv, Predictable, BadVAddrKept, Clock
      PROVE  BadVAddrKept'
  BY <1>2, ClockIsEdge, BadVAddrKeptNext
<1>3. ASSUME Reset PROVE BadVAddrKept'
  BY <1>3 DEF Reset, EmptyMemory, ClearControl, BadVAddrKept
<1>4. ASSUME BadVAddrKept, UNCHANGED vars PROVE BadVAddrKept'
  BY <1>4 DEF vars, stages, BadVAddrKept
<1>5. Spec /\ []Predictable => []BadVAddrKept
  BY <1>1, <1>2, <1>3, <1>4, RefinementInvariant, TypeCorrect, LoadsAreNotForwarded, PTL
  DEF Spec, Next
<1>6. ASSUME TypeOK, BadVAddrKept, Clock
      PROVE  cop0'["BadVAddr"] # cop0["BadVAddr"] => mem.excdata.load_addr
  <2>1. cop0' = Cop0Next
    BY <1>6, ClockIsEdge DEF ClockEdge
  <2>2. cop0 \in [Cop0Reg -> Value] /\ "BadVAddr" \in Cop0Reg
    BY <1>6 DEF TypeOK, Cop0Reg
  <2>3. Cop0Written["BadVAddr"] = cop0["BadVAddr"] /\ DOMAIN Cop0Written = Cop0Reg
    BY <1>6, <2>2 DEF Cop0Written, BadVAddrKept
  <2>. QED  BY <2>1, <2>2, <2>3 DEF Cop0Next
<1>. QED  BY <1>5, <1>6, TypeCorrect, PTL DEF Spec, BadVAddrByException

=============================================================================
