--------------------------- MODULE ExceptionTests ---------------------------
(***************************************************************************)
(* The test programs of the exceptions: syscall, break, the traps, the     *)
(* overflows, reserved, unalign_load, unalign_store, unalign_pc,           *)
(* soft_interrupt, cop0_unusable and di_ei.                                *)
(*                                                                         *)
(* They run without the simulator, with a handler of their own.  It counts *)
(* the exceptions in a word of memory, and the generator, which knows      *)
(* which instructions raise one, asserts the count.  Addresses of          *)
(* instructions count instructions, from the start of the piece of code,   *)
(* so the handler adds 1 and not 4 to return behind an instruction.        *)
(***************************************************************************)
EXTENDS TestProgram

CONSTANTS Counts,   \* the offsets an address is drawn from: 4 MB in the code
          Avoid     \* the registers that di_ei does not draw: none in the code

VARIABLES total,    \* the exceptions the generator has foreseen
          spoilt    \* the program has done what its generator does not foresee

vars == <<program, total, spoilt>>

TrapR     == {"tge", "tgeu", "tlt", "tltu", "teq", "tne"}
TrapI     == {"tgei", "tgeiu", "tlti", "tltiu", "teqi", "tnei"}
Overflows == {"ov_add", "ov_sub", "ov_addi"}
Unaligned == {"unalign_load", "unalign_store", "unalign_pc"}
Counting  == {"syscall", "break", "reserved", "soft_interrupt"}
             \cup TrapR \cup TrapI \cup Overflows \cup Unaligned
ExceptionTest == Counting \cup {"cop0_unusable", "di_ei"}

\* The traps compare two registers, or a register and a sign-extended immediate.
OpOf == [ tge |-> "TGE", tgeu |-> "TGEU", tlt |-> "TLT", tltu |-> "TLTU",
          teq |-> "TEQ", tne |-> "TNE", tgei |-> "TGEI", tgeiu |-> "TGEIU",
          tlti |-> "TLTI", tltiu |-> "TLTIU", teqi |-> "TEQI", tnei |-> "TNEI",
          ov_add |-> "ADD", ov_sub |-> "SUB", ov_addi |-> "ADDI" ]

exccode ==
  CASE test = "syscall" -> 8 [] test = "break" -> 9 [] test = "reserved" -> 10
    [] test = "cop0_unusable" -> 11 [] test \in Overflows -> 12
    [] test \in TrapR \cup TrapI -> 13 [] test = "unalign_store" -> 5
    [] test \in {"unalign_load", "unalign_pc"} -> 4 [] OTHER -> 0

Target == [equal |-> TRUE, not_equal |-> FALSE, checked |-> FALSE]

\* $26, $27 and $4 have the numbers of registers without a role here.
K0 == NReg - 2
K1 == 1
A0 == 2

data_segment_base == 2^(H + 1)
Counter == data_segment_base \div BPW     \* exception_count, or clock_count

----------------------------------------------------------------------------
\* The handlers.

Field(op, rt, rs, pos, size) ==
  [op |-> op, rd |-> IF op = "EXT" THEN size - 1 ELSE pos + size - 1,
   rs |-> rs, rt |-> rt, sa |-> pos, imm |-> 0]
From(reg, r) == RType("MFC0", reg, 0, r)
To(reg, r)   == RType("MTC0", reg, 0, r)
Put(r, base, k) == IType("SW", r, base, BPW * k)
SkipIf(op, r, n) == IType(op, 0, r, n)     \* a branch over n instructions
DbgHigh(r)   == <<IType("LUI", r, 0, 2^H - 1)>>

CountOne ==
  Li(K0, data_segment_base)
  \o <<IType("LW", K1, K0, 0), IType("ADDIU", K1, K1, 1), IType("SW", K1, K0, 0)>>

\* Count, and assert the exception code and EXL.
HandlerStart ==
  CountOne
  \o <<From("Cause", K0), Field("EXT", K0, K0, CodeBit, 4)>>
  \o DbgHigh(K1) \o <<Put(K0, K1, 2)>>
  \o Li(K0, exccode) \o <<Put(K0, K1, 1)>> \o Li(K0, 1) \o <<Put(K0, K1, 0)>>
  \o <<From("Status", K0), Field("EXT", K0, K0, 1, 1)>>
  \o DbgHigh(K1) \o <<Put(K0, K1, 1)>>
  \o Li(K0, 1) \o <<Put(K0, K1, 2)>> \o Li(K0, 1) \o <<Put(K0, K1, 0)>>

\* The handler of unalign_pc returns to the delay slot of the jump.
\* Mutant: it leaves EXL set.
ToSlotInHandler == << IType("ADDIU", RA, RA, -1), RType("JR", 0, RA, 0) >>

ToSlot ==
  << From("Status", K1), Field("INS", K1, 0, 1, 1), To("Status", K1),
     IType("ADDIU", RA, RA, -1), RType("JR", 0, RA, 0) >>

\* The handler of soft_interrupt clears what is pending, asserts that the mask
\* allows it, and returns to the instruction it has interrupted.
AssertMask(allowed) ==
  <<From("Status", K1), IType("ANDI", K1, K1, allowed)>>
  \o DbgHigh(K0) \o <<Put(K1, K0, 2)>>
  \o Li(K1, allowed) \o <<Put(K1, K0, 1)>> \o Li(K1, 1) \o <<Put(K1, K0, 0)>>

\* If cond leaves a bit in $k1, the body, and else the rest.
Select(cond, body, rest) ==
  cond \o <<SkipIf("BLEZ", K1, Len(body) + 1)>> \o body \o <<SkipIf("BEQ", 0, Len(rest))>> \o rest

Problem == DbgHigh(K0) \o <<Put(0, K0, 1), Put(0, K0, 2)>> \o Li(K1, 2) \o <<Put(K1, K0, 0)>>

SoftSwitch ==
  Select(<<IType("ANDI", K1, K0, 1)>>, AssertMask(2^IPBit + IE),
         Select(<<Shift("SRL", K1, K0, 1)>>, AssertMask(2^(IPBit + 1) + IE), Problem))

SoftHandler ==
  << From("Cause", K1), Field("EXT", K0, K1, IPBit, 2),
     Field("INS", K1, 0, IPBit, 2), To("Cause", K1), IType("ANDI", K0, K0, 3),
     SkipIf("BLEZ", K0, Len(SoftSwitch) - Len(Problem)) >>
  \o SoftSwitch \o <<RType("ERET", 0, 0, 0)>>

Return == << From("EPC", K0), IType("ADDIU", K0, K0, 1), To("EPC", K0), RType("ERET", 0, 0, 0) >>

\* That of di_ei counts, and what is no interrupt is reported.
Report == DbgHigh(K0) \o <<Put(0, K0, 2), Put(0, K0, 1)>> \o Li(K1, 2) \o <<Put(K1, K0, 0)>>

\* That of cop0_unusable is never entered.
Handler(trap) ==
  CASE test = "di_ei" ->
         (IF trap = "INT" THEN <<>> ELSE Report) \o CountOne \o <<RType("ERET", 0, 0, 0)>>
    [] test = "unalign_pc" -> HandlerStart \o ToSlot
    [] test = "soft_interrupt" -> HandlerStart \o SoftHandler
    [] OTHER -> HandlerStart \o Return

----------------------------------------------------------------------------
\* One instruction at pc.  The end of a handler leaves it.
StepAt(m, i) ==
  [CpuStep(m, i) EXCEPT !.pc = IF i.op = "ERET" THEN m.cop0["EPC"]
                               ELSE NextPc(m, i, m.pc + 1 + i.imm, m.pc + 1)]

\* Follow code from pc on; every step goes forward.
Follow(m, code) ==
  LET after[k \in 0 .. Len(code)] ==
        IF k = 0 THEN m
        ELSE LET n == after[k - 1]
             IN  IF n.pc >= Len(code) THEN n ELSE StepAt(n, code[n.pc + 1])
  IN  after[Len(code)]

Handled(m, code) == StepAt(Follow(m, Front(code)), Last(code))

InHandler(m, epc) == Handled([EnterHandler(m, epc) EXCEPT !.pc = 0], Handler(m.trap))

\* An interrupt is accepted between two instructions, in normal mode.
Accepts(m) == Bits(m.cop0["Status"]) \cap {0, 1, 2} = {0}

\* exception_controller takes a software interrupt where a pending bit rises.
\* Mutant: the masks do not count.
RisingUnmasked(m, n) ==
  Accepts(n) /\ (Bits(n.cop0["Cause"]) \ Bits(m.cop0["Cause"])) \cap IPBits # {}

Rising(m, n) ==
  LET pending(x) == Bits(x.cop0["Cause"]) \cap IPBits
  IN  Accepts(n) /\ (pending(n) \ pending(m)) \cap Bits(n.cop0["Status"]) # {}

\* What an instruction i of the program, from m to n, raises and where, or what
\* comes behind it: a jump to an unaligned address or a software interrupt.
Raised(m, i, n) ==
  CASE n.trap # "NONE" -> [trap |-> n.trap, epc |-> m.pc]
    [] n.trap = "NONE" /\ i.op = "JALR" /\ n.pc % BPW # 0 -> [trap |-> "ADEL", epc |-> n.pc]
    [] n.trap = "NONE" /\ Rising(m, n) -> [trap |-> "INT", epc |-> n.pc]
    [] OTHER -> [trap |-> "NONE", epc |-> 0]

Resolve(n, e) == IF e.trap = "NONE" THEN n ELSE InHandler([n EXCEPT !.trap = e.trap], e.epc)
Resolved(m, i, n) == Resolve(n, Raised(m, i, n))

Step(m, i) == Resolved(m, i, StepAt(m, i))

\* The k-th step through the code, when the timer is due to interrupt before the
\* p-th instruction, or before the first one behind that accepts it.  The bench
\* stops a program that reports what it should not have come to.
Stopped(m) == \E k \in DOMAIN m.log : m.log[k].funct = 2

Advance(s, code, p, k) ==
  LET hit == s.due /\ k > p /\ Accepts(s.m)
      m   == IF hit THEN InHandler([s.m EXCEPT !.trap = "INT"], s.m.pc) ELSE s.m
  IN  IF Stopped(s.m) THEN s
      ELSE [ m   |-> IF m.pc >= Len(code) THEN m ELSE Step(m, code[m.pc + 1]),
             due |-> s.due /\ ~hit ]

Through(s, code, p) ==
  LET after[k \in 0 .. Len(code)] == IF k = 0 THEN s ELSE Advance(after[k - 1], code, p, k)
  IN  after[Len(code)]

\* A program that has come behind the last instruction of a piece is at the
\* start of the next one.
Settle(m, b) ==
  /\ cpu' = [m EXCEPT !.log = <<>>, !.pc = Trunc(@ - Len(piece.code))]
  /\ bench' = IF then = "done" /\ b.exit THEN EndOfTest(b, Target) ELSE b

End(s) ==
  /\ Settle(s.m, FoldLeft(LAMBDA b, strobe : React(b, strobe, sim.gpr), bench, s.m.log))
  /\ total' = total + Bool(test = "di_ei" /\ ~s.due)

\* The timer is used by di_ei only.
Run ==
  /\ at = "run" /\ Resume /\ UNCHANGED <<sim, spoilt>>
  /\ \E p \in IF test = "di_ei" THEN 0 .. Len(piece.code) ELSE {0} :
       End(Through([m |-> cpu, due |-> test = "di_ei"], piece.code, p))

Rest == UNCHANGED <<total, spoilt>>

----------------------------------------------------------------------------
\* __start of di_ei: interrupts are enabled, and eret leaves the kernel mode.
TimerStart ==
  Li(K0, IE + EXL) \o <<To("Status", K0)>> \o Li(K0, 7)
  \o <<To("EPC", K0), RType("ERET", 0, 0, 0)>>

\* That of the others: Status is cleared, and the count.
Begin ==
  /\ at = "begin"
  /\ IF test = "di_ei"
     THEN Emit(TimerStart)
     ELSE Emit(<<To("Status", 0)>> \o Li(A0, data_segment_base) \o <<Put(0, A0, 0)>>)
  /\ Goto("next") /\ Rest /\ UNCHANGED calls

\* A call of the callback: its code raises so many exceptions.
Raises(code, n) ==
  /\ Emit(code) /\ total' = total + n
  /\ Goto("count")

Call == (CallAt("next") \/ CallAt("mixed")) /\ bench.errors = {}

gen_syscall ==
  /\ Call /\ UNCHANGED spoilt
  /\ \/ test = "syscall" /\ Raises(<<RType("SYSCALL", 0, 0, 0)>>, 1)
     \/ test = "break" /\ Raises(<<RType("BREAK", 0, 0, 0)>>, 1)

Values == Bound(W) \cup Draw
Immediates == Bound(H) \cup {SignN(d, H) : d \in Draw}

condition(a, b) ==
  LET s == SignN(a, W)
      immed == SignN(b, H)
  IN  CASE test = "tge"  -> s >= SignN(b, W) [] test = "tgeu" -> a >= b
        [] test = "tlt"  -> s < SignN(b, W)  [] test = "tltu" -> a < b
        [] test = "teq"  -> a = b            [] test = "tne"  -> a # b
        [] test = "tgei" -> s >= immed       [] test = "tgeiu" -> a >= immed % M
        [] test = "tlti" -> s < immed        [] test = "tltiu" -> a < immed % M
        [] test = "teqi" -> s = immed        [] test = "tnei" -> s # immed

\* Overflow: the upper two bits of a sum of one bit more than a word differ.
\* Mutant: the carry of the sum is taken for its overflow.
OverflowsCarry(a, b) == a + (b % M) >= M

overflows(a, b) ==
  LET wide(v) == v + M * Msb(v)
      operand == IF test = "ov_addi" THEN SignN(b, H) % M ELSE b
      res == (IF test = "ov_sub" THEN wide(a) - wide(operand) ELSE wide(a) + wide(operand))
             % (2 * M)
  IN  (res \div M) # (res \div 2^(W - 1)) % 2

gen_trap_rtype ==
  /\ Call /\ test \in TrapR \cup {"ov_add", "ov_sub"} /\ UNCHANGED spoilt
  /\ \E a, b \in Values, r \in Registers(2, {}) :
       Raises(Li(r[1], a) \o Li(r[2], b) \o <<RType(OpOf[test], r[1], r[1], r[2])>>,
              Bool(IF test \in TrapR THEN condition(a, b) ELSE overflows(a, b)))

gen_trap_immedtype ==
  /\ Call /\ test \in TrapI \cup {"ov_addi"} /\ UNCHANGED spoilt
  /\ \E a \in Values, b \in Immediates, r \in OneRegister({}) :
       Raises(Li(r, a) \o <<IType(OpOf[test], r, r, b)>>,
              Bool(IF test \in TrapI THEN condition(a, b) ELSE overflows(a, b)))

\* A reserved encoding, or loads and one of the harmless instructions.
gen_reserved ==
  /\ Call /\ test = "reserved" /\ UNCHANGED spoilt
  /\ \/ Raises(<<RType("RESERVED", 0, 0, 0)>>, 1)
     \/ \E r \in OneRegister({}), v \in Draw, i \in RandomAlu : Raises(Append(Li(r, v), i), 0)

----------------------------------------------------------------------------
\* unalign_load, unalign_store, unalign_pc: an address anywhere in the data
\* segment, be it the counter's.  The handler keeps $k0 and $k1 for itself, so
\* the base register is loaded again after each access.

HalfBad(addr) == addr % 2 = 1
WordBad(addr) == addr % 4 # 0
OnCounter(addr) == addr \div BPW = Counter

gen_unalign_addr_load ==
  /\ Call /\ test = "unalign_load"
  /\ \E c \in Counts, off \in {SignN(d, H) : d \in Draw}, value \in Draw, r \in Registers(4, {}) :
       LET addr == data_segment_base + c
           base == Li(r[4], addr - off)
       IN  /\ Raises(Li(r[1], value) \o Li(r[2], (addr \div 4) * 4) \o <<Put(r[1], r[2], 0)>>
                     \o base \o <<IType("LH",  r[1], r[4], off)>>
                     \o base \o <<IType("LHU", r[2], r[4], off)>>
                     \o base \o <<IType("LW",  r[3], r[4], off)>>,
                     2 * Bool(HalfBad(addr)) + Bool(WordBad(addr)))
           /\ spoilt' = (spoilt \/ OnCounter(addr))

gen_unalign_addr_store ==
  /\ Call /\ test = "unalign_store"
  /\ \E c \in Counts, off \in {SignN(d, H) : d \in Draw}, value \in Draw, r \in Registers(4, {}) :
       LET addr == data_segment_base + c
           base == Li(r[4], addr - off)
       IN  /\ Raises(base \o Li(r[1], value) \o Li(r[2], value) \o Li(r[3], value)
                     \o <<IType("SH", r[1], r[4], off)>>
                     \o base \o <<IType("SW", r[3], r[4], off)>>,
                     Bool(HalfBad(addr)) + Bool(WordBad(addr)))
           /\ spoilt' = (spoilt \/ (~HalfBad(addr) /\ OnCounter(addr)))

gen_unalign_pc ==
  /\ Call /\ test = "unalign_pc" /\ UNCHANGED spoilt
  /\ \E c \in Counts, r \in OneRegister({RA}) :
       LET addr == data_segment_base + c
       IN  IF WordBad(addr)
           THEN Raises(Li(r, addr) \o <<RType("JALR", RA, r, 0), Shift("SLL", 0, 0, 0)>>, 1)
           ELSE Raises(<<>>, 0)

----------------------------------------------------------------------------
\* soft_interrupt: set the masks, then raise one interrupt up to four times.
soft_interrupt_gen ==
  /\ Call /\ test = "soft_interrupt" /\ UNCHANGED spoilt
  /\ \E reg \in OneRegister({K0, K1}), ie, im0, im1 \in {0, 1}, int \in {0, 1}, t \in 1 .. 4 :
       LET im == im1 * 2 + im0
       IN  Raises(<<To("Cause", 0), From("Status", K1)>>
                  \o Li(K0, im) \o <<Field("INS", K1, K0, IPBit, 2)>>
                  \o Li(K0, ie) \o <<Field("INS", K1, K0, 0, 1), To("Status", K1)>>
                  \o Li(reg, 2^(IPBit + int)) \o [k \in 1 .. t |-> To("Cause", reg)],
                  IF ie = 1 /\ (IF int = 0 THEN im0 ELSE im1) = 1 THEN t ELSE 0)

\* cop0_unusable: numutil.below(1) is 0, so user mode is never entered.
cop0_unusable ==
  /\ Call /\ test = "cop0_unusable" /\ UNCHANGED spoilt
  /\ \E i \in RandomAlu : Raises(Append(Li(K0, 16), i), 0)

\* Later, harmless instructions in front of the callback.  Bound: one, and none in
\* soft_interrupt, whose callback has many choices of its own.
Mix ==
  /\ at = "next" /\ calls \in 1 .. MaxCalls - 1 /\ test \notin {"di_ei", "soft_interrupt"}
  /\ bench.errors = {}
  /\ \E i \in RandomAlu : Emit(<<i>>)
  /\ Goto("mixed") /\ Rest /\ UNCHANGED calls

CheckCount ==
  /\ at = "count"
  /\ \E regs \in SysRegisters(EqualArgs(A0, 0)) :
       Emit(Li(A0, data_segment_base) \o <<IType("LW", A0, A0, 0)>> \o AssertEqual(A0, total, regs))
  /\ Goto("next") /\ Rest /\ UNCHANGED calls

----------------------------------------------------------------------------
\* di_ei: di and ei return the Status that mfc0 has just read, and clear or set
\* IE, while the timer interrupts.  The interrupt may come anywhere, and the
\* generator does not keep clear of the registers its handler uses.
DiEi ==
  /\ Call /\ test = "di_ei"
  /\ \E op \in {"DI", "EI"}, r \in Registers(2, Avoid) :
       \E s1 \in Registers(2, Avoid \cup {r[1], r[2]}), s2 \in Registers(2, Avoid \cup {r[1]}) :
         LET equal == Sys(s1[1], s1[2], <<Const(1), InReg(r[1]), InReg(r[2])>>)
             code == <<From("Status", r[1]), RType(op, 0, 0, r[2])>> \o equal
                     \o <<From("Status", r[1]), IType("ANDI", r[1], r[1], 1)>>
                     \o AssertEqual(r[1], Bool(op = "EI"), s2)
         IN  /\ Emit(code)
             /\ spoilt' = (spoilt \/ {K0, K1} \cap {r[1], r[2], s1[1], s1[2], s2[1], s2[2]} # {})
  /\ Goto("next") /\ UNCHANGED total

Leave ==
  /\ at = "next" /\ calls > 0 /\ bench.errors = {}
  /\ \E r \in OneRegister(Avoid) :
       Emit(Exit(r)) /\ spoilt' = (spoilt \/ (test = "di_ei" /\ r \in {K0, K1}))
  /\ Goto("done") /\ UNCHANGED <<total, calls>>

Init ==
  /\ Start([t \in ExceptionTest |-> "begin"], NoData, NoData)
  /\ total = 0 /\ spoilt = FALSE

Next ==
  \/ Begin \/ Mix \/ CheckCount \/ Leave \/ Run
  \/ gen_syscall \/ gen_trap_rtype \/ gen_trap_immedtype \/ gen_reserved
  \/ gen_unalign_addr_load \/ gen_unalign_addr_store \/ gen_unalign_pc
  \/ soft_interrupt_gen \/ cop0_unusable \/ DiEi

Spec == Init /\ [][Next]_vars

----------------------------------------------------------------------------

TypeOK ==
  /\ ProgramOK /\ at \in {"run", "begin", "next", "mixed", "count", "done"}
  /\ total \in Nat /\ spoilt \in BOOLEAN

\* The exceptions that the handler has counted are those the generator has
\* foreseen, no matter which registers, the handler's own among them, a callback
\* has drawn.
CountForeseen ==
  at \in {"next", "mixed", "count"} /\ ~spoilt => cpu.mem[Counter] = total

\* Every exception and every interrupt returns to where the program goes on, in
\* normal mode and with nothing left to handle.
HandlersReturn ==
  at # "begin" /\ ~spoilt => cpu.trap = "NONE" /\ cpu.pc = 0 /\ Bits(EXL) \cap Bits(cpu.cop0["Status"]) = {}

\* An assertion of a program fails only where the generator has overlooked
\* something: a store to the counter, or an interrupt whose handler uses a
\* register that is in use.
AlarmsExplained == bench.errors # {} => spoilt

=============================================================================
