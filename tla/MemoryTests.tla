---------------------------- MODULE MemoryTests ----------------------------
(***************************************************************************)
(* The test programs of loads and stores: lw, lh, lb, lbu, lhu, sb, sh,    *)
(* sw, lwl_swl, lwr_swr, ll_sc and read_instruction.                       *)
(*                                                                         *)
(* A program uses the cells of a data segment: bytes, halves or words.  It *)
(* reaches a cell with an offset and a base register holding the cell's    *)
(* address less the offset.                                                *)
(***************************************************************************)
EXTENDS TestProgram

CONSTANTS Words,      \* the words of the data segment: 1 to 1024 in the code
          Contents    \* what memory_datas may be: functions from cells to words

VARIABLES datas,    \* memory_datas, or mem_content of ll_sc and read_instruction
          cell,     \* the cell being filled or tried
          offset,   \* and its offset
          regs      \* the registers an unfinished callback uses

vars == <<program, datas, cell, offset, regs>>
spot == <<cell, offset, regs>>

Loading == {"lw", "lh", "lb"}
Storing == {"lbu", "lhu", "sb", "sh", "sw"}
Partial == {"lwl_swl", "lwr_swr"}
Kernel  == {"ll_sc", "read_instruction"}

MemoryTest == Loading \cup Storing \cup Partial \cup Kernel

byte_per_unit ==
  CASE test \in {"lb", "lbu", "sb"} \cup Partial -> 1
    [] test \in {"lh", "lhu", "sh"} -> 2
    [] OTHER -> 4

UnitBits == ByteBits * byte_per_unit

LoadOp ==
  CASE test = "lbu" -> "LBU" [] test = "lhu" -> "LHU"
    [] test = "sb" -> "LB" [] test = "sh" -> "LH" [] test = "sw" -> "LW"
    [] test = "lwl_swl" -> "LWL" [] test = "lwr_swr" -> "LWR"

StoreOp ==
  CASE test \in {"lbu", "sb"} -> "SB" [] test \in {"lhu", "sh"} -> "SH"
    [] test = "lwl_swl" -> "SWL" [] test = "lwr_swr" -> "SWR" [] test = "sw" -> "SW"

Target ==
  [ equal |-> test \notin Partial, not_equal |-> FALSE, checked |-> test \notin Kernel ]

data_segment_base == 2^(H + 1)
Cell     == 0 .. (Words * BPW) \div byte_per_unit - 1
S16      == {SignN(d, H) : d \in Draw}     \* numutil.s16
Offset   == BoundSigned(H) \cup S16
Addr(c)  == data_segment_base + byte_per_unit * c

\* Load the base register of a cell, and a load or store of the cell.
Base(r, c, off)    == Li(r, Addr(c) - off)
Mem(op, rt, r, off) == <<IType(op, rt, r, off)>>

\* The data segment as the assembler lays memory_datas out.
UnitsOf(t) == IF t \in {"lb"} \cup Partial THEN 1 ELSE IF t = "lh" THEN 2 ELSE 4

WordFrom(t, d, w) ==
  LET n == UnitsOf(t)
      per == BPW \div n
      c(k) == d[per * (w - data_segment_base \div BPW) + k] % 2^(ByteBits * n)
  IN  FromBits(UNION {Bits(c(k) * 2^(ByteBits * n * k)) : k \in 0 .. per - 1})

DataSegment(t, d) ==
  [w \in MemWord |-> IF w \in DataWord THEN WordFrom(t, d, w) ELSE 0]

----------------------------------------------------------------------------
\* What a load of a cell must give, on Python's integers.
LoadedValue(v) ==
  CASE test \in {"lbu", "lhu"} -> v % 2^UnitBits
    [] OTHER -> SignN(v % 2^UnitBits, UnitBits) % M

\* Every program begins by clearing the registers, read_instruction apart.
\* lwl_swl and lwr_swr assert nothing, so they may end at any time.
Clear ==
  /\ at = "clear" /\ Emit(IF test = "read_instruction" THEN <<>> ELSE ClearReg)
  /\ Goto(CASE test \in Storing -> "fill"
            [] test \in Partial -> "mix"
            [] OTHER -> "next")
  /\ UNCHANGED <<calls, datas, spot>>

\* Load a cell of the data that came with the program.
LoadOne(load) ==
  /\ CallAt("next") \/ CallAt("mix")
  /\ \E rb, rt \in OneRegister({}), c \in Cell, off \in Offset :
       \E s \in SysRegisters(EqualArgs(rt, 0)) :
         Emit(Base(rb, c, off) \o Mem(load, rt, rb, off)
              \o AssertEqual(rt, LoadedValue(datas[c]), s))
  /\ Goto("mix") /\ UNCHANGED <<datas, spot>>

\* Load a cell and add it up, with five different registers.
do_some_math(load) ==
  /\ at \in {"next", "mix"} /\ calls < MaxCalls
  /\ \E r \in Registers(5, {}), c \in Cell, off \in S16 :
       Emit(Base(r[1], c, off) \o Mem(load, r[2], r[1], off)
            \o <<RType("ADDU", r[3], r[2], r[4]), RType("ADDU", r[2], r[2], r[5])>>)
  /\ calls' = calls + 1 /\ Goto(at) /\ UNCHANGED <<datas, spot>>

lw == test = "lw" /\ (LoadOne("LW") \/ do_some_math("LW"))
lh == test = "lh" /\ (LoadOne("LH") \/ do_some_math("LH"))
lb == test = "lb" /\ (LoadOne("LB") \/ do_some_math("LB"))

----------------------------------------------------------------------------
\* The stores, lbu and lhu: store a cell and load it again.
StoreAndLoad(c, off) ==
  \E rb, rt2 \in OneRegister({}) :
    \E rt \in OneRegister({rb}), s \in SysRegisters(EqualArgs(rt2, 0)) :
      Emit(Base(rb, c, off) \o Li(rt, datas[c]) \o Mem(StoreOp, rt, rb, off)
           \o Mem(LoadOp, rt2, rb, off) \o AssertEqual(rt2, LoadedValue(datas[c]), s))

\* First every cell, so that no later load finds what an earlier program left.
Fill ==
  /\ at = "fill" /\ StoreAndLoad(cell, 0)
  /\ IF cell + 1 \in Cell THEN cell' = cell + 1 /\ Goto("fill")
     ELSE cell' = 0 /\ Goto("mix")
  /\ UNCHANGED <<calls, datas, offset, regs>>

StoreOne ==
  /\ CallAt("mix") /\ test \in Storing
  /\ \E c \in Cell, off \in Offset : StoreAndLoad(c, off)
  /\ Goto("mix") /\ UNCHANGED <<datas, spot>>

\* Move one cell to another.
MoveCell ==
  /\ CallAt("mix") /\ test \in Storing
  /\ \E r \in Registers(2, {}), from, to \in Cell, o1, o2 \in S16 :
       Emit(Base(r[1], from, o1) \o Base(r[2], to, o2)
            \o Mem(LoadOp, r[1], r[1], o1) \o Mem(StoreOp, r[1], r[2], o2))
  /\ Goto("mix") /\ UNCHANGED <<datas, spot>>

\* Load a cell, do some arithmetic, and store the address back.
LoadForMath ==
  /\ CallAt("mix") /\ test \in Storing
  /\ \E r \in OneRegister({}), c \in Cell, off \in S16 :
       /\ Emit(Base(r, c, off) \o Mem(LoadOp, r, r, off))
       /\ cell' = c /\ offset' = off
  /\ Goto("math") /\ UNCHANGED <<datas, regs>>

\* Bound: one instruction, of at most nineteen.
SomeMath ==
  /\ at = "math" /\ \E i \in RandomAlu : Emit(<<i>>)
  /\ Goto("back") /\ UNCHANGED <<calls, datas, spot>>

StoreBack ==
  /\ at \in {"math", "back"}
  /\ \E r \in OneRegister({}) : Emit(Base(r, cell, offset) \o Mem(StoreOp, r, r, offset))
  /\ cell' = 0 /\ offset' = 0 /\ Goto("mix") /\ UNCHANGED <<calls, datas, regs>>

----------------------------------------------------------------------------
\* lwl_swl, lwr_swr: parts of words, which only the simulator judges.
StorePart ==
  /\ CallAt("mix") /\ test \in Partial
  /\ \E r \in Registers(3, {}), v \in Draw, c \in Cell, off \in S16 :
       Emit(Li(r[1], v) \o Base(r[2], c, off)
            \o Mem(StoreOp, r[2], r[2], off) \o Mem(LoadOp, r[3], r[2], off))
  /\ Goto("mix") /\ UNCHANGED <<datas, spot>>

\* Load two parts, add the registers and store a part of the sum.
LoadPart ==
  /\ at \in {"mix", "part"} /\ test \in Partial /\ calls < MaxCalls
  /\ \E r \in Registers(2, {}), c \in Cell, off \in S16 :
       /\ Emit(Base(r[1], c, off) \o Mem(LoadOp, r[2], r[1], off))
       /\ regs' = Append(regs, r[2])
  /\ calls' = calls + 1 /\ Goto(IF at = "mix" THEN "part" ELSE "sum")
  /\ UNCHANGED <<datas, cell, offset>>

StoreSum ==
  /\ at = "sum"
  /\ \E r \in Registers(2, {}), c \in Cell, off \in S16 :
       Emit(<<RType("ADDU", r[2], regs[1], regs[2])>> \o Base(r[1], c, off)
            \o Mem(StoreOp, r[2], r[1], off))
  /\ regs' = <<>> /\ Goto("mix") /\ UNCHANGED <<calls, datas, cell, offset>>

----------------------------------------------------------------------------
\* ll_sc, in kernel mode.  The handler returns behind the instruction that has
\* trapped; an instruction's address is of no consequence here.

K0 == NReg - 2     \* $26: $30 has no role and lends its number

Handler ==
  << RType("MFC0", "EPC", 0, K0), IType("ADDIU", K0, K0, BPW),
     RType("MTC0", "EPC", 0, K0), RType("ERET", 0, 0, 0) >>

LoadLinked ==
  /\ CallAt("next") /\ test = "ll_sc"
  /\ \E r \in Registers(2, {}), c \in Cell, off \in Offset :
       /\ Emit(Base(r[2], c, off) \o Mem("LL", r[1], r[2], off))
       /\ cell' = c /\ offset' = off /\ regs' = r
  /\ Goto("linked") /\ UNCHANGED datas

\* Then comes an exception, or the store that mem_content foresees.
AfterLink ==
  /\ at = "linked"
  /\ \/ Emit(<<RType("SYSCALL", 0, 0, 0)>>) /\ Goto("trapped") /\ UNCHANGED datas
     \/ Emit(<<>>) /\ Goto("sc") /\ datas' = [datas EXCEPT ![cell] = @ + 1]
  /\ UNCHANGED <<calls, spot>>

Handle ==
  /\ at = "trapped" /\ cpu' = EnterHandler(cpu, cpu.pc)
  /\ piece' = [Nothing EXCEPT !.code = Handler]
  /\ Goto("lost") /\ UNCHANGED <<sim, bench, calls, datas, spot>>

\* The store takes place just if there was no exception.
StoreConditional ==
  /\ at \in {"sc", "lost"}
  /\ \E s \in SysRegisters(EqualArgs(regs[1], 0)) :
       Emit(Base(regs[2], cell, offset)
            \o <<IType("ADDIU", regs[1], regs[1], 1)>> \o Mem("SC", regs[1], regs[2], offset)
            \o AssertEqual(regs[1], IF at = "lost" THEN 0 ELSE 1, s))
  /\ Goto("content") /\ UNCHANGED <<calls, datas, spot>>

CheckContent ==
  /\ at = "content"
  /\ \E s \in SysRegisters(EqualArgs(regs[1], 0)) :
       Emit(Base(regs[2], cell, offset) \o <<IType("LUI", regs[1], 0, 0)>>
            \o Mem("LW", regs[1], regs[2], offset) \o AssertEqual(regs[1], datas[cell], s))
  /\ Goto("lladdr") /\ UNCHANGED <<calls, datas, spot>>

CheckLLAddr ==
  /\ at = "lladdr"
  /\ \E s \in SysRegisters(EqualArgs(regs[1], 0)) :
       Emit(<<RType("MFC0", "LLAddr", 0, regs[1])>> \o AssertEqual(regs[1], Addr(cell), s))
  /\ cell' = 0 /\ offset' = 0 /\ regs' = <<>> /\ Goto("next")
  /\ UNCHANGED <<calls, datas>>

\* read_instruction: words of the text segment, read as data, in order.
ReadInstruction ==
  /\ at = "next" /\ test = "read_instruction" /\ cell \in Cell
  /\ \E s \in SysRegisters(EqualArgs(2, 0)) :
       Emit(Li(1, data_segment_base) \o <<IType("ADDIU", 3, 1, BPW * cell)>>
            \o Mem("LW", 2, 3, 0) \o AssertEqual(2, datas[cell], s))
  /\ cell' = cell + 1 /\ Goto("next") /\ UNCHANGED <<calls, datas, offset, regs>>

----------------------------------------------------------------------------

CheckAndEnd ==
  /\ test \notin Kernel /\ at = "mix"
  /\ Finish /\ UNCHANGED <<datas, spot>>

\* The kernel programs end without a check of the registers.
ExitKernel ==
  /\ at = "next" /\ IF test = "ll_sc" THEN calls > 0 ELSE test \in Kernel /\ cell \notin Cell
  /\ \E r \in OneRegister({}) : Emit(Exit(r))
  /\ Goto("done") /\ UNCHANGED <<calls, datas, spot>>

Run == RunPiece(Target) /\ UNCHANGED <<datas, spot>>

Init ==
  /\ test \in Tests
  /\ datas \in IF test \in {"lw", "ll_sc"} THEN {[c \in 0 .. Words * BPW - 1 |-> c]}
              ELSE IF test \in Partial THEN {[c \in 0 .. Words * BPW - 1 |-> c % 2^ByteBits]}
              ELSE Contents
  /\ Start([t \in MemoryTest |-> "clear"],
           IF test \in Storing THEN Leftover ELSE DataSegment(test, datas),
           IF test \in Storing THEN NoData ELSE DataSegment(test, datas))
  /\ cell = 0 /\ offset = 0 /\ regs = <<>>

Next ==
  \/ Clear \/ lw \/ lh \/ lb
  \/ Fill \/ StoreOne \/ MoveCell \/ LoadForMath \/ SomeMath \/ StoreBack
  \/ StorePart \/ LoadPart \/ StoreSum
  \/ LoadLinked \/ AfterLink \/ Handle \/ StoreConditional \/ CheckContent \/ CheckLLAddr \/ ReadInstruction
  \/ CheckAndEnd \/ ExitKernel \/ Run

Spec == Init /\ [][Next]_vars

----------------------------------------------------------------------------

TypeOK ==
  /\ ProgramOK /\ at \in {"run", "clear", "next", "fill", "math", "back", "part", "sum", "linked",
                          "trapped", "sc", "lost", "content", "lladdr", "mix", "done"}
  /\ cell \in 0 .. Words * BPW /\ offset \in -(2^H) .. 2^H /\ Range(regs) \subseteq Reg

\* Memory behind a store: once a storing program has filled its cells, the
\* processor's memory is the simulator's, whatever was in it before.
MemoryTracked == test \in Storing /\ at = "mix" => \A w \in DataWord : cpu.mem[w] = sim.mem[w]

=============================================================================
