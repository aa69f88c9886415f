------------------------------ MODULE Datapath ------------------------------
(***************************************************************************)
(* The data path of the processor: what the units of the execute and the   *)
(* memory stage compute under the control signals of the decoder.          *)
(*                                                                         *)
(* CpuStep is one instruction from its operands to its write-back.  The    *)
(* pipeline overlaps instructions and Core shows that the overlap is not   *)
(* seen; this module has every function of every unit instead.             *)
(***************************************************************************)
EXTENDS Words

D == INSTANCE Decoder

ControlOf == [op \in D!Op |-> D!Control(op)]

----------------------------------------------------------------------------
\* alu_arithmatic: sum or difference, and the overflow of signed operands.

Arithmetic(a, b, sub) == Trunc(IF sub THEN a - b ELSE a + b)

Msb(a) == a \div 2^(W - 1)

Overflow(a, b, sub) ==
  LET y    == Arithmetic(a, b, sub)
      bneg == (Msb(b) = 1) # sub
  IN  \/ Msb(a) = 0 /\ Msb(y) = 1 /\ ~bneg
      \/ Msb(a) = 1 /\ Msb(y) = 0 /\ bneg

\* alu_logic_clz: <<leading zeros, all zero>> of the low n bits, by halves.
Clz[n \in 1 .. W] ==
  [a \in 0 .. 2^n - 1 |->
     IF n = 1 THEN <<1 - a, a = 0>>
     ELSE LET h    == n \div 2
              high == Clz[h][a \div 2^(n - h)]
              low  == Clz[n - h][a % 2^(n - h)]
          IN  << IF high[2] THEN h + low[1] ELSE high[1], high[2] /\ low[2] >>]

Complement(a) == M - 1 - a

\* alu_logic.
Logic(funct, a, b, sa) ==
  CASE funct = "AND" -> FromBits(Bits(a) \cap Bits(b))
    [] funct = "OR"  -> FromBits(Bits(a) \cup Bits(b))
    [] funct = "XOR" -> FromBits(SymDiff(Bits(a), Bits(b)))
    [] funct = "NOR" -> Complement(FromBits(Bits(a) \cup Bits(b)))
    [] funct = "SHIFT_LEFT"             -> Trunc(b * 2^sa)
    [] funct = "SHIFT_LOGIC_RIGHT"      -> b \div 2^sa
    [] funct = "SHIFT_ARITHMATIC_RIGHT" -> Trunc(Signed(b) \div 2^sa)
    [] funct = "ROTATE_RIGHT" ->
         FromBits(Bits(b \div 2^sa) \cup Bits((b % 2^sa) * 2^(W - sa)))
    [] funct = "CLZ" -> Clz[W][a][1]
    [] funct = "CLO" -> Clz[W][Complement(a)][1]
    [] OTHER -> X

Alu(funct, a, b, sa) ==
  IF funct \in {"ADD", "SUB"} THEN Arithmetic(a, b, funct = "SUB")
  ELSE Logic(funct, a, b, sa)

\* alu_logic_special3: bytes and bit fields.
Special3(funct, a, b, msbd, lsb) ==
  LET upto  == 0 .. msbd
      field == {k \in upto : k >= lsb}
  IN  CASE funct = "SWAP_BYTE_IN_HALF" ->
             LET swapped(k) == ((k + ByteBits) % H) + H * (k \div H)
             IN  FromBits({swapped(k) : k \in Bits(a)})
        [] funct = "SIGN_EXT_BYTE" -> Trunc(SignN(a, ByteBits))
        [] funct = "SIGN_EXT_HALF" -> Trunc(SignN(a, H))
        [] funct = "EXTRACT_BIT"   -> FromBits(Bits(a \div 2^lsb) \cap upto)
        [] funct = "INSERT_BIT" ->
             FromBits((field \cap Bits(Trunc(a * 2^lsb))) \cup (Bits(b) \ field))
        [] OTHER -> X

\* comparator_system and compare_flag_mux.
Flag(select, a, b) ==
  CASE select = "EQ"  -> a = b
    [] select = "NE"  -> a # b
    [] select = "LE"  -> Signed(a) < Signed(b) \/ a = b
    [] select = "GE"  -> Signed(a) > Signed(b) \/ a = b
    [] select = "LT"  -> Signed(a) < Signed(b)
    [] select = "GT"  -> Signed(a) > Signed(b)
    [] select = "LEU" -> a < b \/ a = b
    [] select = "GEU" -> a > b \/ a = b
    [] select = "LTU" -> a < b
    [] select = "GTU" -> a > b
    [] OTHER -> X

\* div_mul: signed operations work on magnitudes and correct the signs.  The
\* result <<hi, lo>> of a division by zero is undefined.
Magnitude(v) == IF v < 0 THEN -v ELSE v

\* Mutant: the high word is not cut to its width.
HiLoUncut(p) == <<p \div M, p % M>>

HiLo(p) == <<(p \div M) % M, p % M>>

MulDiv(funct, a, b, hi, lo) ==
  LET signed == funct \in {"MULT", "MADD", "MSUB", "DIV"}
      sa  == IF signed THEN Signed(a) ELSE a
      sb  == IF signed THEN Signed(b) ELSE b
      q   == Magnitude(sa) \div Magnitude(sb)
      r   == Magnitude(sa) % Magnitude(sb)
      acc == hi * M + lo
  IN  CASE funct \in {"MULT", "MULTU"} -> HiLo(sa * sb)
        [] funct \in {"MADD", "MADDU"} -> HiLo(acc + sa * sb)
        [] funct \in {"MSUB", "MSUBU"} -> HiLo(acc - sa * sb)
        [] funct \in {"DIV", "DIVU"} ->
             IF b = 0 THEN <<X, X>>
             ELSE << Trunc(IF sa < 0 THEN -r ELSE r),
                     Trunc(IF (sa < 0) # (sb < 0) THEN -q ELSE q) >>
        [] OTHER -> <<X, X>>

----------------------------------------------------------------------------
\* stage_memory_load_store: the part of a word that is read or written.

Load(mode, old, word, idx) ==
  LET byte == (word \div 2^(ByteBits * idx)) % 2^ByteBits
      half == (word \div 2^(H * (idx \div 2))) % 2^H
      left == ByteBits * (BPW - 1 - idx)
  IN  CASE mode = "BYTE"        -> Trunc(SignN(byte, ByteBits))
        [] mode = "UNSIGN_BYTE" -> byte
        [] mode = "HALF"        -> IF idx % 2 = 1 THEN X ELSE Trunc(SignN(half, H))
        [] mode = "UNSIGN_HALF" -> IF idx % 2 = 1 THEN X ELSE half
        [] mode = "WORD"        -> IF idx # 0 THEN X ELSE word
        [] mode = "LWL" -> (old % 2^left) + Trunc(word * 2^left)
        [] mode = "LWR" ->
             LET kept == W - ByteBits * idx
             IN  ((old \div 2^kept) * 2^kept) + (word \div 2^(ByteBits * idx))
        [] OTHER -> X

\* The bytes a store writes, and the word it takes them from.
\* Mutant: a byte is stored with those below it.
ByteMaskBelow(mode, idx) == IF mode \in {"WORD", "SWR"} THEN idx .. BPW - 1 ELSE 0 .. idx

ByteMask(mode, idx) ==
  CASE mode = "BYTE" -> {idx}
    [] mode = "HALF" -> {2 * (idx \div 2), 2 * (idx \div 2) + 1}
    [] mode = "WORD" -> 0 .. BPW - 1
    [] mode = "SWL"  -> 0 .. idx
    [] mode = "SWR"  -> idx .. BPW - 1

\* Mutant: swl takes the low bytes.
StoreDataLow(mode, v, idx) == IF mode = "SWL" THEN v ELSE Trunc(v * 2^(ByteBits * idx))

StoreData(mode, v, idx) ==
  CASE mode \in {"BYTE", "SWR"} -> Trunc(v * 2^(ByteBits * idx))
    [] mode = "HALF" -> Trunc(v * 2^(H * (idx \div 2)))
    [] mode = "WORD" -> v
    [] mode = "SWL"  -> v \div 2^(ByteBits * (BPW - 1 - idx))

----------------------------------------------------------------------------
\* The multiplexers of the execute stage.

SourceA(c, rs, rt) ==
  CASE c.alu_srcA = "RS" -> rs [] c.alu_srcA = "RT" -> rt [] OTHER -> X

SourceB(c, rt, imm) ==
  CASE c.alu_srcB = "RT"         -> rt
    [] c.alu_srcB = "SIGN_IMMED" -> Trunc(SignN(imm, H))
    [] c.alu_srcB = "IMMED"      -> imm
    [] c.alu_srcB = "UP_IMMED"   -> imm * 2^H
    [] c.alu_srcB = "ZERO"       -> 0
    [] OTHER -> X

ShiftAmount(m, i, c) == IF c.alu_srcSa = "SA" THEN i.sa ELSE m.gpr[i.rs] % W

\* The registers of coprocessor 0: the one an instruction reads and writes, the
\* bits of it that mtc0 can write, and what is written.  The exception code has
\* four bits, and of the pending and the mask bits there are the two of the
\* software interrupts; they are placed where an immediate reaches the latter.
IE == 1
EXL == 2
ERL == 4
CodeBit  == 6
IPBit    == 4
CodeBits == CodeBit .. CodeBit + 3
IPBits   == {IPBit, IPBit + 1}     \* of Cause, and of the masks in Status

Cop0Reg(c, i) ==
  CASE c.dest_cop0 = "STATUS" -> "Status" [] c.dest_cop0 = "LLADDR" -> "LLAddr"
    [] OTHER -> i.rd

WriteMask(r) ==
  CASE r = "Status" -> {0, 1, 2} \cup IPBits
    [] r = "Cause"  -> CodeBits \cup IPBits
    [] OTHER        -> 0 .. W - 1

Cop0Data(m, i, c, y) ==
  LET status == m.cop0["Status"]
      mask   == WriteMask(i.rd)
      with(bit)    == FromBits(Bits(status) \cup Bits(bit))
      without(bit) == FromBits(Bits(status) \ Bits(bit))
  IN  CASE c.cop0_src = "RT" ->
             FromBits((Bits(m.cop0[Cop0Reg(c, i)]) \ mask) \cup (Bits(m.gpr[i.rt]) \cap mask))
        [] c.cop0_src = "LLADDR"      -> y
        [] c.cop0_src = "STATUS_EI"   -> with(IE)
        [] c.cop0_src = "STATUS_DI"   -> without(IE)
        [] c.cop0_src = "STATUS_ERET" ->
             without(IF Bits(ERL) \subseteq Bits(status) THEN ERL ELSE EXL)

----------------------------------------------------------------------------
\* What the stages make of an instruction i with the control signals c: a and b
\* are the operands of the ALU, y is its result, flag what the comparator says,
\* and product hi and lo of div_mul.

\* register_partial_data_mux, and the word read from memory.
RegisterData(m, i, c, a, b, y, flag, product) ==
  CASE c.reg_src = "ALU"      -> y
    [] c.reg_src = "MUL"      -> product[2]
    [] c.reg_src = "LINKADDR" -> Trunc(m.pc + 2)
    [] c.reg_src = "RS"       -> m.gpr[i.rs]
    [] c.reg_src = "FLAG"     -> Bool(flag)
    [] c.reg_src = "LLBIT"    -> Bool(m.llbit)
    [] c.reg_src = "COP0"     -> m.cop0[Cop0Reg(c, i)]
    [] c.reg_src = "HI"       -> m.hi
    [] c.reg_src = "LO"       -> m.lo
    [] c.reg_src = "SPECIAL3" -> Special3(c.alu_funct, a, b, i.rd, i.sa)
    [] c.reg_src = "MEM"      -> Load(c.read_mode, m.gpr[i.rt], m.mem[y \div BPW], y % BPW)
    [] OTHER -> X

\* Mutant: a branch links in the register of its rd field.
DestRegOfField(c, i) == IF c.dest_reg = "RT" THEN i.rt ELSE i.rd

DestReg(c, i) ==
  CASE c.dest_reg = "RD" -> i.rd [] c.dest_reg = "RT" -> i.rt
    [] c.dest_reg = "31" -> RA [] OTHER -> X

\* address_error_checker, in kernel mode.
Misaligned(mode, idx) ==
  \/ mode = "WORD" /\ idx # 0
  \/ mode \in {"HALF", "UNSIGN_HALF"} /\ idx % 2 = 1

\* The exception an instruction raises, as the code Cause would show.
TrapOf(c, a, b, y, flag) ==
  CASE c.exc_chk = "OVERFLOW" /\ Overflow(a, b, c.alu_funct = "SUB") -> "OV"
    [] c.exc_chk = "TRAP" /\ flag -> "TR"
    [] c.exc_chk = "SYSCALL"   -> "SYS"
    [] c.exc_chk = "BREAK"     -> "BP"
    [] c.exc_chk = "RESERVERD" -> "RI"
    [] c.read_mem /\ Misaligned(c.read_mode, y % BPW) -> "ADEL"
    [] c.mem_write_cond # "KEEP" /\ Misaligned(c.write_mode, y % BPW) -> "ADES"
    [] OTHER -> "NONE"

WritesMemory(m, c) ==
  c.mem_write_cond = "ALWAYS" \/ (c.mem_write_cond = "WHEN_LLBIT" /\ m.llbit)

WritesRegister(c, flag) == c.write_reg /\ (c.write_cond = "ALWAYS" \/ flag)

\* A store into memory; one into the first word of the debug memory strobes.
StoreTo(m, w, data) ==
  [m EXCEPT !.mem[w] = data,
            !.log = IF w # DbgAddr \div BPW THEN @
                    ELSE Append(@, [ funct |-> data, arg0 |-> m.mem[w + 1],
                                     arg1 |-> m.mem[w + 2], gpr |-> m.gpr ])]

MemoryAfter(m, i, c, y) ==
  IF ~WritesMemory(m, c) THEN m
  ELSE StoreTo(m, y \div BPW,
               Merge(m.mem[y \div BPW], StoreData(c.write_mode, m.gpr[i.rt], y % BPW),
                     ByteMask(c.write_mode, y % BPW)))

\* hilo: from the product, or from a register.
HiLoData(m, i, c, product, half) ==
  IF c.hilo_src = "RS" THEN m.gpr[i.rs] ELSE product[half]

\* An instruction that raises an exception changes nothing else.
WriteBack(m, i, c, a, b, y, flag, product) ==
  IF TrapOf(c, a, b, y, flag) # "NONE" THEN [m EXCEPT !.trap = TrapOf(c, a, b, y, flag)]
  ELSE [MemoryAfter(m, i, c, y) EXCEPT
    !.gpr = IF WritesRegister(c, flag)
            THEN SetReg(@, DestReg(c, i), RegisterData(m, i, c, a, b, y, flag, product)) ELSE @,
    !.hi    = IF c.write_hi THEN HiLoData(m, i, c, product, 1) ELSE @,
    !.lo    = IF c.write_lo THEN HiLoData(m, i, c, product, 2) ELSE @,
    !.llbit = @ \/ c.write_llbit,
    !.cop0  = IF c.write_cop0
              THEN [@ EXCEPT ![Cop0Reg(c, i)] = Cop0Data(m, i, c, y)] ELSE @]

Calculate(m, i, c, a, b) ==
  WriteBack(m, i, c, a, b, Alu(c.alu_funct, a, b, ShiftAmount(m, i, c)), Flag(c.flag_sel, a, b),
            MulDiv(c.muldiv_funct, m.gpr[i.rs], m.gpr[i.rt], m.hi, m.lo))

Operands(m, i, c) ==
  Calculate(m, i, c, SourceA(c, m.gpr[i.rs], m.gpr[i.rt]), SourceB(c, m.gpr[i.rt], i.imm))

\* One instruction.
CpuStep(m, i) == Operands(m, i, ControlOf[i.op])

\* Where a branch or a jump goes, when to is its target and other what follows.
Successor(m, i, c, to, other) ==
  LET a == SourceA(c, m.gpr[i.rs], m.gpr[i.rt])
      b == SourceB(c, m.gpr[i.rt], i.imm)
  IN  CASE c.pc_src = "JUMP"     -> to
        [] c.pc_src = "REGISTER" -> m.gpr[i.rs]
        [] c.pc_src = "BRANCH"   -> IF Flag(c.flag_sel, a, b) THEN to ELSE other
        [] OTHER -> other

NextPc(m, i, to, other) == Successor(m, i, ControlOf[i.op], to, other)

----------------------------------------------------------------------------
\* Entering the handler of the exception that is pending: an instruction that
\* raises one also clears the bit that ll has set.
ExcCode == [INT |-> 0, ADEL |-> 4, ADES |-> 5, SYS |-> 8, BP |-> 9, RI |-> 10,
            CpU |-> 11, OV |-> 12, TR |-> 13]

EnterHandler(m, epc) ==
  [m EXCEPT !.trap = "NONE", !.llbit = FALSE,
            !.cop0["EPC"] = epc,
            !.cop0["Cause"] = FromBits((Bits(@) \ CodeBits) \cup Bits(2^CodeBit * ExcCode[m.trap])),
            !.cop0["Status"] = FromBits(Bits(@) \cup Bits(EXL))]

=============================================================================
