----------------------------- MODULE Reference -----------------------------
(***************************************************************************)
(* The simulator the processor is checked against (tool\Mars.jar, which is *)
(* not in the repository): the instructions as the MIPS32 architecture     *)
(* defines them, on numbers.                                               *)
(***************************************************************************)
EXTENDS Words

\* n bytes of memory from address a on, all in one word, the least significant
\* first.
ByteShift(a)             == 2^(ByteBits * (a % BPW))
LittleEndian(m, a, n) == (m.mem[a \div BPW] \div ByteShift(a)) % 2^(ByteBits * n)
Byte(m, a)            == LittleEndian(m, a, 1)

PutBytes(mem, a, v, n) ==
  LET mod == 2^(ByteBits * n)
  IN  [mem EXCEPT ![a \div BPW] =
         @ + ((v % mod) - ((@ \div ByteShift(a)) % mod)) * ByteShift(a)]

\* Functions of two bits.
BitAnd == [x \in 0 .. 1 |-> [y \in 0 .. 1 |-> x * y]]
BitOr  == [x \in 0 .. 1 |-> [y \in 0 .. 1 |-> x + y - x * y]]
BitXor == [x \in 0 .. 1 |-> [y \in 0 .. 1 |-> (x + y) % 2]]
BitNor == [x \in 0 .. 1 |-> [y \in 0 .. 1 |-> (1 - x) * (1 - y)]]

\* op, a function of two bits, on each two bits of v and w.
Bitwise(v, w, op) ==
  LET from[k \in 0 .. W] ==
        IF k = W THEN 0
        ELSE op[(v \div 2^k) % 2][(w \div 2^k) % 2] + 2 * from[k + 1]
  IN  from[0]

LeadingRun(v, b) ==
  Cardinality({k \in 0 .. W - 1 : \A j \in k .. W - 1 : (v \div 2^j) % 2 = b})

Rotr(v, n) == (v \div 2^n) + (v % 2^n) * 2^(W - n)

\* What instruction i writes into a register: <<register, value>>.
Writes(m, i) ==
  LET rs == m.gpr[i.rs]
      rt == m.gpr[i.rt]
      immed == SignN(i.imm, H)
      ea == Trunc(rs + immed)
      width == i.rd + 1
  IN  CASE i.op \in {"ADD", "ADDU"} -> <<i.rd, Trunc(rs + rt)>>
        [] i.op \in {"SUB", "SUBU"} -> <<i.rd, Trunc(rs - rt)>>
        [] i.op \in {"ADDI", "ADDIU"} -> <<i.rt, ea>>
        [] i.op = "LUI"  -> <<i.rt, i.imm * 2^H>>
        [] i.op = "AND"  -> <<i.rd, Bitwise(rs, rt, BitAnd)>>
        [] i.op = "OR"   -> <<i.rd, Bitwise(rs, rt, BitOr)>>
        [] i.op = "XOR"  -> <<i.rd, Bitwise(rs, rt, BitXor)>>
        [] i.op = "NOR"  -> <<i.rd, Bitwise(rs, rt, BitNor)>>
        [] i.op = "ANDI" -> <<i.rt, Bitwise(rs, i.imm, BitAnd)>>
        [] i.op = "ORI"  -> <<i.rt, Bitwise(rs, i.imm, BitOr)>>
        [] i.op = "XORI" -> <<i.rt, Bitwise(rs, i.imm, BitXor)>>
        [] i.op = "SLL"  -> <<i.rd, Trunc(rt * 2^i.sa)>>
        [] i.op = "SRL"  -> <<i.rd, rt \div 2^i.sa>>
        [] i.op = "SRA"  -> <<i.rd, Trunc(Signed(rt) \div 2^i.sa)>>
        [] i.op = "ROTR" -> <<i.rd, Rotr(rt, i.sa)>>
        [] i.op = "SLLV"  -> <<i.rd, Trunc(rt * 2^(rs % W))>>
        [] i.op = "SRLV"  -> <<i.rd, rt \div 2^(rs % W)>>
        [] i.op = "SRAV"  -> <<i.rd, Trunc(Signed(rt) \div 2^(rs % W))>>
        [] i.op = "ROTRV" -> <<i.rd, Rotr(rt, rs % W)>>
        [] i.op = "SLT"   -> <<i.rd, Bool(Signed(rs) < Signed(rt))>>
        [] i.op = "SLTU"  -> <<i.rd, Bool(rs < rt)>>
        [] i.op = "SLTI"  -> <<i.rt, Bool(Signed(rs) < immed)>>
        [] i.op = "SLTIU" -> <<i.rt, Bool(rs < Trunc(immed))>>
        [] i.op = "CLZ"  -> <<i.rd, LeadingRun(rs, 0)>>
        [] i.op = "CLO"  -> <<i.rd, LeadingRun(rs, 1)>>
        [] i.op = "SEB"  -> <<i.rd, Trunc(SignN(rt, ByteBits))>>
        [] i.op = "SEH"  -> <<i.rd, Trunc(SignN(rt, H))>>
        [] i.op = "WSBH" ->
             LET b(k) == (rt \div 2^(ByteBits * k)) % 2^ByteBits
             IN  <<i.rd, b(1) + b(0) * 2^ByteBits + b(3) * 2^H + b(2) * 2^(H + ByteBits)>>
        [] i.op = "EXT"  -> <<i.rt, (rs \div 2^i.sa) % 2^width>>
        [] i.op = "INS"  ->     \* bits sa .. rd of rt come from rs
             LET field == 2^(i.rd - i.sa + 1)
             IN  <<i.rt, rt + ((rs % field) - ((rt \div 2^i.sa) % field)) * 2^i.sa>>
        [] i.op = "MOVZ" -> <<IF rt = 0 THEN i.rd ELSE 0, rs>>
        [] i.op = "MOVN" -> <<IF rt # 0 THEN i.rd ELSE 0, rs>>
        [] i.op = "MUL"  -> <<i.rd, Trunc(rs * rt)>>
        [] i.op = "MFHI" -> <<i.rd, m.hi>>
        [] i.op = "MFLO" -> <<i.rd, m.lo>>
        [] i.op = "LB"   -> <<i.rt, Trunc(SignN(Byte(m, ea), ByteBits))>>
        [] i.op = "LBU"  -> <<i.rt, Byte(m, ea)>>
        [] i.op = "LH"   -> <<i.rt, Trunc(SignN(LittleEndian(m, ea, 2), H))>>
        [] i.op = "LHU"  -> <<i.rt, LittleEndian(m, ea, 2)>>
        [] i.op = "LW"   -> <<i.rt, LittleEndian(m, ea, BPW)>>
        [] i.op = "LWL"  ->     \* the bytes up to ea become the high ones
             LET n == (ea % BPW) + 1
             IN  <<i.rt, LittleEndian(m, ea - n + 1, n) * 2^(ByteBits * (BPW - n))
                         + (rt % 2^(ByteBits * (BPW - n)))>>
        [] i.op = "LWR"  ->     \* the bytes from ea on become the low ones
             LET n == BPW - (ea % BPW)
             IN  <<i.rt, rt - (rt % 2^(ByteBits * n)) + LittleEndian(m, ea, n)>>
        [] i.op \in {"BLTZAL", "BGEZAL", "JAL"} -> <<RA, Trunc(m.pc + 2)>>
        [] i.op = "JALR" -> <<i.rd, Trunc(m.pc + 2)>>
        [] OTHER -> <<0, 0>>

StoresInto(m, i) ==
  LET ea == Trunc(m.gpr[i.rs] + SignN(i.imm, H))
      rt == m.gpr[i.rt]
  IN  CASE i.op = "SB"  -> PutBytes(m.mem, ea, rt, 1)
        [] i.op = "SH"  -> PutBytes(m.mem, ea, rt, 2)
        [] i.op = "SW"  -> PutBytes(m.mem, ea, rt, BPW)
        [] i.op = "SWR" -> PutBytes(m.mem, ea, rt, BPW - (ea % BPW))
        [] i.op = "SWL" ->
             LET n == (ea % BPW) + 1
             IN  PutBytes(m.mem, ea - n + 1, rt \div 2^(ByteBits * (BPW - n)), n)
        [] OTHER -> m.mem

\* The product registers, as one number.
HiLoAfter(m, i) ==
  LET rs == m.gpr[i.rs]
      rt == m.gpr[i.rt]
      acc == m.hi * M + m.lo
      n  == Signed(rs)
      d  == Signed(rt)
      abs(v) == IF v < 0 THEN -v ELSE v
      q  == IF (n < 0) = (d < 0) THEN abs(n) \div abs(d) ELSE -(abs(n) \div abs(d))
  IN  CASE i.op = "MULT"  -> n * d
        [] i.op = "MULTU" -> rs * rt
        [] i.op = "MADD"  -> acc + n * d
        [] i.op = "MADDU" -> acc + rs * rt
        [] i.op = "MSUB"  -> acc - n * d
        [] i.op = "MSUBU" -> acc - rs * rt
        [] i.op = "DIV"   -> IF d = 0 THEN acc ELSE (Trunc(n - q * d) * M) + Trunc(q)
        [] i.op = "DIVU"  -> IF rt = 0 THEN acc ELSE ((rs % rt) * M) + (rs \div rt)
        [] i.op = "MTHI"  -> rs * M + m.lo
        [] i.op = "MTLO"  -> m.hi * M + rs
        [] OTHER -> acc

\* What an instruction leaves: w is the register it writes, with the value, and p
\* the product.
Leaves(m, i, w, p) ==
  [m EXCEPT !.gpr = SetReg(@, w[1], w[2]), !.mem = StoresInto(m, i),
            !.hi = (p \div M) % M, !.lo = p % M]

SimStep(m, i) == Leaves(m, i, Writes(m, i), HiLoAfter(m, i))

\* Where a branch or a jump goes.
SimNextPc(m, i, to, other) ==
  LET rs == m.gpr[i.rs]
      taken == CASE i.op = "BEQ"  -> rs = m.gpr[i.rt]
                 [] i.op = "BNE"  -> rs # m.gpr[i.rt]
                 [] i.op = "BLEZ" -> Signed(rs) <= 0
                 [] i.op = "BGTZ" -> Signed(rs) > 0
                 [] i.op \in {"BLTZ", "BLTZAL"} -> Signed(rs) < 0
                 [] i.op \in {"BGEZ", "BGEZAL"} -> Signed(rs) >= 0
                 [] OTHER -> i.op \in {"J", "JAL"}
  IN  IF i.op \in {"JR", "JALR"} THEN rs ELSE IF taken THEN to ELSE other

=============================================================================
