---------------------------- MODULE KernelProofs ----------------------------
(***************************************************************************)
(* The kernel's handlers give back every context they interrupt, pass its   *)
(* arguments to every C function, and count the timer's interrupts, for     *)
(* every program, with any number of interrupts at any instruction.         *)
(*                                                                         *)
(* The invariant says for each address of a handler what its frame and the  *)
(* registers hold (InExc, InInt), and that the frames form a chain: the     *)
(* program at the bottom, each handler in what the one below has been at.   *)
(* A handler may be interrupted only where Status is IE, and there nothing  *)
(* that it relies on is in a register that an interrupt overwrites          *)
(* (HandlerSurvives); this is why EPC and Cause are read, and EXL cleared,   *)
(* in this order, and why interrupts are disabled again before $k0, $k1,    *)
(* EPC and Status are restored.                                             *)
(***************************************************************************)
EXTENDS Kernel, SequenceTheorems, TLAPS

----------------------------------------------------------------------------
\* The stack.

\* The stack s is n words and then the stack S.
Words(S, s, n) ==
  /\ s \in Seq(Int) /\ Len(s) = n + Len(S)
  /\ \A j \in n + 1 .. n + Len(S) : s[j] = S[j - n]

\* Words that are put in front of a stack (Push).
LEMMA WordsPushed ==
  ASSUME NEW S \in Seq(Int), NEW n \in Nat, NEW t, t = [k \in 1 .. n |-> 0] \o S
  PROVE  Words(S, t, n)
<1>. DEFINE z == [k \in 1 .. n |-> 0]
<1>1. Len(S) \in Nat /\ z \in Seq(Int) /\ Len(z) = n /\ t = z \o S
  OBVIOUS
<1>. HIDE DEF z
<1>2. /\ z \o S \in Seq(Int) /\ Len(z \o S) = Len(z) + Len(S)
      /\ \A j \in 1 .. Len(z) + Len(S) : (z \o S)[j] = IF j <= Len(z) THEN z[j] ELSE S[j - Len(z)]
  BY <1>1, ConcatProperties, Zenon
<1>. QED  BY <1>1, <1>2 DEF Words

\* Words that are taken from it (Pop).
LEMMA WordsPopped ==
  ASSUME NEW S \in Seq(Int), NEW n \in Nat, NEW s, Words(S, s, n)
  PROVE  SubSeq(s, n + 1, Len(s)) = S
<1>0. PICK t : t = SubSeq(s, n + 1, Len(s))
  OBVIOUS
<1>1. s \in Seq(Int) /\ Len(s) = n + Len(S) /\ Len(S) \in Nat
  BY DEF Words
<1>2. t \in Seq(Int) /\ Len(t) = Len(S) /\ \A j \in 1 .. Len(S) : t[j] = s[n + j]
  BY <1>0, <1>1
<1>3. \A j \in 1 .. Len(S) : t[j] = S[j]
  <2>. TAKE j \in 1 .. Len(S)
  <2>1. t[j] = s[n + j] /\ n + j \in n + 1 .. n + Len(S) /\ n + j - n = j
    BY <1>1, <1>2
  <2>. QED  BY <2>1 DEF Words
<1>. QED  BY <1>0, <1>1, <1>2, <1>3, SeqEqual

\* The call of a function, which overwrites its arguments, and its return.
LEMMA WordsEntered ==
  ASSUME NEW S \in Seq(Int), NEW n \in Nat, n >= 5, NEW s, Words(S, s, n),
         NEW v \in Int, NEW t, t = [k \in 1 .. Len(s) + 1 |-> IF k <= 5 THEN v ELSE s[k - 1]]
  PROVE  Words(S, t, n + 1)
<1>1. s \in Seq(Int) /\ Len(s) = n + Len(S) /\ Len(S) \in Nat
  BY DEF Words
<1>2. t \in Seq(Int) /\ Len(t) = Len(s) + 1 /\ \A j \in 6 .. Len(s) + 1 : t[j] = s[j - 1]
  <2>1. \A k \in 1 .. Len(s) + 1 : (IF k <= 5 THEN v ELSE s[k - 1]) \in Int
    BY <1>1
  <2>. QED  BY <1>1, <2>1
<1>3. Len(t) = n + 1 + Len(S) /\ \A j \in 6 .. n + 1 + Len(S) : t[j] = s[j - 1]
  BY <1>1, <1>2
<1>4. \A j \in n + 2 .. n + 1 + Len(S) : t[j] = S[j - (n + 1)]
  <2>. TAKE j \in n + 2 .. n + 1 + Len(S)
  <2>1. t[j] = s[j - 1] /\ j - 1 \in n + 1 .. n + Len(S) /\ j - 1 - n = j - (n + 1)
    BY <1>1, <1>3
  <2>. QED  BY <2>1 DEF Words
<1>. QED  BY <1>1, <1>2, <1>3, <1>4 DEF Words

\* The return of a function, which takes its word from the stack.
LEMMA WordsReturned ==
  ASSUME NEW S \in Seq(Int), NEW n \in Nat, NEW s, Words(S, s, n + 1),
         NEW t, t = Tail(s)
  PROVE  Words(S, t, n)
<1>1. s \in Seq(Int) /\ Len(s) = n + 1 + Len(S) /\ Len(S) \in Nat
  BY DEF Words
<1>2. t \in Seq(Int) /\ Len(t) = Len(s) - 1 /\ \A j \in 1 .. Len(t) : t[j] = s[j + 1]
  <2>1. s # <<>>
    BY <1>1
  <2>. QED  BY <1>1, <2>1, HeadTailProperties, Zenon
<1>3. Len(t) = n + Len(S) /\ \A j \in 1 .. n + Len(S) : t[j] = s[j + 1]
  BY <1>1, <1>2
<1>4. \A j \in n + 1 .. n + Len(S) : t[j] = S[j - n]
  <2>. TAKE j \in n + 1 .. n + Len(S)
  <2>1. j \in 1 .. n + Len(S) /\ j + 1 \in n + 2 .. n + 1 + Len(S) /\ j + 1 - (n + 1) = j - n
    BY <1>1
  <2>2. t[j] = s[j + 1]
    BY <1>3, <2>1
  <2>3. s[j + 1] = S[j + 1 - (n + 1)]
    BY <2>1 DEF Words
  <2>. QED  BY <2>1, <2>2, <2>3
<1>. QED  BY <1>1, <1>2, <1>3, <1>4 DEF Words
----------------------------------------------------------------------------
\* What the instructions of a handler do.

Typed == regs \in [Regs -> Int] /\ softs \in 0 .. MaxSoft /\ accepted \in Nat /\ Junk \in Int

\* It writes a register.
Writes(d, v) == regs' = [regs EXCEPT ![d] = v] /\ stack' = stack /\ pc' = pc + 1

\* It writes a word of the n in front of S.
Stores(S, n, m, v) ==
  /\ regs' = regs /\ pc' = pc + 1 /\ Words(S, stack', n)
  /\ \A j \in 1 .. n : stack'[j] = IF j = m + 1 THEN v ELSE stack[j]

\* It goes to p.
Goes(p) == regs' = regs /\ stack' = stack /\ pc' = p

\* An instruction that is not a call or a return computes, moves the stack or jumps.
LEMMA Does ==
  ASSUME Execute, Instruction.op \notin Functions \cup {"return"}
  PROVE  LET i == Instruction IN (Compute(i) \/ Stack(i) \/ Jump(i)) /\ pc' = NextPc(i)
  BY DEF Execute, Enter, Return

\* A move writes one register.
LEMMA MoveDoes ==
  ASSUME NEW d, NEW s, Execute, Instruction = Move(d, s)
  PROVE  Writes(d, regs[s])
  BY Does DEF Writes, Compute, Stack, Jump, ValueOf, NextPc, Functions, Move, Instr

\* So do an addition,
LEMMA AddiDoes ==
  ASSUME NEW d, NEW n, Execute, Instruction = Addi(d, n)
  PROVE  Writes(d, regs[d] + n)
  BY Does DEF Writes, Compute, Stack, Jump, ValueOf, NextPc, Functions, Addi, Instr

\* the mask of a word,
LEMMA AndiDoes ==
  ASSUME NEW d, NEW s, NEW n, Execute, Instruction = Andi(d, s, n)
  PROVE  Writes(d, And(regs[s], n))
  BY Does DEF Writes, Compute, Stack, Jump, ValueOf, NextPc, Functions, Andi, Instr

\* the clearing of bits,
LEMMA ClearDoes ==
  ASSUME NEW d, NEW s, NEW n, Execute, Instruction = Clear(d, s, n)
  PROVE  Writes(d, regs[s] - And(regs[s], n))
  BY Does DEF Writes, Compute, Stack, Jump, ValueOf, NextPc, Functions, Clear, Instr

\* and the test for a system call.
LEMMA IsSyscallDoes ==
  ASSUME NEW d, NEW s, Execute, Instruction = IsSyscall(d, s)
  PROVE  Writes(d, IF Code(regs[s]) = SYSCALL THEN 0 ELSE 1)
  BY Does DEF Writes, Compute, Stack, Jump, ValueOf, NextPc, Functions, IsSyscall, Instr

\* The branches go to one of two addresses,
LEMMA BlezDoes ==
  ASSUME NEW d, NEW n, Execute, Instruction = Blez(d, n)
  PROVE  Goes(IF regs[d] <= 0 THEN pc + 1 + n ELSE pc + 1)
  BY Does DEF Goes, Compute, Stack, Jump, ValueOf, NextPc, Functions, Blez, Instr

\* by the sign of a register,
LEMMA BgtzDoes ==
  ASSUME NEW d, NEW n, Execute, Instruction = Bgtz(d, n)
  PROVE  Goes(IF regs[d] > 0 THEN pc + 1 + n ELSE pc + 1)
  BY Does DEF Goes, Compute, Stack, Jump, ValueOf, NextPc, Functions, Bgtz, Instr

\* and the jump to one.
LEMMA JumpDoes ==
  ASSUME NEW n, Execute, Instruction = Instr("j", "k0", "k0", n)
  PROVE  Goes(pc + 1 + n)
  BY Does DEF Goes, Compute, Stack, Jump, ValueOf, NextPc, Functions, Instr

\* A load within the frame reads a number.
LEMMA LoadDoes ==
  ASSUME NEW S \in Seq(Int), NEW n \in Nat, Words(S, stack, n), NEW d, NEW m \in Nat, m < n,
         Execute, Instruction = Load(d, m)
  PROVE  Writes(d, stack[m + 1]) /\ stack[m + 1] \in Int
<1>1. Writes(d, stack[m + 1])
  BY Does DEF Writes, Compute, Stack, Jump, ValueOf, NextPc, Functions, Load, Instr
<1>2. stack[m + 1] \in Int
  BY DEF Words
<1>. QED  BY <1>1, <1>2

\* A save within the frame leaves the words behind it.
LEMMA SaveDoes ==
  ASSUME NEW S \in Seq(Int), NEW n \in Nat, Words(S, stack, n), NEW d, regs[d] \in Int,
         NEW m \in Nat, m < n, Execute, Instruction = Save(d, m)
  PROVE  Stores(S, n, m, regs[d])
<1>1. regs' = regs /\ stack' = [stack EXCEPT ![m + 1] = regs[d]] /\ pc' = pc + 1
  BY Does DEF Compute, Stack, Jump, ValueOf, NextPc, Functions, Save, Instr
<1>2. m + 1 \in 1 .. n
  OBVIOUS
<1>3. Words(S, stack', n) /\ \A j \in 1 .. n : stack'[j] = IF j = m + 1 THEN regs[d] ELSE stack[j]
  BY <1>1, <1>2 DEF Words
<1>. QED  BY <1>1, <1>3 DEF Stores

\* The frame is put in front of the stack,
LEMMA PushDoes ==
  ASSUME NEW n \in Nat, stack \in Seq(Int), Execute, Instruction = Push(n)
  PROVE  regs' = regs /\ Words(stack, stack', n) /\ pc' = pc + 1
<1>1. regs' = regs /\ stack' = [k \in 1 .. n |-> 0] \o stack /\ pc' = pc + 1
  BY Does DEF Compute, Stack, Jump, ValueOf, NextPc, Functions, Push, Instr
<1>. QED  BY <1>1, WordsPushed

\* and taken away.
LEMMA PopDoes ==
  ASSUME NEW S \in Seq(Int), NEW n \in Nat, Words(S, stack, n), Execute, Instruction = Pop(n)
  PROVE  regs' = regs /\ stack' = S /\ pc' = pc + 1
<1>1. regs' = regs /\ stack' = SubSeq(stack, n + 1, Len(stack)) /\ pc' = pc + 1
  BY Does DEF Compute, Stack, Jump, ValueOf, NextPc, Functions, Pop, Instr
<1>2. SubSeq(stack, n + 1, Len(stack)) = S
  BY WordsPopped, Zenon
<1>. QED  BY <1>1, <1>2

\* A callback changes nothing but a pending bit of Cause.
LEMMA CallbackDoes ==
  ASSUME NEW f, NEW r \in [Regs -> Int], softs \in 0 .. MaxSoft, Callback(f, r)
  PROVE  /\ regs' \in [Regs -> Int] /\ softs' \in 0 .. MaxSoft
         /\ regs'["Cause"] % 2 = r["Cause"] % 2
         /\ \A x \in Regs \ {"Cause"} : regs'[x] = r[x]
<1>1. "Cause" \in Regs /\ r["Cause"] \in Int
  BY DEF Regs, Cop0
<1>2. \A c \in Int : /\ (c % SOFT) + SOFT + 4 * Code(c) \in Int
                     /\ ((c % SOFT) + SOFT + 4 * Code(c)) % 2 = c % 2
  BY SMT DEF SOFT, Code
<1>3. CASE regs' = r /\ softs' = softs
  BY <1>3
<1>4. CASE /\ softs < MaxSoft /\ softs' = softs + 1
           /\ regs' = [r EXCEPT !["Cause"] = (@ % SOFT) + SOFT + 4 * Code(@)]
  <2>1. softs' \in 0 .. MaxSoft
    BY <1>4, KernelAssumption
  <2>. DEFINE c == (r["Cause"] % SOFT) + SOFT + 4 * Code(r["Cause"])
  <2>2. c \in Int /\ c % 2 = r["Cause"] % 2
    BY <1>1, <1>2
  <2>3. regs' = [r EXCEPT !["Cause"] = c]
    BY <1>4
  <2>. HIDE DEF c
  <2>. QED  BY <1>1, <2>1, <2>2, <2>3
<1>. QED  BY <1>3, <1>4 DEF Callback

\* What is left of the registers when a function is called or returns.
Spared(r) ==
  /\ r \in [Regs -> Int] /\ r["Cause"] % 2 = regs["Cause"] % 2
  /\ \A x \in Regs \ (CallerSaved \cup {"Cause"}) : r[x] = regs[x]

Calls(S, n) ==
  /\ Spared(regs') /\ Words(S, stack', n + 1) /\ pc' = pc + 1
  /\ \A j \in 6 .. n + 1 : stack'[j] = stack[j - 1]

\* It returns: its word is off the stack, and a system call has its result in $v0.
Returns(S, n, f) ==
  /\ Spared(regs') /\ Words(S, stack', n) /\ pc' = pc + 1
  /\ \A j \in 1 .. n : stack'[j] = stack[j + 1]
  /\ f = "syscall_handler" => regs'["v0"] = Result

\* A C function spares what it has to preserve when it is called,
LEMMA CallDoes ==
  ASSUME NEW S \in Seq(Int), NEW n \in Nat, n >= 5, Words(S, stack, n), Typed,
         Execute, NEW f \in Functions, Instruction = Plain(f)
  PROVE  Calls(S, n)
<1>. DEFINE r == Overwritten(Junk, Junk)
<1>1. /\ stack' = [k \in 1 .. Len(stack) + 1 |-> IF k <= 5 THEN Junk ELSE stack[k - 1]]
      /\ Callback(f, r) /\ pc' = pc + 1
  BY DEF Execute, Compute, Stack, Enter, Return, Jump, ValueOf, NextPc, Functions, Plain, Instr
<1>2. r \in [Regs -> Int] /\ \A x \in Regs \ CallerSaved : r[x] = regs[x]
  BY DEF Overwritten, CallerSaved, Typed
<1>3. "Cause" \in Regs \ CallerSaved
  BY DEF Regs, Cop0, CallerSaved
<1>. HIDE DEF r
<1>4. Spared(regs')
  BY <1>1, <1>2, <1>3, CallbackDoes DEF Spared, Typed
<1>5. Words(S, stack', n + 1)
  BY <1>1, WordsEntered DEF Typed
<1>6. \A j \in 6 .. n + 1 : stack'[j] = stack[j - 1]
  BY <1>1 DEF Words
<1>. QED  BY <1>1, <1>4, <1>5, <1>6 DEF Calls

\* and when it returns.
LEMMA ReturnDoes ==
  ASSUME NEW S \in Seq(Int), NEW n \in Nat, Words(S, stack, n + 1), Typed,
         Execute, NEW f, Instruction = Instr("return", f, f, 0)
  PROVE  Returns(S, n, f)
<1>. DEFINE v == IF f = "syscall_handler" THEN Result ELSE Junk - 1
            r == Overwritten(Junk - 1, v)
<1>1. stack' = Tail(stack) /\ Callback(f, r) /\ pc' = pc + 1
  BY DEF Execute, Compute, Stack, Enter, Return, Jump, ValueOf, NextPc, Functions, Instr
<1>2. r \in [Regs -> Int] /\ (\A x \in Regs \ CallerSaved : r[x] = regs[x]) /\ r["v0"] = v
  BY DEF Overwritten, CallerSaved, Result, Regs, General, Typed
<1>3. "Cause" \in Regs \ CallerSaved /\ "v0" \in Regs \ {"Cause"}
  BY DEF Regs, Cop0, CallerSaved, General
<1>. HIDE DEF r
<1>4. /\ regs' \in [Regs -> Int] /\ regs'["Cause"] % 2 = r["Cause"] % 2
      /\ \A x \in Regs \ {"Cause"} : regs'[x] = r[x]
  BY <1>1, <1>2, CallbackDoes, Zenon DEF Typed
<1>5. Spared(regs') /\ (f = "syscall_handler" => regs'["v0"] = Result)
  BY <1>2, <1>3, <1>4 DEF Spared
<1>6. Words(S, stack', n)
  BY <1>1, WordsReturned
<1>7. \A j \in 1 .. n : stack'[j] = stack[j + 1]
  BY <1>1 DEF Words
<1>. QED  BY <1>1, <1>5, <1>6, <1>7 DEF Returns
----------------------------------------------------------------------------
\* The instructions of the handlers, each at its address.

Finite(a) == a \in Seq({a[i] : i \in 1 .. Len(a)})

IsTwo(s, a, b) ==
  /\ Finite(s) /\ Len(s) = Len(a) + Len(b)
  /\ \A i \in 1 .. Len(s) : s[i] = IF i <= Len(a) THEN a[i] ELSE b[i - Len(a)]

\* The sequence s is a, b, c and d, one behind another.
IsFour(s, a, b, c, d) ==
  /\ Finite(s) /\ Len(s) = Len(a) + Len(b) + Len(c) + Len(d)
  /\ \A i \in 1 .. Len(s) :
       s[i] = IF i <= Len(a) THEN a[i]
              ELSE IF i <= Len(a) + Len(b) THEN b[i - Len(a)]
              ELSE IF i <= Len(a) + Len(b) + Len(c) THEN c[i - (Len(a) + Len(b))]
              ELSE d[i - (Len(a) + Len(b) + Len(c))]

\* A sequence over any set is one over its elements.
LEMMA FiniteIs ==
  ASSUME NEW S, NEW a \in Seq(S)
  PROVE  Finite(a)
  BY DEF Finite

\* The elements of two sequences that are joined,
LEMMA TwoJoined ==
  ASSUME NEW a, NEW b, Finite(a), Finite(b), NEW s, s = a \o b
  PROVE  IsTwo(s, a, b)
<1>. DEFINE S == {a[i] : i \in 1 .. Len(a)} \cup {b[i] : i \in 1 .. Len(b)}
<1>1. a \in Seq(S) /\ b \in Seq(S)
  <2>1. \A T, U, x : x \in Seq(T) /\ T \subseteq U => x \in Seq(U)
    BY SMT
  <2>. QED  BY <2>1, Zenon DEF Finite
<1>. HIDE DEF S
<1>2. /\ s \in Seq(S) /\ Len(s) = Len(a) + Len(b)
      /\ \A i \in 1 .. Len(a) + Len(b) : s[i] = IF i <= Len(a) THEN a[i] ELSE b[i - Len(a)]
  BY <1>1, ConcatProperties, Zenon
<1>3. Finite(s)
  BY <1>2, FiniteIs
<1>. QED  BY <1>2, <1>3 DEF IsTwo

\* and of four.
LEMMA FourJoined ==
  ASSUME NEW a, NEW b, NEW c, NEW d, Finite(a), Finite(b), Finite(c), Finite(d),
         NEW s, s = a \o b \o c \o d
  PROVE  IsFour(s, a, b, c, d)
<1>. DEFINE p == a \o b
            q == p \o c
<1>0. s = q \o d
  OBVIOUS
<1>1. IsTwo(p, a, b)
  BY TwoJoined
<1>. HIDE DEF p
<1>2. Finite(p)
  BY <1>1 DEF IsTwo
<1>3. IsTwo(q, p, c)
  BY <1>2, TwoJoined
<1>. HIDE DEF q
<1>4. Finite(q)
  BY <1>3 DEF IsTwo
<1>5. IsTwo(s, q, d)
  BY <1>0, <1>4, TwoJoined
<1>6. Len(a) \in Nat /\ Len(b) \in Nat /\ Len(c) \in Nat /\ Len(d) \in Nat
  BY DEF Finite
<1>. QED  BY <1>1, <1>3, <1>5, <1>6 DEF IsTwo, IsFour

\* The exception handler, address by address.
ExceptionCode ==
  LET c == protected_exception_reg IN
   /\ c[1] = Push(27)
   /\ c[2] = Move("k1", "EPC")
   /\ c[3] = Save("k1", 25)
   /\ c[4] = Move("k1", "Status")
   /\ c[5] = Save("k1", 24)
   /\ c[6] = Move("k0", "lo")
   /\ c[7] = Save("k0", 23)
   /\ c[8] = Move("k0", "hi")
   /\ c[9] = Save("k0", 22)
   /\ c[10] = Save("a1", 8)
   /\ c[11] = Move("a1", "EPC")
   /\ c[12] = Save("a2", 9)
   /\ c[13] = Move("a2", "Cause")
   /\ c[14] = Clear("k1", "k1", EXL)
   /\ c[15] = Move("Status", "k1")
   /\ c[16] = Save("at", 4)
   /\ c[17] = Save("v0", 5)
   /\ c[18] = Save("v1", 6)
   /\ c[19] = Save("a0", 7)
   /\ c[20] = Save("a3", 10)
   /\ c[21] = Save("t", 11)
   /\ c[22] = Save("ra", 21)
   /\ c[23] = Save("s0", 26)
   /\ c[24] = IsSyscall("s0", "a2")
   /\ c[25] = Blez("s0", 4)
   /\ c[26] = Move("a0", "a2")
   /\ c[27] = Plain("exception_handler")
   /\ c[28] = Instr("return", "exception_handler", "exception_handler", 0)
   /\ c[29] = Instr("j", "k0", "k0", 2)
   /\ c[30] = Plain("syscall_handler")
   /\ c[31] = Instr("return", "syscall_handler", "syscall_handler", 0)
   /\ c[32] = Disable
   /\ c[33] = Blez("s0", 1)
   /\ c[34] = Load("v0", 5)
   /\ c[35] = Load("s0", 26)
   /\ c[36] = Load("k0", 23)
   /\ c[37] = Load("at", 4)
   /\ c[38] = Move("lo", "k0")
   /\ c[39] = Load("k0", 22)
   /\ c[40] = Load("v1", 6)
   /\ c[41] = Load("a0", 7)
   /\ c[42] = Load("a1", 8)
   /\ c[43] = Load("a2", 9)
   /\ c[44] = Load("a3", 10)
   /\ c[45] = Move("hi", "k0")
   /\ c[46] = Load("t", 11)
   /\ c[47] = Load("k1", 25)
   /\ c[48] = Load("ra", 21)
   /\ c[49] = Addi("k1", 1)
   /\ c[50] = Move("EPC", "k1")
   /\ c[51] = Load("k1", 24)
   /\ c[52] = Pop(27)
   /\ c[53] = Move("Status", "k1")
   /\ c[54] = Plain("eret")

\* The interrupt handler, address by address.
InterruptCode ==
  LET c == protected_interrupt_reg IN
   /\ c[1] = Push(26)
   /\ c[2] = Save("a0", 7)
   /\ c[3] = Save("a1", 8)
   /\ c[4] = Move("a0", "Cause")
   /\ c[5] = Andi("k1", "a0", CLOCK + SOFT)
   /\ c[6] = Andi("k0", "k1", CLOCK)
   /\ c[7] = Blez("k0", 11)
   /\ c[8] = Move("a1", "clock_count")
   /\ c[9] = Addi("a1", 1)
   /\ c[10] = Move("clock_count", "a1")
   /\ c[11] = Clear("k0", "k1", CLOCK)
   /\ c[12] = Bgtz("k0", 6)
   /\ c[13] = Clear("a0", "a0", CLOCK)
   /\ c[14] = Move("Cause", "a0")
   /\ c[15] = Load("a0", 7)
   /\ c[16] = Load("a1", 8)
   /\ c[17] = Pop(26)
   /\ c[18] = Plain("eret")
   /\ c[19] = Clear("k0", "a0", CLOCK + SOFT)
   /\ c[20] = Move("Cause", "k0")
   /\ c[21] = Move("k1", "EPC")
   /\ c[22] = Save("k1", 25)
   /\ c[23] = Move("k1", "Status")
   /\ c[24] = Save("k1", 24)
   /\ c[25] = Move("k0", "lo")
   /\ c[26] = Save("k0", 23)
   /\ c[27] = Move("k0", "hi")
   /\ c[28] = Save("k0", 22)
   /\ c[29] = Clear("k1", "k1", EXL)
   /\ c[30] = Move("Status", "k1")
   /\ c[31] = Save("at", 4)
   /\ c[32] = Save("v0", 5)
   /\ c[33] = Save("v1", 6)
   /\ c[34] = Save("a2", 9)
   /\ c[35] = Save("a3", 10)
   /\ c[36] = Save("t", 11)
   /\ c[37] = Save("ra", 21)
   /\ c[38] = Plain("interrupt_handler")
   /\ c[39] = Instr("return", "interrupt_handler", "interrupt_handler", 0)
   /\ c[40] = Disable
   /\ c[41] = Load("k0", 23)
   /\ c[42] = Load("at", 4)
   /\ c[43] = Load("v0", 5)
   /\ c[44] = Move("lo", "k0")
   /\ c[45] = Load("k0", 22)
   /\ c[46] = Load("v1", 6)
   /\ c[47] = Load("a0", 7)
   /\ c[48] = Load("a1", 8)
   /\ c[49] = Load("a2", 9)
   /\ c[50] = Load("a3", 10)
   /\ c[51] = Load("t", 11)
   /\ c[52] = Move("hi", "k0")
   /\ c[53] = Load("k1", 25)
   /\ c[54] = Load("ra", 21)
   /\ c[55] = Move("EPC", "k1")
   /\ c[56] = Load("k1", 24)
   /\ c[57] = Pop(26)
   /\ c[58] = Move("Status", "k1")
   /\ c[59] = Plain("eret")

\* The part of the interrupt handler that counts the timer's interrupts.
ClockCodeIs ==
  LET c == ClockInterrupt IN
   /\ Finite(c) /\ Len(c) = 13
   /\ c[1] = Andi("k0", "k1", CLOCK)
   /\ c[2] = Blez("k0", 11)
   /\ c[3] = Move("a1", "clock_count")
   /\ c[4] = Addi("a1", 1)
   /\ c[5] = Move("clock_count", "a1")
   /\ c[6] = Clear("k0", "k1", CLOCK)
   /\ c[7] = Bgtz("k0", 6)
   /\ c[8] = Clear("a0", "a0", CLOCK)
   /\ c[9] = Move("Cause", "a0")
   /\ c[10] = Load("a0", 7)
   /\ c[11] = Load("a1", 8)
   /\ c[12] = Pop(26)
   /\ c[13] = Plain("eret")

\* The branch of the timer, instruction by instruction.
LEMMA ClockCode == ClockCodeIs
<1>. DEFINE t1 == <<Andi("k0", "k1", CLOCK), Blez("k0", 11)>>
            t2 == CountClock
            t3 == <<Clear("k0", "k1", CLOCK), Bgtz("k0", 6)>>
            t4 == EndOfClock
            p1 == t1 \o t2 \o t3 \o t4
<1>0. ClockInterrupt = p1
  BY DEF ClockInterrupt, EndOfClock
<1>101. /\ Finite(t1) /\ Len(t1) = 2 /\ t1[1] = Andi("k0", "k1", CLOCK) /\ t1[2] = Blez("k0", 11)
  BY DEF Finite
<1>102. /\ Finite(t2) /\ Len(t2) = 3 /\ t2[1] = Move("a1", "clock_count") /\ t2[2] = Addi("a1", 1)
        /\ t2[3] = Move("clock_count", "a1")
  BY DEF Finite, CountClock
<1>103. /\ Finite(t3) /\ Len(t3) = 2 /\ t3[1] = Clear("k0", "k1", CLOCK) /\ t3[2] = Bgtz("k0", 6)
  BY DEF Finite
<1>104. /\ Finite(t4) /\ Len(t4) = 6 /\ t4[1] = Clear("a0", "a0", CLOCK)
        /\ t4[2] = Move("Cause", "a0") /\ t4[3] = Load("a0", 7) /\ t4[4] = Load("a1", 8)
        /\ t4[5] = Pop(26) /\ t4[6] = Plain("eret")
  BY DEF Finite, EndOfClock, Slot
<1>. HIDE DEF t1, t2, t3, t4
<1>1. /\ Finite(p1) /\ Len(p1) = 13
      /\ \A i \in 1 .. 13 :
           p1[i] = IF i <= 2 THEN t1[i] ELSE IF i <= 5 THEN t2[i - 2]
                   ELSE IF i <= 7 THEN t3[i - 5] ELSE t4[i - 7]
  <2>1. IsFour(p1, t1, t2, t3, t4)
    BY <1>101, <1>102, <1>103, <1>104, FourJoined
  <2>. HIDE DEF p1
  <2>. QED  BY <2>1, <1>101, <1>102, <1>103, <1>104 DEF IsFour
<1>. HIDE DEF p1
<1>. QED  BY <1>0, <1>1, <1>101, <1>102, <1>103, <1>104, SMTT(30) DEF ClockCodeIs

\* The exception handler, put together from its 19 parts.
LEMMA ExceptionCodeIs == ExceptionCode
<1>. DEFINE t1 == <<Push(27)>>
            t2 == SaveBy("k1", "EPC")
            t3 == SaveBy("k1", "Status")
            t4 == SaveBy("k0", "lo")
            t5 == SaveBy("k0", "hi")
            t6 == PassCause
            t7 == SaveEach(<<"at", "v0", "v1", "a0", "a3", "t", "ra", "s0">>)
            t8 == <<IsSyscall("s0", "a2"), Blez("s0", 4), Move("a0", "a2")>>
            t9 == Call("exception_handler")
            t10 == <<Instr("j", "k0", "k0", 2)>>
            t11 == Call("syscall_handler")
            t12 == <<Disable, Blez("s0", 1), Load("v0", Slot.v0), Load("s0", Slot.s0)>>
            t13 == <<Load("k0", Slot.lo), Load("at", Slot.at), Move("lo", "k0"), Load("k0",
                     Slot.hi)>>
            t14 == LoadEach(<<"v1", "a0", "a1", "a2", "a3">>)
            t15 == <<Move("hi", "k0")>>
            t16 == LoadEach(<<"t">>)
            t17 == <<Load("k1", Slot.EPC), Load("ra", Slot.ra), Addi("k1", 1)>>
            t18 == <<Move("EPC", "k1"), Load("k1", Slot.Status), Pop(27), Move("Status", "k1")>>
            t19 == <<Plain("eret")>>
            p1 == t1 \o t2 \o t3 \o t4
            p2 == p1 \o t5 \o t6 \o t7
            p3 == p2 \o t8 \o t9 \o t10
            p4 == p3 \o t11 \o t12 \o t13
            p5 == p4 \o t14 \o t15 \o t16
            p6 == p5 \o t17 \o t18 \o t19
<1>0. protected_exception_reg = p6
  BY DEF protected_exception_reg
<1>101. /\ Finite(t1) /\ Len(t1) = 1 /\ t1[1] = Push(27)
  BY DEF Finite
<1>102. /\ Finite(t2) /\ Len(t2) = 2 /\ t2[1] = Move("k1", "EPC") /\ t2[2] = Save("k1", 25)
  BY DEF Finite, SaveBy, Slot
<1>103. /\ Finite(t3) /\ Len(t3) = 2 /\ t3[1] = Move("k1", "Status") /\ t3[2] = Save("k1", 24)
  BY DEF Finite, SaveBy, Slot
<1>104. /\ Finite(t4) /\ Len(t4) = 2 /\ t4[1] = Move("k0", "lo") /\ t4[2] = Save("k0", 23)
  BY DEF Finite, SaveBy, Slot
<1>105. /\ Finite(t5) /\ Len(t5) = 2 /\ t5[1] = Move("k0", "hi") /\ t5[2] = Save("k0", 22)
  BY DEF Finite, SaveBy, Slot
<1>106. /\ Finite(t6) /\ Len(t6) = 6 /\ t6[1] = Save("a1", 8) /\ t6[2] = Move("a1", "EPC")
        /\ t6[3] = Save("a2", 9) /\ t6[4] = Move("a2", "Cause") /\ t6[5] = Clear("k1", "k1", EXL)
        /\ t6[6] = Move("Status", "k1")
  BY DEF Finite, PassCause, Slot
<1>107. /\ Finite(t7) /\ Len(t7) = 8 /\ t7[1] = Save("at", 4) /\ t7[2] = Save("v0", 5)
        /\ t7[3] = Save("v1", 6) /\ t7[4] = Save("a0", 7) /\ t7[5] = Save("a3", 10)
        /\ t7[6] = Save("t", 11) /\ t7[7] = Save("ra", 21) /\ t7[8] = Save("s0", 26)
  BY DEF Finite, SaveEach, Slot
<1>108. /\ Finite(t8) /\ Len(t8) = 3 /\ t8[1] = IsSyscall("s0", "a2") /\ t8[2] = Blez("s0", 4)
        /\ t8[3] = Move("a0", "a2")
  BY DEF Finite
<1>109. /\ Finite(t9) /\ Len(t9) = 2 /\ t9[1] = Plain("exception_handler")
        /\ t9[2] = Instr("return", "exception_handler", "exception_handler", 0)
  BY DEF Finite, Call
<1>110. /\ Finite(t10) /\ Len(t10) = 1 /\ t10[1] = Instr("j", "k0", "k0", 2)
  BY DEF Finite
<1>111. /\ Finite(t11) /\ Len(t11) = 2 /\ t11[1] = Plain("syscall_handler")
        /\ t11[2] = Instr("return", "syscall_handler", "syscall_handler", 0)
  BY DEF Finite, Call
<1>112. /\ Finite(t12) /\ Len(t12) = 4 /\ t12[1] = Disable /\ t12[2] = Blez("s0", 1)
        /\ t12[3] = Load("v0", 5) /\ t12[4] = Load("s0", 26)
  BY DEF Finite, Slot
<1>113. /\ Finite(t13) /\ Len(t13) = 4 /\ t13[1] = Load("k0", 23) /\ t13[2] = Load("at", 4)
        /\ t13[3] = Move("lo", "k0") /\ t13[4] = Load("k0", 22)
  BY DEF Finite, Slot
<1>114. /\ Finite(t14) /\ Len(t14) = 5 /\ t14[1] = Load("v1", 6) /\ t14[2] = Load("a0", 7)
        /\ t14[3] = Load("a1", 8) /\ t14[4] = Load("a2", 9) /\ t14[5] = Load("a3", 10)
  BY DEF Finite, LoadEach, Slot
<1>115. /\ Finite(t15) /\ Len(t15) = 1 /\ t15[1] = Move("hi", "k0")
  BY DEF Finite
<1>116. /\ Finite(t16) /\ Len(t16) = 1 /\ t16[1] = Load("t", 11)
  BY DEF Finite, LoadEach, Slot
<1>117. /\ Finite(t17) /\ Len(t17) = 3 /\ t17[1] = Load("k1", 25) /\ t17[2] = Load("ra", 21)
        /\ t17[3] = Addi("k1", 1)
  BY DEF Finite, Slot
<1>118. /\ Finite(t18) /\ Len(t18) = 4 /\ t18[1] = Move("EPC", "k1") /\ t18[2] = Load("k1", 24)
        /\ t18[3] = Pop(27) /\ t18[4] = Move("Status", "k1")
  BY DEF Finite, Slot
<1>119. /\ Finite(t19) /\ Len(t19) = 1 /\ t19[1] = Plain("eret")
  BY DEF Finite
<1>. HIDE DEF t1, t2, t3, t4, t5, t6, t7, t8, t9, t10, t11, t12, t13, t14, t15, t16, t17, t18, t19
<1>1. /\ Finite(p1) /\ Len(p1) = 7
      /\ \A i \in 1 .. 7 :
           p1[i] = IF i <= 1 THEN t1[i] ELSE IF i <= 3 THEN t2[i - 1]
                   ELSE IF i <= 5 THEN t3[i - 3] ELSE t4[i - 5]
  <2>1. IsFour(p1, t1, t2, t3, t4)
    BY <1>101, <1>102, <1>103, <1>104, FourJoined
  <2>. HIDE DEF p1
  <2>. QED  BY <2>1, <1>101, <1>102, <1>103, <1>104 DEF IsFour
<1>. HIDE DEF p1
<1>2. /\ Finite(p2) /\ Len(p2) = 23
      /\ \A i \in 1 .. 23 :
           p2[i] = IF i <= 7 THEN p1[i] ELSE IF i <= 9 THEN t5[i - 7]
                   ELSE IF i <= 15 THEN t6[i - 9] ELSE t7[i - 15]
  <2>1. IsFour(p2, p1, t5, t6, t7)
    BY <1>1, <1>105, <1>106, <1>107, FourJoined
  <2>. HIDE DEF p2
  <2>. QED  BY <2>1, <1>1, <1>105, <1>106, <1>107 DEF IsFour
<1>. HIDE DEF p2
<1>3. /\ Finite(p3) /\ Len(p3) = 29
      /\ \A i \in 1 .. 29 :
           p3[i] = IF i <= 23 THEN p2[i] ELSE IF i <= 26 THEN t8[i - 23]
                   ELSE IF i <= 28 THEN t9[i - 26] ELSE t10[i - 28]
  <2>1. IsFour(p3, p2, t8, t9, t10)
    BY <1>2, <1>108, <1>109, <1>110, FourJoined
  <2>. HIDE DEF p3
  <2>. QED  BY <2>1, <1>2, <1>108, <1>109, <1>110 DEF IsFour
<1>. HIDE DEF p3
<1>4. /\ Finite(p4) /\ Len(p4) = 39
      /\ \A i \in 1 .. 39 :
           p4[i] = IF i <= 29 THEN p3[i] ELSE IF i <= 31 THEN t11[i - 29]
                   ELSE IF i <= 35 THEN t12[i - 31] ELSE t13[i - 35]
  <2>1. IsFour(p4, p3, t11, t12, t13)
    BY <1>3, <1>111, <1>112, <1>113, FourJoined
  <2>. HIDE DEF p4
  <2>. QED  BY <2>1, <1>3, <1>111, <1>112, <1>113 DEF IsFour
<1>. HIDE DEF p4
<1>5. /\ Finite(p5) /\ Len(p5) = 46
      /\ \A i \in 1 .. 46 :
           p5[i] = IF i <= 39 THEN p4[i] ELSE IF i <= 44 THEN t14[i - 39]
                   ELSE IF i <= 45 THEN t15[i - 44] ELSE t16[i - 45]
  <2>1. IsFour(p5, p4, t14, t15, t16)
    BY <1>4, <1>114, <1>115, <1>116, FourJoined
  <2>. HIDE DEF p5
  <2>. QED  BY <2>1, <1>4, <1>114, <1>115, <1>116 DEF IsFour
<1>. HIDE DEF p5
<1>6. /\ Finite(p6) /\ Len(p6) = 54
      /\ \A i \in 1 .. 54 :
           p6[i] = IF i <= 46 THEN p5[i] ELSE IF i <= 49 THEN t17[i - 46]
                   ELSE IF i <= 53 THEN t18[i - 49] ELSE t19[i - 53]
  <2>1. IsFour(p6, p5, t17, t18, t19)
    BY <1>5, <1>117, <1>118, <1>119, FourJoined
  <2>. HIDE DEF p6
  <2>. QED  BY <2>1, <1>5, <1>117, <1>118, <1>119 DEF IsFour
<1>. HIDE DEF p6
<1>. QED  BY <1>0, <1>1, <1>2, <1>3, <1>4, <1>5, <1>6, <1>101, <1>102, <1>103, <1>104, <1>105,
             <1>106, <1>107, <1>108, <1>109, <1>110, <1>111, <1>112, <1>113, <1>114, <1>115,
             <1>116, <1>117, <1>118, <1>119, SMTT(30) DEF ExceptionCode

\* The interrupt handler, put together from its 15 parts.
LEMMA InterruptCodeIs == InterruptCode
<1>. DEFINE t1 == <<Push(26), Save("a0", Slot.a0), Save("a1", Slot.a1), Move("a0", "Cause"),
                    Andi("k1", "a0", CLOCK + SOFT)>>
            t2 == ClockInterrupt
            t3 == <<Clear("k0", "a0", CLOCK + SOFT), Move("Cause", "k0")>>
            t4 == SaveBy("k1", "EPC")
            t5 == SaveBy("k1", "Status")
            t6 == SaveBy("k0", "lo")
            t7 == SaveBy("k0", "hi")
            t8 == <<Clear("k1", "k1", EXL), Move("Status", "k1")>>
            t9 == SaveEach(<<"at", "v0", "v1", "a2", "a3", "t", "ra">>)
            t10 == Call("interrupt_handler")
            t11 == <<Disable>>
            t12 == <<Load("k0", Slot.lo), Load("at", Slot.at), Load("v0", Slot.v0), Move("lo",
                     "k0"), Load("k0", Slot.hi)>>
            t13 == LoadEach(<<"v1", "a0", "a1", "a2", "a3", "t">>)
            t14 == <<Move("hi", "k0")>>
            t15 == <<Load("k1", Slot.EPC), Load("ra", Slot.ra), Move("EPC", "k1"), Load("k1",
                     Slot.Status), Pop(26), Move("Status", "k1"), Plain("eret")>>
            p1 == t1 \o t2 \o t3 \o t4
            p2 == p1 \o t5 \o t6 \o t7
            p3 == p2 \o t8 \o t9 \o t10
            p4 == p3 \o t11 \o t12 \o t13
            p5 == p4 \o t14
            p6 == p5 \o t15
<1>0. protected_interrupt_reg = p6
  BY DEF protected_interrupt_reg
<1>101. /\ Finite(t1) /\ Len(t1) = 5 /\ t1[1] = Push(26) /\ t1[2] = Save("a0", 7)
        /\ t1[3] = Save("a1", 8) /\ t1[4] = Move("a0", "Cause")
        /\ t1[5] = Andi("k1", "a0", CLOCK + SOFT)
  BY DEF Finite, Slot
<1>102. /\ Finite(t2) /\ Len(t2) = 13 /\ t2[1] = Andi("k0", "k1", CLOCK) /\ t2[2] = Blez("k0", 11)
        /\ t2[3] = Move("a1", "clock_count") /\ t2[4] = Addi("a1", 1)
        /\ t2[5] = Move("clock_count", "a1") /\ t2[6] = Clear("k0", "k1", CLOCK)
        /\ t2[7] = Bgtz("k0", 6) /\ t2[8] = Clear("a0", "a0", CLOCK) /\ t2[9] = Move("Cause", "a0")
        /\ t2[10] = Load("a0", 7) /\ t2[11] = Load("a1", 8) /\ t2[12] = Pop(26)
        /\ t2[13] = Plain("eret")
  BY ClockCode DEF ClockCodeIs
<1>103. /\ Finite(t3) /\ Len(t3) = 2 /\ t3[1] = Clear("k0", "a0", CLOCK + SOFT)
        /\ t3[2] = Move("Cause", "k0")
  BY DEF Finite
<1>104. /\ Finite(t4) /\ Len(t4) = 2 /\ t4[1] = Move("k1", "EPC") /\ t4[2] = Save("k1", 25)
  BY DEF Finite, SaveBy, Slot
<1>105. /\ Finite(t5) /\ Len(t5) = 2 /\ t5[1] = Move("k1", "Status") /\ t5[2] = Save("k1", 24)
  BY DEF Finite, SaveBy, Slot
<1>106. /\ Finite(t6) /\ Len(t6) = 2 /\ t6[1] = Move("k0", "lo") /\ t6[2] = Save("k0", 23)
  BY DEF Finite, SaveBy, Slot
<1>107. /\ Finite(t7) /\ Len(t7) = 2 /\ t7[1] = Move("k0", "hi") /\ t7[2] = Save("k0", 22)
  BY DEF Finite, SaveBy, Slot
<1>108. /\ Finite(t8) /\ Len(t8) = 2 /\ t8[1] = Clear("k1", "k1", EXL)
        /\ t8[2] = Move("Status", "k1")
  BY DEF Finite
<1>109. /\ Finite(t9) /\ Len(t9) = 7 /\ t9[1] = Save("at", 4) /\ t9[2] = Save("v0", 5)
        /\ t9[3] = Save("v1", 6) /\ t9[4] = Save("a2", 9) /\ t9[5] = Save("a3", 10)
        /\ t9[6] = Save("t", 11) /\ t9[7] = Save("ra", 21)
  BY DEF Finite, SaveEach, Slot
<1>110. /\ Finite(t10) /\ Len(t10) = 2 /\ t10[1] = Plain("interrupt_handler")
        /\ t10[2] = Instr("return", "interrupt_handler", "interrupt_handler", 0)
  BY DEF Finite, Call
<1>111. /\ Finite(t11) /\ Len(t11) = 1 /\ t11[1] = Disable
  BY DEF Finite
<1>112. /\ Finite(t12) /\ Len(t12) = 5 /\ t12[1] = Load("k0", 23) /\ t12[2] = Load("at", 4)
        /\ t12[3] = Load("v0", 5) /\ t12[4] = Move("lo", "k0") /\ t12[5] = Load("k0", 22)
  BY DEF Finite, Slot
<1>113. /\ Finite(t13) /\ Len(t13) = 6 /\ t13[1] = Load("v1", 6) /\ t13[2] = Load("a0", 7)
        /\ t13[3] = Load("a1", 8) /\ t13[4] = Load("a2", 9) /\ t13[5] = Load("a3", 10)
        /\ t13[6] = Load("t", 11)
  BY DEF Finite, LoadEach, Slot
<1>114. /\ Finite(t14) /\ Len(t14) = 1 /\ t14[1] = Move("hi", "k0")
  BY DEF Finite
<1>115. /\ Finite(t15) /\ Len(t15) = 7 /\ t15[1] = Load("k1", 25) /\ t15[2] = Load("ra", 21)
        /\ t15[3] = Move("EPC", "k1") /\ t15[4] = Load("k1", 24) /\ t15[5] = Pop(26)
        /\ t15[6] = Move("Status", "k1") /\ t15[7] = Plain("eret")
  BY DEF Finite, Slot
<1>. HIDE DEF t1, t2, t3, t4, t5, t6, t7, t8, t9, t10, t11, t12, t13, t14, t15
<1>1. /\ Finite(p1) /\ Len(p1) = 22
      /\ \A i \in 1 .. 22 :
           p1[i] = IF i <= 5 THEN t1[i] ELSE IF i <= 18 THEN t2[i - 5]
                   ELSE IF i <= 20 THEN t3[i - 18] ELSE t4[i - 20]
  <2>1. IsFour(p1, t1, t2, t3, t4)
    BY <1>101, <1>102, <1>103, <1>104, FourJoined
  <2>. HIDE DEF p1
  <2>. QED  BY <2>1, <1>101, <1>102, <1>103, <1>104 DEF IsFour
<1>. HIDE DEF p1
<1>2. /\ Finite(p2) /\ Len(p2) = 28
      /\ \A i \in 1 .. 28 :
           p2[i] = IF i <= 22 THEN p1[i] ELSE IF i <= 24 THEN t5[i - 22]
                   ELSE IF i <= 26 THEN t6[i - 24] ELSE t7[i - 26]
  <2>1. IsFour(p2, p1, t5, t6, t7)
    BY <1>1, <1>105, <1>106, <1>107, FourJoined
  <2>. HIDE DEF p2
  <2>. QED  BY <2>1, <1>1, <1>105, <1>106, <1>107 DEF IsFour
<1>. HIDE DEF p2
<1>3. /\ Finite(p3) /\ Len(p3) = 39
      /\ \A i \in 1 .. 39 :
           p3[i] = IF i <= 28 THEN p2[i] ELSE IF i <= 30 THEN t8[i - 28]
                   ELSE IF i <= 37 THEN t9[i - 30] ELSE t10[i - 37]
  <2>1. IsFour(p3, p2, t8, t9, t10)
    BY <1>2, <1>108, <1>109, <1>110, FourJoined
  <2>. HIDE DEF p3
  <2>. QED  BY <2>1, <1>2, <1>108, <1>109, <1>110 DEF IsFour
<1>. HIDE DEF p3
<1>4. /\ Finite(p4) /\ Len(p4) = 51
      /\ \A i \in 1 .. 51 :
           p4[i] = IF i <= 39 THEN p3[i] ELSE IF i <= 40 THEN t11[i - 39]
                   ELSE IF i <= 45 THEN t12[i - 40] ELSE t13[i - 45]
  <2>1. IsFour(p4, p3, t11, t12, t13)
    BY <1>3, <1>111, <1>112, <1>113, FourJoined
  <2>. HIDE DEF p4
  <2>. QED  BY <2>1, <1>3, <1>111, <1>112, <1>113 DEF IsFour
<1>. HIDE DEF p4
<1>5. /\ Finite(p5) /\ Len(p5) = 52
      /\ \A i \in 1 .. 52 : p5[i] = IF i <= 51 THEN p4[i] ELSE t14[i - 51]
  <2>1. IsTwo(p5, p4, t14)
    BY <1>4, <1>114, TwoJoined
  <2>. HIDE DEF p5
  <2>. QED  BY <2>1, <1>4, <1>114 DEF IsTwo
<1>. HIDE DEF p5
<1>6. /\ Finite(p6) /\ Len(p6) = 59
      /\ \A i \in 1 .. 59 : p6[i] = IF i <= 52 THEN p5[i] ELSE t15[i - 52]
  <2>1. IsTwo(p6, p5, t15)
    BY <1>5, <1>115, TwoJoined
  <2>. HIDE DEF p6
  <2>. QED  BY <2>1, <1>5, <1>115 DEF IsTwo
<1>. HIDE DEF p6
<1>. QED  BY <1>0, <1>1, <1>2, <1>3, <1>4, <1>5, <1>6, <1>101, <1>102, <1>103, <1>104, <1>105,
             <1>106, <1>107, <1>108, <1>109, <1>110, <1>111, <1>112, <1>113, <1>114, <1>115,
             SMTT(30) DEF InterruptCode
----------------------------------------------------------------------------
\* What a handler has saved, and given back, when it is at its i-th instruction.

Slotted == {"at", "v0", "v1", "a0", "a1", "a2", "a3", "t", "ra", "hi", "lo", "Status", "EPC", "s0"}

\* The frame F is of an exception, of a system call, of an interrupt of the timer.
ByException(F) == Code(F.cause) # 0
ByCall(F)      == Code(F.cause) = SYSCALL
ByClock(F)     == F.cause % 2 = 1

\* The EPC a handler is entered with.
Epc(F) == IF ByException(F) THEN F.return - 1 ELSE F.return

\* What the frame is to hold of a register, and what the handler is to leave in it.
Held(F, x)     == CASE x = "Status" -> IE + EXL [] x = "EPC" -> Epc(F) [] OTHER -> F.regs[x]
Returned(F, x) == IF x = "v0" THEN F.v0 ELSE F.regs[x]

FrameOK(F) ==
  /\ F.regs \in [Regs -> Int] /\ F.stack \in Seq(Int) /\ F.regs["Status"] = IE
  /\ F.cause \in Nat /\ F.return \in Nat
  /\ F.v0 = IF ByCall(F) THEN Result ELSE F.regs["v0"]
  /\ IF ByException(F) THEN Code(F.cause) \in {SYSCALL, TRAP} ELSE F.cause \in 0 .. 3

\* The instructions of the exception handler that save a register, after which
\* it holds something else, and that restore it.
ESaved == [at |-> 16, v0 |-> 17, v1 |-> 18, a0 |-> 19, a1 |-> 10, a2 |-> 12, a3 |-> 20, t |-> 21,
           ra |-> 22, hi |-> 9, lo |-> 7, Status |-> 5, EPC |-> 3, s0 |-> 23]
EWritten == [at |-> 27, v0 |-> 27, v1 |-> 27, a0 |-> 26, a1 |-> 11, a2 |-> 13, a3 |-> 27, t |-> 27,
             ra |-> 27, hi |-> 27, lo |-> 27, s0 |-> 24]
ERestored == [at |-> 37, v0 |-> 34, v1 |-> 40, a0 |-> 41, a1 |-> 42, a2 |-> 43, a3 |-> 44,
              t |-> 46, ra |-> 48, hi |-> 45, lo |-> 38, s0 |-> 35]

\* What its frame on the stack holds at its instruction i,
ExcStack(F, i, s) ==
  CASE i = 1 \/ i >= 53 -> s = F.stack
    [] i \in {28, 31}   -> /\ Words(F.stack, s, 28)
                           /\ \A x \in Slotted : s[Slot[x] + 2] = Held(F, x)
    [] OTHER            -> /\ Words(F.stack, s, 27)
                           /\ \A x \in Slotted : ESaved[x] < i => s[Slot[x] + 1] = Held(F, x)

\* which registers are still or again those of the context,
ExcRegs(F, i, r) ==
  \A x \in General : /\ i <= EWritten[x] => r[x] = F.regs[x]
                     /\ i > ERestored[x] => r[x] = Returned(F, x)

\* and what the others carry from one instruction to another.
ExcOthers(F, i, r) ==
  /\ i = 30 => r["v0"] = F.regs["v0"] /\ r["a0"] = F.regs["a0"]
  /\ r["Status"] = IF i <= 15 \/ i = 54 THEN IE + EXL ELSE IF i <= 32 THEN IE ELSE 0
  /\ i <= 15 => r["EPC"] = Epc(F) /\ r["Cause"] = F.cause
  /\ i >= 51 => r["EPC"] = F.return
  /\ i \in {3, 48, 49} => r["k1"] = Epc(F)
  /\ i \in 5 .. 14 \cup {52, 53} => r["k1"] = IE + EXL
  /\ i = 15 => r["k1"] = IE
  /\ i = 50 => r["k1"] = F.return
  /\ i \in {7, 37, 38} => r["k0"] = F.regs["lo"]
  /\ i \in {9} \cup 40 .. 45 => r["k0"] = F.regs["hi"]
  /\ i \in 12 .. 27 => r["a1"] = Epc(F)
  /\ i \in 14 .. 26 => r["a2"] = F.cause
  /\ i = 27 => r["a0"] = F.cause
  /\ i \in 25 .. 35 => r["s0"] = IF ByCall(F) THEN 0 ELSE 1
  /\ i \in 26 .. 29 \cup {34} => ~ByCall(F)
  /\ i \in 30 .. 31 => ByCall(F)
  /\ i \in 32 .. 34 /\ ByCall(F) => r["v0"] = Result

\* The exception handler is at its instruction i, and has interrupted F.
InExc(F, i, r, s) ==
  /\ i \in 1 .. 54 /\ r \in [Regs -> Int]
  /\ ExcStack(F, i, s) /\ ExcRegs(F, i, r) /\ ExcOthers(F, i, r)

\* The same for the interrupt handler, which leaves $s0 alone.
ISaved == [at |-> 31, v0 |-> 32, v1 |-> 33, a0 |-> 2, a1 |-> 3, a2 |-> 34, a3 |-> 35, t |-> 36,
           ra |-> 37, hi |-> 28, lo |-> 26, Status |-> 24, EPC |-> 22]
IWritten == [at |-> 38, v0 |-> 38, v1 |-> 38, a0 |-> 4, a1 |-> 8, a2 |-> 38, a3 |-> 38, t |-> 38,
             ra |-> 38, hi |-> 38, lo |-> 38, s0 |-> 59]
IRestored == [at |-> 42, v0 |-> 43, v1 |-> 46, a0 |-> 47, a1 |-> 48, a2 |-> 49, a3 |-> 50, t |-> 51,
              ra |-> 54, hi |-> 52, lo |-> 44, s0 |-> 59]

\* Its frame,
IntStack(F, i, s) ==
  CASE i \in {1, 18, 58, 59} -> s = F.stack
    [] i = 39 -> /\ Words(F.stack, s, 27)
                 /\ \A x \in Slotted \ {"s0"} : s[Slot[x] + 2] = Held(F, x)
    [] OTHER  -> /\ Words(F.stack, s, 26)
                 /\ \A x \in Slotted \ {"s0"} : ISaved[x] < i => s[Slot[x] + 1] = Held(F, x)

\* the registers of the context,
IntRegs(F, i, r) ==
  \A x \in General : i <= IWritten[x] \/ i > IRestored[x] => r[x] = F.regs[x]

\* and the others.
IntOthers(F, i, r) ==
  /\ i \in 16 .. 18 => r["a0"] = F.regs["a0"]
  /\ i \in 17 .. 18 => r["a1"] = F.regs["a1"]
  /\ r["Status"] = IF i <= 30 \/ i = 59 THEN IE + EXL ELSE IF i <= 40 THEN IE ELSE 0
  /\ i <= 30 \/ i >= 56 => r["EPC"] = F.return
  /\ i <= 14 \/ i \in {19, 20} => r["Cause"] = F.cause
  /\ i \in 5 .. 13 \cup 19 .. 38 => r["a0"] = F.cause
  /\ i = 14 => r["a0"] = F.cause - 1
  /\ i \in 6 .. 14 => r["k1"] = F.cause
  /\ i = 7 => r["k0"] = F.cause % 2
  /\ i = 12 => r["k0"] = F.cause - 1
  /\ i \in 8 .. 18 => ByClock(F)
  /\ i \in 13 .. 18 => F.cause = CLOCK
  /\ i = 20 => r["k0"] = 0
  /\ i \in {22, 54, 55} => r["k1"] = F.return
  /\ i \in 24 .. 29 \cup {57, 58} => r["k1"] = IE + EXL
  /\ i = 30 => r["k1"] = IE
  /\ i \in {26, 42, 43, 44} => r["k0"] = F.regs["lo"]
  /\ i \in {28} \cup 46 .. 52 => r["k0"] = F.regs["hi"]

\* The interrupt handler is at its instruction i, and has interrupted F.
InInt(F, i, r, s) ==
  /\ i \in 1 .. 59 /\ r \in [Regs -> Int]
  /\ IntStack(F, i, s) /\ IntRegs(F, i, r) /\ IntOthers(F, i, r)

\* The timer's interrupts: n have been taken, and the one a handler has been
\* entered with is counted by its tenth instruction.
Counted(r, n) == r["clock_count"] = n /\ r["Cause"] % 2 = 0

IntClock(F, i, r, n) ==
  /\ r["clock_count"] = n - IF ByClock(F) /\ i <= 10 THEN 1 ELSE 0
  /\ i = 9 => r["a1"] = r["clock_count"]
  /\ i = 10 => r["a1"] = r["clock_count"] + 1
  /\ i \in 1 .. 14 \cup {19, 20} \/ r["Cause"] % 2 = 0

\* The pending bits of Cause: the timer's and the software interrupt's.
LEMMA PendingBits ==
  ASSUME NEW v \in 0 .. 3
  PROVE  /\ And(v, CLOCK + SOFT) = v /\ And(v, CLOCK) = v % 2 /\ v % 2 \in {0, 1}
         /\ v % 2 = 1 /\ v - 1 <= 0 => v = CLOCK
         /\ (v - (v % 2)) % 2 = 0
<1>1. v = 0 \/ v = 1 \/ v = 2 \/ v = 3
  OBVIOUS
<1>2. /\ 0 % 2 = 0 /\ 1 % 2 = 1 /\ 2 % 2 = 0 /\ 3 % 2 = 1 /\ 0 % 4 = 0 /\ 1 % 4 = 1
      /\ 2 % 4 = 2 /\ 3 % 4 = 3
      /\ CLOCK = 1 /\ CLOCK + SOFT = 3
  BY DEF CLOCK, SOFT
<1>3. And(v, CLOCK + SOFT) = v
  BY <1>1, <1>2 DEF And
<1>4. And(v, CLOCK) = v % 2 /\ v % 2 \in {0, 1}
  BY <1>1, <1>2 DEF And
<1>5. (v - (v % 2)) % 2 = 0 /\ (v % 2 = 1 /\ v - 1 <= 0 => v = CLOCK)
  BY <1>1, <1>2
<1>. QED  BY <1>3, <1>4, <1>5

\* Each instruction of the exception handler leads to what the next one finds.
\* First what the instructions do, by their address, then what that leaves.
LEMMA ExceptionStep ==
  ASSUME NEW F, FrameOK(F), ByException(F), NEW i \in 1 .. 53,
         InExc(F, i, regs, stack), Counted(regs, accepted), pc = Vector + i,
         Instruction = protected_exception_reg[i], Typed, Execute, ExceptionCode
  PROVE  InExc(F, pc' - Vector, regs', stack') /\ Counted(regs', accepted) /\ pc' \in Nat
<1>r. regs \in [Regs -> Int] /\ accepted \in Nat
  BY DEF Typed
<1>s. F.stack \in Seq(Int)
  BY DEF FrameOK
<1>f. /\ F.regs \in [Regs -> Int] /\ F.return \in Nat /\ Epc(F) = F.return - 1
      /\ F.regs["Status"] = IE /\ F.v0 = IF ByCall(F) THEN Result ELSE F.regs["v0"]
  BY DEF FrameOK, Epc
<1>w. /\ i = 1 => stack = F.stack
      /\ i \in 2 .. 52 \ {28, 31} => Words(F.stack, stack, 27)
      /\ i \in {28, 31} => Words(F.stack, stack, 28)
  BY DEF InExc, ExcStack
<1>n. /\ regs["k0"] \in Int /\ regs["k1"] \in Int /\ regs["at"] \in Int /\ regs["v0"] \in Int
      /\ regs["v1"] \in Int /\ regs["a0"] \in Int /\ regs["a1"] \in Int /\ regs["a2"] \in Int
      /\ regs["a3"] \in Int /\ regs["t"] \in Int /\ regs["ra"] \in Int /\ regs["s0"] \in Int
  BY <1>r DEF Regs, General, CallerSaved
<1>l. ASSUME NEW d, NEW m \in 0 .. 26, i \in 2 .. 52 \ {28, 31}, Instruction = Load(d, m)
      PROVE  Writes(d, stack[m + 1]) /\ stack[m + 1] \in Int
  BY <1>l, <1>w, <1>s, LoadDoes
<1>m. ASSUME NEW d, NEW m \in 0 .. 26, i \in 2 .. 52 \ {28, 31},
             Instruction = Save(d, m), regs[d] \in Int
      PROVE  Stores(F.stack, 27, m, regs[d])
  BY <1>m, <1>w, <1>s, SaveDoes
<1>a. (IE + EXL) - And(IE + EXL, EXL) = IE /\ And(IE, EXL) = 0
  BY DEF IE, EXL, And
<1>1. ASSUME i = 1 PROVE regs' = regs /\ Words(F.stack, stack', 27) /\ pc' = pc + 1
  BY <1>1, <1>s, <1>w, PushDoes DEF ExceptionCode
<1>2. ASSUME i = 2 PROVE Writes("k1", regs["EPC"])
  BY <1>2, MoveDoes DEF ExceptionCode
<1>3. ASSUME i = 3 PROVE Stores(F.stack, 27, 25, regs["k1"])
  BY <1>3, <1>m, <1>n DEF ExceptionCode
<1>4. ASSUME i = 4 PROVE Writes("k1", regs["Status"])
  BY <1>4, MoveDoes DEF ExceptionCode
<1>5. ASSUME i = 5 PROVE Stores(F.stack, 27, 24, regs["k1"])
  BY <1>5, <1>m, <1>n DEF ExceptionCode
<1>6. ASSUME i = 6 PROVE Writes("k0", regs["lo"])
  BY <1>6, MoveDoes DEF ExceptionCode
<1>7. ASSUME i = 7 PROVE Stores(F.stack, 27, 23, regs["k0"])
  BY <1>7, <1>m, <1>n DEF ExceptionCode
<1>8. ASSUME i = 8 PROVE Writes("k0", regs["hi"])
  BY <1>8, MoveDoes DEF ExceptionCode
<1>9. ASSUME i = 9 PROVE Stores(F.stack, 27, 22, regs["k0"])
  BY <1>9, <1>m, <1>n DEF ExceptionCode
<1>10. ASSUME i = 10 PROVE Stores(F.stack, 27, 8, regs["a1"])
  BY <1>10, <1>m, <1>n DEF ExceptionCode
<1>11. ASSUME i = 11 PROVE Writes("a1", regs["EPC"])
  BY <1>11, MoveDoes DEF ExceptionCode
<1>12. ASSUME i = 12 PROVE Stores(F.stack, 27, 9, regs["a2"])
  BY <1>12, <1>m, <1>n DEF ExceptionCode
<1>13. ASSUME i = 13 PROVE Writes("a2", regs["Cause"])
  BY <1>13, MoveDoes DEF ExceptionCode
<1>14. ASSUME i = 14 PROVE Writes("k1", regs["k1"] - And(regs["k1"], EXL))
  BY <1>14, ClearDoes DEF ExceptionCode
<1>15. ASSUME i = 15 PROVE Writes("Status", regs["k1"])
  BY <1>15, MoveDoes DEF ExceptionCode
<1>16. ASSUME i = 16 PROVE Stores(F.stack, 27, 4, regs["at"])
  BY <1>16, <1>m, <1>n DEF ExceptionCode
<1>17. ASSUME i = 17 PROVE Stores(F.stack, 27, 5, regs["v0"])
  BY <1>17, <1>m, <1>n DEF ExceptionCode
<1>18. ASSUME i = 18 PROVE Stores(F.stack, 27, 6, regs["v1"])
  BY <1>18, <1>m, <1>n DEF ExceptionCode
<1>19. ASSUME i = 19 PROVE Stores(F.stack, 27, 7, regs["a0"])
  BY <1>19, <1>m, <1>n DEF ExceptionCode
<1>20. ASSUME i = 20 PROVE Stores(F.stack, 27, 10, regs["a3"])
  BY <1>20, <1>m, <1>n DEF ExceptionCode
<1>21. ASSUME i = 21 PROVE Stores(F.stack, 27, 11, regs["t"])
  BY <1>21, <1>m, <1>n DEF ExceptionCode
<1>22. ASSUME i = 22 PROVE Stores(F.stack, 27, 21, regs["ra"])
  BY <1>22, <1>m, <1>n DEF ExceptionCode
<1>23. ASSUME i = 23 PROVE Stores(F.stack, 27, 26, regs["s0"])
  BY <1>23, <1>m, <1>n DEF ExceptionCode
<1>24. ASSUME i = 24 PROVE Writes("s0", IF Code(regs["a2"]) = SYSCALL THEN 0 ELSE 1)
  BY <1>24, IsSyscallDoes DEF ExceptionCode
<1>25. ASSUME i = 25 PROVE Goes(IF regs["s0"] <= 0 THEN pc + 1 + 4 ELSE pc + 1)
  BY <1>25, BlezDoes DEF ExceptionCode
<1>26. ASSUME i = 26 PROVE Writes("a0", regs["a2"])
  BY <1>26, MoveDoes DEF ExceptionCode
<1>27. ASSUME i = 27 PROVE Calls(F.stack, 27)
  <2>1. Instruction = Plain("exception_handler") /\ Words(F.stack, stack, 27)
    BY <1>27, <1>w DEF ExceptionCode
  <2>. QED  BY <2>1, <1>s, CallDoes DEF Functions
<1>28. ASSUME i = 28 PROVE Returns(F.stack, 27, "exception_handler")
  <2>1. /\ Instruction = Instr("return", "exception_handler", "exception_handler", 0)
        /\ Words(F.stack, stack, 28)
    BY <1>28, <1>w DEF ExceptionCode
  <2>. QED  BY <2>1, <1>s, ReturnDoes
<1>29. ASSUME i = 29 PROVE Goes(pc + 1 + 2)
  BY <1>29, JumpDoes DEF ExceptionCode
<1>30. ASSUME i = 30 PROVE Calls(F.stack, 27)
  <2>1. Instruction = Plain("syscall_handler") /\ Words(F.stack, stack, 27)
    BY <1>30, <1>w DEF ExceptionCode
  <2>. QED  BY <2>1, <1>s, CallDoes DEF Functions
<1>31. ASSUME i = 31 PROVE Returns(F.stack, 27, "syscall_handler")
  <2>1. /\ Instruction = Instr("return", "syscall_handler", "syscall_handler", 0)
        /\ Words(F.stack, stack, 28)
    BY <1>31, <1>w DEF ExceptionCode
  <2>. QED  BY <2>1, <1>s, ReturnDoes
<1>32. ASSUME i = 32 PROVE Writes("Status", And(regs["Status"], EXL))
  BY <1>32, AndiDoes DEF ExceptionCode, Disable
<1>33. ASSUME i = 33 PROVE Goes(IF regs["s0"] <= 0 THEN pc + 1 + 1 ELSE pc + 1)
  BY <1>33, BlezDoes DEF ExceptionCode
<1>34. ASSUME i = 34 PROVE Writes("v0", stack[6]) /\ stack[6] \in Int
  BY <1>34, <1>l DEF ExceptionCode
<1>35. ASSUME i = 35 PROVE Writes("s0", stack[27]) /\ stack[27] \in Int
  BY <1>35, <1>l DEF ExceptionCode
<1>36. ASSUME i = 36 PROVE Writes("k0", stack[24]) /\ stack[24] \in Int
  BY <1>36, <1>l DEF ExceptionCode
<1>37. ASSUME i = 37 PROVE Writes("at", stack[5]) /\ stack[5] \in Int
  BY <1>37, <1>l DEF ExceptionCode
<1>38. ASSUME i = 38 PROVE Writes("lo", regs["k0"])
  BY <1>38, MoveDoes DEF ExceptionCode
<1>39. ASSUME i = 39 PROVE Writes("k0", stack[23]) /\ stack[23] \in Int
  BY <1>39, <1>l DEF ExceptionCode
<1>40. ASSUME i = 40 PROVE Writes("v1", stack[7]) /\ stack[7] \in Int
  BY <1>40, <1>l DEF ExceptionCode
<1>41. ASSUME i = 41 PROVE Writes("a0", stack[8]) /\ stack[8] \in Int
  BY <1>41, <1>l DEF ExceptionCode
<1>42. ASSUME i = 42 PROVE Writes("a1", stack[9]) /\ stack[9] \in Int
  BY <1>42, <1>l DEF ExceptionCode
<1>43. ASSUME i = 43 PROVE Writes("a2", stack[10]) /\ stack[10] \in Int
  BY <1>43, <1>l DEF ExceptionCode
<1>44. ASSUME i = 44 PROVE Writes("a3", stack[11]) /\ stack[11] \in Int
  BY <1>44, <1>l DEF ExceptionCode
<1>45. ASSUME i = 45 PROVE Writes("hi", regs["k0"])
  BY <1>45, MoveDoes DEF ExceptionCode
<1>46. ASSUME i = 46 PROVE Writes("t", stack[12]) /\ stack[12] \in Int
  BY <1>46, <1>l DEF ExceptionCode
<1>47. ASSUME i = 47 PROVE Writes("k1", stack[26]) /\ stack[26] \in Int
  BY <1>47, <1>l DEF ExceptionCode
<1>48. ASSUME i = 48 PROVE Writes("ra", stack[22]) /\ stack[22] \in Int
  BY <1>48, <1>l DEF ExceptionCode
<1>49. ASSUME i = 49 PROVE Writes("k1", regs["k1"] + 1)
  BY <1>49, AddiDoes DEF ExceptionCode
<1>50. ASSUME i = 50 PROVE Writes("EPC", regs["k1"])
  BY <1>50, MoveDoes DEF ExceptionCode
<1>51. ASSUME i = 51 PROVE Writes("k1", stack[25]) /\ stack[25] \in Int
  BY <1>51, <1>l DEF ExceptionCode
<1>52. ASSUME i = 52 PROVE regs' = regs /\ stack' = F.stack /\ pc' = pc + 1
  <2>1. Instruction = Pop(27) /\ Words(F.stack, stack, 27)
    BY <1>52, <1>w DEF ExceptionCode
  <2>. QED  BY <2>1, <1>s, PopDoes
<1>53. ASSUME i = 53 PROVE Writes("Status", regs["k1"])
  BY <1>53, MoveDoes DEF ExceptionCode
<1>. USE DEF InExc, ExcStack, ExcRegs, ExcOthers, ESaved, EWritten, ERestored, Counted, Returned,
             Slotted, Slot, Held, General, CallerSaved, Regs, Cop0, Vector, IntVector
<1>101. CASE i = 1  BY <1>1, <1>101, <1>r, <1>f
<1>102. CASE i = 2  BY <1>2, <1>102, <1>r, <1>f DEF Writes
<1>103. CASE i = 3  BY <1>3, <1>103, <1>r, <1>f DEF Stores
<1>104. CASE i = 4  BY <1>4, <1>104, <1>r, <1>f DEF Writes
<1>105. CASE i = 5  BY <1>5, <1>105, <1>r, <1>f DEF Stores
<1>106. CASE i = 6  BY <1>6, <1>106, <1>r, <1>f DEF Writes
<1>107. CASE i = 7  BY <1>7, <1>107, <1>r, <1>f DEF Stores
<1>108. CASE i = 8  BY <1>8, <1>108, <1>r, <1>f DEF Writes
<1>109. CASE i = 9  BY <1>9, <1>109, <1>r, <1>f DEF Stores
<1>110. CASE i = 10  BY <1>10, <1>110, <1>r, <1>f DEF Stores
<1>111. CASE i = 11  BY <1>11, <1>111, <1>r, <1>f DEF Writes
<1>112. CASE i = 12  BY <1>12, <1>112, <1>r, <1>f DEF Stores
<1>113. CASE i = 13  BY <1>13, <1>113, <1>r, <1>f DEF Writes
<1>114. CASE i = 14  BY <1>14, <1>114, <1>r, <1>f, <1>a DEF Writes
<1>115. CASE i = 15  BY <1>15, <1>115, <1>r, <1>f DEF Writes
<1>116. CASE i = 16  BY <1>16, <1>116, <1>r, <1>f DEF Stores
<1>117. CASE i = 17  BY <1>17, <1>117, <1>r, <1>f DEF Stores
<1>118. CASE i = 18  BY <1>18, <1>118, <1>r, <1>f DEF Stores
<1>119. CASE i = 19  BY <1>19, <1>119, <1>r, <1>f DEF Stores
<1>120. CASE i = 20  BY <1>20, <1>120, <1>r, <1>f DEF Stores
<1>121. CASE i = 21  BY <1>21, <1>121, <1>r, <1>f DEF Stores
<1>122. CASE i = 22  BY <1>22, <1>122, <1>r, <1>f DEF Stores
<1>123. CASE i = 23  BY <1>23, <1>123, <1>r, <1>f DEF Stores
<1>124. CASE i = 24  BY <1>24, <1>124, <1>r, <1>f DEF Writes, ByCall
<1>125. CASE i = 25  BY <1>25, <1>125, <1>r, <1>f DEF Goes
<1>126. CASE i = 26  BY <1>26, <1>126, <1>r, <1>f DEF Writes
<1>127. CASE i = 27  BY <1>27, <1>127, <1>r, <1>f DEF Calls, Spared
<1>128. CASE i = 28  BY <1>28, <1>128, <1>r, <1>f DEF Returns, Spared
<1>129. CASE i = 29  BY <1>29, <1>129, <1>r, <1>f DEF Goes
<1>130. CASE i = 30  BY <1>30, <1>130, <1>r, <1>f DEF Calls, Spared
<1>131. CASE i = 31  BY <1>31, <1>131, <1>r, <1>f DEF Returns, Spared
<1>132. CASE i = 32  BY <1>32, <1>132, <1>r, <1>f, <1>a DEF Writes
<1>133. CASE i = 33  BY <1>33, <1>133, <1>r, <1>f DEF Goes
<1>134. CASE i = 34  BY <1>34, <1>134, <1>r, <1>f DEF Writes
<1>135. CASE i = 35  BY <1>35, <1>135, <1>r, <1>f DEF Writes
<1>136. CASE i = 36  BY <1>36, <1>136, <1>r, <1>f DEF Writes
<1>137. CASE i = 37  BY <1>37, <1>137, <1>r, <1>f DEF Writes
<1>138. CASE i = 38  BY <1>38, <1>138, <1>r, <1>f DEF Writes
<1>139. CASE i = 39  BY <1>39, <1>139, <1>r, <1>f DEF Writes
<1>140. CASE i = 40  BY <1>40, <1>140, <1>r, <1>f DEF Writes
<1>141. CASE i = 41  BY <1>41, <1>141, <1>r, <1>f DEF Writes
<1>142. CASE i = 42  BY <1>42, <1>142, <1>r, <1>f DEF Writes
<1>143. CASE i = 43  BY <1>43, <1>143, <1>r, <1>f DEF Writes
<1>144. CASE i = 44  BY <1>44, <1>144, <1>r, <1>f DEF Writes
<1>145. CASE i = 45  BY <1>45, <1>145, <1>r, <1>f DEF Writes
<1>146. CASE i = 46  BY <1>46, <1>146, <1>r, <1>f DEF Writes
<1>147. CASE i = 47  BY <1>47, <1>147, <1>r, <1>f DEF Writes
<1>148. CASE i = 48  BY <1>48, <1>148, <1>r, <1>f DEF Writes
<1>149. CASE i = 49  BY <1>49, <1>149, <1>r, <1>f DEF Writes
<1>150. CASE i = 50  BY <1>50, <1>150, <1>r, <1>f DEF Writes
<1>151. CASE i = 51  BY <1>51, <1>151, <1>r, <1>f DEF Writes
<1>152. CASE i = 52  BY <1>52, <1>152, <1>r, <1>f
<1>153. CASE i = 53  BY <1>53, <1>153, <1>r, <1>f DEF Writes
<1>. HIDE DEF InExc, ExcStack, ExcRegs, ExcOthers, ESaved, EWritten, ERestored, Counted,
              Returned, Slotted, Slot, Held, General, CallerSaved, Regs, Cop0, Vector, IntVector
<1>. QED  BY <1>101, <1>102, <1>103, <1>104, <1>105, <1>106, <1>107, <1>108, <1>109, <1>110,
             <1>111, <1>112, <1>113, <1>114, <1>115, <1>116, <1>117, <1>118, <1>119, <1>120,
             <1>121, <1>122, <1>123, <1>124, <1>125, <1>126, <1>127, <1>128, <1>129, <1>130,
             <1>131, <1>132, <1>133, <1>134, <1>135, <1>136, <1>137, <1>138, <1>139, <1>140,
             <1>141, <1>142, <1>143, <1>144, <1>145, <1>146, <1>147, <1>148, <1>149, <1>150,
             <1>151, <1>152, <1>153

\* Each instruction of the interrupt handler leads to what the next one finds,
\* and the timer's interrupt is counted once.
LEMMA InterruptStep ==
  ASSUME NEW F, FrameOK(F), ~ByException(F), NEW i \in 1 .. 58, i # 18,
         InInt(F, i, regs, stack), IntClock(F, i, regs, accepted), pc = IntVector + i,
         Instruction = protected_interrupt_reg[i], Typed, Execute, InterruptCode
  PROVE  /\ InInt(F, pc' - IntVector, regs', stack') /\ pc' \in Nat
         /\ IntClock(F, pc' - IntVector, regs', accepted)
<1>r. regs \in [Regs -> Int] /\ accepted \in Nat
  BY DEF Typed
<1>s. F.stack \in Seq(Int)
  BY DEF FrameOK
<1>f. /\ F.regs \in [Regs -> Int] /\ F.return \in Nat /\ Epc(F) = F.return
      /\ F.regs["Status"] = IE /\ F.cause \in 0 .. 3
  BY DEF FrameOK, Epc
<1>a. (IE + EXL) - And(IE + EXL, EXL) = IE /\ And(IE, EXL) = 0
  BY DEF IE, EXL, And
<1>b. \A v \in 0 .. 3 : /\ And(v, CLOCK + SOFT) = v /\ And(v, CLOCK) = v % 2 /\ v % 2 \in {0, 1}
                        /\ v % 2 = 1 /\ v - 1 <= 0 => v = CLOCK
                        /\ (v - (v % 2)) % 2 = 0
  BY PendingBits
<1>c. F.cause % 2 = 1 <=> ByClock(F)
  BY DEF ByClock
<1>d. (CLOCK - CLOCK) % 2 = 0 /\ 0 % 2 = 0 /\ And(CLOCK, CLOCK) = CLOCK
  BY DEF CLOCK, And
<1>w. /\ i = 1 => stack = F.stack
      /\ i \in 2 .. 57 \ {18, 39} => Words(F.stack, stack, 26)
      /\ i = 39 => Words(F.stack, stack, 27)
  BY DEF InInt, IntStack
<1>n. /\ regs["k0"] \in Int /\ regs["k1"] \in Int /\ regs["at"] \in Int /\ regs["v0"] \in Int
      /\ regs["v1"] \in Int /\ regs["a0"] \in Int /\ regs["a1"] \in Int /\ regs["a2"] \in Int
      /\ regs["a3"] \in Int /\ regs["t"] \in Int /\ regs["ra"] \in Int /\ regs["s0"] \in Int
  BY <1>r DEF Regs, General, CallerSaved
<1>l. ASSUME NEW d, NEW m \in 0 .. 25, i \in 2 .. 57 \ {18, 39}, Instruction = Load(d, m)
      PROVE  Writes(d, stack[m + 1]) /\ stack[m + 1] \in Int
  BY <1>l, <1>w, <1>s, LoadDoes
<1>m. ASSUME NEW d, NEW m \in 0 .. 25, i \in 2 .. 57 \ {18, 39},
             Instruction = Save(d, m), regs[d] \in Int
      PROVE  Stores(F.stack, 26, m, regs[d])
  BY <1>m, <1>w, <1>s, SaveDoes
<1>1. ASSUME i = 1 PROVE regs' = regs /\ Words(F.stack, stack', 26) /\ pc' = pc + 1
  BY <1>1, <1>s, <1>w, PushDoes DEF InterruptCode
<1>2. ASSUME i = 2 PROVE Stores(F.stack, 26, 7, regs["a0"])
  BY <1>2, <1>m, <1>n DEF InterruptCode
<1>3. ASSUME i = 3 PROVE Stores(F.stack, 26, 8, regs["a1"])
  BY <1>3, <1>m, <1>n DEF InterruptCode
<1>4. ASSUME i = 4 PROVE Writes("a0", regs["Cause"])
  BY <1>4, MoveDoes DEF InterruptCode
<1>5. ASSUME i = 5 PROVE Writes("k1", And(regs["a0"], CLOCK + SOFT))
  BY <1>5, AndiDoes DEF InterruptCode
<1>6. ASSUME i = 6 PROVE Writes("k0", And(regs["k1"], CLOCK))
  BY <1>6, AndiDoes DEF InterruptCode
<1>7. ASSUME i = 7 PROVE Goes(IF regs["k0"] <= 0 THEN pc + 1 + 11 ELSE pc + 1)
  BY <1>7, BlezDoes DEF InterruptCode
<1>8. ASSUME i = 8 PROVE Writes("a1", regs["clock_count"])
  BY <1>8, MoveDoes DEF InterruptCode
<1>9. ASSUME i = 9 PROVE Writes("a1", regs["a1"] + 1)
  BY <1>9, AddiDoes DEF InterruptCode
<1>10. ASSUME i = 10 PROVE Writes("clock_count", regs["a1"])
  BY <1>10, MoveDoes DEF InterruptCode
<1>11. ASSUME i = 11 PROVE Writes("k0", regs["k1"] - And(regs["k1"], CLOCK))
  BY <1>11, ClearDoes DEF InterruptCode
<1>12. ASSUME i = 12 PROVE Goes(IF regs["k0"] > 0 THEN pc + 1 + 6 ELSE pc + 1)
  BY <1>12, BgtzDoes DEF InterruptCode
<1>13. ASSUME i = 13 PROVE Writes("a0", regs["a0"] - And(regs["a0"], CLOCK))
  BY <1>13, ClearDoes DEF InterruptCode
<1>14. ASSUME i = 14 PROVE Writes("Cause", regs["a0"])
  BY <1>14, MoveDoes DEF InterruptCode
<1>15. ASSUME i = 15 PROVE Writes("a0", stack[8]) /\ stack[8] \in Int
  BY <1>15, <1>l DEF InterruptCode
<1>16. ASSUME i = 16 PROVE Writes("a1", stack[9]) /\ stack[9] \in Int
  BY <1>16, <1>l DEF InterruptCode
<1>17. ASSUME i = 17 PROVE regs' = regs /\ stack' = F.stack /\ pc' = pc + 1
  <2>1. Instruction = Pop(26) /\ Words(F.stack, stack, 26)
    BY <1>17, <1>w DEF InterruptCode
  <2>. QED  BY <2>1, <1>s, PopDoes
<1>19. ASSUME i = 19 PROVE Writes("k0", regs["a0"] - And(regs["a0"], CLOCK + SOFT))
  BY <1>19, ClearDoes DEF InterruptCode
<1>20. ASSUME i = 20 PROVE Writes("Cause", regs["k0"])
  BY <1>20, MoveDoes DEF InterruptCode
<1>21. ASSUME i = 21 PROVE Writes("k1", regs["EPC"])
  BY <1>21, MoveDoes DEF InterruptCode
<1>22. ASSUME i = 22 PROVE Stores(F.stack, 26, 25, regs["k1"])
  BY <1>22, <1>m, <1>n DEF InterruptCode
<1>23. ASSUME i = 23 PROVE Writes("k1", regs["Status"])
  BY <1>23, MoveDoes DEF InterruptCode
<1>24. ASSUME i = 24 PROVE Stores(F.stack, 26, 24, regs["k1"])
  BY <1>24, <1>m, <1>n DEF InterruptCode
<1>25. ASSUME i = 25 PROVE Writes("k0", regs["lo"])
  BY <1>25, MoveDoes DEF InterruptCode
<1>26. ASSUME i = 26 PROVE Stores(F.stack, 26, 23, regs["k0"])
  BY <1>26, <1>m, <1>n DEF InterruptCode
<1>27. ASSUME i = 27 PROVE Writes("k0", regs["hi"])
  BY <1>27, MoveDoes DEF InterruptCode
<1>28. ASSUME i = 28 PROVE Stores(F.stack, 26, 22, regs["k0"])
  BY <1>28, <1>m, <1>n DEF InterruptCode
<1>29. ASSUME i = 29 PROVE Writes("k1", regs["k1"] - And(regs["k1"], EXL))
  BY <1>29, ClearDoes DEF InterruptCode
<1>30. ASSUME i = 30 PROVE Writes("Status", regs["k1"])
  BY <1>30, MoveDoes DEF InterruptCode
<1>31. ASSUME i = 31 PROVE Stores(F.stack, 26, 4, regs["at"])
  BY <1>31, <1>m, <1>n DEF InterruptCode
<1>32. ASSUME i = 32 PROVE Stores(F.stack, 26, 5, regs["v0"])
  BY <1>32, <1>m, <1>n DEF InterruptCode
<1>33. ASSUME i = 33 PROVE Stores(F.stack, 26, 6, regs["v1"])
  BY <1>33, <1>m, <1>n DEF InterruptCode
<1>34. ASSUME i = 34 PROVE Stores(F.stack, 26, 9, regs["a2"])
  BY <1>34, <1>m, <1>n DEF InterruptCode
<1>35. ASSUME i = 35 PROVE Stores(F.stack, 26, 10, regs["a3"])
  BY <1>35, <1>m, <1>n DEF InterruptCode
<1>36. ASSUME i = 36 PROVE Stores(F.stack, 26, 11, regs["t"])
  BY <1>36, <1>m, <1>n DEF InterruptCode
<1>37. ASSUME i = 37 PROVE Stores(F.stack, 26, 21, regs["ra"])
  BY <1>37, <1>m, <1>n DEF InterruptCode
<1>38. ASSUME i = 38 PROVE Calls(F.stack, 26)
  <2>1. Instruction = Plain("interrupt_handler") /\ Words(F.stack, stack, 26)
    BY <1>38, <1>w DEF InterruptCode
  <2>. QED  BY <2>1, <1>s, CallDoes DEF Functions
<1>39. ASSUME i = 39 PROVE Returns(F.stack, 26, "interrupt_handler")
  <2>1. /\ Instruction = Instr("return", "interrupt_handler", "interrupt_handler", 0)
        /\ Words(F.stack, stack, 27)
    BY <1>39, <1>w DEF InterruptCode
  <2>. QED  BY <2>1, <1>s, ReturnDoes
<1>40. ASSUME i = 40 PROVE Writes("Status", And(regs["Status"], EXL))
  BY <1>40, AndiDoes DEF InterruptCode, Disable
<1>41. ASSUME i = 41 PROVE Writes("k0", stack[24]) /\ stack[24] \in Int
  BY <1>41, <1>l DEF InterruptCode
<1>42. ASSUME i = 42 PROVE Writes("at", stack[5]) /\ stack[5] \in Int
  BY <1>42, <1>l DEF InterruptCode
<1>43. ASSUME i = 43 PROVE Writes("v0", stack[6]) /\ stack[6] \in Int
  BY <1>43, <1>l DEF InterruptCode
<1>44. ASSUME i = 44 PROVE Writes("lo", regs["k0"])
  BY <1>44, MoveDoes DEF InterruptCode
<1>45. ASSUME i = 45 PROVE Writes("k0", stack[23]) /\ stack[23] \in Int
  BY <1>45, <1>l DEF InterruptCode
<1>46. ASSUME i = 46 PROVE Writes("v1", stack[7]) /\ stack[7] \in Int
  BY <1>46, <1>l DEF InterruptCode
<1>47. ASSUME i = 47 PROVE Writes("a0", stack[8]) /\ stack[8] \in Int
  BY <1>47, <1>l DEF InterruptCode
<1>48. ASSUME i = 48 PROVE Writes("a1", stack[9]) /\ stack[9] \in Int
  BY <1>48, <1>l DEF InterruptCode
<1>49. ASSUME i = 49 PROVE Writes("a2", stack[10]) /\ stack[10] \in Int
  BY <1>49, <1>l DEF InterruptCode
<1>50. ASSUME i = 50 PROVE Writes("a3", stack[11]) /\ stack[11] \in Int
  BY <1>50, <1>l DEF InterruptCode
<1>51. ASSUME i = 51 PROVE Writes("t", stack[12]) /\ stack[12] \in Int
  BY <1>51, <1>l DEF InterruptCode
<1>52. ASSUME i = 52 PROVE Writes("hi", regs["k0"])
  BY <1>52, MoveDoes DEF InterruptCode
<1>53. ASSUME i = 53 PROVE Writes("k1", stack[26]) /\ stack[26] \in Int
  BY <1>53, <1>l DEF InterruptCode
<1>54. ASSUME i = 54 PROVE Writes("ra", stack[22]) /\ stack[22] \in Int
  BY <1>54, <1>l DEF InterruptCode
<1>55. ASSUME i = 55 PROVE Writes("EPC", regs["k1"])
  BY <1>55, MoveDoes DEF InterruptCode
<1>56. ASSUME i = 56 PROVE Writes("k1", stack[25]) /\ stack[25] \in Int
  BY <1>56, <1>l DEF InterruptCode
<1>57. ASSUME i = 57 PROVE regs' = regs /\ stack' = F.stack /\ pc' = pc + 1
  <2>1. Instruction = Pop(26) /\ Words(F.stack, stack, 26)
    BY <1>57, <1>w DEF InterruptCode
  <2>. QED  BY <2>1, <1>s, PopDoes
<1>58. ASSUME i = 58 PROVE Writes("Status", regs["k1"])
  BY <1>58, MoveDoes DEF InterruptCode
<1>. USE DEF InInt, IntStack, IntRegs, IntOthers, ISaved, IWritten, IRestored, IntClock, Slotted,
             Slot, Held, General, CallerSaved, Regs, Cop0, Vector, IntVector
<1>101. CASE i = 1  BY <1>1, <1>101, <1>r, <1>f
<1>102. CASE i = 2  BY <1>2, <1>102, <1>r, <1>f DEF Stores
<1>103. CASE i = 3  BY <1>3, <1>103, <1>r, <1>f DEF Stores
<1>104. CASE i = 4  BY <1>4, <1>104, <1>r, <1>f DEF Writes
<1>105. CASE i = 5  BY <1>5, <1>105, <1>r, <1>f, <1>a, <1>b, <1>c, <1>d DEF Writes
<1>106. CASE i = 6  BY <1>6, <1>106, <1>r, <1>f, <1>a, <1>b, <1>c, <1>d DEF Writes
<1>107. CASE i = 7  BY <1>7, <1>107, <1>r, <1>f, <1>b, <1>c, <1>d DEF Goes
<1>108. CASE i = 8  BY <1>8, <1>108, <1>r, <1>f DEF Writes
<1>109. CASE i = 9  BY <1>9, <1>109, <1>r, <1>f DEF Writes
<1>110. CASE i = 10  BY <1>10, <1>110, <1>r, <1>f, <1>b, <1>c, <1>d DEF Writes
<1>111. CASE i = 11  BY <1>11, <1>111, <1>r, <1>f, <1>a, <1>b, <1>c, <1>d DEF Writes
<1>112. CASE i = 12  BY <1>12, <1>112, <1>r, <1>f, <1>b, <1>c, SMTT(30) DEF Goes
<1>113. CASE i = 13  BY <1>13, <1>113, <1>r, <1>f, <1>a, <1>b, <1>c, <1>d DEF Writes, CLOCK
<1>114. CASE i = 14  BY <1>14, <1>114, <1>r, <1>f DEF Writes, CLOCK
<1>115. CASE i = 15  BY <1>15, <1>115, <1>r, <1>f DEF Writes
<1>116. CASE i = 16  BY <1>16, <1>116, <1>r, <1>f DEF Writes
<1>117. CASE i = 17  BY <1>17, <1>117, <1>r, <1>f
<1>119. CASE i = 19  BY <1>19, <1>119, <1>r, <1>f, <1>a, <1>b, <1>c, <1>d, SMTT(30) DEF Writes
<1>120. CASE i = 20  BY <1>20, <1>120, <1>r, <1>f, <1>b, <1>c, <1>d DEF Writes
<1>121. CASE i = 21  BY <1>21, <1>121, <1>r, <1>f DEF Writes
<1>122. CASE i = 22  BY <1>22, <1>122, <1>r, <1>f DEF Stores
<1>123. CASE i = 23  BY <1>23, <1>123, <1>r, <1>f DEF Writes
<1>124. CASE i = 24  BY <1>24, <1>124, <1>r, <1>f DEF Stores
<1>125. CASE i = 25  BY <1>25, <1>125, <1>r, <1>f DEF Writes
<1>126. CASE i = 26  BY <1>26, <1>126, <1>r, <1>f DEF Stores
<1>127. CASE i = 27  BY <1>27, <1>127, <1>r, <1>f DEF Writes
<1>128. CASE i = 28  BY <1>28, <1>128, <1>r, <1>f DEF Stores
<1>129. CASE i = 29  BY <1>29, <1>129, <1>r, <1>f, <1>a, <1>b, <1>c, <1>d DEF Writes
<1>130. CASE i = 30  BY <1>30, <1>130, <1>r, <1>f DEF Writes
<1>131. CASE i = 31  BY <1>31, <1>131, <1>r, <1>f DEF Stores
<1>132. CASE i = 32  BY <1>32, <1>132, <1>r, <1>f DEF Stores
<1>133. CASE i = 33  BY <1>33, <1>133, <1>r, <1>f DEF Stores
<1>134. CASE i = 34  BY <1>34, <1>134, <1>r, <1>f DEF Stores
<1>135. CASE i = 35  BY <1>35, <1>135, <1>r, <1>f DEF Stores
<1>136. CASE i = 36  BY <1>36, <1>136, <1>r, <1>f DEF Stores
<1>137. CASE i = 37  BY <1>37, <1>137, <1>r, <1>f DEF Stores
<1>138. CASE i = 38  BY <1>38, <1>138, <1>r, <1>f DEF Calls, Spared
<1>139. CASE i = 39  BY <1>39, <1>139, <1>r, <1>f DEF Returns, Spared
<1>140. CASE i = 40  BY <1>40, <1>140, <1>r, <1>f, <1>a, <1>b, <1>c, <1>d DEF Writes
<1>141. CASE i = 41  BY <1>41, <1>141, <1>r, <1>f DEF Writes
<1>142. CASE i = 42  BY <1>42, <1>142, <1>r, <1>f DEF Writes
<1>143. CASE i = 43  BY <1>43, <1>143, <1>r, <1>f DEF Writes
<1>144. CASE i = 44  BY <1>44, <1>144, <1>r, <1>f DEF Writes
<1>145. CASE i = 45  BY <1>45, <1>145, <1>r, <1>f DEF Writes
<1>146. CASE i = 46  BY <1>46, <1>146, <1>r, <1>f DEF Writes
<1>147. CASE i = 47  BY <1>47, <1>147, <1>r, <1>f DEF Writes
<1>148. CASE i = 48  BY <1>48, <1>148, <1>r, <1>f DEF Writes
<1>149. CASE i = 49  BY <1>49, <1>149, <1>r, <1>f DEF Writes
<1>150. CASE i = 50  BY <1>50, <1>150, <1>r, <1>f DEF Writes
<1>151. CASE i = 51  BY <1>51, <1>151, <1>r, <1>f DEF Writes
<1>152. CASE i = 52  BY <1>52, <1>152, <1>r, <1>f DEF Writes
<1>153. CASE i = 53  BY <1>53, <1>153, <1>r, <1>f DEF Writes
<1>154. CASE i = 54  BY <1>54, <1>154, <1>r, <1>f DEF Writes
<1>155. CASE i = 55  BY <1>55, <1>155, <1>r, <1>f DEF Writes
<1>156. CASE i = 56  BY <1>56, <1>156, <1>r, <1>f DEF Writes
<1>157. CASE i = 57  BY <1>57, <1>157, <1>r, <1>f
<1>158. CASE i = 58  BY <1>58, <1>158, <1>r, <1>f DEF Writes
<1>. HIDE DEF InInt, IntStack, IntRegs, IntOthers, ISaved, IWritten, IRestored, IntClock,
              Slotted, Slot, Held, General, CallerSaved, Regs, Cop0, Vector, IntVector
<1>. QED  BY <1>101, <1>102, <1>103, <1>104, <1>105, <1>106, <1>107, <1>108, <1>109, <1>110,
             <1>111, <1>112, <1>113, <1>114, <1>115, <1>116, <1>117, <1>119, <1>120, <1>121,
             <1>122, <1>123, <1>124, <1>125, <1>126, <1>127, <1>128, <1>129, <1>130, <1>131,
             <1>132, <1>133, <1>134, <1>135, <1>136, <1>137, <1>138, <1>139, <1>140, <1>141,
             <1>142, <1>143, <1>144, <1>145, <1>146, <1>147, <1>148, <1>149, <1>150, <1>151,
             <1>152, <1>153, <1>154, <1>155, <1>156, <1>157, <1>158

----------------------------------------------------------------------------
\* Which instructions of the handlers return from them and call which function.

\* Only the last instruction of the exception handler returns from it, and
\* each function is called at one address.
LEMMA ExceptionOps ==
  ASSUME NEW i \in 1 .. 54
  PROVE  LET op == protected_exception_reg[i].op
         IN  /\ op \notin {"syscall", "trap", "interrupt_handler"}
             /\ op = "eret" <=> i = 54
             /\ op = "exception_handler" => i = 27
             /\ op = "syscall_handler" => i = 30
<1>1. \/ i = 1 \/ i = 2 \/ i = 3 \/ i = 4 \/ i = 5 \/ i = 6 \/ i = 7 \/ i = 8 \/ i = 9 \/ i = 10
      \/ i = 11 \/ i = 12 \/ i = 13 \/ i = 14 \/ i = 15 \/ i = 16 \/ i = 17 \/ i = 18 \/ i = 19
      \/ i = 20 \/ i = 21 \/ i = 22 \/ i = 23 \/ i = 24 \/ i = 25 \/ i = 26 \/ i = 27 \/ i = 28
      \/ i = 29 \/ i = 30 \/ i = 31 \/ i = 32 \/ i = 33 \/ i = 34 \/ i = 35 \/ i = 36 \/ i = 37
      \/ i = 38 \/ i = 39 \/ i = 40 \/ i = 41 \/ i = 42 \/ i = 43 \/ i = 44 \/ i = 45 \/ i = 46
      \/ i = 47 \/ i = 48 \/ i = 49 \/ i = 50 \/ i = 51 \/ i = 52 \/ i = 53 \/ i = 54
  OBVIOUS
<1>. QED  BY <1>1, ExceptionCodeIs DEF ExceptionCode, Push, Pop, Move, Save, Load, Addi, Andi,
             Clear, Plain, Disable, Instr, Blez, IsSyscall

\* The interrupt handler returns at two addresses.
LEMMA InterruptOps ==
  ASSUME NEW i \in 1 .. 59
  PROVE  LET op == protected_interrupt_reg[i].op
         IN  /\ op \notin {"syscall", "trap", "exception_handler", "syscall_handler"}
             /\ op = "eret" <=> i = 18 \/ i = 59
             /\ op = "interrupt_handler" => i = 38
<1>1. \/ i = 1 \/ i = 2 \/ i = 3 \/ i = 4 \/ i = 5 \/ i = 6 \/ i = 7 \/ i = 8 \/ i = 9 \/ i = 10
      \/ i = 11 \/ i = 12 \/ i = 13 \/ i = 14 \/ i = 15 \/ i = 16 \/ i = 17 \/ i = 18 \/ i = 19
      \/ i = 20 \/ i = 21 \/ i = 22 \/ i = 23 \/ i = 24 \/ i = 25 \/ i = 26 \/ i = 27 \/ i = 28
      \/ i = 29 \/ i = 30 \/ i = 31 \/ i = 32 \/ i = 33 \/ i = 34 \/ i = 35 \/ i = 36 \/ i = 37
      \/ i = 38 \/ i = 39 \/ i = 40 \/ i = 41 \/ i = 42 \/ i = 43 \/ i = 44 \/ i = 45 \/ i = 46
      \/ i = 47 \/ i = 48 \/ i = 49 \/ i = 50 \/ i = 51 \/ i = 52 \/ i = 53 \/ i = 54 \/ i = 55
      \/ i = 56 \/ i = 57 \/ i = 58 \/ i = 59
  OBVIOUS
<1>. QED  BY <1>1, InterruptCodeIs DEF InterruptCode, Push, Pop, Move, Save, Load, Addi, Andi,
             Clear, Plain, Disable, Instr, Blez, Bgtz

----------------------------------------------------------------------------
\* The invariant.

\* A context that runs now, or that the next frame has interrupted: of the
\* program, and of the handler with the frame F.
Now == [return |-> pc, regs |-> regs, stack |-> stack]

Level(k) == IF k = Len(frames) THEN Now ELSE frames[k + 1]

InProgram(c) ==
  /\ c.return \in 1 .. Len(program) + 1
  /\ c.regs \in [Regs -> Int] /\ c.regs["Status"] = IE /\ c.stack \in Seq(Int)

\* The handler that has interrupted F has been interrupted itself, with context c.
InHandler(F, c) ==
  IF ByException(F) THEN InExc(F, c.return - Vector, c.regs, c.stack)
  ELSE InInt(F, c.return - IntVector, c.regs, c.stack)

\* What an active handler has interrupted.
Frame == [regs : [Regs -> Int], v0 : Int, stack : Seq(Int), return : Nat, cause : Nat]

\* The program is at the bottom, a handler above it, and above that only
\* handlers of interrupts, each in what the one below it has been doing.
Chain ==
  /\ InProgram(Level(0))
  /\ \A k \in 1 .. Len(frames) :
       /\ FrameOK(frames[k]) /\ (k > 1 => ~ByException(frames[k]))
       /\ InHandler(frames[k], Level(k))

\* Every pulse is stored or has been taken, and what has been taken is counted, or
\* is being counted by the handler on top.
Clock ==
  /\ accepted + (IF stored THEN 1 ELSE 0) = pulses + 1
  /\ IF frames # <<>> /\ ~ByException(Top) THEN IntClock(Top, pc - IntVector, regs, accepted)
     ELSE Counted(regs, accepted)

\* The types that the other parts rest on.
Values ==
  /\ program \in Programs /\ pc \in Nat /\ frames \in Seq(Frame)
  /\ stored \in BOOLEAN /\ rising \in BOOLEAN
  /\ accepted \in Nat /\ pulses \in 0 .. MaxPulses /\ softs \in 0 .. MaxSoft

\* The inductive invariant.
KernelInv == Values /\ Chain /\ Clock

----------------------------------------------------------------------------
\* What follows from it in one state.

\* A handler that may be interrupted goes on with other values of the registers
\* that are not given back.
LEMMA HandlerSurvives ==
  ASSUME NEW F, NEW c, NEW d, InHandler(F, c), c.regs["Status"] = IE,
         d.return = c.return, d.stack = c.stack, d.regs \in [Regs -> Int],
         \A x \in General \cup {"Status"} : d.regs[x] = c.regs[x]
  PROVE  InHandler(F, d)
<1>. DEFINE i == c.return - Vector
            j == c.return - IntVector
<1>1. d.regs["Status"] = IE /\ \A x \in General : d.regs[x] = c.regs[x]
  OBVIOUS
<1>2. IE # 0 /\ IE # IE + EXL
  BY DEF IE, EXL
<1>3. ASSUME InExc(F, i, c.regs, c.stack)
      PROVE  InExc(F, i, d.regs, d.stack)
  <2>1. i \in 16 .. 32
    BY <1>3, <1>2 DEF InExc, ExcOthers
  <2>2. ExcRegs(F, i, d.regs)
    BY <1>1, <1>3 DEF InExc, ExcRegs
  <2>3. ExcOthers(F, i, d.regs)
    BY <1>1, <1>3, <2>1 DEF InExc, ExcOthers, General, CallerSaved
  <2>. QED  BY <1>3, <2>2, <2>3 DEF InExc
<1>4. ASSUME InInt(F, j, c.regs, c.stack)
      PROVE  InInt(F, j, d.regs, d.stack)
  <2>1. j \in 31 .. 40
    BY <1>4, <1>2 DEF InInt, IntOthers
  <2>2. IntRegs(F, j, d.regs)
    BY <1>1, <1>4 DEF InInt, IntRegs
  <2>3. IntOthers(F, j, d.regs)
    BY <1>1, <1>4, <2>1 DEF InInt, IntOthers, General, CallerSaved
  <2>. QED  BY <1>4, <2>2, <2>3 DEF InInt
<1>. QED  BY <1>3, <1>4 DEF InHandler

\* Where the program is, and what it executes.
LEMMA ProgramRuns ==
  ASSUME Values, Chain, frames = <<>>
  PROVE  /\ InProgram(Now)
         /\ pc \in 1 .. Len(program) + 1 /\ Len(program) \in Nat
         /\ Instruction = Plain(IF pc <= Len(program) THEN program[pc] ELSE "again")
         /\ pc <= Len(program) => program[pc] \in UserOps
<1>1. InProgram(Now)
  BY DEF Chain, Level
<1>2. pc \in 1 .. Len(program) + 1
  BY <1>1 DEF InProgram, Now
<1>3. program \in Seq(UserOps) /\ Len(program) \in Nat /\ Len(program) < Vector
  BY KernelAssumption DEF Values
<1>4. Instruction = Plain(IF pc <= Len(program) THEN program[pc] ELSE "again")
  BY <1>2, <1>3 DEF Values, Instruction, Vector, IntVector
<1>5. pc <= Len(program) => program[pc] \in UserOps
  BY <1>2, <1>3
<1>. QED  BY <1>1, <1>2, <1>3, <1>4, <1>5

\* Where the last handler is, and what it executes.
LEMMA HandlerRuns ==
  ASSUME Values, Chain, frames # <<>>
  PROVE  /\ Len(frames) \in Nat /\ Len(frames) >= 1 /\ FrameOK(Top) /\ InHandler(Top, Now)
         /\ (ByException(Top) => Len(frames) = 1)
         /\ ByException(Top) => /\ pc - Vector \in 1 .. 54
                                /\ InExc(Top, pc - Vector, regs, stack)
                                /\ Instruction = protected_exception_reg[pc - Vector]
         /\ ~ByException(Top) => /\ pc - IntVector \in 1 .. 59
                                 /\ InInt(Top, pc - IntVector, regs, stack)
                                 /\ Instruction = protected_interrupt_reg[pc - IntVector]
<1>1. Len(frames) \in Nat /\ Len(frames) >= 1
  BY DEF Values
<1>2. FrameOK(Top) /\ InHandler(Top, Now) /\ (ByException(Top) => Len(frames) = 1)
  <2>1. Len(frames) \in 1 .. Len(frames) /\ Level(Len(frames)) = Now
    BY <1>1 DEF Level
  <2>2. Len(frames) > 1 \/ Len(frames) = 1
    BY <1>1
  <2>. QED  BY <2>1, <2>2 DEF Chain, Top
<1>3. ASSUME ByException(Top)
      PROVE  /\ pc - Vector \in 1 .. 54
             /\ InExc(Top, pc - Vector, regs, stack)
             /\ Instruction = protected_exception_reg[pc - Vector]
  <2>1. InExc(Top, pc - Vector, regs, stack) /\ pc - Vector \in 1 .. 54
    BY <1>2, <1>3 DEF InHandler, Now, InExc
  <2>2. pc > Vector /\ ~(pc > IntVector)
    BY <2>1 DEF Values, Vector, IntVector
  <2>. QED  BY <2>1, <2>2 DEF Instruction
<1>4. ASSUME ~ByException(Top)
      PROVE  /\ pc - IntVector \in 1 .. 59
             /\ InInt(Top, pc - IntVector, regs, stack)
             /\ Instruction = protected_interrupt_reg[pc - IntVector]
  <2>1. InInt(Top, pc - IntVector, regs, stack) /\ pc - IntVector \in 1 .. 59
    BY <1>2, <1>4 DEF InHandler, Now, InInt
  <2>2. pc > IntVector
    BY <2>1 DEF Values, IntVector
  <2>. QED  BY <2>1, <2>2 DEF Instruction
<1>. QED  BY <1>1, <1>2, <1>3, <1>4

\* In every state the registers and the stack hold numbers.
LEMMA Numbers ==
  ASSUME Values, Chain
  PROVE  /\ regs \in [Regs -> Int] /\ stack \in Seq(Int)
         /\ regs["Status"] \in {0, IE, IE + EXL} /\ Junk \in Int
<1>0. Junk \in Int
  BY DEF Values, Junk
<1>1. CASE frames = <<>>
  <2>1. InProgram(Now)
    BY <1>1, ProgramRuns
  <2>. QED  BY <1>0, <2>1 DEF InProgram, Now
<1>2. CASE frames # <<>> /\ ByException(Top)
  <2>1. InExc(Top, pc - Vector, regs, stack) /\ Top.stack \in Seq(Int)
    BY <1>2, HandlerRuns DEF FrameOK
  <2>. QED  BY <1>0, <2>1 DEF InExc, ExcStack, ExcOthers, Words
<1>3. CASE frames # <<>> /\ ~ByException(Top)
  <2>1. InInt(Top, pc - IntVector, regs, stack) /\ Top.stack \in Seq(Int)
    BY <1>3, HandlerRuns DEF FrameOK
  <2>. QED  BY <1>0, <2>1 DEF InInt, IntStack, IntOthers, Words
<1>. QED  BY <1>1, <1>2, <1>3

----------------------------------------------------------------------------
\* How the chain of the frames grows, shrinks and goes on.

\* A handler is entered.
LEMMA ChainGrows ==
  ASSUME Values, Chain, NEW F, FrameOK(F), frames' = Append(frames, F), program' = program,
         frames = <<>> => InProgram(F),
         frames # <<>> => InHandler(Top, F) /\ ~ByException(F),
         InHandler(F, Now')
  PROVE  Chain'
<1>0. PICK n : n = Len(frames)
  OBVIOUS
<1>1. n \in Nat /\ (frames = <<>> <=> n = 0)
  BY <1>0 DEF Values
<1>2. Len(frames') = n + 1 /\ frames'[n + 1] = F /\ \A k \in 1 .. n : frames'[k] = frames[k]
  BY <1>0 DEF Values
<1>3. /\ Level(n)' = F /\ Level(n + 1)' = Now'
      /\ \A k \in 0 .. n - 1 : Level(k)' = Level(k)
  BY <1>0, <1>1, <1>2 DEF Level
<1>4. InProgram(Level(0))'
  <2>1. InProgram(Level(0)')
    <3>1. CASE n = 0  BY <1>1, <1>3, <3>1
    <3>2. CASE n # 0
      <4>1. 0 \in 0 .. n - 1
        BY <1>1, <3>2
      <4>. QED  BY <1>0, <4>1, <1>3 DEF Chain
    <3>. QED  BY <3>1, <3>2
  <2>. QED  BY <1>0, <2>1 DEF InProgram
<1>5. ASSUME NEW k \in 1 .. n + 1
      PROVE  /\ FrameOK(frames'[k]) /\ (k > 1 => ~ByException(frames'[k]))
             /\ InHandler(frames'[k], Level(k)')
  <2>1. CASE k = n + 1
    BY <1>1, <1>2, <1>3, <2>1
  <2>2. CASE k = n
    <3>1. k \in 1 .. n /\ frames # <<>> /\ Top = frames[n] /\ frames'[k] = frames[k]
      BY <1>0, <1>1, <1>2, <2>2 DEF Top
    <3>. QED  BY <1>0, <3>1, <2>2, <1>3 DEF Chain
  <2>3. CASE k < n
    <3>1. k \in 1 .. n /\ k \in 0 .. n - 1 /\ frames'[k] = frames[k]
      BY <1>1, <1>2, <2>3
    <3>. QED  BY <1>0, <3>1, <1>3 DEF Chain
  <2>4. k = n + 1 \/ k = n \/ k < n
    BY <1>1
  <2>. QED  BY <2>1, <2>2, <2>3, <2>4, Zenon
<1>. QED  BY <1>0, <1>2, <1>4, <1>5 DEF Chain

\* A handler returns to what it has interrupted.
LEMMA ChainShrinks ==
  ASSUME Values, Chain, frames # <<>>, frames' = SubSeq(frames, 1, Len(frames) - 1),
         program' = program, pc' = Top.return, stack' = Top.stack, regs' \in [Regs -> Int],
         regs'["Status"] = Top.regs["Status"],
         ~ByException(Top) => \A x \in General : regs'[x] = Top.regs[x]
  PROVE  Chain'
<1>0. PICK n : n = Len(frames)
  OBVIOUS
<1>1. n \in Nat /\ n >= 1 /\ FrameOK(Top) /\ (ByException(Top) => n = 1)
  BY <1>0, HandlerRuns
<1>2. Len(frames') = n - 1 /\ \A k \in 1 .. n - 1 : frames'[k] = frames[k]
  BY <1>0, <1>1 DEF Values
<1>3. /\ Level(n - 1)' = Now' /\ Level(n - 1) = Top
      /\ \A k \in 0 .. n - 2 : Level(k)' = Level(k)
  <2>1. Level(n - 1)' = Now' /\ Level(n - 1) = Top
    BY <1>0, <1>1, <1>2 DEF Level, Top
  <2>2. ASSUME NEW k \in 0 .. n - 2 PROVE Level(k)' = Level(k)
    BY <1>0, <1>1, <1>2, <2>2 DEF Level
  <2>. QED  BY <2>1, <2>2
<1>4. /\ Now'.return = Top.return /\ Now'.stack = Top.stack /\ Now'.regs \in [Regs -> Int]
      /\ Now'.regs["Status"] = Top.regs["Status"]
      /\ ~ByException(Top) => \A x \in General \cup {"Status"} : Now'.regs[x] = Top.regs[x]
  BY <1>0 DEF Now
<1>. HIDE DEF Now
<1>5. InProgram(Level(0))'
  <2>1. InProgram(Level(0)')
    <3>1. CASE n = 1
      <4>1. InProgram(Top) /\ Level(0)' = Now'
        BY <1>0, <1>1, <1>3, <3>1 DEF Chain
      <4>. QED  BY <1>0, <4>1, <1>4 DEF InProgram
    <3>2. CASE n # 1
      <4>1. 0 \in 0 .. n - 2
        BY <1>1, <3>2
      <4>. QED  BY <1>0, <4>1, <1>3 DEF Chain
    <3>. QED  BY <3>1, <3>2
  <2>. QED  BY <1>0, <2>1 DEF InProgram
<1>6. ASSUME NEW k \in 1 .. n - 1
      PROVE  /\ FrameOK(frames'[k]) /\ (k > 1 => ~ByException(frames'[k]))
             /\ InHandler(frames'[k], Level(k)')
  <2>1. k \in 1 .. n /\ frames'[k] = frames[k]
    BY <1>1, <1>2
  <2>2. FrameOK(frames[k]) /\ (k > 1 => ~ByException(frames[k])) /\ InHandler(frames[k], Level(k))
    BY <1>0, <2>1 DEF Chain
  <2>3. CASE k = n - 1
    <3>1. ~ByException(Top) /\ Top.regs["Status"] = IE
      BY <1>0, <1>1, <2>3 DEF FrameOK
    <3>2. InHandler(frames[k], Top)
      BY <1>3, <2>2, <2>3
    <3>3. InHandler(frames[k], Now')
      BY <1>4, <3>1, <3>2, HandlerSurvives
    <3>. QED  BY <1>3, <2>1, <2>2, <2>3, <3>3
  <2>4. CASE k # n - 1
    <3>1. k \in 0 .. n - 2
      BY <1>1, <2>4
    <3>. QED  BY <1>3, <2>1, <2>2, <3>1
  <2>. QED  BY <2>3, <2>4
<1>. QED  BY <1>0, <1>2, <1>5, <1>6 DEF Chain

\* The program or the last handler goes on.
LEMMA ChainGoesOn ==
  ASSUME Values, Chain, frames' = frames, program' = program,
         frames = <<>> => InProgram(Now'),
         frames # <<>> => InHandler(Top, Now')
  PROVE  Chain'
<1>0. PICK n : n = Len(frames)
  OBVIOUS
<1>1. n \in Nat /\ (frames = <<>> <=> n = 0)
  BY <1>0 DEF Values
<1>2. Level(n)' = Now' /\ \A k \in 0 .. n - 1 : Level(k)' = Level(k)
  BY <1>0, <1>1 DEF Level
<1>3. InProgram(Level(0))'
  <2>1. InProgram(Level(0)')
    <3>1. CASE n = 0  BY <1>1, <1>2, <3>1
    <3>2. CASE n # 0
      <4>1. 0 \in 0 .. n - 1
        BY <1>1, <3>2
      <4>. QED  BY <1>0, <4>1, <1>2 DEF Chain
    <3>. QED  BY <3>1, <3>2
  <2>. QED  BY <1>0, <2>1 DEF InProgram
<1>4. ASSUME NEW k \in 1 .. n
      PROVE  InHandler(frames[k], Level(k)')
  <2>1. CASE k = n
    <3>1. frames # <<>> /\ frames[k] = Top /\ Level(k)' = Now'
      BY <1>0, <1>1, <1>2, <2>1 DEF Top
    <3>. QED  BY <3>1
  <2>2. CASE k # n
    <3>1. k \in 0 .. n - 1
      BY <1>1, <2>2
    <3>. QED  BY <1>0, <1>2, <3>1 DEF Chain
  <2>. QED  BY <2>1, <2>2
<1>. QED  BY <1>0, <1>3, <1>4 DEF Chain

----------------------------------------------------------------------------
\* Init and each action establish the invariant.

\* The program starts without a handler.
LEMMA InitHolds ==
  ASSUME Init
  PROVE  KernelInv
<1>1. /\ regs \in [Regs -> Int] /\ regs["Status"] = IE
      /\ regs["clock_count"] = 0 /\ regs["Cause"] = 0
  <2>1. regs = [r \in Regs |-> CASE r \in General -> InitialValue[r]
                               [] r = "Status" -> IE
                               [] OTHER -> 0]
    BY DEF Init
  <2>2. \A r \in General : InitialValue[r] \in Int
    BY DEF InitialValue, General, CallerSaved
  <2>3. /\ {"Status", "clock_count", "Cause"} \subseteq Regs \ General
        /\ IE \in Int
    BY DEF Regs, General, CallerSaved, Cop0, IE
  <2>. QED  BY <2>1, <2>2, <2>3
<1>2. program \in Seq(UserOps) /\ stack \in Seq(Int)
  BY KernelAssumption DEF Init
<1>3. InProgram(Now)
  BY <1>1, <1>2 DEF Init, InProgram, Now
<1>4. Chain
  BY <1>3 DEF Init, Chain, Level
<1>5. Clock
  BY <1>1 DEF Init, Clock, Counted
<1>6. Values
  <2>1. <<>> \in Seq(Frame)
    OBVIOUS
  <2>2. /\ program \in Programs /\ pc = 1 /\ stored = TRUE /\ rising = FALSE
        /\ frames = <<>> /\ accepted = 0 /\ pulses = 0 /\ softs = 0
    BY Zenon DEF Init
  <2>3. frames \in Seq(Frame) /\ stored \in BOOLEAN /\ rising \in BOOLEAN
    BY <2>1, <2>2, Zenon
  <2>. QED  BY <2>2, <2>3, KernelAssumption DEF Values
<1>. QED  BY <1>4, <1>5, <1>6 DEF KernelInv

\* A pulse of the timer is stored, and still to be counted.
LEMMA PulseKeeps ==
  ASSUME KernelInv, Pulse
  PROVE  KernelInv'
<1>1. Now' = Now /\ \A k : Level(k)' = Level(k)
  BY DEF Pulse, Now, Level
<1>2. Chain'
  BY <1>1 DEF KernelInv, Chain, InProgram, Pulse
<1>3. Clock'
  BY DEF KernelInv, Values, Clock, Top, Pulse
<1>4. Values'
  BY KernelAssumption DEF KernelInv, Values, Pulse
<1>. QED  BY <1>2, <1>3, <1>4 DEF KernelInv

\* Where an interrupt may be taken, those before it have been counted.
LEMMA Interruptible ==
  ASSUME KernelInv, regs["Status"] = IE
  PROVE  Counted(regs, accepted)
<1>1. CASE frames # <<>> /\ ~ByException(Top)
  <2>. DEFINE i == pc - IntVector
  <2>1. InInt(Top, i, regs, stack) /\ IntClock(Top, i, regs, accepted) /\ accepted \in Nat
    BY <1>1, HandlerRuns DEF KernelInv, Clock, Values
  <2>2. i \in 31 .. 40
    BY <2>1 DEF InInt, IntOthers, IE, EXL
  <2>. QED  BY <2>1, <2>2 DEF IntClock, Counted
<1>2. CASE ~(frames # <<>> /\ ~ByException(Top))
  BY <1>2 DEF KernelInv, Clock
<1>. QED  BY <1>1, <1>2

\* The values of Cause that a handler may be entered with.
LEMMA CauseSplits ==
  ASSUME NEW c \in Int
  PROVE  /\ Pending(c) \in 0 .. 3 /\ Pending(c) % 2 = c % 2
         /\ IsSet(c, CLOCK) <=> c % 2 = 1
         /\ c % 2 = 0 => Pending(c) + 1 \in 0 .. 3 /\ (Pending(c) + 1) % 2 = 1
         /\ \A p \in 0 .. 3, n \in {SYSCALL, TRAP} : /\ Code(p + 4 * n) = n /\ Code(p) = 0
                                                     /\ (p + 4 * n) % 2 = p % 2
  BY SMT DEF Pending, IsSet, CLOCK, Code, SYSCALL, TRAP

\* An interrupt is taken: its handler finds the context it has to keep.
LEMMA TakeInterruptKeeps ==
  ASSUME KernelInv, TakeInterrupt, Rises
  PROVE  KernelInv'
<1>. DEFINE clock == IF stored THEN 1 ELSE 0
            cause == Pending(regs["Cause"]) + clock
            F     == Interrupted(pc, regs["v0"], cause)
<1>0. Values /\ Chain /\ Clock
  BY DEF KernelInv
<1>1. regs["Status"] = IE /\ regs \in [Regs -> Int] /\ stack \in Seq(Int)
  BY <1>0, Numbers DEF TakeInterrupt, Interrupts, IntEnabled
<1>2. Counted(regs, accepted) /\ regs["Cause"] \in Int
  BY <1>1, Interruptible DEF Regs, Cop0
<1>3. /\ Take(IntVector, cause, F)
      /\ accepted' = accepted + clock /\ stored' = FALSE
  BY <1>2, CauseSplits DEF TakeInterrupt, Counted, CLOCK
<1>4. cause \in 0 .. 3 /\ (cause % 2 = 1 <=> stored) /\ Code(cause) = 0
  BY <1>2, CauseSplits DEF Counted
<1>5. /\ F.regs = regs /\ F.v0 = regs["v0"] /\ F.stack = stack /\ F.return = pc /\ F.cause = cause
      /\ F \in Frame
  <2>1. regs["v0"] \in Int
    BY <1>1 DEF Regs, General, CallerSaved
  <2>. QED  BY <1>0, <1>1, <1>4, <2>1 DEF Interrupted, Frame, Values
<1>. HIDE DEF F, cause, clock
<1>6. ~ByException(F) /\ FrameOK(F)
  BY <1>0, <1>1, <1>4, <1>5 DEF FrameOK, ByException, ByCall, Values, SYSCALL
<1>7. /\ regs' = [regs EXCEPT !["EPC"] = pc, !["Status"] = IE + EXL, !["Cause"] = cause]
      /\ pc' = IntVector + 1 /\ stack' = stack /\ frames' = Append(frames, F)
      /\ program' = program /\ pulses' = pulses /\ softs' = softs
  BY <1>1, <1>3 DEF Take
<1>r. /\ regs' \in [Regs -> Int] /\ regs'["Status"] = IE + EXL /\ regs'["EPC"] = pc
      /\ regs'["Cause"] = cause /\ regs'["clock_count"] = regs["clock_count"]
      /\ \A x \in General : regs'[x] = regs[x]
  <2>1. /\ "EPC" \in Regs /\ "Status" \in Regs /\ "Cause" \in Regs /\ "clock_count" \in Regs
        /\ \A x \in General : x \in Regs /\ x # "EPC" /\ x # "Status" /\ x # "Cause"
    BY DEF Regs, Cop0, General, CallerSaved
  <2>2. pc \in Int /\ IE + EXL \in Int /\ cause \in Int
    BY <1>0, <1>4 DEF Values, IE, EXL
  <2>. QED  BY <1>1, <1>7, <2>1, <2>2
<1>8. InHandler(F, Now')
  <2>1. IntRegs(F, 1, regs')
    BY <1>5, <1>r DEF IntRegs
  <2>2. IntOthers(F, 1, regs')
    BY <1>5, <1>r DEF IntOthers
  <2>3. InInt(F, 1, regs', stack')
    BY <1>5, <1>7, <1>r, <2>1, <2>2 DEF InInt, IntStack
  <2>4. pc' - IntVector = 1
    BY <1>7 DEF IntVector
  <2>. QED  BY <1>6, <2>3, <2>4 DEF InHandler, Now
<1>9. Chain'
  <2>1. /\ frames = <<>> => InProgram(F)
        /\ frames # <<>> => InHandler(Top, F)
    <3>1. /\ frames = <<>> => InProgram(Now)
          /\ frames # <<>> => InHandler(Top, Now)
      BY <1>0, ProgramRuns, HandlerRuns
    <3>. QED  BY <1>5, <3>1 DEF InProgram, InHandler, Now
  <2>. QED  BY <1>0, <1>6, <1>7, <1>8, <2>1, ChainGrows
<1>10. Clock'
  <2>1. IntClock(F, 1, regs', accepted')
    BY <1>0, <1>2, <1>3, <1>4, <1>5, <1>r DEF IntClock, ByClock, Counted, Values, clock
  <2>2. frames' # <<>> /\ Top' = F /\ pc' - IntVector = 1
    BY <1>0, <1>7 DEF Values, Top, IntVector
  <2>3. accepted' + (IF stored' THEN 1 ELSE 0) = pulses' + 1
    BY <1>0, <1>3, <1>7 DEF Clock, Values, clock
  <2>. QED  BY <1>6, <2>1, <2>2, <2>3 DEF Clock
<1>11. Values'
  <2>1. frames' \in Seq(Frame) /\ pc' \in Nat /\ accepted' \in Nat
    BY <1>0, <1>3, <1>5, <1>7 DEF Values, IntVector, clock
  <2>2. rising' \in BOOLEAN
    BY Zenon DEF Rises
  <2>. QED  BY <1>0, <1>3, <1>7, <2>1, <2>2 DEF Values
<1>. QED  BY <1>9, <1>10, <1>11 DEF KernelInv

\* Exceptions come from the program only.
LEMMA RaiseKeeps ==
  ASSUME KernelInv, frames = <<>>, pc <= Len(program), NEW n \in {SYSCALL, TRAP},
         Raise(n, IF n = SYSCALL THEN Result ELSE regs["v0"]), Rises
  PROVE  KernelInv'
<1>. DEFINE v0    == IF n = SYSCALL THEN Result ELSE regs["v0"]
            cause == Pending(regs["Cause"]) + 4 * n
            F     == Interrupted(pc + 1, v0, cause)
<1>0. Values /\ Chain /\ Clock
  BY DEF KernelInv
<1>1. InProgram(Now) /\ pc \in 1 .. Len(program) /\ Len(program) \in Nat
  BY <1>0, ProgramRuns
<1>2. regs["Status"] = IE /\ regs \in [Regs -> Int] /\ stack \in Seq(Int)
  BY <1>1 DEF InProgram, Now
<1>3. Counted(regs, accepted) /\ regs["Cause"] \in Int /\ regs["v0"] \in Int
  BY <1>2, Interruptible DEF Regs, Cop0, General, CallerSaved
<1>4. cause \in Nat /\ cause % 2 = 0 /\ Code(cause) = n /\ n # 0
  <2>1. Pending(regs["Cause"]) \in 0 .. 3 /\ Pending(regs["Cause"]) % 2 = 0
    BY <1>3, CauseSplits DEF Counted
  <2>2. n \in Nat /\ n # 0
    BY DEF SYSCALL, TRAP
  <2>3. Code(cause) = n /\ cause % 2 = 0
    BY <1>3, <2>1, CauseSplits
  <2>. QED  BY <2>1, <2>2, <2>3
<1>5. /\ F.regs = regs /\ F.v0 = v0 /\ F.stack = stack /\ F.return = pc + 1 /\ F.cause = cause
      /\ F \in Frame
  BY <1>1, <1>2, <1>3, <1>4 DEF Interrupted, Frame, Result
<1>6. /\ Take(Vector, cause, F)
      /\ accepted' = accepted /\ stored' = stored
  BY DEF Raise
<1>. HIDE DEF F, cause
<1>7. ByException(F) /\ Epc(F) = pc
  BY <1>1, <1>4, <1>5 DEF ByException, Epc
<1>8. FrameOK(F)
  BY <1>1, <1>2, <1>4, <1>5, <1>7 DEF FrameOK, ByCall
<1>9. /\ regs' = [regs EXCEPT !["EPC"] = pc, !["Status"] = IE + EXL, !["Cause"] = cause]
      /\ pc' = Vector + 1 /\ stack' = stack /\ frames' = Append(frames, F)
      /\ program' = program /\ pulses' = pulses /\ softs' = softs
  BY <1>2, <1>6 DEF Take
<1>r. /\ regs' \in [Regs -> Int] /\ regs'["Status"] = IE + EXL /\ regs'["EPC"] = pc
      /\ regs'["Cause"] = cause /\ regs'["clock_count"] = regs["clock_count"]
      /\ \A x \in General : regs'[x] = regs[x]
  <2>1. /\ "EPC" \in Regs /\ "Status" \in Regs /\ "Cause" \in Regs /\ "clock_count" \in Regs
        /\ \A x \in General : x \in Regs /\ x # "EPC" /\ x # "Status" /\ x # "Cause"
    BY DEF Regs, Cop0, General, CallerSaved
  <2>2. pc \in Int /\ IE + EXL \in Int /\ cause \in Int
    BY <1>1, <1>4 DEF IE, EXL
  <2>. QED  BY <1>2, <1>9, <2>1, <2>2
<1>10. InHandler(F, Now')
  <2>1. ExcRegs(F, 1, regs')
    <3>1. \A x \in General : ~(1 > ERestored[x])
      BY DEF ERestored, General, CallerSaved
    <3>. QED  BY <1>5, <1>r, <3>1 DEF ExcRegs
  <2>2. ExcOthers(F, 1, regs')
    BY <1>5, <1>7, <1>r DEF ExcOthers
  <2>3. InExc(F, 1, regs', stack')
    BY <1>5, <1>9, <1>r, <2>1, <2>2 DEF InExc, ExcStack
  <2>4. pc' - Vector = 1
    BY <1>9 DEF Vector
  <2>. QED  BY <1>7, <2>3, <2>4 DEF InHandler, Now
<1>11. Chain'
  <2>1. InProgram(F)
    BY <1>1, <1>2, <1>5 DEF InProgram
  <2>. QED  BY <1>0, <1>8, <1>9, <1>10, <2>1, ChainGrows
<1>12. Clock'
  <2>1. Counted(regs', accepted')
    BY <1>3, <1>4, <1>6, <1>r DEF Counted
  <2>2. frames' # <<>> /\ Top' = F
    BY <1>0, <1>9 DEF Values, Top
  <2>. QED  BY <1>0, <1>6, <1>7, <1>9, <2>1, <2>2 DEF Clock
<1>13. Values'
  <2>1. frames' \in Seq(Frame) /\ pc' \in Nat
    BY <1>0, <1>5, <1>9 DEF Values, Vector
  <2>2. rising' \in BOOLEAN
    BY Zenon DEF Rises
  <2>. QED  BY <1>0, <1>6, <1>9, <2>1, <2>2 DEF Values
<1>. QED  BY <1>11, <1>12, <1>13 DEF KernelInv

\* No handler raises an exception.
LEMMA TakeExceptionKeeps ==
  ASSUME KernelInv, TakeException, Rises
  PROVE  KernelInv'
<1>0. Values /\ Chain
  BY DEF KernelInv
<1>1. Instruction.op \in {"syscall", "trap"}
  BY DEF TakeException
<1>2. frames = <<>>
  <2>. SUFFICES ASSUME frames # <<>> PROVE FALSE
    OBVIOUS
  <2>1. CASE ByException(Top)
    <3>1. \E i \in 1 .. 54 : Instruction = protected_exception_reg[i]
      BY <1>0, <2>1, HandlerRuns
    <3>. QED  BY <1>1, <3>1, ExceptionOps
  <2>2. CASE ~ByException(Top)
    <3>1. \E i \in 1 .. 59 : Instruction = protected_interrupt_reg[i]
      BY <1>0, <2>2, HandlerRuns
    <3>. QED  BY <1>1, <3>1, InterruptOps
  <2>. QED  BY <2>1, <2>2
<1>3. pc <= Len(program)
  BY <1>0, <1>1, <1>2, ProgramRuns DEF Plain, Instr
<1>4. \E n \in {SYSCALL, TRAP} : Raise(n, IF n = SYSCALL THEN Result ELSE regs["v0"])
  BY DEF TakeException, SYSCALL, TRAP
<1>. QED  BY <1>2, <1>3, <1>4, RaiseKeeps

----------------------------------------------------------------------------
\* A handler gives its context back.

\* A handler that returns has given everything back.
LEMMA EretReturns ==
  ASSUME KernelInv, Eret
  PROVE  /\ frames # <<>> /\ pc' = Top.return /\ stack' = Top.stack
         /\ regs' = [regs EXCEPT !["Status"] = IE]
         /\ \A r \in General : regs'[r] = IF r = "v0" THEN Top.v0 ELSE Top.regs[r]
         /\ regs'["Status"] = Top.regs["Status"] /\ Counted(regs, accepted)
<1>0. Values /\ Chain /\ Clock
  BY DEF KernelInv
<1>1. frames # <<>>
  <2>. SUFFICES ASSUME frames = <<>> PROVE FALSE
    OBVIOUS
  <2>. QED  BY <1>0, ProgramRuns DEF Eret, Plain, Instr, UserOps
<1>2. /\ regs \in [Regs -> Int] /\ accepted \in Nat
      /\ pc' = regs["EPC"] /\ stack' = stack /\ regs' = [regs EXCEPT !["Status"] = @ - EXL]
  BY <1>0, Numbers DEF Eret, Values
<1>3. /\ stack = Top.stack /\ regs["EPC"] = Top.return /\ regs["Status"] = IE + EXL
      /\ \A r \in General : regs[r] = IF r = "v0" THEN Top.v0 ELSE Top.regs[r]
      /\ Counted(regs, accepted)
  <2>1. CASE ByException(Top)
    <3>1. pc - Vector = 54 /\ InExc(Top, 54, regs, stack)
      BY <1>0, <1>1, <2>1, HandlerRuns, ExceptionOps DEF Eret
    <3>2. ExcStack(Top, 54, stack) /\ ExcRegs(Top, 54, regs) /\ ExcOthers(Top, 54, regs)
      BY <3>1 DEF InExc
    <3>3. \A r \in General : ERestored[r] < 54
      BY DEF ERestored, General, CallerSaved
    <3>. QED  BY <1>0, <2>1, <3>2, <3>3 DEF ExcStack, ExcRegs, ExcOthers, Clock, Returned
  <2>2. CASE ~ByException(Top)
    <3>. DEFINE i == pc - IntVector
    <3>1. i \in {18, 59} /\ InInt(Top, i, regs, stack)
      <4>1. i \in 1 .. 59 /\ InInt(Top, i, regs, stack) /\ protected_interrupt_reg[i].op = "eret"
        BY <1>0, <1>1, <2>2, HandlerRuns DEF Eret
      <4>. QED  BY <4>1, InterruptOps
    <3>2. IntClock(Top, i, regs, accepted) /\ Top.v0 = Top.regs["v0"]
      BY <1>0, <1>1, <2>2, HandlerRuns DEF Clock, FrameOK, ByCall, ByException, SYSCALL
    <3>. HIDE DEF i
    <3>3. IntStack(Top, i, stack) /\ IntRegs(Top, i, regs) /\ IntOthers(Top, i, regs)
      BY <3>1 DEF InInt
    <3>4. \A r \in General : /\ r \notin {"a0", "a1"} /\ i = 18 => i <= IWritten[r]
                             /\ i = 59 => i <= IWritten[r] \/ i > IRestored[r]
      BY DEF IRestored, IWritten, General, CallerSaved
    <3>5. \A r \in General : regs[r] = Top.regs[r]
      BY <3>1, <3>3, <3>4 DEF IntRegs, IntOthers
    <3>. QED  BY <1>2, <3>1, <3>2, <3>3, <3>5 DEF IntStack, IntOthers, IntClock, Counted
  <2>. QED  BY <2>1, <2>2
<1>4. Top.regs["Status"] = IE
  BY <1>0, <1>1, HandlerRuns DEF FrameOK
<1>5. "Status" \in Regs /\ "Status" \notin General /\ General \subseteq Regs
  BY DEF Regs, Cop0, General, CallerSaved
<1>6. regs' = [regs EXCEPT !["Status"] = IE]
  BY <1>2, <1>3 DEF IE, EXL
<1>7. \A r \in General : regs'[r] = regs[r]
  BY <1>2, <1>5, <1>6
<1>. QED  BY <1>1, <1>2, <1>3, <1>4, <1>5, <1>6, <1>7

\* What a handler that has been interrupted finds counted.
LEMMA CountedBelow ==
  ASSUME NEW F, NEW c, InHandler(F, c), ~ByException(F), c.regs["Status"] = IE,
         NEW n \in Nat, Counted(c.regs, n)
  PROVE  IntClock(F, c.return - IntVector, c.regs, n)
<1>. DEFINE i == c.return - IntVector
<1>1. i \in 31 .. 40
  BY DEF InHandler, InInt, IntOthers, IE, EXL
<1>. QED  BY <1>1 DEF IntClock, Counted

\* What it has interrupted goes on.
LEMMA EretKeeps ==
  ASSUME KernelInv, Eret, Rises
  PROVE  KernelInv'
<1>0. Values /\ Chain /\ Clock
  BY DEF KernelInv
<1>1. /\ frames # <<>> /\ pc' = Top.return /\ stack' = Top.stack
      /\ regs' = [regs EXCEPT !["Status"] = IE] /\ regs'["Status"] = Top.regs["Status"]
      /\ \A r \in General : regs'[r] = IF r = "v0" THEN Top.v0 ELSE Top.regs[r]
      /\ Counted(regs, accepted)
  BY EretReturns
<1>2. /\ frames' = SubSeq(frames, 1, Len(frames) - 1) /\ program' = program
      /\ UNCHANGED <<stored, accepted, pulses, softs>>
  BY DEF Eret
<1>3. Len(frames) \in Nat /\ Len(frames) >= 1 /\ FrameOK(Top) /\ regs \in [Regs -> Int]
  BY <1>0, <1>1, HandlerRuns, Numbers
<1>4. regs' \in [Regs -> Int] /\ Counted(regs', accepted')
  BY <1>1, <1>2, <1>3 DEF Counted, Regs, Cop0, IE
<1>5. ~ByException(Top) => \A x \in General : regs'[x] = Top.regs[x]
  BY <1>1, <1>3 DEF FrameOK, ByException, ByCall, SYSCALL
<1>6. Chain'
  BY <1>0, <1>1, <1>2, <1>4, <1>5, ChainShrinks
<1>7. Values'
  <2>1. frames' \in Seq(Frame) /\ pc' \in Nat
    BY <1>0, <1>1, <1>2, <1>3 DEF Values, FrameOK
  <2>2. rising' \in BOOLEAN
    BY Zenon DEF Rises
  <2>. QED  BY <1>0, <1>2, <2>1, <2>2 DEF Values
<1>8. Clock'
  <2>1. ASSUME frames' # <<>>, ~ByException(Top')
        PROVE  IntClock(Top', pc' - IntVector, regs', accepted')
    <3>1. Len(frames') \in Nat /\ Len(frames') \in 1 .. Len(frames')
      BY <1>7, <2>1 DEF Values
    <3>2. InHandler(Top', Now')
      BY <1>6, <3>1 DEF Chain, Level, Top
    <3>3. Now'.regs = regs' /\ Now'.return = pc' /\ regs'["Status"] = IE /\ accepted' \in Nat
      BY <1>1, <1>3, <1>7 DEF Now, FrameOK, Values
    <3>. QED  BY <1>4, <2>1, <3>2, <3>3, CountedBelow
  <2>. QED  BY <1>0, <1>2, <1>4, <2>1 DEF Clock
<1>. QED  BY <1>6, <1>7, <1>8 DEF KernelInv

----------------------------------------------------------------------------
\* An instruction of the program, or of the last handler.

\* The program goes on.
LEMMA ProgramStep ==
  ASSUME KernelInv, Execute, frames = <<>>
  PROVE  InProgram(Now') /\ Counted(regs', accepted)
<1>0. Values /\ Chain /\ Clock
  BY DEF KernelInv
<1>1. /\ InProgram(Now) /\ pc \in 1 .. Len(program) + 1 /\ Len(program) \in Nat
      /\ Instruction = Plain(IF pc <= Len(program) THEN program[pc] ELSE "again")
      /\ pc <= Len(program) => program[pc] \in UserOps
  BY <1>0, ProgramRuns
<1>2. regs \in [Regs -> Int] /\ regs["Status"] = IE /\ stack \in Seq(Int)
  BY <1>1 DEF InProgram, Now
<1>3. Counted(regs, accepted) /\ regs["Cause"] \in Int
  BY <1>0, <1>2 DEF Clock, Regs, Cop0
<1>4. Instruction.op \notin Functions \cup {"return"}
  BY <1>1 DEF Plain, Instr, UserOps, Functions
<1>5. LET i == Instruction IN (Compute(i) \/ Stack(i) \/ Jump(i)) /\ pc' = NextPc(i)
  BY <1>4, Does
<1>6. CASE pc <= Len(program) /\ program[pc] = "soft"
  <2>. DEFINE v == IF IsSet(regs["Cause"], SOFT) THEN regs["Cause"] ELSE regs["Cause"] + SOFT
  <2>1. Instruction = Instr("soft", "Cause", "Cause", 0)
    BY <1>1, <1>6 DEF Plain
  <2>2. regs' = [regs EXCEPT !["Cause"] = v] /\ stack' = stack /\ pc' = pc + 1
    BY <1>5, <2>1 DEF Compute, Stack, Jump, ValueOf, NextPc, Instr
  <2>3. v \in Int /\ v % 2 = 0
    BY <1>3 DEF Counted, SOFT
  <2>. HIDE DEF v
  <2>4. /\ regs' \in [Regs -> Int] /\ regs'["Status"] = IE /\ regs'["Cause"] = v
        /\ regs'["clock_count"] = regs["clock_count"]
    BY <1>2, <2>2, <2>3 DEF Regs, Cop0
  <2>. QED  BY <1>0, <1>1, <1>2, <1>3, <1>6, <2>2, <2>3, <2>4 DEF InProgram, Now, Counted, Execute
<1>7. CASE ~(pc <= Len(program) /\ program[pc] = "soft")
  <2>1. /\ regs' = regs /\ stack' = stack /\ pc' \in {1, pc + 1}
        /\ pc' = pc + 1 => pc <= Len(program)
    <3>1. Instruction.op \in {"nop", "again", "syscall", "trap"}
      BY <1>1, <1>7 DEF Plain, Instr, UserOps
    <3>2. Instruction.op = "again" \/ pc <= Len(program)
      BY <1>1 DEF Plain, Instr
    <3>3. regs' = regs /\ stack' = stack /\ pc' = NextPc(Instruction)
      BY <1>5, <3>1 DEF Compute, Stack, Jump
    <3>4. pc' = IF Instruction.op = "again" THEN 1 ELSE pc + 1
      BY <3>1, <3>3 DEF NextPc
    <3>. QED  BY <1>1, <3>2, <3>3, <3>4
  <2>. QED  BY <1>1, <1>2, <1>3, <2>1 DEF InProgram, Now, Execute
<1>. QED  BY <1>6, <1>7

\* An instruction is executed.
LEMMA ExecuteKeeps ==
  ASSUME KernelInv, Execute, Rises
  PROVE  KernelInv'
<1>0. Values /\ Chain /\ Clock
  BY DEF KernelInv
<1>1. /\ frames' = frames /\ program' = program
      /\ UNCHANGED <<stored, accepted, pulses>>
  BY DEF Execute
<1>2. softs' \in 0 .. MaxSoft
  BY <1>0, KernelAssumption
     DEF Values, Execute, Compute, Stack, Enter, Return, Jump, Callback
<1>3. Typed
  BY <1>0, Numbers DEF Typed, Values
<1>4. ASSUME frames # <<>>, ByException(Top)
      PROVE  /\ InHandler(Top, Now') /\ Counted(regs', accepted) /\ pc' \in Nat
  <2>. DEFINE i == pc - Vector
  <2>1. /\ FrameOK(Top) /\ i \in 1 .. 54 /\ InExc(Top, i, regs, stack)
        /\ Instruction = protected_exception_reg[i] /\ Counted(regs, accepted)
    BY <1>0, <1>4, HandlerRuns DEF Clock
  <2>2. i \in 1 .. 53 /\ pc = Vector + i
    <3>1. protected_exception_reg[i].op # "eret"
      BY <2>1 DEF Execute, Compute, Stack, Enter, Return, Jump, Functions
    <3>2. i # 54
      BY <2>1, <3>1, ExceptionOps
    <3>. QED  BY <1>0, <2>1, <3>2 DEF Values, Vector
  <2>. HIDE DEF i
  <2>3. InExc(Top, pc' - Vector, regs', stack') /\ Counted(regs', accepted) /\ pc' \in Nat
    BY <1>3, <1>4, <2>1, <2>2, ExceptionStep, ExceptionCodeIs
  <2>. QED  BY <1>4, <2>3 DEF InHandler, Now
<1>5. ASSUME frames # <<>>, ~ByException(Top)
      PROVE  /\ InHandler(Top, Now') /\ IntClock(Top, pc' - IntVector, regs', accepted)
             /\ pc' \in Nat
  <2>. DEFINE i == pc - IntVector
  <2>1. /\ FrameOK(Top) /\ i \in 1 .. 59 /\ InInt(Top, i, regs, stack)
        /\ Instruction = protected_interrupt_reg[i] /\ IntClock(Top, i, regs, accepted)
    BY <1>0, <1>5, HandlerRuns DEF Clock
  <2>2. i \in 1 .. 58 /\ i # 18 /\ pc = IntVector + i
    <3>1. protected_interrupt_reg[i].op # "eret"
      BY <2>1 DEF Execute, Compute, Stack, Enter, Return, Jump, Functions
    <3>2. i # 18 /\ i # 59
      BY <2>1, <3>1, InterruptOps
    <3>. QED  BY <1>0, <2>1, <3>2 DEF Values, IntVector
  <2>. HIDE DEF i
  <2>3. /\ InInt(Top, pc' - IntVector, regs', stack') /\ pc' \in Nat
        /\ IntClock(Top, pc' - IntVector, regs', accepted)
    BY <1>3, <1>5, <2>1, <2>2, InterruptStep, InterruptCodeIs
  <2>. QED  BY <1>5, <2>3 DEF InHandler, Now
<1>6. ASSUME frames = <<>>
      PROVE  InProgram(Now') /\ Counted(regs', accepted) /\ pc' \in Nat
  BY <1>6, ProgramStep DEF InProgram, Now
<1>7. Chain'
  BY <1>0, <1>1, <1>4, <1>5, <1>6, ChainGoesOn
<1>8. Clock'
  <2>1. Top' = Top
    BY <1>1 DEF Top
  <2>. QED  BY <1>0, <1>1, <1>4, <1>5, <1>6, <2>1 DEF Clock
<1>9. Values'
  <2>1. pc' \in Nat
    BY <1>4, <1>5, <1>6
  <2>2. rising' \in BOOLEAN
    BY Zenon DEF Rises
  <2>. QED  BY <1>0, <1>1, <1>2, <2>1, <2>2 DEF Values
<1>. QED  BY <1>7, <1>8, <1>9 DEF KernelInv

----------------------------------------------------------------------------

\* Every step keeps the invariant.
LEMMA StepKeeps ==
  ASSUME KernelInv, [Next]_vars
  PROVE  KernelInv'
<1>1. CASE Pulse          BY <1>1, PulseKeeps
<1>2. CASE TakeInterrupt /\ Rises  BY <1>2, TakeInterruptKeeps
<1>3. CASE TakeException /\ Rises  BY <1>3, TakeExceptionKeeps
<1>4. CASE Eret /\ Rises           BY <1>4, EretKeeps
<1>5. CASE Execute /\ Rises        BY <1>5, ExecuteKeeps
<1>6. CASE UNCHANGED vars
  <2>1. Now' = Now /\ \A k : Level(k)' = Level(k)
    BY <1>6 DEF vars, Now, Level
  <2>2. Chain'
    BY <1>6, <2>1 DEF KernelInv, Chain, InProgram, vars
  <2>. QED  BY <1>6, <2>2 DEF KernelInv, Clock, Values, Top, vars
<1>. QED  BY <1>1, <1>2, <1>3, <1>4, <1>5, <1>6 DEF Next

\* In every reachable state a chain of frames leads from the program to the
\* handler that runs, and each handler has saved, or given back, what its
\* address says.
THEOREM KernelInvariant == Spec => []KernelInv
<1>1. Init => KernelInv
  BY InitHolds
<1>2. KernelInv /\ [Next]_vars => KernelInv'
  BY StepKeeps
<1>. QED  BY <1>1, <1>2, PTL DEF Spec

\* Registers and stack hold numbers.
THEOREM TypesHold == Spec => []TypeOK
<1>1. KernelInv => TypeOK
  <2>. SUFFICES ASSUME KernelInv PROVE TypeOK
    OBVIOUS
  <2>0. Values /\ Chain /\ Clock
    BY DEF KernelInv
  <2>1. accepted \in 0 .. MaxPulses + 1
    BY <2>0, KernelAssumption DEF Values, Clock
  <2>2. /\ regs \in [Regs -> Int] /\ regs["Status"] \in 0 .. IE + EXL /\ stack \in Seq(Int)
    BY <2>0, Numbers DEF IE, EXL
  <2>. QED  BY <2>0, <2>1, <2>2 DEF Values, TypeOK, Frame
<1>. QED  BY <1>1, KernelInvariant, PTL

\* Whatever interrupts, and wherever: a C function is called with what it is
\* declared with (main.cpp:15-17).
THEOREM ArgumentsHold == Spec => []ArgumentsArrive
<1>1. KernelInv => ArgumentsArrive
  <2>. SUFFICES ASSUME KernelInv PROVE ArgumentsArrive
    OBVIOUS
  <2>0. Values /\ Chain
    BY DEF KernelInv
  <2>1. CASE frames = <<>>
    <3>1. Instruction.op \notin Functions
      BY <2>0, <2>1, ProgramRuns DEF Plain, Instr, UserOps, Functions
    <3>. QED  BY <3>1 DEF ArgumentsArrive, Functions
  <2>2. CASE frames # <<>> /\ ByException(Top)
    <3>. DEFINE i == pc - Vector
    <3>1. /\ i \in 1 .. 54 /\ InExc(Top, i, regs, stack) /\ FrameOK(Top)
          /\ Instruction = protected_exception_reg[i]
      BY <2>0, <2>2, HandlerRuns
    <3>. HIDE DEF i
    <3>2. /\ Instruction.op # "interrupt_handler"
          /\ Instruction.op = "exception_handler" => i = 27
          /\ Instruction.op = "syscall_handler" => i = 30
      BY <3>1, ExceptionOps
    <3>3. CASE i = 27
      <4>1. regs["a0"] = Top.cause /\ regs["a1"] = Top.return - 1
        BY <2>2, <3>1, <3>3 DEF InExc, ExcOthers, Epc
      <4>. QED  BY <3>2, <3>3, <4>1 DEF ArgumentsArrive
    <3>4. CASE i = 30
      <4>1. regs["v0"] = Top.regs["v0"] /\ regs["a0"] = Top.regs["a0"]
        BY <3>1, <3>4 DEF InExc, ExcOthers
      <4>. QED  BY <3>2, <3>4, <4>1 DEF ArgumentsArrive
    <3>5. CASE i # 27 /\ i # 30
      BY <3>2, <3>5 DEF ArgumentsArrive
    <3>. QED  BY <3>3, <3>4, <3>5
  <2>3. CASE frames # <<>> /\ ~ByException(Top)
    <3>. DEFINE i == pc - IntVector
    <3>1. /\ i \in 1 .. 59 /\ InInt(Top, i, regs, stack)
          /\ Instruction = protected_interrupt_reg[i]
      BY <2>0, <2>3, HandlerRuns
    <3>. HIDE DEF i
    <3>2. /\ Instruction.op \notin {"exception_handler", "syscall_handler"}
          /\ Instruction.op = "interrupt_handler" => i = 38
      BY <3>1, InterruptOps
    <3>3. i = 38 => regs["a0"] = Top.cause
      BY <3>1 DEF InInt, IntOthers
    <3>. QED  BY <3>2, <3>3 DEF ArgumentsArrive
  <2>. QED  BY <2>1, <2>2, <2>3
<1>. QED  BY <1>1, KernelInvariant, PTL

\* No interrupt of the timer is lost by the count, and none is counted twice.
THEOREM ClockHolds == Spec => []ClockCounted
<1>1. KernelInv => ClockCounted
  BY DEF KernelInv, Clock, Counted, ClockCounted
<1>. QED  BY <1>1, KernelInvariant, PTL

\* A handler gives back the context it has interrupted, and after a system call
\* the result in $v0, whatever has interrupted the handler itself.
THEOREM ContextIsRestored == Spec => ContextRestored
<1>. DEFINE Restored ==
       Len(frames') < Len(frames) =>
         /\ pc' = Top.return /\ stack' = Top.stack
         /\ \A r \in General \cup {"Status"} :
              regs'[r] = IF r = "v0" THEN Top.v0 ELSE Top.regs[r]
<1>1. KernelInv /\ [Next]_vars => [Restored]_vars
  <2>. SUFFICES ASSUME KernelInv, Next PROVE Restored
    OBVIOUS
  <2>0. frames \in Seq(Frame)
    BY DEF KernelInv, Values
  <2>1. CASE Eret
    BY <2>1, EretReturns DEF General, CallerSaved
  <2>2. CASE ~Eret
    <3>1. frames' = frames \/ \E F : frames' = Append(frames, F)
      BY <2>2 DEF Next, Pulse, TakeInterrupt, TakeException, Raise, Take, Execute
    <3>2. ~(Len(frames') < Len(frames))
      BY <2>0, <3>1
    <3>. QED  BY <3>2
  <2>. QED  BY <2>1, <2>2
<1>. QED  BY <1>1, KernelInvariant, PTL DEF Spec, ContextRestored

=============================================================================
