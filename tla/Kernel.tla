------------------------------- MODULE Kernel -------------------------------
(***************************************************************************)
(* The entry and the exit of exceptions and interrupts in the kernel       *)
(* (c/kernel/crt0.s), executed one instruction at a time, while the timer   *)
(* interrupts at any of them.                                              *)
(*                                                                         *)
(* The handlers enable interrupts around the C functions they call, so a   *)
(* handler may be interrupted too; each keeps the context it interrupts in *)
(* a frame on the stack of the program.  The program and the C functions   *)
(* are taken for what they may do to this: a function keeps a word on the  *)
(* stack, and overwrites its argument area and what it need not preserve.  *)
(*                                                                         *)
(* Every value is an integer.  $t stands for $t0 to $t9, which are treated *)
(* alike; of Status there are IE and EXL, of Cause the pending bits of the *)
(* timer and of the software interrupts, and the code of the exception.    *)
(***************************************************************************)
EXTENDS Integers, Sequences

CONSTANTS Programs,    \* programs: sequences of UserOps, run again and again
          MaxPulses,   \* bound on the overflows of Count
          MaxSoft      \* bound on the software interrupts that C code raises

UserOps == {"nop", "syscall", "trap", "soft"}

\* The program at 1, the handlers behind it.
Vector    == 100
IntVector == 200

ASSUME KernelAssumption ==
  /\ \A p \in Programs : p \in Seq(UserOps) /\ p # <<>> /\ Len(p) < Vector
  /\ MaxPulses \in Nat /\ MaxSoft \in Nat

Functions == {"exception_handler", "syscall_handler", "interrupt_handler"}

VARIABLES
  program,
  pc,          \* the address of an instruction
  regs,        \* registers, coprocessor 0 and clock_count
  stack,       \* the words of the stack, the one at $sp first
  stored,      \* the timer's line in interrupt_storage
  rising,      \* the last instruction has raised the software interrupt
  frames,      \* what each active handler has interrupted
  accepted,    \* how many timer interrupts have been taken
  pulses, softs

vars == <<program, pc, regs, stack, stored, rising, frames, accepted, pulses, softs>>

CallerSaved == {"at", "v0", "v1", "a0", "a1", "a2", "a3", "t", "ra", "hi", "lo"}
General     == CallerSaved \cup {"s0"}
Cop0        == {"Status", "Cause", "EPC"}
Regs        == General \cup Cop0 \cup {"k0", "k1", "clock_count"}

IE == 1   EXL == 2
CLOCK == 1   SOFT == 2
SYSCALL == 8   TRAP == 13

\* Mutant: EXL does not disable interrupts.
IntEnabledInHandler == regs["Status"] % 2 = 1

IntEnabled    == regs["Status"] = IE
Pending(c)    == c % 4
Code(c)       == c \div 4
IsSet(c, bit) == (c \div bit) % 2 = 1

----------------------------------------------------------------------------
\* Instructions.

Instr(op, d, s, n) == [op |-> op, d |-> d, s |-> s, n |-> n]

Move(d, s)      == Instr("move", d, s, 0)        \* mfc0, mtc0, mflo, mthi, addu
Addi(d, n)      == Instr("addiu", d, d, n)
Andi(d, s, n)   == Instr("andi", d, s, n)
Clear(d, s, n)  == Instr("clear", d, s, n)       \* s without those bits
Blez(d, n)      == Instr("blez", d, d, n)        \* over the next n instructions
Bgtz(d, n)      == Instr("bgtz", d, d, n)
IsSyscall(d, s) == Instr("code", d, s, SYSCALL)  \* zero if Cause has that code
Plain(op)       == Instr(op, "Cause", "Cause", 0)
Call(f)         == <<Plain(f), Instr("return", f, f, 0)>>

Save(d, n) == Instr("sw", d, d, n)
Load(d, n) == Instr("lw", d, d, n)
Push(n)    == Instr("push", "k0", "k0", n)       \* $sp, by so many words
Pop(n)     == Instr("pop", "k0", "k0", n)

\* Where a frame keeps a register, in words from $sp.
Slot == [at |-> 4, v0 |-> 5, v1 |-> 6, a0 |-> 7, a1 |-> 8, a2 |-> 9, a3 |-> 10, t |-> 11,
         ra |-> 21, hi |-> 22, lo |-> 23, Status |-> 24, EPC |-> 25, s0 |-> 26]

SaveEach(rs) == [i \in DOMAIN rs |-> Save(rs[i], Slot[rs[i]])]
LoadEach(rs) == [i \in DOMAIN rs |-> Load(rs[i], Slot[rs[i]])]
SaveBy(k, r) == <<Move(k, r), Save(k, Slot[r])>>

\* Mutant: interrupts stay enabled while the context is restored.
DisableNothing == Plain("nop")

Disable == Andi("Status", "Status", EXL)

\* Mutant: Cause is read when interrupts are enabled again.
PassCauseLate ==
  <<Save("a1", Slot.a1), Move("a1", "EPC"), Save("a2", Slot.a2), Clear("k1", "k1", EXL),
    Move("Status", "k1"), Move("a2", "Cause")>>

\* EPC and Cause, the arguments of exception_handler; then interrupts are enabled.
PassCause ==
  <<Save("a1", Slot.a1), Move("a1", "EPC"), Save("a2", Slot.a2), Move("a2", "Cause"),
    Clear("k1", "k1", EXL), Move("Status", "k1")>>

protected_exception_reg ==
  <<Push(27)>> \o SaveBy("k1", "EPC") \o SaveBy("k1", "Status")
    \o SaveBy("k0", "lo") \o SaveBy("k0", "hi") \o PassCause
    \o SaveEach(<<"at", "v0", "v1", "a0", "a3", "t", "ra", "s0">>)
    \o <<IsSyscall("s0", "a2"), Blez("s0", 4), Move("a0", "a2")>>
    \o Call("exception_handler") \o <<Instr("j", "k0", "k0", 2)>> \o Call("syscall_handler")
    \o <<Disable, Blez("s0", 1), Load("v0", Slot.v0), Load("s0", Slot.s0)>>
    \o <<Load("k0", Slot.lo), Load("at", Slot.at), Move("lo", "k0"), Load("k0", Slot.hi)>>
    \o LoadEach(<<"v1", "a0", "a1", "a2", "a3">>) \o <<Move("hi", "k0")>>
    \o LoadEach(<<"t">>) \o <<Load("k1", Slot.EPC), Load("ra", Slot.ra), Addi("k1", 1)>>
    \o <<Move("EPC", "k1"), Load("k1", Slot.Status), Pop(27), Move("Status", "k1")>>
    \o <<Plain("eret")>>

\* The end of an interrupt that is the timer's only.
EndOfClock ==
  <<Clear("a0", "a0", CLOCK), Move("Cause", "a0"), Load("a0", Slot.a0), Load("a1", Slot.a1),
    Pop(26), Plain("eret")>>

CountClock ==
  <<Move("a1", "clock_count"), Addi("a1", 1), Move("clock_count", "a1")>>

\* Mutant: an interrupt of the timer with another is not counted.
CountClockAlone ==
  <<Andi("k0", "k1", CLOCK), Blez("k0", 5 + Len(EndOfClock)), Clear("k0", "k1", CLOCK),
    Bgtz("k0", 3 + Len(EndOfClock))>> \o CountClock \o EndOfClock

ClockInterrupt ==
  <<Andi("k0", "k1", CLOCK), Blez("k0", 5 + Len(EndOfClock))>> \o CountClock
    \o <<Clear("k0", "k1", CLOCK), Bgtz("k0", Len(EndOfClock))>> \o EndOfClock

protected_interrupt_reg ==
  <<Push(26), Save("a0", Slot.a0), Save("a1", Slot.a1), Move("a0", "Cause"),
    Andi("k1", "a0", CLOCK + SOFT)>> \o ClockInterrupt
    \o <<Clear("k0", "a0", CLOCK + SOFT), Move("Cause", "k0")>>
    \o SaveBy("k1", "EPC") \o SaveBy("k1", "Status") \o SaveBy("k0", "lo") \o SaveBy("k0", "hi")
    \o <<Clear("k1", "k1", EXL), Move("Status", "k1")>>
    \o SaveEach(<<"at", "v0", "v1", "a2", "a3", "t", "ra">>)
    \o Call("interrupt_handler") \o <<Disable>>
    \o <<Load("k0", Slot.lo), Load("at", Slot.at), Load("v0", Slot.v0), Move("lo", "k0"),
         Load("k0", Slot.hi)>>
    \o LoadEach(<<"v1", "a0", "a1", "a2", "a3", "t">>) \o <<Move("hi", "k0")>>
    \o <<Load("k1", Slot.EPC), Load("ra", Slot.ra), Move("EPC", "k1"), Load("k1", Slot.Status),
         Pop(26), Move("Status", "k1"), Plain("eret")>>

----------------------------------------------------------------------------
Instruction ==
  IF pc > IntVector THEN protected_interrupt_reg[pc - IntVector]
  ELSE IF pc > Vector THEN protected_exception_reg[pc - Vector]
  ELSE Plain(IF pc <= Len(program) THEN program[pc] ELSE "again")

Junk   == -2 * Len(frames)         \* what a C function leaves; unlike others on the stack
Result == 7                        \* what syscall_handler returns
Top    == frames[Len(frames)]

\* The context a handler has to give back, with the $v0 it has to leave, and the
\* Cause it is entered with.
Interrupted(return, v0, cause) ==
  [regs |-> regs, v0 |-> v0, stack |-> stack, return |-> return, cause |-> cause]

\* The timer, at any moment.  One more pulse before the last is accepted, or
\* in the cycle of the acceptance, changes nothing (interrupt_storage.sv:32).
Pulse ==
  /\ pulses < MaxPulses /\ ~stored
  /\ stored' = TRUE /\ pulses' = pulses + 1
  /\ UNCHANGED <<program, pc, regs, stack, rising, frames, accepted, softs>>

\* Instead of an instruction, an interrupt or an exception is taken.
Take(vector, cause, context) ==
  /\ pc' = vector + 1
  /\ regs' = [regs EXCEPT !["EPC"] = pc, !["Status"] = @ + EXL, !["Cause"] = cause]
  /\ frames' = Append(frames, context)
  /\ UNCHANGED <<program, stack, pulses, softs>>

Interrupts == IntEnabled /\ (stored \/ rising)

TakeInterrupt ==
  /\ Interrupts
  /\ LET clock == IF stored /\ ~IsSet(regs["Cause"], CLOCK) THEN CLOCK ELSE 0
         cause == Pending(regs["Cause"]) + clock
     IN  Take(IntVector, cause, Interrupted(pc, regs["v0"], cause))
  /\ accepted' = accepted + IF stored THEN 1 ELSE 0
  /\ stored' = FALSE

Raise(code, v0) ==
  /\ LET cause == Pending(regs["Cause"]) + 4 * code
     IN  Take(Vector, cause, Interrupted(pc + 1, v0, cause))
  /\ UNCHANGED <<stored, accepted>>

TakeException ==
  /\ ~Interrupts
  /\ \/ Instruction.op = "syscall" /\ Raise(SYSCALL, Result)
     \/ Instruction.op = "trap"    /\ Raise(TRAP, regs["v0"])

\* Instructions that write a register.
And(v, n) == (IF n % 2 = 1 THEN v % 2 ELSE 0) + (IF n >= 2 THEN (v % 4) - (v % 2) ELSE 0)

ValueOf(i) ==
  LET v == regs[i.s]
  IN  CASE i.op = "move"  -> v
        [] i.op = "addiu" -> v + i.n
        [] i.op = "andi"  -> And(v, i.n)
        [] i.op = "clear" -> v - And(v, i.n)
        [] i.op = "code"  -> IF Code(v) = i.n THEN 0 ELSE 1
        [] i.op = "soft"  -> IF IsSet(v, SOFT) THEN v ELSE v + SOFT
        [] i.op = "lw"    -> stack[i.n + 1]

Compute(i) ==
  /\ i.op \in {"move", "addiu", "andi", "clear", "code", "soft", "lw"}
  /\ regs' = [regs EXCEPT ![i.d] = ValueOf(i)]
  /\ UNCHANGED <<stack, softs>>

\* Instructions that write the stack or move its end.  A new word holds
\* anything, so zero.
Stack(i) ==
  /\ \/ i.op = "sw"   /\ stack' = [stack EXCEPT ![i.n + 1] = regs[i.s]]
     \/ i.op = "push" /\ stack' = [k \in 1 .. i.n |-> 0] \o stack
     \/ i.op = "pop"  /\ stack' = SubSeq(stack, i.n + 1, Len(stack))
  /\ UNCHANGED <<regs, softs>>

\* A callback may raise the software interrupt.
Callback(function, r) ==
  \/ regs' = r /\ UNCHANGED softs
  \/ /\ function = "exception_handler" /\ softs < MaxSoft /\ softs' = softs + 1
     /\ regs' = [r EXCEPT !["Cause"] = (@ % SOFT) + SOFT + 4 * Code(@)]

\* A C function is entered, and returns; it may be interrupted in between.
Overwritten(junk, v0) ==
  [r \in Regs |-> IF r = "v0" THEN v0 ELSE IF r \in CallerSaved THEN junk ELSE regs[r]]

Enter(i) ==
  /\ i.op \in Functions
  /\ stack' = [k \in 1 .. Len(stack) + 1 |-> IF k <= 5 THEN Junk ELSE stack[k - 1]]
  /\ Callback(i.op, Overwritten(Junk, Junk))
Return(i) ==
  /\ i.op = "return"
  /\ stack' = Tail(stack)
  /\ Callback(i.d, Overwritten(Junk - 1, IF i.d = "syscall_handler" THEN Result ELSE Junk - 1))

\* The address of the next instruction.
NextPc(i) ==
  CASE i.op = "blez" -> IF regs[i.s] <= 0 THEN pc + 1 + i.n ELSE pc + 1
    [] i.op = "bgtz" -> IF regs[i.s] > 0 THEN pc + 1 + i.n ELSE pc + 1
    [] i.op = "j"    -> pc + 1 + i.n
    [] i.op = "again" -> 1
    [] OTHER -> pc + 1

Jump(i) ==
  /\ i.op \in {"blez", "bgtz", "j", "again", "nop"}
  /\ UNCHANGED <<regs, stack, softs>>

Eret ==
  /\ ~Interrupts /\ Instruction.op = "eret"
  /\ pc' = regs["EPC"] /\ regs' = [regs EXCEPT !["Status"] = @ - EXL]
  /\ frames' = SubSeq(frames, 1, Len(frames) - 1)
  /\ UNCHANGED <<program, stack, stored, accepted, pulses, softs>>

Execute ==
  /\ ~Interrupts
  /\ LET i == Instruction
     IN  /\ Compute(i) \/ Stack(i) \/ Enter(i) \/ Return(i) \/ Jump(i)
         /\ pc' = NextPc(i)
  /\ UNCHANGED <<program, stored, frames, accepted, pulses>>

\* The pending bit rises, for the instruction behind the one that wrote it.
Rises == rising' = (IsSet(regs'["Cause"], SOFT) /\ ~IsSet(regs["Cause"], SOFT))

----------------------------------------------------------------------------
\* The program's registers differ.
InitialValue ==
  [at |-> 101, v0 |-> 102, v1 |-> 103, a0 |-> 104, a1 |-> 105, a2 |-> 106, a3 |-> 107,
   t |-> 108, ra |-> 109, hi |-> 110, lo |-> 111, s0 |-> 112]

\* __start has set Status and cleared Cause; an interrupt of the timer is stored,
\* for Count and Compare are equal from the reset until it has set Compare.
Init ==
  /\ program \in Programs /\ pc = 1
  /\ regs = [r \in Regs |->
               CASE r \in General -> InitialValue[r]
                 [] r = "Status" -> IE
                 [] OTHER -> 0]
  /\ stack = <<21, 22, 23, 24, 25>>
  /\ stored = TRUE /\ rising = FALSE
  /\ frames = <<>> /\ accepted = 0 /\ pulses = 0 /\ softs = 0

Next ==
  \/ Pulse
  \/ (TakeInterrupt \/ TakeException \/ Eret \/ Execute) /\ Rises

Spec == Init /\ [][Next]_vars

----------------------------------------------------------------------------
\* Registers and stack hold numbers, and a handler runs in a context it has
\* interrupted (crt0.s:49-242).
TypeOK ==
  /\ program \in Programs /\ pc \in Nat
  /\ regs \in [Regs -> Int] /\ regs["Status"] \in 0 .. IE + EXL
  /\ stack \in Seq(Int)
  /\ stored \in BOOLEAN /\ rising \in BOOLEAN
  /\ frames \in Seq([regs : [Regs -> Int], v0 : Int, stack : Seq(Int), return : Nat, cause : Nat])
  /\ accepted \in 0 .. MaxPulses + 1 /\ pulses \in 0 .. MaxPulses /\ softs \in 0 .. MaxSoft

\* A handler gives back every register but $k0 and $k1, the stack and Status
\* as it has found them, goes on with the next instruction after an exception,
\* and leaves the result of a system call in $v0, whatever has interrupted it
\* (crt0.s:104, "because syscall put return value value in $v0").
ContextRestored ==
  [][Len(frames') < Len(frames) =>
       /\ pc' = Top.return /\ stack' = Top.stack
       /\ \A r \in General \cup {"Status"} : regs'[r] = IF r = "v0" THEN Top.v0 ELSE Top.regs[r]]_vars

\* A C function is called with what it is declared with (main.cpp:15-17): Cause
\* and EPC of its own exception, what the program has put into $a0 and $v0, or
\* the interrupts that are pending.
ArgumentsArrive ==
  LET f == Instruction.op
  IN  /\ f = "exception_handler" => regs["a0"] = Top.cause /\ regs["a1"] = Top.return - 1
      /\ f = "syscall_handler"   => \A r \in {"v0", "a0"} : regs[r] = Top.regs[r]
      /\ f = "interrupt_handler" => regs["a0"] = Top.cause

\* While no handler runs, clock_count is the number of timer interrupts that
\* have been taken (crt0.s:153-156).
ClockCounted == frames = <<>> => regs["clock_count"] = accepted

=============================================================================
