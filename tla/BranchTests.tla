---------------------------- MODULE BranchTests ----------------------------
(***************************************************************************)
(* The test programs of the branches and jumps: beq, bne, j, jal, jr,      *)
(* jalr, bgezal, bltzal, bgez, bgtz, blez, bltz.                           *)
(*                                                                         *)
(* Such a program is a graph of blocks, each ending in a branch whose      *)
(* delay slot is a nop or, behind a branch that must not be taken, a load  *)
(* of a register the next block loads.  Blocks have even addresses: a call *)
(* in the block at a links a + 2, where the block behind its delay slot    *)
(* is.  The registers a block is written with are drawn when it is first   *)
(* reached.                                                                *)
(***************************************************************************)
EXTENDS TestProgram

CONSTANT Marks    \* the number of marks: 1024 to 8192 in the code

VARIABLES link,      \* the mark each mark branches to: a result of jl
          drawn,     \* the registers drawn for a mark, <<>> before
          visits     \* how often each mark has been reached

vars == <<program, link, drawn, visits>>

Linked  == {"beq", "bne", "j", "jal"}
Counted == {"bgezal", "bltzal"}
Calling == Counted \cup {"jalr", "jr"}
Walking == {"bgez", "bgtz", "blez", "bltz"}

BranchTest == Linked \cup Calling \cup Walking

MarkNo     == 0 .. Marks - 1
Mark(x)    == 8 * (x + 1)
After(x)   == Mark(x) + 2           \* behind the branch of a mark
Finally(x) == Mark(x) + 4           \* behind the second call of jr
Leaf(x)    == Mark(x) + 6           \* what that one calls
Begin      == 0
Wrong      == Mark(Marks) + 2
End        == Wrong + 2
No(i)      == End + 2 + 4 * i       \* the loop of branches that are not taken
Behind(i)  == No(i) + 2
Fixed(k)   == No(Marks) + 2 * k - 2 \* the branches between the two loops

Target == [equal |-> test \in Counted, not_equal |-> FALSE, checked |-> TRUE]

StackTop == 2^(H + 1)     \* 0x10110000
AT == 1                   \* the assembler's register

\* Words of memory at a constant address are reached through $at.
LoadCount  == <<IType("LUI", AT, 0, 1), IType("LW", 2, AT, 0)>>
StoreCount(r) == <<IType("LUI", AT, 0, 1), IType("SW", r, AT, 0)>>
CountOne   == LoadCount \o <<IType("ADDIU", 2, 2, 1)>> \o StoreCount(2)

Push(op, r) == <<IType(op, SP, SP, -BPW), IType("SW", r, SP, 0)>>
Pop(op, r)  == <<IType("LW", r, SP, 0), IType(op, SP, SP, BPW)>>

Jump(op)    == RType(op, 0, 0, 0)
JumpReg(r)  == RType("JR", 0, r, 0)
NoJump      == Nop
Test(op, r) == RType(op, 0, r, 0)

----------------------------------------------------------------------------
\* A block: its code, then its branch, to one address or the other.
Block(code, branch, to, other) ==
  /\ Write([code |-> code, branch |-> branch, to |-> to, other |-> other])
  /\ Goto("walk") /\ UNCHANGED <<calls, link>>

At(places) == at = "walk" /\ cpu.pc \in places

Arrive(x) == visits' = [visits EXCEPT ![x] = @ + 1]
Stay      == UNCHANGED <<drawn, visits>>

Draws(x, regs) == drawn' = [drawn EXCEPT ![x] = regs]

\* What a program does before its first mark.
Enter ==
  /\ At({Begin})
  /\ CASE test = "beq" ->
            Block(FlattenSeq([r \in 1 .. NReg - 1 |-> Li(r, r)]),
                  RType("BEQ", 0, 0, 0), Mark(link[0]), Wrong)
       [] test = "bne" -> Block(ClearReg, NoJump, 0, Mark(0))
       [] test = "j"   -> Block(ClearReg, Jump("J"), Mark(link[0]), Wrong)
       [] test = "jal" -> Block(ClearReg, Jump("JAL"), Mark(link[0]), Wrong)
       [] test \in {"jr", "jalr"} ->
            Block(ClearReg \o Li(SP, StackTop), NoJump, 0, Mark(0))
       [] test \in Counted ->
            Block(Li(SP, StackTop) \o StoreCount(0), NoJump, 0, No(0))
       [] OTHER -> Block(<<>>, NoJump, 0, No(0))
  /\ Stay

----------------------------------------------------------------------------
\* beq, bne: compare two registers and branch.  When they were not as they must
\* be, load them so that the next time they are.

beq == [ op |-> "BEQ", sure |-> [r \in Reg |-> 1] ]
bne == [ op |-> "BNE", sure |-> [r \in Reg |-> 2^r] ]

CompareAndBranch(branch) ==
  \E x \in MarkNo :
    /\ At({Mark(x)})
    /\ IF link[x] = link[0] THEN Block(<<>>, Jump("J"), End, Wrong) /\ UNCHANGED drawn
       ELSE \E r \in IF drawn[x] = <<>> THEN Registers(2, {}) ELSE {drawn[x]} :
              /\ Block(<<>>, RType(branch.op, 0, r[1], r[2]), Mark(link[x]), After(x))
              /\ Draws(x, r)
    /\ Arrive(x)

MakeSure(branch) ==
  \E x \in MarkNo :
    /\ At({After(x)})
    /\ LET load(r) == Li(r, branch.sure[r])
       IN  Block(load(drawn[x][1]) \o load(drawn[x][2]), NoJump, 0,
                 IF x = Marks - 1 THEN End ELSE Mark(x + 1))
    /\ Stay

LinkMarks ==
  \/ test = "beq" /\ (CompareAndBranch(beq) \/ MakeSure(beq))
  \/ test = "bne" /\ (CompareAndBranch(bne) \/ MakeSure(bne))

\* j counts the marks, and jal spreads the addresses linked.
Onward(x) == IF link[x] = link[0] THEN End ELSE Mark(link[x])

j ==
  \E x \in MarkNo :
    /\ At({Mark(x)}) /\ test = "j"
    /\ Block(<<IType("ADDIU", 4, 4, 1)>>, Jump("J"), Onward(x), Wrong)
    /\ Arrive(x) /\ UNCHANGED drawn

jal ==
  \E x \in MarkNo, r \in Registers(2, {}) :
    /\ At({Mark(x)}) /\ test = "jal"
    /\ Block(<<RType("ADDU", r[1], RA, r[2])>>, Jump("JAL"), Onward(x), Wrong)
    /\ Arrive(x) /\ UNCHANGED drawn

----------------------------------------------------------------------------
\* jr, jalr: mark x calls mark x + 1, and behind the call returns.  What is
\* drawn for a mark is where jalr leaves the return address of the next one.

AddSome(exclude) ==
  {<<IType("ADDI", r[1], r[2], v)>> : r \in Registers(2, exclude), v \in Choice(-(2^(H - 1)), 2^(H - 1))}
OrSome(exclude) ==
  {<<IType("ORI", r[1], r[2], v)>> : r \in Registers(2, exclude), v \in Choice(0, 2^H)}

\* Mutant: a mark returns through the register of its own call.
SavedInOwn(x) == IF x = 0 \/ drawn[x] = <<>> THEN 0 ELSE drawn[x][1]

SavedIn(x) == IF x = 0 THEN 0 ELSE drawn[x - 1][1]

\* The last mark calls no other.
jr ==
  \E x \in MarkNo, code \in AddSome({SP, RA}) :
    /\ At({Mark(x)}) /\ test = "jr"
    /\ LET all == code \o Push("ADDI", RA)
       IN  IF x = Marks - 1 THEN Block(all, NoJump, 0, After(x))
           ELSE Block(all, Jump("JAL"), Mark(x + 1), Wrong)
    /\ Arrive(x) /\ UNCHANGED drawn

jalr ==
  \E x \in MarkNo, code \in AddSome({SP}), r \in Registers(2, {SP}) :
    /\ At({Mark(x)}) /\ test = "jalr"
    /\ LET all == Push("ADDI", SavedIn(x)) \o code
       IN  IF x = Marks - 1 THEN Block(all, NoJump, 0, After(x)) /\ UNCHANGED drawn
           ELSE /\ Block(all \o Li(r[2], Mark(x + 1)), RType("JALR", r[1], r[2], 0), 0, Wrong)
                /\ Draws(x, r)
    /\ Arrive(x)

\* jr calls a leaf before it returns.
jrReturn ==
  \E x \in MarkNo :
    /\ test = "jr"
    /\ \/ /\ At({After(x)})
          /\ \E code \in OrSome({SP, RA}) : Block(code, Jump("JAL"), Leaf(x), Wrong)
       \/ At({Leaf(x)}) /\ Block(<<>>, JumpReg(RA), 0, Wrong)
       \/ /\ At({Finally(x)})
          /\ Block(Pop("ADDI", RA), IF x = 0 THEN Jump("J") ELSE JumpReg(RA), End, Wrong)
    /\ Stay

jalrReturn ==
  \E x \in MarkNo, code \in OrSome({SP}) :
    /\ At({After(x)}) /\ test = "jalr"
    /\ Block(code \o Pop("ADDI", SavedIn(x)),
             IF x = 0 THEN Jump("J") ELSE JumpReg(SavedIn(x)), End, Wrong)
    /\ Stay

----------------------------------------------------------------------------
\* The programs of one branch, in the order of their loops: the values it is not
\* taken for, registers and values at the ends of the range of which only the
\* last is taken, the values it is taken for, and the last one.  skip says in
\* which of the two loops $0 is skipped.

MinInt    == 2^(W - 1)
LastDrawn == NReg             \* stands for the last register of the loop
Negated(S) == {-v : v \in S}

bgez == [ op |-> "BGEZ", not_taken |-> Choice(MinInt, M), taken |-> Choice(0, MinInt),
          ends |-> << <<3, MinInt>>, <<3, MinInt - 1>> >>, skip |-> {1}, last |-> <<RA, 0>> ]
bgtz == [ op |-> "BGTZ", not_taken |-> Negated(Choice(0, MinInt + 1)),
          taken |-> Choice(1, MinInt + 1), ends |-> << <<3, 1>> >>,
          skip |-> {2}, last |-> <<RA, MinInt - 1>> ]
blez == [ op |-> "BLEZ", not_taken |-> Choice(1, MinInt),
          taken |-> Negated(Choice(0, MinInt + 1)), ends |-> << <<0, 0>> >>,
          skip |-> {1}, last |-> <<0, 0>> ]
bltz == [ op |-> "BLTZ", not_taken |-> Choice(0, MinInt), taken |-> Choice(MinInt, M),
          ends |-> << <<(Marks - 1) % NReg, 0>>, <<3, MinInt - 1>>, <<3, MinInt>> >>,
          skip |-> {2}, last |-> <<RA, M - 1>> ]
bgezal == [ op |-> "BGEZAL", not_taken |-> Choice(MinInt, M), taken |-> Choice(0, MinInt),
            ends |-> << <<LastDrawn, MinInt + 1>>, <<3, MinInt>>, <<3, MinInt - 1>> >>,
            skip |-> {}, last |-> <<RA, 0>> ]
bltzal == [ op |-> "BLTZAL", not_taken |-> Choice(1, MinInt), taken |-> Choice(MinInt, M),
            ends |-> << <<LastDrawn, 0>>, <<3, MinInt - 1>>, <<3, MinInt>> >>,
            skip |-> {}, last |-> <<RA, M - 1>> ]

Walks == [ bgez |-> bgez, bgtz |-> bgtz, blez |-> blez, bltz |-> bltz,
           bgezal |-> bgezal, bltzal |-> bltzal ]
Walk  == Walks[test]

Branch(r) == Test(Walk.op, r)

\* bgezal, bltzal: mark x calls mark x + 1 by a branch, and counts the returns.
CallOnSign ==
  \E x \in MarkNo :
    /\ At({Mark(x)}) /\ test \in Counted
    /\ \E r \in OneRegister({SP}), v \in Walk.taken :
         LET code == Push("ADDIU", RA) \o Li(r, v)
         IN  IF x = Marks - 1 THEN Block(code, NoJump, 0, After(x))
             ELSE Block(code, Branch(r), Mark(x + 1), After(x))
    /\ Arrive(x) /\ UNCHANGED drawn

ReturnCounting ==
  \E x \in MarkNo :
    /\ At({After(x)}) /\ test \in Counted
    /\ Block(Pop("ADDIU", RA) \o CountOne,
             IF x = 0 THEN Jump("J") ELSE JumpReg(RA), Mark(Marks), Wrong)
    /\ Stay

----------------------------------------------------------------------------
\* The loop of branches that are not taken.  $0 is skipped where it would be.
NotTakenLoop ==
  \E i \in MarkNo :
    /\ At({No(i)}) /\ test \in Walking \cup Counted
    /\ \E v \in Walk.not_taken :
         \/ /\ test \in Walking /\ UNCHANGED drawn
            /\ LET r == i % NReg
               IN  IF r = 0 /\ 1 \in Walk.skip THEN Block(<<>>, NoJump, 0, No(i + 1))
                   ELSE Block(Li(r, v), Branch(r), Wrong,
                              IF test = "bgtz" THEN Behind(i) ELSE No(i + 1))
         \/ \E r \in OneRegister({SP}) :
              /\ test \in Counted
              /\ Block(Li(r, v), Branch(r), Wrong, Behind(i))
              /\ Draws(Marks, IF i = Marks - 1 THEN <<r>> ELSE <<>>)
    /\ UNCHANGED visits

\* bgtz tries zero besides; bgezal and bltzal count.
NotTakenBehind ==
  \E i \in MarkNo :
    /\ At({Behind(i)})
    /\ IF test = "bgtz" THEN Block(Li(i % NReg, 0), Branch(i % NReg), Wrong, No(i + 1))
       ELSE Block(CountOne, NoJump, 0, No(i + 1))
    /\ Stay

TryEnds ==
  \E k \in 1 .. 3 :
    /\ At({Fixed(k)}) /\ test \in Walking \cup Counted
    /\ LET end  == Walk.ends[k]
           r    == IF end[1] = LastDrawn THEN drawn[Marks][1] ELSE end[1]
           code == Li(r, end[2])
       IN  IF k = Len(Walk.ends) THEN Block(code, Branch(r), Mark(0), Wrong)
           ELSE Block(code, Branch(r), Wrong, Fixed(k + 1))
    /\ Stay

\* The loop of branches that are taken, each to the next mark.
TakenLoop ==
  \E i \in MarkNo :
    /\ At({Mark(i)}) /\ test \in Walking
    /\ \E v \in Walk.taken :
         LET r == i % NReg
         IN  IF r = 0 /\ 2 \in Walk.skip THEN Block(<<>>, NoJump, 0, Mark(i + 1))
             ELSE Block(Li(r, v), Branch(r), Mark(i + 1), Wrong)
    /\ Arrive(i) /\ UNCHANGED drawn

TakeLast ==
  /\ At({Mark(Marks)}) /\ test \in Walking \cup Counted
  /\ Block(Li(Walk.last[1], Walk.last[2]), Branch(Walk.last[1]), End, Wrong)
  /\ Stay

----------------------------------------------------------------------------

\* What a program asserts at its end, and the assertion that always fails in
\* front of it.
Conclude ==
  /\ At({End, Wrong})
  /\ LET wrong(regs) ==
           IF cpu.pc = End THEN <<>>
           ELSE (IF test \in Counted THEN StoreCount(0) ELSE <<>>) \o AlwaysFail(regs)
     IN  \/ \E regs \in SysRegisters(EqualArgs(4, 0)) :
               test = "j" /\ Emit(wrong(regs) \o AssertEqual(4, Marks, regs))
         \/ \E regs \in SysRegisters(EqualArgs(2, 0)) :
               /\ test \in Counted
               /\ Emit(wrong(regs) \o LoadCount \o AssertEqual(2, 2 * Marks, regs))
         \/ \E regs \in Registers(2, {}) :
               test \notin Counted \cup {"j"} /\ Emit(wrong(regs))
  /\ Goto("last") /\ Stay /\ UNCHANGED <<link, calls>>

CheckAndEnd == Finish /\ Stay /\ UNCHANGED link

Run == RunPiece(Target) /\ Stay /\ UNCHANGED link

Stop == at = "done" /\ UNCHANGED vars

Init ==
  /\ Start([t \in BranchTest |-> "walk"], Leftover, NoData)
  /\ link \in IF test \in Linked THEN Jl(Marks) ELSE {[n \in MarkNo |-> n]}
  /\ drawn = [x \in 0 .. Marks |-> <<>>] /\ visits = [x \in MarkNo |-> 0]

Next ==
  \/ Enter \/ LinkMarks \/ j \/ jal
  \/ jr \/ jalr \/ jrReturn \/ jalrReturn \/ CallOnSign \/ ReturnCounting
  \/ NotTakenLoop \/ NotTakenBehind \/ TryEnds \/ TakenLoop \/ TakeLast
  \/ Conclude \/ CheckAndEnd \/ Run \/ Stop

Spec == Init /\ [][Next]_vars

----------------------------------------------------------------------------

TypeOK ==
  /\ ProgramOK /\ at \in {"walk", "run", "last", "done"}
  /\ link \in [MarkNo -> MarkNo] /\ visits \in [MarkNo -> 0 .. 3]
  /\ \A x \in 0 .. Marks : Range(drawn[x]) \subseteq Reg

\* A program ends: beq and bne reach a mark at most twice, for what they load
\* behind a branch that was not taken makes sure that it is the next time, and
\* the others reach a mark once, and have reached all of them at the end.
MarksReached ==
  /\ \A x \in MarkNo : visits[x] <= (IF test \in {"beq", "bne"} THEN 2 ELSE 1)
  /\ at = "done" /\ test \notin {"beq", "bne"} /\ bench.errors = {}
       => \A x \in MarkNo : visits[x] = 1

\* The stack of the calling programs: at every place the stack pointer is as
\* deep as the calls are, and each frame below holds the place behind the call
\* that made it, although every register but $sp is overwritten in between.
FramesIntact ==
  \A x \in MarkNo, more \in {0, 1} :
    LET depth == x + more
        places == IF more = 0 THEN {Mark(x)} ELSE {After(x), Finally(x), Leaf(x)}
    IN  At(places) /\ test \in Calling =>
          /\ cpu.gpr[SP] = StackTop - BPW * depth
          /\ \A y \in 1 .. depth - 1 :
               cpu.mem[(StackTop - BPW * (y + 1)) \div BPW] = After(y - 1)

\* The assertion that always fails is reached by no branch, but where a range of
\* bgtz.py:32 goes one too far.
AlarmsExplained == bench.errors # {} => test = "bgtz"

\* "compare random regstier ,and branch to random mark" (bne.py:25): a program
\* that has ended has executed the branch it is named for.
BranchExecuted ==
  at = "done" /\ test \in {"beq", "bne"} => \E x \in MarkNo : drawn[x] # <<>>

=============================================================================
