------------------------------- MODULE Build -------------------------------
(***************************************************************************)
(* How the test programs are made: generate_all.py runs every script of    *)
(* asm/generate in a thread of its own, at most Slots at a time, and counts *)
(* the scripts that succeed; a script writes one assembler file after the  *)
(* other and has tool\mips_compile.py make the images of each that the     *)
(* test bench loads.                                                       *)
(*                                                                         *)
(* Any command may fail.  A file is fresh when it has been made by this    *)
(* run of generate_all from a file that is fresh; others are left from an  *)
(* earlier run, or do not exist.                                           *)
(***************************************************************************)
EXTENDS Integers, FiniteSets, Sequences

CONSTANTS Scripts,      \* the files of asm/generate whose names have no "__"
          Slots,        \* the value of the semaphore: 8 in the code
          Gens,         \* the targets a script generates, in order
          Compiler(_),  \* what makes the images of a target: "mars", "kernel" or "mix"
          WithData      \* the targets that have Mars make an image of their data too

ASSUME BuildAssumption == IsFiniteSet(Scripts) /\ Slots \in Nat \ {0}

\* A script has a target, or several, which it shares with no other script.
Targets(s) == {Gens[s][k] : k \in DOMAIN Gens[s]}

ASSUME TargetAssumption ==
  /\ \A s \in Scripts : Gens[s] \in Seq(Targets(s)) /\ Len(Gens[s]) > 0
  /\ \A s, t \in Scripts : s # t => Targets(s) \cap Targets(t) = {}
  /\ \A s \in Scripts : \A t \in Targets(s) : Compiler(t) \in {"mars", "kernel", "mix"}

VARIABLES main,             \* what generate_all is at
          thread,           \* and each of its threads
          sem,              \* sem
          count_lock,       \* the threads that hold count_lock
          successed_count, failed_list,
          read,             \* what a thread has read of successed_count
          gen,              \* the gen a script is at
          cmd,              \* and its command, 0 when it writes the assembler file
          rc,               \* whether a script has succeeded
          fresh             \* the fresh files, as <<target, file>>

control == <<main, thread, sem, count_lock, successed_count, failed_list, read>>
script  == <<gen, cmd, rc, fresh>>
vars    == <<control, script>>

\* The commands that make the images of a target: each makes a file from another.
\* Mars makes the image of the text and the registers the program ends with, and
\* a second time, with option -d, the data.
Commands(t) ==
  LET from(source, files) == [k \in 1 .. Len(files) |-> [from |-> source, to |-> files[k]]]
  IN  CASE Compiler(t) = "mars"   -> from("s", IF t \in WithData THEN <<"text", "data">> ELSE <<"text">>)
        [] Compiler(t) = "kernel" -> from("s", <<"elf">>) \o from("elf", <<"ktext", "kdata">>)
        [] Compiler(t) = "mix"    ->
             from("s", <<"elf">>) \o from("elf", <<"text", "data", "ktext", "kdata">>)

\* What the test bench loads.
Images(t) == {Commands(t)[k].to : k \in DOMAIN Commands(t)} \ {"elf"}

Target(s) == Gens[s][gen[s]]

----------------------------------------------------------------------------
\* A script: gen.gen writes the assembler file, where the callback may raise.
GoOn(s) ==      \* to the next command, or gen, or the end
  LET last == cmd[s] = Len(Commands(Target(s)))
      over == last /\ gen[s] = Len(Gens[s])
  IN  /\ cmd' = [cmd EXCEPT ![s] = IF last THEN 0 ELSE @ + 1]
      /\ gen' = [gen EXCEPT ![s] = IF last /\ ~over THEN @ + 1 ELSE @]
      /\ thread' = [thread EXCEPT ![s] = IF over THEN "ended" ELSE @]
      /\ UNCHANGED rc

\* Mutant: a script that gives up exits with 0.
GiveUpSilently(s) ==
  thread' = [thread EXCEPT ![s] = "ended"] /\ UNCHANGED <<gen, cmd, rc>>

GiveUp(s) ==
  /\ thread' = [thread EXCEPT ![s] = "ended"] /\ rc' = [rc EXCEPT ![s] = FALSE]
  /\ UNCHANGED <<gen, cmd>>

Alone == UNCHANGED <<main, sem, count_lock, successed_count, failed_list, read>>

WriteAsm(s) ==
  /\ thread[s] = "script" /\ cmd[s] = 0
  /\ \/ fresh' = fresh \cup {<<Target(s), "s">>} /\ GoOn(s)
     \/ fresh' = fresh \ {<<Target(s), "s">>} /\ GiveUp(s)
  /\ Alone

\* A command makes its file, or fails and leaves what there is.  mips_compile
\* exits with -1 when Mars fails.  kernel_compile and mix_compile do not look at
\* what their commands return, nor do they return it.
Ignored(t) == Compiler(t) # "mars"

RunCommand(s) ==
  /\ thread[s] = "script" /\ cmd[s] # 0
  /\ LET t == Target(s)
         c == Commands(t)[cmd[s]]
     IN  \/ /\ fresh' = IF <<t, c.from>> \in fresh THEN fresh \cup {<<t, c.to>>}
                        ELSE fresh \ {<<t, c.to>>}
            /\ GoOn(s)
         \/ UNCHANGED fresh /\ IF Ignored(t) THEN GoOn(s) ELSE GiveUp(s)
  /\ Alone

----------------------------------------------------------------------------
\* new_target, around a script.
\* Mutant: a thread does not wait for the semaphore.
AcquireAlways(s) ==
  /\ thread[s] = "started"
  /\ sem' = sem - 1 /\ thread' = [thread EXCEPT ![s] = "script"]
  /\ UNCHANGED <<main, count_lock, successed_count, failed_list, read, script>>

Acquire(s) ==
  /\ thread[s] = "started" /\ sem > 0
  /\ sem' = sem - 1 /\ thread' = [thread EXCEPT ![s] = "script"]
  /\ UNCHANGED <<main, count_lock, successed_count, failed_list, read, script>>

\* Mutant: the result is counted without count_lock.
TakeLockUnheld(s) ==
  /\ thread[s] = "ended"
  /\ count_lock' = {s} /\ thread' = [thread EXCEPT ![s] = "locked"]
  /\ read' = [read EXCEPT ![s] = successed_count]
  /\ UNCHANGED <<main, sem, successed_count, failed_list, script>>

TakeLock(s) ==
  /\ thread[s] = "ended" /\ count_lock = {}
  /\ count_lock' = {s} /\ thread' = [thread EXCEPT ![s] = "locked"]
  /\ read' = [read EXCEPT ![s] = successed_count]
  /\ UNCHANGED <<main, sem, successed_count, failed_list, script>>

\* Mutant: a thread whose script has failed releases the semaphore here too.
CountResultReleasing(s) ==
  /\ thread[s] = "locked"
  /\ IF rc[s] THEN successed_count' = read[s] + 1 /\ UNCHANGED <<failed_list, sem>>
     ELSE failed_list' = failed_list \cup {s} /\ sem' = sem + 1 /\ UNCHANGED successed_count
  /\ count_lock' = count_lock \ {s} /\ thread' = [thread EXCEPT ![s] = "counted"]
  /\ UNCHANGED <<main, read, script>>

\* successed_count += 1 is more than one step of the interpreter.
CountResult(s) ==
  /\ thread[s] = "locked"
  /\ IF rc[s] THEN successed_count' = read[s] + 1 /\ UNCHANGED failed_list
     ELSE failed_list' = failed_list \cup {s} /\ UNCHANGED successed_count
  /\ count_lock' = count_lock \ {s} /\ thread' = [thread EXCEPT ![s] = "counted"]
  /\ UNCHANGED <<main, sem, read, script>>

\* Mutant: the slot of a failed script is not given back.
ReleaseSuccess(s) ==
  /\ thread[s] = "counted"
  /\ sem' = sem + (IF rc[s] THEN 1 ELSE 0) /\ thread' = [thread EXCEPT ![s] = "over"]
  /\ UNCHANGED <<main, count_lock, successed_count, failed_list, read, script>>

Release(s) ==
  /\ thread[s] = "counted"
  /\ sem' = sem + 1 /\ thread' = [thread EXCEPT ![s] = "over"]
  /\ UNCHANGED <<main, count_lock, successed_count, failed_list, read, script>>

\* The main thread starts all threads, waits for all, and prints the counts.
StartThread(s) ==
  /\ main = "starting" /\ thread[s] = "new"
  /\ thread' = [thread EXCEPT ![s] = "started"]
  /\ main' = IF \E x \in Scripts \ {s} : thread[x] = "new" THEN "starting" ELSE "joining"
  /\ UNCHANGED <<sem, count_lock, successed_count, failed_list, read, script>>

Join ==
  /\ main = "joining" /\ \A s \in Scripts : thread[s] = "over"
  /\ main' = "over"
  /\ UNCHANGED <<thread, sem, count_lock, successed_count, failed_list, read, script>>

Stop == main = "over" /\ UNCHANGED vars

Init ==
  /\ main = "starting" /\ thread = [s \in Scripts |-> "new"]
  /\ sem = Slots /\ count_lock = {} /\ successed_count = 0 /\ failed_list = {}
  /\ read = [s \in Scripts |-> 0]
  /\ gen = [s \in Scripts |-> 1] /\ cmd = [s \in Scripts |-> 0]
  /\ rc = [s \in Scripts |-> TRUE] /\ fresh = {}

ThreadStep(s) ==
  \/ WriteAsm(s) \/ RunCommand(s) \/ Acquire(s) \/ TakeLock(s) \/ CountResult(s) \/ Release(s)

Next == (\E s \in Scripts : StartThread(s) \/ ThreadStep(s)) \/ Join \/ Stop

\* Threads run, commands end, and the semaphore and the lock wake a waiter when
\* they are released; no thread waits twice, so weak fairness is enough.
Spec ==
  /\ Init /\ [][Next]_vars
  /\ WF_vars(\E s \in Scripts : StartThread(s)) /\ WF_vars(Join)
  /\ \A s \in Scripts : WF_vars(ThreadStep(s))

----------------------------------------------------------------------------

Running == {s \in Scripts : thread[s] \in {"script", "ended", "locked", "counted"}}

TypeOK ==
  /\ main \in {"starting", "joining", "over"}
  /\ thread \in [Scripts -> {"new", "started", "script", "ended", "locked", "counted", "over"}]
  /\ sem \in 0 .. Slots /\ count_lock \subseteq Scripts /\ failed_list \subseteq Scripts
  /\ successed_count \in Nat /\ read \in [Scripts -> Nat] /\ gen \in [Scripts -> Nat]
  /\ cmd \in [Scripts -> Nat] /\ rc \in [Scripts -> BOOLEAN]

\* At most as many scripts run as the semaphore allows, and what it has left is
\* what the others may still take.
SlotsKept == sem + Cardinality(Running) = Slots

\* What is printed is right: no thread's result is lost or counted twice, and
\* none is printed before all threads have ended.
CountsRight ==
  LET ok == {s \in Scripts : rc[s]}
  IN  main = "over" => successed_count = Cardinality(ok) /\ failed_list = Scripts \ ok

\* A script that is counted as a success has made the images of all its targets
\* anew, where the exit code of the compiler is passed on (mips_compile.py:79-80,
\* 87-88 and 95-96); kernel_compile.py and mix_compile.py ignore it.
SuccessIsFresh ==
  \A s \in Scripts : thread[s] = "over" /\ rc[s] =>
    \A k \in DOMAIN Gens[s] : Ignored(Gens[s][k]) \/
      \A f \in Images(Gens[s][k]) : <<Gens[s][k], f>> \in fresh

\* generate_all ends, however many scripts fail.
Ends == <>(main = "over")

=============================================================================
