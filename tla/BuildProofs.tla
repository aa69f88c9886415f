---------------------------- MODULE BuildProofs ----------------------------
(***************************************************************************)
(* Theorems about the build (Build), for every set of scripts and every    *)
(* value of the semaphore: it runs no more scripts at a time than it       *)
(* should, no result is lost, and a success has made all its files.        *)
(*                                                                         *)
(* A thread goes through its states in one direction, so what is counted   *)
(* is a function of where the threads are.  A thread adds 1 to a value it  *)
(* has read before; the lock makes sure that this is still the value.      *)
(***************************************************************************)
EXTENDS Build, FiniteSetTheorems, TLAPS

\* Where the threads are explains the other variables.
Typed ==
  /\ main \in {"starting", "joining", "over"}
  /\ thread \in [Scripts -> {"new", "started", "script", "ended", "locked", "counted", "over"}]
  /\ sem \in Nat /\ successed_count \in Nat /\ read \in [Scripts -> Nat]
  /\ gen \in [Scripts -> Nat] /\ cmd \in [Scripts -> Nat] /\ rc \in [Scripts -> BOOLEAN]

LockHeld ==
  /\ count_lock = {s \in Scripts : thread[s] = "locked"}
  /\ \A s, t \in Scripts : thread[s] = "locked" /\ thread[t] = "locked" => s = t

ReadCurrent == \A s \in Scripts : thread[s] = "locked" => read[s] = successed_count

Good == {s \in Scripts : thread[s] \in {"counted", "over"} /\ rc[s]}
Bad  == {s \in Scripts : thread[s] \in {"counted", "over"} /\ ~rc[s]}

CountSoFar == successed_count = Cardinality(Good) /\ failed_list = Bad

JoinedAll == main = "over" => \A s \in Scripts : thread[s] = "over"

IInv == Typed /\ SlotsKept /\ LockHeld /\ ReadCurrent /\ CountSoFar /\ JoinedAll

----------------------------------------------------------------------------
\* The sets of scripts are finite, so that adding a thread to one adds 1.

\* There are finitely many scripts in every state.
LEMMA SetsFinite == IsFiniteSet(Running) /\ IsFiniteSet(Good)
  BY BuildAssumption, FS_Subset DEF Running, Good

\* The invariant holds before generate_all has started a thread.
LEMMA InitInvariant == Init => IInv
<1> SUFFICES ASSUME Init PROVE IInv
  OBVIOUS
<1>1. Running = {} /\ Good = {} /\ Bad = {}
  BY DEF Init, Running, Good, Bad
<1>2. Cardinality({}) = 0
  BY FS_EmptySet
<1>3. Slots \in Nat
  BY BuildAssumption
<1>4. Typed
  BY <1>3 DEF Init, Typed
<1>5. SlotsKept
  BY <1>1, <1>2, <1>3 DEF Init, SlotsKept
<1>6. LockHeld /\ ReadCurrent /\ JoinedAll
  BY DEF Init, LockHeld, ReadCurrent, JoinedAll
<1>7. CountSoFar
  BY <1>1, <1>2 DEF Init, CountSoFar
<1>. QED  BY <1>4, <1>5, <1>6, <1>7 DEF IInv

\* What a step of a script leaves: the thread goes on or has ended, and a script
\* may only fail before that.
LEMMA ScriptStep ==
  ASSUME Typed, NEW s \in Scripts, WriteAsm(s) \/ RunCommand(s)
  PROVE  /\ thread[s] = "script" /\ Alone
         /\ \E p \in {"script", "ended"} : thread' = [thread EXCEPT ![s] = p]
         /\ \E ok \in BOOLEAN : rc' = [rc EXCEPT ![s] = ok]
         /\ gen' \in [Scripts -> Nat] /\ cmd' \in [Scripts -> Nat]
<1>1. thread[s] = "script" /\ Alone /\ (GoOn(s) \/ GiveUp(s))
  BY DEF WriteAsm, RunCommand
<1>2. CASE GoOn(s)
  <2>. DEFINE last == cmd[s] = Len(Commands(Target(s)))
              over == last /\ gen[s] = Len(Gens[s])
  <2>1. /\ cmd' = [cmd EXCEPT ![s] = IF last THEN 0 ELSE cmd[s] + 1]
        /\ gen' = [gen EXCEPT ![s] = IF last /\ ~over THEN gen[s] + 1 ELSE gen[s]]
        /\ thread' = [thread EXCEPT ![s] = IF over THEN "ended" ELSE thread[s]]
        /\ rc' = rc
    BY <1>2 DEF GoOn
  <2>. HIDE DEF last, over
  <2>2. cmd' \in [Scripts -> Nat] /\ gen' \in [Scripts -> Nat]
    BY <2>1 DEF Typed
  <2>3. \E p \in {"script", "ended"} : thread' = [thread EXCEPT ![s] = p]
    BY <1>1, <2>1
  <2>4. rc' = [rc EXCEPT ![s] = rc[s]] /\ rc[s] \in BOOLEAN
    BY <2>1 DEF Typed
  <2>. QED  BY <1>1, <2>2, <2>3, <2>4
<1>3. CASE GiveUp(s)
  BY <1>1, <1>3 DEF GiveUp, Typed
<1>. QED  BY <1>1, <1>2, <1>3

----------------------------------------------------------------------------
\* Every step keeps the invariant, one case for each action.

\* A step of a script keeps it.
LEMMA ScriptInvariant ==
  ASSUME IInv, NEW s \in Scripts, WriteAsm(s) \/ RunCommand(s)
  PROVE  IInv'
<1>1. PICK p \in {"script", "ended"} : thread' = [thread EXCEPT ![s] = p]
  BY ScriptStep DEF IInv
<1>2. PICK ok \in BOOLEAN : rc' = [rc EXCEPT ![s] = ok]
  BY ScriptStep DEF IInv
<1>3. /\ thread[s] = "script" /\ gen' \in [Scripts -> Nat] /\ cmd' \in [Scripts -> Nat]
      /\ UNCHANGED <<main, sem, count_lock, successed_count, failed_list, read>>
  BY ScriptStep DEF IInv, Alone
<1>4. Typed'
  BY <1>1, <1>2, <1>3 DEF IInv, Typed
<1>5. Running' = Running /\ Good' = Good /\ Bad' = Bad
  BY <1>1, <1>2, <1>3 DEF IInv, Typed, Running, Good, Bad
<1>6. SlotsKept' /\ CountSoFar'
  BY <1>3, <1>5 DEF IInv, SlotsKept, CountSoFar
<1>7. LockHeld' /\ ReadCurrent' /\ JoinedAll'
  BY <1>1, <1>3 DEF IInv, Typed, LockHeld, ReadCurrent, JoinedAll
<1>. QED  BY <1>4, <1>6, <1>7 DEF IInv

\* So does acquiring the semaphore,
LEMMA AcquireInvariant ==
  ASSUME IInv, NEW s \in Scripts, Acquire(s)
  PROVE  IInv'
<1>1. Typed'
  BY DEF IInv, Typed, Acquire, script
<1>2. SlotsKept'
  <2>1. Running' = Running \cup {s} /\ s \notin Running
    BY DEF IInv, Typed, Acquire, Running
  <2>2. Cardinality(Running') = Cardinality(Running) + 1
    BY <2>1, SetsFinite, FS_AddElement
  <2>3. Cardinality(Running) \in Nat
    BY SetsFinite, FS_CardinalityType
  <2>. QED  BY <2>2, <2>3 DEF IInv, Typed, SlotsKept, Acquire
<1>3. Good' = Good /\ Bad' = Bad
  BY DEF IInv, Typed, Acquire, script, Good, Bad
<1>4. CountSoFar'
  BY <1>3 DEF IInv, CountSoFar, Acquire
<1>5. LockHeld' /\ ReadCurrent' /\ JoinedAll'
  BY DEF IInv, Typed, LockHeld, ReadCurrent, JoinedAll, Acquire
<1>. QED  BY <1>1, <1>2, <1>4, <1>5 DEF IInv

\* taking count_lock and reading the count,
LEMMA TakeLockInvariant ==
  ASSUME IInv, NEW s \in Scripts, TakeLock(s)
  PROVE  IInv'
<1>1. Typed'
  BY DEF IInv, Typed, TakeLock, script
<1>2. Running' = Running /\ Good' = Good /\ Bad' = Bad
  BY DEF IInv, Typed, TakeLock, script, Running, Good, Bad
<1>3. SlotsKept' /\ CountSoFar'
  BY <1>2 DEF IInv, SlotsKept, CountSoFar, TakeLock
<1>4. \A t \in Scripts : thread[t] # "locked"
  BY DEF IInv, LockHeld, TakeLock
<1>5. LockHeld' /\ ReadCurrent' /\ JoinedAll'
  BY <1>4 DEF IInv, Typed, LockHeld, ReadCurrent, JoinedAll, TakeLock
<1>. QED  BY <1>1, <1>3, <1>5 DEF IInv

\* writing the count, or the name of what failed,
LEMMA CountInvariant ==
  ASSUME IInv, NEW s \in Scripts, CountResult(s)
  PROVE  IInv'
<1>1. /\ thread[s] = "locked" /\ thread' = [thread EXCEPT ![s] = "counted"]
      /\ count_lock' = count_lock \ {s}
      /\ UNCHANGED <<main, sem, read, gen, cmd, rc>>
  BY DEF CountResult, script
<1>2. successed_count' \in Nat
  BY DEF IInv, Typed, CountResult
<1>3. Typed'
  BY <1>1, <1>2 DEF IInv, Typed
<1>4. Running' = Running
  BY <1>1 DEF IInv, Typed, Running
<1>5. SlotsKept'
  BY <1>1, <1>4 DEF IInv, SlotsKept
<1>6. LockHeld' /\ ReadCurrent' /\ JoinedAll'
  BY <1>1 DEF IInv, Typed, LockHeld, ReadCurrent, JoinedAll
<1>7. CountSoFar'
  <2>1. read[s] = successed_count
    BY <1>1 DEF IInv, ReadCurrent
  <2>2. CASE rc[s]
    <3>1. Good' = Good \cup {s} /\ s \notin Good /\ Bad' = Bad
      BY <1>1, <2>2 DEF IInv, Typed, Good, Bad
    <3>2. Cardinality(Good') = Cardinality(Good) + 1
      BY <3>1, SetsFinite, FS_AddElement
    <3>. QED  BY <2>1, <2>2, <3>1, <3>2 DEF IInv, CountSoFar, CountResult
  <2>3. CASE ~rc[s]
    <3>1. Good' = Good /\ Bad' = Bad \cup {s}
      BY <1>1, <2>3 DEF IInv, Typed, Good, Bad
    <3>. QED  BY <2>3, <3>1 DEF IInv, CountSoFar, CountResult
  <2>. QED  BY <2>2, <2>3
<1>. QED  BY <1>3, <1>5, <1>6, <1>7 DEF IInv

\* releasing the semaphore,
LEMMA ReleaseInvariant ==
  ASSUME IInv, NEW s \in Scripts, Release(s)
  PROVE  IInv'
<1>1. Typed'
  BY DEF IInv, Typed, Release, script
<1>2. SlotsKept'
  <2>1. Running' = Running \ {s} /\ s \in Running
    BY DEF IInv, Typed, Release, Running
  <2>2. Cardinality(Running') = Cardinality(Running) - 1
    BY <2>1, SetsFinite, FS_RemoveElement
  <2>3. Cardinality(Running) \in Nat
    BY SetsFinite, FS_CardinalityType
  <2>. QED  BY <2>2, <2>3 DEF IInv, Typed, SlotsKept, Release
<1>3. Good' = Good /\ Bad' = Bad
  BY DEF IInv, Typed, Release, script, Good, Bad
<1>4. CountSoFar'
  BY <1>3 DEF IInv, CountSoFar, Release
<1>5. LockHeld' /\ ReadCurrent' /\ JoinedAll'
  BY DEF IInv, Typed, LockHeld, ReadCurrent, JoinedAll, Release
<1>. QED  BY <1>1, <1>2, <1>4, <1>5 DEF IInv

\* and what the main thread does: starting threads, joining them.
LEMMA MainInvariant ==
  ASSUME IInv, Join \/ \E s \in Scripts : StartThread(s)
  PROVE  IInv'
<1>1. CASE Join
  <2>1. Running' = Running /\ Good' = Good /\ Bad' = Bad
    BY <1>1 DEF Join, script, Running, Good, Bad
  <2>. QED
    BY <1>1, <2>1 DEF Join, script, IInv, Typed, SlotsKept, LockHeld, ReadCurrent, CountSoFar,
                      JoinedAll
<1>2. CASE \E s \in Scripts : StartThread(s)
  <2>1. PICK s \in Scripts : StartThread(s)
    BY <1>2
  <2>2. Typed'
    BY <2>1 DEF IInv, Typed, StartThread, script
  <2>3. Running' = Running /\ Good' = Good /\ Bad' = Bad
    BY <2>1 DEF IInv, Typed, StartThread, script, Running, Good, Bad
  <2>4. SlotsKept' /\ CountSoFar'
    BY <2>1, <2>3 DEF IInv, SlotsKept, CountSoFar, StartThread
  <2>5. LockHeld' /\ ReadCurrent' /\ JoinedAll'
    BY <2>1 DEF IInv, Typed, LockHeld, ReadCurrent, JoinedAll, StartThread
  <2>. QED  BY <2>2, <2>4, <2>5 DEF IInv
<1>. QED  BY <1>1, <1>2

\* Every step keeps the invariant.
LEMMA StepInvariant == IInv /\ [Next]_vars => IInv'
<1> SUFFICES ASSUME IInv, [Next]_vars PROVE IInv'
  OBVIOUS
<1>1. ASSUME NEW s \in Scripts, ThreadStep(s) PROVE IInv'
  BY <1>1, ScriptInvariant, AcquireInvariant, TakeLockInvariant, CountInvariant,
     ReleaseInvariant DEF ThreadStep
<1>2. CASE Join \/ \E s \in Scripts : StartThread(s)
  BY <1>2, MainInvariant
<1>3. CASE UNCHANGED vars
  <2>1. Running' = Running /\ Good' = Good /\ Bad' = Bad
    BY <1>3 DEF vars, control, script, Running, Good, Bad
  <2>. QED
    BY <1>3, <2>1 DEF vars, control, script, IInv, Typed, SlotsKept, LockHeld, ReadCurrent,
                      CountSoFar, JoinedAll
<1>. QED  BY <1>1, <1>2, <1>3 DEF Next, Stop

\* It holds in every reachable state.
LEMMA Invariant == Spec => []IInv
<1>1. Init => IInv  BY InitInvariant
<1>2. IInv /\ [Next]_vars => IInv'  BY StepInvariant
<1>. QED  BY <1>1, <1>2, PTL DEF Spec

----------------------------------------------------------------------------
\* At most as many scripts run as the semaphore allows, however many there are
\* and however they end (generate_all.py:15-29).
THEOREM SlotsAreKept == Spec => []SlotsKept
<1>1. IInv => SlotsKept  BY DEF IInv
<1>. QED  BY <1>1, Invariant, PTL

\* What generate_all prints is right: no thread overwrites the count of another
\* (generate_all.py:22-28), and none is left out (:39-43).
THEOREM CountsAreRight == Spec => []CountsRight
<1>1. IInv => CountsRight
  <2> SUFFICES ASSUME IInv, main = "over" PROVE
        /\ successed_count = Cardinality({s \in Scripts : rc[s]})
        /\ failed_list = Scripts \ {s \in Scripts : rc[s]}
    BY DEF CountsRight
  <2>1. Good = {s \in Scripts : rc[s]} /\ Bad = Scripts \ {s \in Scripts : rc[s]}
    BY DEF IInv, JoinedAll, Typed, Good, Bad
  <2>. QED  BY <2>1 DEF IInv, CountSoFar
<1>. QED  BY <1>1, Invariant, PTL

\* Every variable holds a value of its type; the semaphore is never negative and
\* never above its first value.
THEOREM BuildTypeCorrect == Spec => []TypeOK
<1>1. IInv => TypeOK
  <2> SUFFICES ASSUME IInv PROVE TypeOK
    OBVIOUS
  <2>1. Cardinality(Running) \in Nat
    BY SetsFinite, FS_CardinalityType
  <2>2. sem \in 0 .. Slots
    BY <2>1, BuildAssumption DEF IInv, Typed, SlotsKept
  <2>3. count_lock \subseteq Scripts /\ failed_list \subseteq Scripts
    BY DEF IInv, LockHeld, CountSoFar, Bad
  <2>. QED  BY <2>2, <2>3 DEF IInv, Typed, TypeOK
<1>. QED  BY <1>1, Invariant, PTL


----------------------------------------------------------------------------
\* The files.  A file that a script has made stays fresh while it goes on: only
\* the script makes it again, and when it fails to the script gives up.

MarsFiles(t) == IF t \in WithData THEN <<"text", "data">> ELSE <<"text">>

\* A target the compiler of which is not ignored, once it is made.
Made(t) == <<t, "s">> \in fresh /\ \A f \in Images(t) : <<t, f>> \in fresh

Ended == {"ended", "locked", "counted", "over"}

\* Where a script is: it works on one of its gens, at one of its commands.
AtGen ==
  \A s \in Scripts :
    /\ gen[s] \in 1 .. Len(Gens[s]) /\ cmd[s] \in 0 .. Len(Commands(Target(s)))
    /\ thread[s] \in {"new", "started"} => gen[s] = 1 /\ cmd[s] = 0

\* What it has made, as long as it has not failed.
FilesMade ==
  \A s \in Scripts : rc[s] =>
    /\ \A k \in 1 .. Len(Gens[s]) :
         k < gen[s] \/ thread[s] \in Ended => Ignored(Gens[s][k]) \/ Made(Gens[s][k])
    /\ cmd[s] > 0 /\ ~Ignored(Target(s)) =>
         /\ <<Target(s), "s">> \in fresh
         /\ \A j \in 1 .. cmd[s] - 1 : <<Target(s), Commands(Target(s))[j].to>> \in fresh

FilesInv == AtGen /\ FilesMade

\* The commands that make the images of a target are finitely many, and where their
\* results are looked at each makes its file from the assembler file.
LEMMA CommandFacts ==
  ASSUME NEW t, Compiler(t) \in {"mars", "kernel", "mix"}
  PROVE  /\ Len(Commands(t)) \in Nat /\ DOMAIN Commands(t) = 1 .. Len(Commands(t))
         /\ ~Ignored(t) => \A j \in 1 .. Len(Commands(t)) : Commands(t)[j].from = "s"
<1>. DEFINE from(source, files) == [k \in 1 .. Len(files) |-> [from |-> source, to |-> files[k]]]
            S == {[from |-> a, to |-> b] : a \in {"s", "elf"},
                                           b \in {"elf", "text", "data", "ktext", "kdata"}}
<1>1. /\ from("s", <<"elf">>) \in Seq(S) /\ from("elf", <<"ktext", "kdata">>) \in Seq(S)
      /\ from("elf", <<"text", "data", "ktext", "kdata">>) \in Seq(S)
  OBVIOUS
<1>2. CASE Compiler(t) = "mars"
  <2>. DEFINE files == MarsFiles(t)
  <2>1. Len(files) \in {1, 2} /\ files[1] = "text"
    BY DEF MarsFiles
  <2>2. Commands(t) = [k \in 1 .. Len(files) |-> [from |-> "s", to |-> files[k]]]
    BY <1>2 DEF Commands, MarsFiles
  <2>. HIDE DEF files
  <2>3. Len(Commands(t)) = Len(files) /\ DOMAIN Commands(t) = 1 .. Len(files)
    BY <2>1, <2>2
  <2>4. \A j \in 1 .. Len(files) : Commands(t)[j].from = "s" /\ Commands(t)[j].to = files[j]
    BY <2>2
  <2>. QED  BY <2>1, <2>3, <2>4
<1>3. CASE Compiler(t) # "mars"
  <2>1. Ignored(t)
    BY <1>3 DEF Ignored
  <2>2. \/ Commands(t) = from("s", <<"elf">>) \o from("elf", <<"ktext", "kdata">>)
        \/ Commands(t) = from("s", <<"elf">>) \o from("elf", <<"text", "data", "ktext", "kdata">>)
    BY <1>3 DEF Commands
  <2>. HIDE DEF from, S
  <2>3. \A a, b \in Seq(S) : a \o b \in Seq(S)
    OBVIOUS
  <2>4. Commands(t) \in Seq(S)
    BY <1>1, <2>2, <2>3, Zenon
  <2>. QED  BY <2>1, <2>4
<1>. QED  BY <1>2, <1>3

\* A command fails for good, or keeps what its script has made; it never touches
\* the files of another script.
LEMMA FilesKept ==
  ASSUME Typed, AtGen, FilesMade, NEW s \in Scripts, WriteAsm(s) \/ RunCommand(s)
  PROVE  /\ \A u \in Scripts \ {s} :
              \A t \in Targets(u) : \A f : <<t, f>> \in fresh' <=> <<t, f>> \in fresh
         /\ rc[s] /\ GoOn(s) => \A t, f : ~Ignored(t) /\ <<t, f>> \in fresh => <<t, f>> \in fresh'
<1>1. gen[s] \in 1 .. Len(Gens[s]) /\ Gens[s] \in Seq(Targets(s))
  BY TargetAssumption DEF AtGen
<1>2. Target(s) \in Targets(s)
  BY <1>1 DEF Target
<1>3. \A u \in Scripts \ {s} : \A t \in Targets(u) : t # Target(s)
  BY <1>2, TargetAssumption
<1>. DEFINE old(t, f) == <<t, f>> \in fresh
<1>4. \E f : \/ fresh' = fresh \cup {<<Target(s), f>>}
             \/ fresh' = fresh \ {<<Target(s), f>>}
  BY DEF WriteAsm, RunCommand
<1>5. \A u \in Scripts \ {s} :
        \A t \in Targets(u) : \A f : <<t, f>> \in fresh' <=> <<t, f>> \in fresh
  BY <1>3, <1>4
<1>6. ASSUME rc[s], GoOn(s), NEW t, NEW f, ~Ignored(t), <<t, f>> \in fresh
      PROVE  <<t, f>> \in fresh'
  <2>1. CASE WriteAsm(s)
    <3>1. rc' = rc
      BY <1>6 DEF GoOn
    <3>2. ~GiveUp(s)
      BY <1>6, <3>1 DEF GiveUp, Typed
    <3>. QED  BY <1>6, <2>1, <3>2 DEF WriteAsm
  <2>2. CASE RunCommand(s)
    <3>. DEFINE c == Commands(Target(s))[cmd[s]]
    <3>1. \/ fresh' = fresh
          \/ fresh' = fresh \cup {<<Target(s), c.to>>}
          \/ <<Target(s), c.from>> \notin fresh /\ fresh' = fresh \ {<<Target(s), c.to>>}
      BY <2>2 DEF RunCommand
    <3>2. cmd[s] \in 1 .. Len(Commands(Target(s)))
      BY <1>2, <2>2, CommandFacts, TargetAssumption DEF RunCommand, AtGen
    <3>3. ~Ignored(Target(s)) => c.from = "s" /\ <<Target(s), "s">> \in fresh
      BY <1>2, <1>6, <3>2, CommandFacts, TargetAssumption DEF FilesMade
    <3>. HIDE DEF c
    <3>. QED  BY <1>6, <3>1, <3>3
  <2>. QED  BY <2>1, <2>2
<1>. QED  BY <1>5, <1>6

\* A step of a script is to the next command or gen, and then what it has just
\* made is fresh; or it ends the script as a failure.
LEMMA ScriptGoesOn ==
  ASSUME Typed, FilesInv, NEW s \in Scripts, WriteAsm(s) \/ RunCommand(s), rc'[s]
  PROVE  /\ rc[s] /\ GoOn(s)
         /\ ~Ignored(Target(s)) =>
              /\ <<Target(s), "s">> \in fresh'
              /\ \A j \in 1 .. cmd[s] : <<Target(s), Commands(Target(s))[j].to>> \in fresh'
<1>1. ~GiveUp(s)
  BY DEF GiveUp, Typed
<1>2. GoOn(s) /\ rc[s]
  BY <1>1 DEF WriteAsm, RunCommand, GoOn
<1>3. Target(s) \in Targets(s)
  BY TargetAssumption DEF FilesInv, AtGen, Target, Targets
<1>. DEFINE n == Len(Commands(Target(s)))
<1>4. n \in Nat /\ cmd[s] \in 0 .. n
  BY <1>3, CommandFacts, TargetAssumption DEF FilesInv, AtGen
<1>5. ASSUME ~Ignored(Target(s)) PROVE
        /\ <<Target(s), "s">> \in fresh'
        /\ \A j \in 1 .. cmd[s] : <<Target(s), Commands(Target(s))[j].to>> \in fresh'
  <2>1. CASE WriteAsm(s)
    BY <1>1, <1>4, <2>1 DEF WriteAsm
  <2>2. CASE RunCommand(s)
    <3>. DEFINE c == Commands(Target(s))[cmd[s]]
    <3>1. cmd[s] \in 1 .. n
      BY <1>4, <2>2 DEF RunCommand
    <3>2. c.from = "s"
      BY <1>3, <1>5, <3>1, CommandFacts, TargetAssumption
    <3>3. /\ <<Target(s), "s">> \in fresh
          /\ \A j \in 1 .. cmd[s] - 1 : <<Target(s), Commands(Target(s))[j].to>> \in fresh
      BY <1>2, <1>5, <3>1 DEF FilesInv, FilesMade
    <3>4. fresh' = fresh \cup {<<Target(s), c.to>>}
      BY <1>1, <1>5, <2>2, <3>2, <3>3 DEF RunCommand
    <3>. QED  BY <1>4, <3>1, <3>3, <3>4
  <2>. QED  BY <2>1, <2>2
<1>. QED  BY <1>2, <1>5

\* Every step of a script keeps the invariant of its files.
LEMMA ScriptFiles ==
  ASSUME Typed, FilesInv, NEW s \in Scripts, WriteAsm(s) \/ RunCommand(s)
  PROVE  FilesInv'
<1>1. /\ gen[s] \in 1 .. Len(Gens[s]) /\ Len(Gens[s]) \in Nat
      /\ \A k \in 1 .. Len(Gens[s]) : Gens[s][k] \in Targets(s)
      /\ \A u \in Scripts : \A k \in 1 .. Len(Gens[u]) : Gens[u][k] \in Targets(u)
  BY TargetAssumption DEF FilesInv, AtGen, Targets
<1>2. \A k \in 1 .. Len(Gens[s]) : Len(Commands(Gens[s][k])) \in Nat
  BY <1>1, CommandFacts, TargetAssumption
<1>3. GoOn(s) \/ GiveUp(s)
  BY DEF WriteAsm, RunCommand
<1>. DEFINE last == cmd[s] = Len(Commands(Target(s)))
            over == last /\ gen[s] = Len(Gens[s])
<1>4. GoOn(s) => /\ cmd' = [cmd EXCEPT ![s] = IF last THEN 0 ELSE cmd[s] + 1]
                 /\ gen' = [gen EXCEPT ![s] = IF last /\ ~over THEN gen[s] + 1 ELSE gen[s]]
                 /\ thread' = [thread EXCEPT ![s] = IF over THEN "ended" ELSE thread[s]]
                 /\ rc' = rc
  BY DEF GoOn
<1>5. \A u \in Scripts \ {s} : /\ gen'[u] = gen[u] /\ cmd'[u] = cmd[u] /\ thread'[u] = thread[u]
                               /\ rc'[u] = rc[u] /\ Target(u)' = Target(u)
  BY <1>3, <1>4 DEF Typed, GiveUp, Target
<1>6. thread[s] = "script" /\ cmd[s] \in 0 .. Len(Commands(Target(s)))
  BY DEF WriteAsm, RunCommand, FilesInv, AtGen
<1>7. AtGen'
  <2>1. /\ gen'[s] \in 1 .. Len(Gens[s]) /\ cmd'[s] \in 0 .. Len(Commands(Target(s)'))
        /\ thread'[s] \notin {"new", "started"}
    <3>1. CASE GoOn(s)
      <4>1. gen'[s] \in 1 .. Len(Gens[s]) /\ thread'[s] \in {"script", "ended"}
        BY <1>1, <1>4, <1>6, <3>1 DEF Typed
      <4>2. CASE last
        <5>1. cmd'[s] = 0
          BY <1>4, <3>1, <4>2 DEF Typed
        <5>. QED  BY <1>2, <4>1, <5>1 DEF Target
      <4>3. CASE ~last
        <5>1. cmd'[s] = cmd[s] + 1 /\ gen'[s] = gen[s]
          BY <1>4, <3>1, <4>3 DEF Typed
        <5>2. Target(s)' = Target(s)
          BY <5>1 DEF Target
        <5>3. Len(Commands(Target(s))) \in Nat
          BY <1>1, <1>2 DEF Target
        <5>. QED  BY <1>6, <4>1, <4>3, <5>1, <5>2, <5>3
      <4>. QED  BY <4>2, <4>3
    <3>2. CASE GiveUp(s)
      BY <1>1, <1>6, <3>2 DEF Typed, GiveUp, Target
    <3>. QED  BY <1>3, <3>1, <3>2
  <2>. QED  BY <1>5, <2>1 DEF FilesInv, AtGen
<1>8. FilesMade'
  <2>. SUFFICES ASSUME NEW u \in Scripts, rc'[u]
                PROVE  /\ \A k \in 1 .. Len(Gens[u]) :
                            k < gen'[u] \/ thread'[u] \in Ended =>
                              Ignored(Gens[u][k]) \/ Made(Gens[u][k])'
                       /\ cmd'[u] > 0 /\ ~Ignored(Target(u)') =>
                            /\ <<Target(u)', "s">> \in fresh'
                            /\ \A j \in 1 .. cmd'[u] - 1 :
                                 <<Target(u)', Commands(Target(u)')[j].to>> \in fresh'
    BY DEF FilesMade, Ignored, Made, Commands
  <2>1. CASE u # s
    <3>1. \A t \in Targets(u) : \A f : <<t, f>> \in fresh' <=> <<t, f>> \in fresh
      BY <2>1, FilesKept DEF FilesInv
    <3>2. Target(u) \in Targets(u)
      BY <1>1 DEF FilesInv, AtGen, Target
    <3>3. \A k \in 1 .. Len(Gens[u]) : Made(Gens[u][k])' <=> Made(Gens[u][k])
      BY <1>1, <3>1 DEF Made
    <3>. QED  BY <1>5, <2>1, <3>1, <3>2, <3>3 DEF FilesInv, FilesMade
  <2>2. CASE u = s
    <3>1. /\ rc[s] /\ GoOn(s)
          /\ ~Ignored(Target(s)) =>
               /\ <<Target(s), "s">> \in fresh'
               /\ \A j \in 1 .. cmd[s] : <<Target(s), Commands(Target(s))[j].to>> \in fresh'
      BY <2>2, ScriptGoesOn
    <3>2. \A t, f : ~Ignored(t) /\ <<t, f>> \in fresh => <<t, f>> \in fresh'
      BY <3>1, FilesKept DEF FilesInv
    <3>3. \A t : ~Ignored(t) /\ Made(t) => Made(t)'
      BY <3>2 DEF Made
    <3>4. \A k \in 1 .. Len(Gens[s]) : k < gen[s] => Ignored(Gens[s][k]) \/ Made(Gens[s][k])'
      BY <3>1, <3>3 DEF FilesInv, FilesMade
    <3>5. CASE last
      <4>1. \A t : t = Target(s) => Ignored(t) \/ Made(t)'
        <5>1. DOMAIN Commands(Target(s)) = 1 .. Len(Commands(Target(s)))
          BY <1>1, CommandFacts, TargetAssumption DEF Target
        <5>. QED  BY <3>1, <3>5, <5>1 DEF Made, Images
      <4>2. cmd'[s] = 0 /\ (thread'[s] \in Ended => over)
        BY <1>4, <1>6, <3>1, <3>5 DEF Typed, Ended
      <4>3. gen'[s] = IF over THEN gen[s] ELSE gen[s] + 1
        BY <1>4, <3>1, <3>5 DEF Typed
      <4>4. \A k \in 1 .. Len(Gens[s]) :
              k < gen'[s] \/ thread'[s] \in Ended => k < gen[s] \/ k = gen[s]
        BY <1>1, <4>2, <4>3
      <4>. QED  BY <2>2, <3>4, <4>1, <4>2, <4>4 DEF Target
    <3>6. CASE ~last
      <4>1. cmd'[s] = cmd[s] + 1 /\ gen'[s] = gen[s] /\ thread'[s] = "script"
        BY <1>4, <1>6, <3>1, <3>6 DEF Typed
      <4>2. Target(s)' = Target(s)
        BY <4>1 DEF Target
      <4>3. cmd'[s] - 1 = cmd[s]
        BY <1>2, <1>1, <1>6, <4>1 DEF Target
      <4>. QED  BY <2>2, <3>1, <3>4, <4>1, <4>2, <4>3 DEF Ended
    <3>. QED  BY <3>5, <3>6
  <2>. QED  BY <2>1, <2>2
<1>. QED  BY <1>7, <1>8 DEF FilesInv

\* No other step touches a file, nor lets a script end.
LEMMA FilesInvariant == Spec => []FilesInv
<1>1. Init => FilesInv
  <2>. SUFFICES ASSUME Init PROVE FilesInv
    OBVIOUS
  <2>1. \A s \in Scripts : Len(Gens[s]) \in Nat \ {0} /\ Gens[s][1] \in Targets(s)
    <3>. TAKE s \in Scripts
    <3>1. Gens[s] \in Seq(Targets(s)) /\ Len(Gens[s]) > 0
      BY TargetAssumption
    <3>. QED  BY <3>1
  <2>2. \A s \in Scripts : Target(s) = Gens[s][1]
    BY DEF Init, Target
  <2>3. \A s \in Scripts : Len(Commands(Target(s))) \in Nat
    BY <2>1, <2>2, CommandFacts, TargetAssumption
  <2>4. AtGen
    BY <2>1, <2>3 DEF Init, AtGen
  <2>5. FilesMade
    BY <2>1 DEF Init, FilesMade, Ended
  <2>. QED  BY <2>4, <2>5 DEF FilesInv
<1>2. IInv /\ FilesInv /\ [Next]_vars => FilesInv'
  <2>. SUFFICES ASSUME Typed, FilesInv, [Next]_vars PROVE FilesInv'
    BY DEF IInv
  <2>1. CASE \E s \in Scripts : WriteAsm(s) \/ RunCommand(s)
    BY <2>1, ScriptFiles
  <2>2. ASSUME UNCHANGED script,
               \A s \in Scripts : /\ thread'[s] \in Ended => thread[s] \in Ended
                                  /\ thread'[s] \in {"new", "started"}
                                      => thread[s] \in {"new", "started"}
        PROVE  FilesInv'
    <3>1. UNCHANGED <<gen, cmd, rc, fresh>>
      BY <2>2 DEF script
    <3>2. \A s : Target(s)' = Target(s)
      BY <3>1 DEF Target
    <3>3. \A t : Made(t)' <=> Made(t)
      BY <3>1 DEF Made
    <3>4. AtGen'
      <4>. SUFFICES ASSUME NEW u \in Scripts
                    PROVE  /\ gen'[u] \in 1 .. Len(Gens[u])
                           /\ cmd'[u] \in 0 .. Len(Commands(Target(u)'))
                           /\ thread'[u] \in {"new", "started"} => gen'[u] = 1 /\ cmd'[u] = 0
        BY DEF AtGen, Commands
      <4>1. Target(u)' = Target(u)
        BY <3>2
      <4>2. gen'[u] \in 1 .. Len(Gens[u])
        BY <3>1 DEF FilesInv, AtGen
      <4>3. cmd'[u] \in 0 .. Len(Commands(Target(u)'))
        BY <3>1, <4>1 DEF FilesInv, AtGen
      <4>4. thread'[u] \in {"new", "started"} => gen'[u] = 1 /\ cmd'[u] = 0
        <5>1. thread'[u] \in {"new", "started"} => thread[u] \in {"new", "started"}
          BY <2>2
        <5>. QED  BY <5>1, <3>1 DEF FilesInv, AtGen
      <4>. QED  BY <4>2, <4>3, <4>4
    <3>5. FilesMade'
      <4>. SUFFICES ASSUME NEW u \in Scripts, rc'[u]
                    PROVE  /\ \A k \in 1 .. Len(Gens[u]) :
                                k < gen'[u] \/ thread'[u] \in Ended =>
                                  Ignored(Gens[u][k]) \/ Made(Gens[u][k])'
                           /\ cmd'[u] > 0 /\ ~Ignored(Target(u)') =>
                                /\ <<Target(u)', "s">> \in fresh'
                                /\ \A j \in 1 .. cmd'[u] - 1 :
                                     <<Target(u)', Commands(Target(u)')[j].to>> \in fresh'
        BY DEF FilesMade, Ignored, Made, Commands
      <4>1. Target(u)' = Target(u)
        BY <3>2
      <4>2. /\ \A k \in 1 .. Len(Gens[u]) :
                 k < gen[u] \/ thread[u] \in Ended => Ignored(Gens[u][k]) \/ Made(Gens[u][k])
            /\ cmd[u] > 0 /\ ~Ignored(Target(u)) =>
                 /\ <<Target(u), "s">> \in fresh
                 /\ \A j \in 1 .. cmd[u] - 1 : <<Target(u), Commands(Target(u))[j].to>> \in fresh
        BY <3>1 DEF FilesInv, FilesMade
      <4>. QED  BY <2>2, <3>1, <3>3, <4>1, <4>2
    <3>. QED  BY <3>4, <3>5 DEF FilesInv
  <2>3. CASE \E s \in Scripts : StartThread(s)
    BY <2>2, <2>3 DEF StartThread, Typed, Ended
  <2>4. CASE \E s \in Scripts : Acquire(s) \/ TakeLock(s) \/ CountResult(s) \/ Release(s)
    BY <2>2, <2>4 DEF Acquire, TakeLock, CountResult, Release, Typed, Ended
  <2>5. CASE Join \/ UNCHANGED vars
    BY <2>2, <2>5 DEF Join, vars, control
  <2>. QED  BY <2>1, <2>3, <2>4, <2>5 DEF Next, ThreadStep, Stop
<1>. QED  BY <1>1, <1>2, Invariant, PTL DEF Spec

\* A script whose result is a success has made every image of its targets anew,
\* where the exit code of the compiler is looked at (mips_compile.py:79-96,
\* __gencom.py:54-55).
THEOREM SuccessesAreFresh == Spec => []SuccessIsFresh
<1>1. FilesInv => SuccessIsFresh
  <2>. SUFFICES ASSUME FilesInv, NEW s \in Scripts, thread[s] = "over", rc[s],
                       NEW k \in DOMAIN Gens[s]
                PROVE  \/ Ignored(Gens[s][k])
                       \/ \A f \in Images(Gens[s][k]) : <<Gens[s][k], f>> \in fresh
    BY DEF SuccessIsFresh
  <2>1. k \in 1 .. Len(Gens[s])
    BY TargetAssumption
  <2>. QED  BY <2>1 DEF FilesInv, FilesMade, Ended, Made
<1>. QED  BY <1>1, FilesInvariant, PTL

=============================================================================
