------------------------------ MODULE ReadsProofs ------------------------------
(***************************************************************************)
(* Proofs about reading memory and other threads, for any number of        *)
(* threads, pages, cells, sessions and interpreters.  SafeMemcpy: a fault  *)
(* in a copy jumps back into a copy that is there, and never ends the      *)
(* process when echion's handler was installed over the default one and no *)
(* copy interrupts another.  VmReader: a copy reported as made is one, and *)
(* none touches memory that is not there while copies are made one at a    *)
(* time.  NativeUnwind: the stacks a walker renders are those of the       *)
(* thread it has asked, and a SIGPROF is sent to a thread that exists and  *)
(* finds its handler.  Interpreters: a walk calls back with interpreters,  *)
(* each at most once, and with all of them if with any.                    *)
(***************************************************************************)
EXTENDS MCReads, SequenceTheorems, FiniteSetTheorems, TLAPS

(* Who has the signal follows from who saved whom: echion and faulthandler *)
(* put back the handler they found, and echion was installed once.         *)
HandlersInv ==
  /\ g_old_segv \in {"none", "default", "faulthandler"}
  /\ g_old_segv = "none" =>
       IF enabled THEN disposition = "faulthandler" /\ previous = "default"
       ELSE disposition = "default"
  /\ g_old_segv = "default" /\ ~nested =>
       IF enabled THEN disposition = "faulthandler" /\ previous = "echion"
       ELSE disposition = "echion"

(* Nothing is copied before the handler is there; and as long as no copy   *)
(* has been begun within another, whoever copies is armed.                 *)
CopiesInv ==
  /\ g_old_segv = "none" => \A t \in Threads : Len(copies[t]) = 0
  /\ ~nested =>
       \A t \in Threads :
         /\ Len(copies[t]) <= 1
         /\ M!Within(t, "copying") => t_handler_armed[t]

MemcpyInv ==
  M!TypeOK /\ M!JumpsIntoCopy /\ HandlersInv /\ CopiesInv /\ M!Survives

(* The steps of a copy: the stack of copies they leave behind.             *)
LEMMA Begun ==
  ASSUME M!TypeOK, NEW t \in Threads, NEW S \in SUBSET Pages, M!BeginCopy(t, S)
  PROVE  \E cs \in Seq(M!Copy) :
           /\ copies' = [copies EXCEPT ![t] = cs]
           /\ Len(cs) = Len(copies[t]) + 1
           /\ cs[Len(cs)].pc = "begun"
<1> DEFINE c == [pc |-> "begun", rem |-> S]
<1>1. copies[t] \in Seq(M!Copy) /\ c \in M!Copy
  BY DEF M!TypeOK, M!Copy
<1>2. /\ Append(copies[t], c) \in Seq(M!Copy)
      /\ Len(Append(copies[t], c)) = Len(copies[t]) + 1
      /\ Append(copies[t], c)[Len(copies[t]) + 1] = c
  BY <1>1, AppendProperties
<1>3. copies' = [copies EXCEPT ![t] = Append(copies[t], c)]
  BY DEF M!BeginCopy
<1>4. Append(copies[t], c)[Len(Append(copies[t], c))].pc = "begun"
  BY <1>2
<1> QED
  BY <1>2, <1>3, <1>4

LEMMA Changed ==
  ASSUME M!TypeOK, NEW t \in Threads, Len(copies[t]) > 0, NEW c \in M!Copy
  PROVE  LET cs == [copies[t] EXCEPT ![M!Depth(t)] = c]
         IN  cs \in Seq(M!Copy) /\ Len(cs) = Len(copies[t]) /\ cs[Len(cs)] = c
<1>1. copies[t] \in Seq(M!Copy) /\ M!Depth(t) \in 1..Len(copies[t])
  BY LenProperties DEF M!TypeOK, M!Depth
<1> QED
  BY <1>1, ExceptSeq DEF M!Depth

LEMMA ArmedCopies ==
  ASSUME M!TypeOK, NEW t \in Threads, M!Arm(t)
  PROVE  \E cs \in Seq(M!Copy) :
           copies' = [copies EXCEPT ![t] = cs] /\ Len(cs) = Len(copies[t])
<1> DEFINE c == [copies[t][M!Depth(t)] EXCEPT !.pc = "copying"]
<1>1. Len(copies[t]) > 0 /\ c \in M!Copy
  <2>1. copies[t] \in Seq(M!Copy) /\ Len(copies[t]) > 0
    BY DEF M!Arm, M!Within, M!Depth, M!TypeOK
  <2>2. copies[t][M!Depth(t)] \in M!Copy
    BY <2>1, ElementOfSeq, LenProperties DEF M!Depth
  <2> QED
    BY <2>1, <2>2 DEF M!Copy
<1>2. copies' = [copies EXCEPT ![t] = [copies[t] EXCEPT ![M!Depth(t)] = c]]
  BY DEF M!Arm
<1> QED
  BY <1>1, <1>2, Changed

LEMMA CopiedChunk ==
  ASSUME M!TypeOK, NEW t \in Threads, M!CopyChunk(t)
  PROVE  \E cs \in Seq(M!Copy) :
           copies' = [copies EXCEPT ![t] = cs] /\ Len(cs) = Len(copies[t])
<1>1. PICK p \in M!Innermost(t).rem \cap pages_readable :
        copies' = [copies EXCEPT ![t][M!Depth(t)].rem = @ \ {p}]
  BY DEF M!CopyChunk
<1> DEFINE c == [copies[t][M!Depth(t)] EXCEPT !.rem = @ \ {p}]
<1>2. Len(copies[t]) > 0 /\ c \in M!Copy
  <2>1. copies[t] \in Seq(M!Copy) /\ Len(copies[t]) > 0
    BY DEF M!CopyChunk, M!Within, M!Depth, M!TypeOK
  <2>2. copies[t][M!Depth(t)] \in M!Copy
    BY <2>1, ElementOfSeq, LenProperties DEF M!Depth
  <2> QED
    BY <2>1, <2>2 DEF M!Copy
<1>3. copies' = [copies EXCEPT ![t] = [copies[t] EXCEPT ![M!Depth(t)] = c]]
  BY <1>1
<1> QED
  BY <1>2, <1>3, Changed

LEMMA JumpedBack ==
  ASSUME M!TypeOK, M!JumpsIntoCopy, NEW t \in Threads, M!JumpBack(t)
  PROVE  \E cs \in Seq(M!Copy) :
           /\ copies' = [copies EXCEPT ![t] = cs]
           /\ Len(cs) = t_jmpenv[t]
           /\ cs[Len(cs)].pc = "faulted"
<1> DEFINE j == t_jmpenv[t]
           s == SubSeq(copies[t], 1, j)
           c == [s[j] EXCEPT !.pc = "faulted"]
<1>1. copies[t] \in Seq(M!Copy) /\ j \in 1..Len(copies[t])
  BY DEF M!JumpBack, M!JumpsIntoCopy, M!Depth, M!TypeOK
<1>2. \A i \in 1..j : copies[t][i] \in M!Copy
  BY <1>1, ElementOfSeq, LenProperties
<1>3. s \in Seq(M!Copy) /\ Len(s) = j
  BY <1>1, <1>2, SubSeqProperties, LenProperties
<1>4. c \in M!Copy /\ c.pc = "faulted"
  <2>1. s[j] \in M!Copy
    BY <1>1, <1>3, ElementOfSeq
  <2> QED
    BY <2>1 DEF M!Copy
<1>5. [s EXCEPT ![j] = c] \in Seq(M!Copy) /\ Len([s EXCEPT ![j] = c]) = j
      /\ [s EXCEPT ![j] = c][j] = c
  <2>1. j \in 1..Len(s)
    BY <1>1, <1>3
  <2> QED
    BY <1>3, <1>4, <2>1, ExceptSeq
<1>6. copies' = [copies EXCEPT ![t] = [s EXCEPT ![j] = c]]
  BY DEF M!JumpBack
<1> QED
  BY <1>4, <1>5, <1>6

LEMMA Landed ==
  ASSUME M!TypeOK, NEW t \in Threads, M!Land(t)
  PROVE  \E cs \in Seq(M!Copy) :
           copies' = [copies EXCEPT ![t] = cs] /\ Len(cs) = Len(copies[t]) - 1
<1>1. copies[t] \in Seq(M!Copy) /\ Len(copies[t]) > 0 /\ Len(copies[t]) \in Nat
  BY LenProperties DEF M!Land, M!Within, M!Depth, M!TypeOK
<1>2. \A i \in 1..(Len(copies[t]) - 1) : copies[t][i] \in M!Copy
  BY <1>1, ElementOfSeq
<1>3. SubSeq(copies[t], 1, Len(copies[t]) - 1) \in Seq(M!Copy)
      /\ Len(SubSeq(copies[t], 1, Len(copies[t]) - 1)) = Len(copies[t]) - 1
  BY <1>1, <1>2, SubSeqProperties
<1>4. copies' = [copies EXCEPT ![t] = SubSeq(copies[t], 1, Len(copies[t]) - 1)]
  BY DEF M!Land, M!Return, M!Depth
<1> QED
  BY <1>3, <1>4
-----------------------------------------------------------------------------
(* The handlers change: only HandlersInv and TypeOK can be disturbed.      *)
LEMMA InitSegvCatcherStep ==
  ASSUME MemcpyInv, M!InitSegvCatcher
  PROVE  MemcpyInv'
<1> USE DEF MemcpyInv, M!InitSegvCatcher, M!Installed
<1>1. M!TypeOK'
  BY DEF M!TypeOK, M!Handlers, M!local
<1>2. HandlersInv'
  BY DEF HandlersInv, M!local
<1>3. M!JumpsIntoCopy' /\ CopiesInv' /\ M!Survives'
  BY DEF M!JumpsIntoCopy, CopiesInv, M!Survives, HandlersInv, M!Within,
     M!Depth, M!local
<1> QED
  BY <1>1, <1>2, <1>3

LEMMA FaulthandlerStep ==
  ASSUME MemcpyInv, M!Enable \/ M!Disable \/ \E t \in Threads : M!Report(t)
  PROVE  MemcpyInv'
<1> USE DEF MemcpyInv, M!Enable, M!Disable, M!Disabled, M!Report
<1>1. M!TypeOK'
  BY DEF M!TypeOK, M!Handlers, M!local
<1>2. HandlersInv'
  BY DEF HandlersInv, M!TypeOK, M!local
<1>3. M!JumpsIntoCopy' /\ CopiesInv' /\ M!Survives'
  BY DEF M!JumpsIntoCopy, CopiesInv, M!Survives, M!Within, M!Depth, M!local
<1> QED
  BY <1>1, <1>2, <1>3

(* Who faults without being armed is in a copy within a copy.              *)
LEMMA UnarmedIsNested ==
  ASSUME MemcpyInv, NEW t \in Threads, M!Faults(t), ~t_handler_armed[t]
  PROVE  nested
<1>1. M!Within(t, "copying")
  BY DEF M!Faults
<1> QED
  BY <1>1 DEF MemcpyInv, M!TypeOK, CopiesInv

LEMMA HandBackStep ==
  ASSUME MemcpyInv, NEW t \in Threads, M!HandBack(t)
  PROVE  MemcpyInv'
<1>1. nested
  BY UnarmedIsNested DEF M!HandBack
<1>2. g_old_segv # "none"
  <2>1. Len(copies[t]) > 0
    BY DEF M!HandBack, M!Faults, M!Within, M!Depth
  <2> QED
    BY <2>1 DEF MemcpyInv, CopiesInv
<1> USE DEF MemcpyInv, M!HandBack
<1>3. M!TypeOK'
  BY DEF M!TypeOK, M!Handlers, M!local
<1>4. HandlersInv'
  BY <1>1, <1>2 DEF HandlersInv, M!local
<1>5. M!JumpsIntoCopy' /\ CopiesInv' /\ M!Survives'
  BY DEF M!JumpsIntoCopy, CopiesInv, M!Survives, M!Within, M!Depth, M!local
<1> QED
  BY <1>3, <1>4, <1>5

(* The process ends only for a fault that nobody has been installed for,   *)
(* or that faulthandler handles as it did before echion came.              *)
LEMMA KillStep ==
  ASSUME MemcpyInv, NEW t \in Threads, M!Kill(t)
  PROVE  MemcpyInv'
<1>1. nested \/ g_old_segv = "faulthandler"
  <2>1. g_old_segv # "none"
    <3>1. Len(copies[t]) > 0
      BY DEF M!Kill, M!Faults, M!Within, M!Depth
    <3> QED
      BY <3>1 DEF MemcpyInv, CopiesInv
  <2>2. g_old_segv = "default" => nested
    BY DEF MemcpyInv, HandlersInv, M!TypeOK, M!Kill
  <2> QED
    BY <2>1, <2>2 DEF MemcpyInv, HandlersInv
<1>2. M!TypeOK' /\ HandlersInv' /\ M!JumpsIntoCopy' /\ CopiesInv'
  BY DEF MemcpyInv, M!Kill, M!TypeOK, HandlersInv, M!JumpsIntoCopy, CopiesInv,
     M!Within, M!Depth, M!handlers, M!local
<1>3. M!Survives'
  BY <1>1 DEF M!Kill, M!Survives, M!handlers, M!local
<1> QED
  BY <1>2, <1>3 DEF MemcpyInv

LEMMA ChangeStep ==
  ASSUME MemcpyInv, NEW p \in Pages, M!Change(p)
  PROVE  MemcpyInv'
BY DEF MemcpyInv, M!Change, M!TypeOK, HandlersInv, M!JumpsIntoCopy, CopiesInv,
   M!Survives, M!Within, M!Depth, M!handlers, M!local

-----------------------------------------------------------------------------
(* The copies change: HandlersInv can be disturbed by none of these.       *)
LEMMA BeginStep ==
  ASSUME MemcpyInv, NEW t \in Threads, NEW S \in SUBSET Pages, M!BeginCopy(t, S)
  PROVE  MemcpyInv'
<1>1. PICK cs \in Seq(M!Copy) :
        /\ copies' = [copies EXCEPT ![t] = cs]
        /\ Len(cs) = Len(copies[t]) + 1
        /\ cs[Len(cs)].pc = "begun"
  BY Begun DEF MemcpyInv
<1>2. Len(copies[t]) \in Nat /\ Len(cs) \in Nat
  BY LenProperties DEF MemcpyInv, M!TypeOK
<1> USE <1>1, <1>2 DEF MemcpyInv, M!BeginCopy, M!Depth, M!MaxDepth, M!handlers
<1>3. M!TypeOK'
  BY DEF M!TypeOK
<1>4. M!JumpsIntoCopy'
  BY DEF M!JumpsIntoCopy, M!TypeOK
<1>5. CopiesInv'
  <2>1. g_old_segv' # "none"
    BY DEF M!Installed
  <2>2. ASSUME ~nested', NEW u \in Threads
        PROVE  /\ Len(copies'[u]) <= 1
               /\ M!Within(u, "copying")' => t_handler_armed'[u]
    <3>1. ~nested /\ Len(copies[t]) = 0
      <4>1. ~(nested \/ Len(copies[t]) > 0)
        BY <2>2, Zenon
      <4> QED
        BY <4>1
    <3>2. CASE u = t
      <4>1. copies'[u] = cs /\ Len(cs) = 1
        BY <3>1, <3>2 DEF M!TypeOK
      <4>2. ~M!Within(u, "copying")'
        BY <4>1, <1>1, Zenon DEF M!Within
      <4>3. 1 <= 1
        OBVIOUS
      <4> QED
        BY <4>1, <4>2, <4>3, Zenon
    <3>3. CASE u # t
      <4>1. copies'[u] = copies[u] /\ t_handler_armed'[u] = t_handler_armed[u]
        BY <3>3 DEF M!TypeOK
      <4> QED
        BY <3>1, <4>1, Zenon DEF CopiesInv, M!Within
    <3> QED
      BY <3>2, <3>3
  <2> QED
    BY <2>1, <2>2 DEF CopiesInv
<1>6. HandlersInv' /\ M!Survives'
  BY DEF HandlersInv, M!Survives, M!TypeOK
<1> QED
  BY <1>3, <1>4, <1>5, <1>6

LEMMA ArmStep ==
  ASSUME MemcpyInv, NEW t \in Threads, M!Arm(t)
  PROVE  MemcpyInv'
<1>1. PICK cs \in Seq(M!Copy) :
        copies' = [copies EXCEPT ![t] = cs] /\ Len(cs) = Len(copies[t])
  BY ArmedCopies DEF MemcpyInv
<1>2. Len(copies[t]) \in Nat /\ Len(copies[t]) > 0
  BY LenProperties DEF MemcpyInv, M!TypeOK, M!Arm, M!Within, M!Depth
<1>3. /\ t_handler_armed' = [t_handler_armed EXCEPT ![t] = TRUE]
      /\ t_jmpenv' = [t_jmpenv EXCEPT ![t] = Len(copies[t])]
      /\ UNCHANGED <<M!handlers, pages_readable, nested, killed>>
  BY DEF M!Arm, M!Armed, M!Depth
<1> HIDE DEF M!Arm
<1> USE <1>1, <1>2, <1>3 DEF MemcpyInv, M!Depth, M!MaxDepth, M!handlers
<1>4. M!TypeOK'
  BY DEF M!TypeOK
<1>5. M!JumpsIntoCopy'
  BY DEF M!JumpsIntoCopy, M!TypeOK
<1>6. CopiesInv'
  BY DEF CopiesInv, M!Within, M!TypeOK
<1>7. HandlersInv' /\ M!Survives'
  BY DEF HandlersInv, M!Survives
<1> QED
  BY <1>4, <1>5, <1>6, <1>7

LEMMA ChunkStep ==
  ASSUME MemcpyInv, NEW t \in Threads, M!CopyChunk(t)
  PROVE  MemcpyInv'
<1>1. PICK cs \in Seq(M!Copy) :
        copies' = [copies EXCEPT ![t] = cs] /\ Len(cs) = Len(copies[t])
  BY CopiedChunk DEF MemcpyInv
<1>2. /\ Len(copies[t]) \in Nat
      /\ M!Within(t, "copying")
      /\ UNCHANGED <<M!handlers, pages_readable, t_handler_armed, t_jmpenv,
                     nested, killed>>
  BY LenProperties DEF MemcpyInv, M!TypeOK, M!CopyChunk
<1> USE <1>1, <1>2 DEF MemcpyInv, M!Depth, M!MaxDepth, M!handlers
<1>3. M!TypeOK'
  BY DEF M!TypeOK
<1>4. M!JumpsIntoCopy'
  BY DEF M!JumpsIntoCopy, M!TypeOK
<1>5. CopiesInv'
  BY DEF CopiesInv, M!Within, M!TypeOK
<1>6. HandlersInv' /\ M!Survives'
  BY DEF HandlersInv, M!Survives
<1> QED
  BY <1>3, <1>4, <1>5, <1>6

LEMMA JumpBackStep ==
  ASSUME MemcpyInv, NEW t \in Threads, M!JumpBack(t)
  PROVE  MemcpyInv'
<1>1. PICK cs \in Seq(M!Copy) :
        /\ copies' = [copies EXCEPT ![t] = cs]
        /\ Len(cs) = t_jmpenv[t]
        /\ cs[Len(cs)].pc = "faulted"
  BY JumpedBack DEF MemcpyInv
<1>2. /\ Len(copies[t]) \in Nat
      /\ t_jmpenv[t] \in 1..Len(copies[t])
      /\ UNCHANGED <<M!handlers, pages_readable, t_handler_armed, t_jmpenv,
                     nested, killed>>
  BY LenProperties DEF MemcpyInv, M!TypeOK, M!JumpBack, M!JumpsIntoCopy, M!Depth
<1> USE <1>1, <1>2 DEF MemcpyInv, M!Depth, M!MaxDepth, M!handlers
<1>3. M!TypeOK'
  BY DEF M!TypeOK
<1>4. M!JumpsIntoCopy'
  BY DEF M!JumpsIntoCopy, M!TypeOK
<1>5. CopiesInv'
  BY DEF CopiesInv, M!Within, M!TypeOK
<1>6. HandlersInv' /\ M!Survives'
  BY DEF HandlersInv, M!Survives
<1> QED
  BY <1>3, <1>4, <1>5, <1>6

LEMMA LandStep ==
  ASSUME MemcpyInv, NEW t \in Threads, M!Land(t)
  PROVE  MemcpyInv'
<1>1. PICK cs \in Seq(M!Copy) :
        copies' = [copies EXCEPT ![t] = cs] /\ Len(cs) = Len(copies[t]) - 1
  BY Landed DEF MemcpyInv
<1>2. /\ Len(copies[t]) \in Nat /\ Len(copies[t]) > 0
      /\ t_handler_armed' = [t_handler_armed EXCEPT ![t] = FALSE]
      /\ UNCHANGED <<M!handlers, pages_readable, t_jmpenv, nested, killed>>
  BY LenProperties DEF MemcpyInv, M!TypeOK, M!Land, M!Within, M!Disarm, M!Depth
<1> USE <1>1, <1>2 DEF MemcpyInv, M!Depth, M!MaxDepth, M!handlers
<1>3. M!TypeOK'
  BY DEF M!TypeOK
<1>4. M!JumpsIntoCopy'
  BY DEF M!JumpsIntoCopy, M!TypeOK
<1>5. CopiesInv'
  BY DEF CopiesInv, M!Within, M!TypeOK
<1>6. HandlersInv' /\ M!Survives'
  BY DEF HandlersInv, M!Survives
<1> QED
  BY <1>3, <1>4, <1>5, <1>6

-----------------------------------------------------------------------------
LEMMA MemcpyInit == M!Init => MemcpyInv
<1> SUFFICES ASSUME M!Init PROVE MemcpyInv
  OBVIOUS
<1>1. \A t \in Threads : Len(copies[t]) = 0
  BY EmptySeq DEF M!Init
<1>2. copies \in [Threads -> Seq(M!Copy)]
  BY EmptySeq DEF M!Init
<1>3. M!TypeOK
  <2>1. /\ t_handler_armed \in [Threads -> BOOLEAN]
        /\ t_jmpenv \in [Threads -> 0..M!MaxDepth]
    BY DEF M!Init, M!MaxDepth
  <2>2. \A t \in Threads : Len(copies[t]) <= M!MaxDepth
    <3>1. 0 <= M!MaxDepth
      BY DEF M!MaxDepth
    <3> QED
      BY <1>1, <3>1, Zenon
  <2>3. /\ disposition \in M!Handlers /\ g_old_segv \in M!Handlers
        /\ previous \in M!Handlers /\ pages_readable \subseteq Pages
        /\ enabled \in BOOLEAN /\ nested \in BOOLEAN /\ killed \in BOOLEAN
    BY DEF M!Init, M!Handlers
  <2> QED
    BY <1>2, <2>1, <2>2, <2>3 DEF M!TypeOK
<1>4. HandlersInv /\ M!Survives
  BY DEF M!Init, HandlersInv, M!Survives
<1>5. M!JumpsIntoCopy /\ CopiesInv
  BY <1>1 DEF M!Init, M!JumpsIntoCopy, CopiesInv, M!Within, M!Depth
<1> QED
  BY <1>3, <1>4, <1>5 DEF MemcpyInv

LEMMA MemcpyStep == MemcpyInv /\ [M!Next]_M!vars => MemcpyInv'
<1> SUFFICES ASSUME MemcpyInv, [M!Next]_M!vars PROVE MemcpyInv'
  OBVIOUS
<1>1. CASE M!InitSegvCatcher \/ M!Enable \/ M!Disable
  BY <1>1, InitSegvCatcherStep, FaulthandlerStep
<1>2. CASE \E p \in Pages : M!Change(p)
  BY <1>2, ChangeStep
<1>3. ASSUME NEW t \in Threads, M!CopyStep(t) PROVE MemcpyInv'
  BY <1>3, BeginStep, ArmStep, ChunkStep, LandStep, JumpBackStep,
     HandBackStep, FaulthandlerStep, KillStep
     DEF M!CopyStep
<1>4. CASE UNCHANGED M!vars
  BY <1>4 DEF MemcpyInv, M!TypeOK, HandlersInv, M!JumpsIntoCopy, CopiesInv,
     M!Survives, M!Within, M!Depth, M!vars, M!handlers, M!local
<1> QED
  BY <1>1, <1>2, <1>3, <1>4 DEF M!Next

(* The invariant of the fault handler and the copies it guards. *)
THEOREM MemcpyInvariant == M!Spec => []MemcpyInv
BY MemcpyInit, MemcpyStep, PTL DEF M!Spec

(* The handler jumps only into a copy that has not returned: a copy that   *)
(* returns disarms it, also for the copy it has interrupted.               *)
THEOREM Jumps == M!Spec => []M!JumpsIntoCopy
<1>1. MemcpyInv => M!JumpsIntoCopy
  BY DEF MemcpyInv
<1> QED
  BY <1>1, MemcpyInvariant, PTL

(* A fault in a copy does not end the process when echion was there before *)
(* faulthandler and copies do not interrupt each other, however often      *)
(* faulthandler is enabled and disabled, by the program or by faults.      *)
THEOREM FaultsSurvived == M!Spec => []M!Survives
<1>1. MemcpyInv => M!Survives
  BY DEF MemcpyInv
<1> QED
  BY <1>1, MemcpyInvariant, PTL
-----------------------------------------------------------------------------
(* What VmReader keeps true.                                               *)

(* Nothing is copied before a method is chosen, and only VmReader resizes, *)
(* writes and fetches; what is asked for is memory.                        *)
MethodInv ==
  /\ safe_copy \in {"none", "safe_memcpy"} =>
       \A c \in Copiers : vm_pc[c] = "idle"
  /\ safe_copy = "process_vm_readv" =>
       \A c \in Copiers : vm_pc[c] \in {"idle", "write", "returned"}
  /\ \A c \in V!Copying : len[c] \in V!Cell /\ src[c] + len[c] - 1 <= Cells

(* Whoever is alone is the only one who copies.                            *)
AloneInv ==
  /\ \A c, d \in V!Copying : alone[c] => c = d
  /\ ~overlapped => \A c \in Copiers : alone[c]

(* While a mapping is there and no two copies have been under way at a     *)
(* time, the file is as long as sz says, and sz as a copy needs it.        *)
SizeInv ==
  /\ buffer # nullptr /\ safe_copy = "none" =>
       dir = V!TmpDirs + 1 /\ Len(file) = BufferSize
  /\ buffer # nullptr /\ safe_copy = "vmreader" /\ ~overlapped =>
       /\ sz <= Len(file)
       /\ \A c \in Copiers :
            /\ vm_pc[c] = "resize" => len[c] > sz
            /\ vm_pc[c] = "remap" => len[c] = Len(file)
            /\ vm_pc[c] \in {"write", "fetch", "memcpy"} => len[c] <= sz
            /\ vm_pc[c] = "memcpy" => from[c] = buffer

(* What a copy that is alone has written is in the file until it reads it. *)
DataInv ==
  \A c \in Copiers :
    vm_pc[c] \in {"fetch", "memcpy"} /\ alone[c] /\ result[c] = len[c] =>
      /\ len[c] <= Len(file)
      /\ \A i \in 1..len[c] : file[i] = src[c] + i - 1

VmInv ==
  V!TypeOK /\ MethodInv /\ AloneInv /\ SizeInv /\ DataInv /\ V!CopyTrue
  /\ V!NeverCrashes

-----------------------------------------------------------------------------
(* Sizes, and what the operators of a copy return.                         *)
LEMMA SizesBound ==
  /\ V!Sizes \subseteq Nat /\ 0 \in V!Sizes /\ V!Cell \subseteq V!Sizes
  /\ BufferSize \in V!Sizes
  /\ \A m, n \in V!Sizes : \A k \in Nat : k <= m => k \in V!Sizes
<1> USE ReadsAssumption DEF V!Sizes, V!Cell
<1>1. CASE Cells > BufferSize
  BY <1>1
<1>2. CASE ~(Cells > BufferSize)
  BY <1>2
<1> QED
  BY <1>1, <1>2

LEMMA Asked ==
  ASSUME V!TypeOK, NEW c \in Copiers
  PROVE  len[c] \in Nat /\ src[c] \in Nat /\ src[c] \in V!Cell /\ sz \in Nat
<1>1. len[c] \in V!Sizes /\ src[c] \in V!Cell /\ sz \in V!Sizes
  BY DEF V!TypeOK
<1>2. V!Cell \subseteq Nat
  BY ReadsAssumption DEF V!Cell
<1> QED
  BY <1>1, <1>2, SizesBound

(* The one VmReader counts with is the one the library's facts are about.  *)
LEMMA SameCardinality == \A S : V!Cardinality(S) = Cardinality(S)
BY DEF V!Cardinality, Cardinality

(* No more can be read than has been asked for.                            *)
LEMMA ReadableBound ==
  ASSUME NEW c \in Copiers, len[c] \in Nat
  PROVE  V!Readable(c) \in 0..len[c]
<1> DEFINE R == {n \in 1..len[c] : src[c]..(src[c] + n - 1) \subseteq readable}
<1>1. IsFiniteSet(1..len[c]) /\ Cardinality(1..len[c]) = len[c]
  BY FS_Interval
<1>2. R \subseteq 1..len[c]
  OBVIOUS
<1>3. Cardinality(R) \in Nat /\ Cardinality(R) <= len[c]
  <2> HIDE DEF R
  <2> QED
    BY <1>1, <1>2, FS_Subset, FS_CardinalityType
<1> QED
  BY <1>3, SameCardinality DEF V!Readable

LEMMA Zeroed ==
  ASSUME NEW n \in Nat
  PROVE  /\ V!Zeros(n) \in Seq(V!Cell \cup {0}) /\ Len(V!Zeros(n)) = n
<1>1. V!Zeros(n) \in [1..n -> V!Cell \cup {0}]
  BY DEF V!Zeros
<1> QED
  BY <1>1, SeqDef, LenProperties DEF V!Zeros

(* ftruncate leaves a file of the size it has been given.                  *)
LEMMA Resized ==
  ASSUME V!TypeOK, NEW n \in V!Sizes
  PROVE  V!Resize(n) \in Seq(V!Cell \cup {0}) /\ Len(V!Resize(n)) = n
<1>1. n \in Nat /\ Len(file) \in Nat /\ file \in Seq(V!Cell \cup {0})
  BY SizesBound, LenProperties DEF V!TypeOK
<1>2. CASE n <= Len(file)
  <2>1. \A i \in 1..n : file[i] \in V!Cell \cup {0}
    BY <1>1, <1>2, ElementOfSeq
  <2> QED
    BY <1>1, <1>2, <2>1, SubSeqProperties DEF V!Resize
<1>3. CASE ~(n <= Len(file))
  <2>1. n - Len(file) \in Nat
    BY <1>1, <1>3
  <2>2. V!Zeros(n - Len(file)) \in Seq(V!Cell \cup {0})
        /\ Len(V!Zeros(n - Len(file))) = n - Len(file)
    BY <2>1, Zeroed
  <2> HIDE DEF V!Zeros
  <2> QED
    BY <1>1, <1>3, <2>2, ConcatProperties DEF V!Resize
<1> QED
  BY <1>2, <1>3

(* A write makes the file no shorter, and is there to be read.             *)
LEMMA WrittenCells ==
  ASSUME V!TypeOK, MethodInv, NEW c \in Copiers, vm_pc[c] = "write"
  PROVE  /\ V!Written(c) \in Seq(V!Cell \cup {0})
         /\ Len(V!Written(c)) \in V!Sizes
         /\ Len(file) <= Len(V!Written(c)) /\ V!Readable(c) <= Len(V!Written(c))
         /\ \A i \in 1..V!Readable(c) : V!Written(c)[i] = src[c] + i - 1
<1>1. /\ len[c] \in V!Cell /\ src[c] \in V!Cell /\ src[c] + len[c] - 1 <= Cells
      /\ len[c] \in Nat /\ src[c] \in Nat
  BY Asked DEF MethodInv, V!Copying
<1>2. V!Readable(c) \in 0..len[c] /\ Len(file) \in Nat
  BY <1>1, ReadableBound, LenProperties DEF V!TypeOK
<1> DEFINE n == IF Len(file) > V!Readable(c) THEN Len(file) ELSE V!Readable(c)
<1>3. n \in Nat /\ Len(file) <= n /\ V!Readable(c) <= n /\ n \in V!Sizes
  BY <1>1, <1>2, SizesBound DEF V!TypeOK
<1>4. \A i \in 1..V!Readable(c) :
        V!Source(c)[i] = src[c] + i - 1 /\ V!Source(c)[i] \in V!Cell
  BY <1>1, <1>2, ReadsAssumption DEF V!Source, V!Cell
<1>5. \A i \in 1..n : ~(i <= V!Readable(c)) => file[i] \in V!Cell \cup {0}
  <2> TAKE i \in 1..n
  <2> HAVE ~(i <= V!Readable(c))
  <2>1. i \in 1..Len(file)
    BY <1>2
  <2> QED
    BY <2>1, ElementOfSeq DEF V!TypeOK
<1>6. V!Written(c) \in [1..n -> V!Cell \cup {0}]
  BY <1>2, <1>3, <1>4, <1>5 DEF V!Written
<1>7. V!Written(c) \in Seq(V!Cell \cup {0}) /\ Len(V!Written(c)) = n
  <2> HIDE DEF n
  <2> QED
    BY <1>3, <1>6, SeqDef, LenProperties
<1>8. \A i \in 1..V!Readable(c) : V!Written(c)[i] = src[c] + i - 1
  BY <1>2, <1>3, <1>4 DEF V!Written
<1> QED
  BY <1>3, <1>7, <1>8

LEMMA SourceCells ==
  ASSUME V!TypeOK, NEW c \in Copiers
  PROVE  /\ V!Source(c) \in [1..len[c] -> Int] /\ V!Source(c) \in Seq(Int)
         /\ Len(V!Source(c)) = len[c] /\ len[c] \in Nat
<1>1. len[c] \in Nat /\ src[c] \in Int
  BY Asked
<1>2. V!Source(c) \in [1..len[c] -> Int]
  BY <1>1 DEF V!Source
<1> HIDE DEF V!Source
<1> QED
  BY <1>1, <1>2, SeqDef, LenProperties

-----------------------------------------------------------------------------
(* The steps, one conjunct of VmInv at a time.                             *)
LEMMA VmTyping ==
  ASSUME VmInv, [V!Next]_V!vars
  PROVE  V!TypeOK'
<1> USE DEF V!chosen, V!reader, V!copy
<1>1. V!TypeOK /\ 0 \in V!Sizes /\ BufferSize \in V!Sizes
      /\ <<>> \in Seq(V!Cell \cup {0})
      /\ Len(<<>>) = 0 /\ V!Cell \subseteq V!Sizes
  BY SizesBound DEF VmInv
<1>2. CASE V!InitSafeCopy
  <2>1. V!Zeros(BufferSize) \in Seq(V!Cell \cup {0})
        /\ Len(V!Zeros(BufferSize)) = BufferSize
    BY ReadsAssumption, Zeroed
  <2> USE DEF V!InitSafeCopy, V!UseSafeMemcpy, V!UseProcessVmReadv,
     V!CreateVmReader, V!NoTmpFile, V!NoMapping, V!MapTmpFile, V!UseVmReader,
     V!Trying
  <2> HIDE DEF V!Zeros, V!Sizes, V!Cell
  <2>2. UNCHANGED <<failed_safe_copy, readable, V!copy>>
    BY <1>2, Zenon
  <2>3. safe_copy' \in {"none", "process_vm_readv", "safe_memcpy", "vmreader"}
        /\ fd' \in BOOLEAN
    BY <1>1, <1>2 DEF V!TypeOK
  <2>4. dir' \in 0..V!TmpDirs + 1
    BY <1>1, <1>2 DEF V!TypeOK, V!TmpDirs
  <2>5. buffer' \in 1..MaxMaps \cup {nullptr} /\ maps' \in 0..MaxMaps
    BY <1>1, <1>2, ReadsAssumption DEF V!TypeOK
  <2>6. sz' \in V!Sizes
        /\ file' \in Seq(V!Cell \cup {0}) /\ Len(file') \in V!Sizes
    BY <1>1, <1>2, <2>1 DEF V!TypeOK
  <2> QED
    BY <1>1, <2>2, <2>3, <2>4, <2>5, <2>6 DEF V!TypeOK
<1>3. ASSUME NEW c \in Copiers, NEW a \in V!Cell, NEW n \in V!Cell,
             V!Begin(c, a, n)
      PROVE  V!TypeOK'
  <2> USE <1>1, <1>3 DEF V!Begin, V!TypeOK, V!Goto
  <2> HIDE DEF V!Sizes, V!Cell
  <2>1. alone' \in [Copiers -> BOOLEAN] /\ overlapped' \in BOOLEAN
    OBVIOUS
  <2>2. dest' \in [Copiers -> Seq(V!Cell \cup {0})]
    OBVIOUS
  <2>3. vm_pc' \in [Copiers -> {"idle", "resize", "remap", "write", "fetch",
                             "memcpy", "returned", "crashed"}]
    OBVIOUS
  <2>4. /\ src' \in [Copiers -> V!Cell] /\ len' \in [Copiers -> V!Sizes]
        /\ from' \in [Copiers -> 1..MaxMaps \cup {nullptr}]
        /\ result' \in [Copiers -> V!Sizes \cup {-1}]
    OBVIOUS
  <2> QED
    BY <2>1, <2>2, <2>3, <2>4
<1>4. ASSUME NEW c \in Copiers, V!ReadProcess(c) PROVE V!TypeOK'
  <2>1. /\ len[c] \in V!Cell /\ src[c] \in V!Cell
        /\ src[c] + len[c] - 1 <= Cells
        /\ len[c] \in Nat /\ src[c] \in Nat /\ len[c] \in V!Sizes
    BY <1>1, <1>4, Asked DEF VmInv, MethodInv, V!Copying, V!ReadProcess
  <2>2. V!Readable(c) \in 0..len[c] /\ V!Readable(c) \in V!Sizes
    <3>1. V!Readable(c) \in 0..len[c]
      BY <2>1, ReadableBound
    <3> QED
      BY <2>1, <3>1, SizesBound
  <2>3. SubSeq(V!Source(c), 1, V!Readable(c)) \in Seq(V!Cell \cup {0})
    <3>1. V!Source(c) \in [1..len[c] -> V!Cell \cup {0}]
      BY <2>1, ReadsAssumption DEF V!Source, V!Cell
    <3>2. V!Source(c) \in Seq(V!Cell \cup {0}) /\ Len(V!Source(c)) = len[c]
      BY <2>1, <3>1, SeqDef, LenProperties
    <3>3. \A i \in 1..V!Readable(c) : V!Source(c)[i] \in V!Cell \cup {0}
      BY <2>1, <2>2, <3>1
    <3> QED
      BY <2>1, <2>2, <3>2, <3>3, SubSeqProperties
  <2>4. V!Transferred(c) \in V!Sizes \cup {-1}
    BY <2>2 DEF V!Transferred
  <2> HIDE DEF V!Sizes, V!Cell, V!Transferred, V!Source, V!Readable
  <2> QED
    BY <1>1, <1>4, <2>3, <2>4 DEF V!ReadProcess, V!Return, V!Goto, V!TypeOK
<1>5. ASSUME NEW c \in Copiers, V!GrowFile(c) PROVE V!TypeOK'
  <2>1. V!Resize(len[c]) \in Seq(V!Cell \cup {0})
        /\ Len(V!Resize(len[c])) \in V!Sizes
    BY <1>1, Resized DEF V!TypeOK
  <2> HIDE DEF V!Sizes, V!Cell, V!Resize
  <2> QED
    BY <1>1, <1>5, <2>1 DEF V!GrowFile, V!Return, V!Goto, V!TypeOK
<1>6. ASSUME NEW c \in Copiers, V!Remap(c) PROVE V!TypeOK'
  BY <1>1, <1>6, ReadsAssumption DEF V!Remap, V!Goto, V!TypeOK
<1>7. ASSUME NEW c \in Copiers, V!RemapFails(c) PROVE V!TypeOK'
  BY <1>1, <1>7 DEF V!RemapFails, V!Return, V!Goto, V!TypeOK
<1>8. ASSUME NEW c \in Copiers, V!Write(c) PROVE V!TypeOK'
  <2>1. vm_pc[c] = "write" /\ len[c] \in V!Sizes /\ len[c] \in Nat
    BY <1>1, <1>8, Asked DEF V!Write, V!TypeOK
  <2>2. V!Written(c) \in Seq(V!Cell \cup {0}) /\ Len(V!Written(c)) \in V!Sizes
    BY <2>1, WrittenCells DEF VmInv
  <2>3. V!Transferred(c) \in V!Sizes \cup {-1}
    BY <2>1, ReadableBound, SizesBound DEF V!Transferred
  <2> HIDE DEF V!Sizes, V!Cell, V!Written, V!Transferred, V!Readable
  <2> QED
    BY <1>1, <1>8, <2>2, <2>3 DEF V!Write, V!Return, V!Goto, V!TypeOK
<1>9. ASSUME NEW c \in Copiers, V!FetchBuffer(c) PROVE V!TypeOK'
  BY <1>1, <1>9 DEF V!FetchBuffer, V!Goto, V!TypeOK
<1>10. ASSUME NEW c \in Copiers, V!Memcpy(c) PROVE V!TypeOK'
  <2>1. CASE V!Mapped(c)
    <3>1. len[c] \in Nat /\ len[c] <= Len(file) /\ file \in Seq(V!Cell \cup {0})
      BY <1>1, <2>1, Asked DEF V!Mapped, V!TypeOK
    <3>2. \A i \in 1..len[c] : file[i] \in V!Cell \cup {0}
      BY <3>1, ElementOfSeq, LenProperties
    <3>3. SubSeq(file, 1, len[c]) \in Seq(V!Cell \cup {0})
      BY <3>1, <3>2, SubSeqProperties
    <3> QED
      BY <1>1, <1>10, <2>1, <3>3 DEF V!Memcpy, V!Goto, V!TypeOK
  <2>2. CASE ~V!Mapped(c)
    BY <1>1, <1>10, <2>2 DEF V!Memcpy, V!Goto, V!TypeOK
  <2> QED
    BY <2>1, <2>2
<1>11. ASSUME NEW a \in V!Cell, V!Change(a) PROVE V!TypeOK'
  BY <1>1, <1>11 DEF V!Change, V!TypeOK
<1>12. CASE UNCHANGED V!vars
  BY <1>1, <1>12 DEF V!vars, V!TypeOK
<1> QED
  BY <1>2, <1>3, <1>4, <1>5, <1>6, <1>7, <1>8, <1>9, <1>10, <1>11, <1>12
  DEF V!Next, V!CopyStep

-----------------------------------------------------------------------------
LEMMA MethodStep ==
  ASSUME VmInv, [V!Next]_V!vars
  PROVE  MethodInv'
<1> USE DEF MethodInv, V!Copying, V!chosen, V!reader, V!copy
<1>1. V!TypeOK /\ MethodInv
  BY DEF VmInv
<1>2. CASE V!InitSafeCopy
  BY <1>1, <1>2 DEF V!InitSafeCopy, V!UseSafeMemcpy, V!UseProcessVmReadv,
     V!CreateVmReader, V!NoTmpFile, V!NoMapping, V!MapTmpFile, V!UseVmReader,
     V!Trying
<1>3. ASSUME NEW c \in Copiers, NEW a \in V!Cell, NEW n \in V!Cell,
             V!Begin(c, a, n)
      PROVE  MethodInv'
  BY <1>1, <1>3 DEF V!Begin, V!Goto, V!TypeOK
<1>4. ASSUME NEW c \in Copiers, V!CopyStep(c) PROVE MethodInv'
  <2>1. /\ UNCHANGED <<safe_copy, src, len>>
        /\ vm_pc[c] \in {"resize", "remap", "write", "fetch", "memcpy"}
        /\ \A d \in Copiers \ {c} : vm_pc'[d] = vm_pc[d]
        /\ safe_copy = "process_vm_readv" => vm_pc'[c] = "returned"
    BY <1>1, <1>4 DEF V!CopyStep, V!ReadProcess, V!GrowFile, V!Remap,
       V!RemapFails, V!Write, V!FetchBuffer, V!Memcpy, V!Return, V!Goto,
       V!TypeOK
  <2> QED
    BY <1>1, <2>1
<1>5. CASE (\E a \in V!Cell : V!Change(a)) \/ UNCHANGED V!vars
  BY <1>1, <1>5 DEF V!Change, V!vars
<1> QED
  BY <1>2, <1>3, <1>4, <1>5 DEF V!Next

LEMMA AloneStep ==
  ASSUME VmInv, [V!Next]_V!vars
  PROVE  AloneInv'
<1> USE DEF AloneInv, V!Copying, V!chosen, V!reader, V!copy
<1>1. V!TypeOK /\ AloneInv
  BY DEF VmInv
<1>2. CASE V!InitSafeCopy
  BY <1>1, <1>2 DEF V!InitSafeCopy, V!UseSafeMemcpy, V!UseProcessVmReadv,
     V!CreateVmReader, V!NoTmpFile, V!NoMapping, V!MapTmpFile, V!UseVmReader,
     V!Trying
<1>3. ASSUME NEW c \in Copiers, NEW a \in V!Cell, NEW n \in V!Cell,
             V!Begin(c, a, n)
      PROVE  AloneInv'
  BY <1>1, <1>3 DEF V!Begin, V!Goto, V!TypeOK
<1>4. ASSUME NEW c \in Copiers, V!CopyStep(c) PROVE AloneInv'
  <2>1. /\ UNCHANGED <<alone, overlapped>>
        /\ c \in V!Copying
        /\ \A d \in Copiers \ {c} : vm_pc'[d] = vm_pc[d]
    BY <1>1, <1>4 DEF V!CopyStep, V!ReadProcess, V!GrowFile, V!Remap,
       V!RemapFails, V!Write, V!FetchBuffer, V!Memcpy, V!Return, V!Goto,
       V!TypeOK
  <2> QED
    BY <1>1, <2>1
<1>5. CASE (\E a \in V!Cell : V!Change(a)) \/ UNCHANGED V!vars
  BY <1>1, <1>5 DEF V!Change, V!vars
<1> QED
  BY <1>2, <1>3, <1>4, <1>5 DEF V!Next

(* A copy that finds a longer one under way is overlapped with it: alone,  *)
(* it leaves a file that is as long as the mapping, or longer.             *)
LEMMA SizeStep ==
  ASSUME VmInv, [V!Next]_V!vars
  PROVE  SizeInv'
<1> USE DEF SizeInv, V!chosen, V!reader, V!copy
<1>1. V!TypeOK /\ MethodInv /\ AloneInv /\ SizeInv
  BY DEF VmInv
<1>2. CASE V!InitSafeCopy
  <2>1. Len(V!Zeros(BufferSize)) = BufferSize /\ BufferSize <= BufferSize
    BY ReadsAssumption, Zeroed
  <2> HIDE DEF V!Zeros
  <2> QED
    BY <1>1, <1>2, <2>1 DEF V!InitSafeCopy, V!UseSafeMemcpy,
       V!UseProcessVmReadv, V!CreateVmReader, V!NoTmpFile, V!NoMapping,
       V!MapTmpFile, V!UseVmReader, V!Trying, V!TmpDirs, MethodInv
<1>3. ASSUME NEW c \in Copiers, NEW a \in V!Cell, NEW n \in V!Cell,
             V!Begin(c, a, n)
      PROVE  SizeInv'
  <2>1. n \in Nat /\ sz \in Nat
    BY <1>1, Asked, SizesBound
  <2>2. /\ UNCHANGED <<safe_copy, dir, buffer, sz, file>>
        /\ overlapped' = (overlapped \/ V!Copying # {})
        /\ vm_pc'[c] =
             IF safe_copy = "vmreader" /\ n > sz THEN "resize" ELSE "write"
        /\ len'[c] = n
        /\ \A d \in Copiers \ {c} :
             vm_pc'[d] = vm_pc[d] /\ len'[d] = len[d] /\ from'[d] = from[d]
    BY <1>1, <1>3 DEF V!Begin, V!Goto, V!TypeOK
  <2>3. safe_copy # "none"
    BY <1>3 DEF V!Begin
  <2> SUFFICES ASSUME buffer # nullptr, safe_copy = "vmreader", ~overlapped'
               PROVE  SizeInv'
    BY <2>2, <2>3
  <2>4. ~overlapped
    BY <2>2, Zenon
  <2>5. sz <= Len(file)
    BY <1>1, <2>4, Zenon
  <2>6. \A d \in Copiers \ {c} :
          /\ vm_pc[d] = "resize" => len[d] > sz
          /\ vm_pc[d] = "remap" => len[d] = Len(file)
          /\ vm_pc[d] \in {"write", "fetch", "memcpy"} => len[d] <= sz
          /\ vm_pc[d] = "memcpy" => from[d] = buffer
    BY <1>1, <2>4
  <2> QED
    BY <2>1, <2>2, <2>3, <2>5, <2>6
<1>4. ASSUME NEW c \in Copiers, V!CopyStep(c) PROVE SizeInv'
  <2> SUFFICES ASSUME buffer # nullptr, safe_copy = "vmreader", ~overlapped
               PROVE  /\ sz' <= Len(file)'
                      /\ \A d \in Copiers :
                           /\ vm_pc'[d] = "resize" => len'[d] > sz'
                           /\ vm_pc'[d] = "remap" => len'[d] = Len(file)'
                           /\ vm_pc'[d] \in {"write", "fetch", "memcpy"} =>
                                len'[d] <= sz'
                           /\ vm_pc'[d] = "memcpy" => from'[d] = buffer'
    <3>1. /\ UNCHANGED <<safe_copy, overlapped>>
          /\ vm_pc[c] # "idle"
          /\ buffer' # nullptr => buffer # nullptr
      BY <1>4 DEF V!CopyStep, V!ReadProcess, V!GrowFile, V!Remap, V!RemapFails,
         V!Write, V!FetchBuffer, V!Memcpy, V!Return, V!Goto
    <3>2. safe_copy # "none"
      BY <1>1, <3>1 DEF MethodInv
    <3> QED
      BY <3>1, <3>2
  <2> DEFINE Moves == {"resize", "remap", "write", "fetch", "memcpy"}
  <2>1. \A d \in Copiers \ {c} : vm_pc[d] \notin Moves /\ vm_pc'[d] \notin Moves
    <3>1. c \in V!Copying /\ \A d \in Copiers \ {c} : vm_pc'[d] = vm_pc[d]
      BY <1>1, <1>4 DEF V!CopyStep, V!ReadProcess, V!GrowFile, V!Remap,
         V!RemapFails, V!Write, V!FetchBuffer, V!Memcpy, V!Return, V!Goto,
         V!Copying, V!TypeOK
    <3>2. \A d \in Copiers \ {c} : d \notin V!Copying
      BY <1>1, <3>1 DEF AloneInv
    <3> QED
      BY <3>1, <3>2 DEF V!Copying
  <2>2. len[c] \in Nat /\ sz \in Nat /\ Len(file) \in Nat /\ len[c] \in V!Sizes
    BY <1>1, Asked, LenProperties DEF V!TypeOK
  <2>3. CASE V!GrowFile(c)
    <3>1. Len(V!Resize(len[c])) = len[c]
      BY <1>1, <2>2, Resized
    <3> HIDE DEF V!Resize
    <3> QED
      BY <1>1, <2>1, <2>2, <2>3, <3>1 DEF V!GrowFile, V!Return, V!Goto, V!TypeOK
  <2>4. CASE V!Remap(c)
    BY <1>1, <2>1, <2>2, <2>4 DEF V!Remap, V!Goto, V!TypeOK
  <2>5. CASE V!RemapFails(c) \/ V!ReadProcess(c)
    BY <1>1, <2>1, <2>2, <2>5 DEF V!RemapFails, V!ReadProcess, V!Return,
       V!Goto, V!TypeOK
  <2>6. CASE V!Write(c)
    <3>1. Len(file) <= Len(V!Written(c)) /\ Len(V!Written(c)) \in Nat
      BY <1>1, <2>6, WrittenCells, LenProperties DEF V!Write
    <3> HIDE DEF V!Written
    <3> QED
      BY <1>1, <2>1, <2>2, <2>6, <3>1 DEF V!Write, V!Return, V!Goto, V!TypeOK
  <2>7. CASE V!FetchBuffer(c) \/ V!Memcpy(c)
    BY <1>1, <2>1, <2>2, <2>7 DEF V!FetchBuffer, V!Memcpy, V!Goto, V!TypeOK
  <2> QED
    BY <1>4, <2>3, <2>4, <2>5, <2>6, <2>7 DEF V!CopyStep
<1>5. CASE (\E a \in V!Cell : V!Change(a)) \/ UNCHANGED V!vars
  BY <1>1, <1>5 DEF V!Change, V!vars
<1> QED
  BY <1>2, <1>3, <1>4, <1>5 DEF V!Next

(* What a copy does, seen by the others.                                   *)
LEMMA OthersWait ==
  ASSUME VmInv, NEW c \in Copiers, V!CopyStep(c)
  PROVE  /\ c \in V!Copying
         /\ UNCHANGED <<safe_copy, src, len, alone, overlapped>>
         /\ \A d \in Copiers \ {c} :
              /\ vm_pc'[d] = vm_pc[d]
              /\ dest'[d] = dest[d] /\ result'[d] = result[d]
              /\ d \in V!Copying => ~alone[d]
<1>1. /\ c \in V!Copying /\ UNCHANGED <<safe_copy, src, len, alone, overlapped>>
      /\ \A d \in Copiers \ {c} :
           vm_pc'[d] = vm_pc[d] /\ dest'[d] = dest[d] /\ result'[d] = result[d]
  BY DEF VmInv, V!CopyStep, V!ReadProcess, V!GrowFile, V!Remap, V!RemapFails,
     V!Write, V!FetchBuffer, V!Memcpy, V!Return, V!Goto, V!Copying, V!TypeOK,
     V!chosen, V!reader
<1> QED
  BY <1>1 DEF VmInv, AloneInv

(* A copy has transferred all only if all could be read.                   *)
LEMMA AllTransferred ==
  ASSUME VmInv, NEW c \in V!Copying, V!Transferred(c) = len[c]
  PROVE  V!Readable(c) = len[c]
<1>1. len[c] \in Nat /\ len[c] # -1
  BY Asked DEF VmInv, V!Copying
<1> QED
  BY <1>1 DEF V!Transferred

LEMMA DataStep ==
  ASSUME VmInv, [V!Next]_V!vars
  PROVE  DataInv'
<1> USE DEF DataInv, V!chosen, V!reader, V!copy
<1>1. V!TypeOK /\ MethodInv /\ AloneInv /\ DataInv
  BY DEF VmInv
<1>2. CASE V!InitSafeCopy
  BY <1>1, <1>2 DEF V!InitSafeCopy, V!UseSafeMemcpy, V!UseProcessVmReadv,
     V!CreateVmReader, V!NoTmpFile, V!NoMapping, V!MapTmpFile, V!UseVmReader,
     V!Trying, MethodInv
<1>3. ASSUME NEW c \in Copiers, NEW a \in V!Cell, NEW n \in V!Cell,
             V!Begin(c, a, n)
      PROVE  DataInv'
  <2>1. /\ UNCHANGED file /\ vm_pc'[c] \in {"resize", "write"}
        /\ \A d \in Copiers \ {c} :
             /\ vm_pc'[d] = vm_pc[d] /\ len'[d] = len[d] /\ src'[d] = src[d]
             /\ result'[d] = result[d]
             /\ alone'[d] => alone[d]
    BY <1>1, <1>3 DEF V!Begin, V!Goto, V!TypeOK
  <2> QED
    BY <1>1, <2>1
<1>4. ASSUME NEW c \in Copiers, V!CopyStep(c) PROVE DataInv'
  <2>1. \A d \in Copiers \ {c} :
          vm_pc'[d] \in {"fetch", "memcpy"} => ~alone'[d]
    BY <1>4, OthersWait DEF VmInv, V!Copying
  <2> SUFFICES ASSUME vm_pc'[c] \in {"fetch", "memcpy"}, alone'[c],
                      result'[c] = len'[c]
               PROVE  /\ len'[c] <= Len(file')
                      /\ \A i \in 1..len'[c] : file'[i] = src'[c] + i - 1
    BY <2>1
  <2>2. CASE V!Write(c)
    <3>1. /\ vm_pc[c] = "write" /\ c \in V!Copying /\ UNCHANGED <<src, len>>
          /\ file' = V!Written(c) /\ V!Transferred(c) = len[c]
      BY <1>1, <2>2 DEF V!Write, V!Return, V!Goto, V!Copying, V!TypeOK
    <3>2. V!Readable(c) = len[c]
      BY <3>1, AllTransferred
    <3> QED
      BY <1>1, <3>1, <3>2, WrittenCells
  <2>3. CASE V!FetchBuffer(c)
    BY <1>1, <2>3 DEF V!FetchBuffer, V!Goto, V!TypeOK
  <2>4. CASE ~V!Write(c) /\ ~V!FetchBuffer(c)
    BY <1>1, <1>4, <2>4 DEF V!CopyStep, V!ReadProcess, V!GrowFile, V!Remap,
       V!RemapFails, V!Memcpy, V!Return, V!Goto, V!TypeOK
  <2> QED
    BY <2>2, <2>3, <2>4
<1>5. CASE (\E a \in V!Cell : V!Change(a)) \/ UNCHANGED V!vars
  BY <1>1, <1>5 DEF V!Change, V!vars
<1> QED
  BY <1>2, <1>3, <1>4, <1>5 DEF V!Next

LEMMA TrueStep ==
  ASSUME VmInv, [V!Next]_V!vars
  PROVE  V!CopyTrue'
<1> USE DEF V!CopyTrue, V!Source, V!chosen, V!reader, V!copy
<1>1. V!TypeOK /\ MethodInv /\ AloneInv /\ DataInv /\ V!CopyTrue
  BY DEF VmInv
<1>2. CASE V!InitSafeCopy
  BY <1>1, <1>2 DEF V!InitSafeCopy, V!UseSafeMemcpy, V!UseProcessVmReadv,
     V!CreateVmReader, V!NoTmpFile, V!NoMapping, V!MapTmpFile, V!UseVmReader,
     V!Trying, MethodInv
<1>3. ASSUME NEW c \in Copiers, NEW a \in V!Cell, NEW n \in V!Cell,
             V!Begin(c, a, n)
      PROVE  V!CopyTrue'
  <2>1. /\ UNCHANGED safe_copy /\ vm_pc'[c] \in {"resize", "write"}
        /\ \A d \in Copiers \ {c} :
             /\ vm_pc'[d] = vm_pc[d] /\ len'[d] = len[d] /\ src'[d] = src[d]
             /\ result'[d] = result[d] /\ dest'[d] = dest[d]
             /\ alone'[d] => alone[d]
    BY <1>1, <1>3 DEF V!Begin, V!Goto, V!TypeOK
  <2> QED
    BY <1>1, <2>1
<1>4. ASSUME NEW c \in Copiers, V!CopyStep(c) PROVE V!CopyTrue'
  <2>1. \A d \in Copiers \ {c} :
          /\ vm_pc'[d] = "returned" /\ result'[d] = len'[d]
          /\ safe_copy' = "vmreader" => alone'[d]
          => dest'[d] = [i \in 1..len'[d] |-> src'[d] + i - 1]
    BY <1>1, <1>4, OthersWait
  <2> SUFFICES ASSUME vm_pc'[c] = "returned", result'[c] = len'[c],
                      safe_copy' = "vmreader" => alone'[c]
               PROVE  dest'[c] = [i \in 1..len[c] |-> src[c] + i - 1]
    BY <1>4, <2>1, OthersWait
  <2>2. c \in V!Copying /\ UNCHANGED <<safe_copy, src, len, alone>>
        /\ len[c] \in V!Cell
        /\ len[c] \in Nat /\ len[c] # 0 /\ len[c] # -1
    <3>1. c \in V!Copying /\ UNCHANGED <<safe_copy, src, len, alone>>
      BY <1>4, OthersWait
    <3>2. len[c] \in V!Cell
      BY <1>1, <3>1 DEF MethodInv
    <3> QED
      BY <3>1, <3>2, ReadsAssumption DEF V!Cell
  <2>3. CASE V!ReadProcess(c)
    <3>1. dest'[c] = SubSeq(V!Source(c), 1, V!Readable(c))
          /\ V!Transferred(c) = len[c]
      BY <1>1, <2>2, <2>3 DEF V!ReadProcess, V!Return, V!TypeOK
    <3>2. V!Readable(c) = len[c]
      BY <2>2, <3>1, AllTransferred
    <3>3. SubSeq(V!Source(c), 1, Len(V!Source(c))) = V!Source(c)
      BY <1>1, SourceCells, SubSeqFull
    <3> QED
      BY <1>1, <3>1, <3>2, <3>3, SourceCells
  <2>4. CASE V!Memcpy(c)
    <3>1. /\ vm_pc[c] = "memcpy" /\ dest'[c] = SubSeq(file, 1, len[c])
          /\ result[c] = len[c] /\ safe_copy = "vmreader"
      BY <1>1, <2>2, <2>4 DEF V!Memcpy, V!Goto, V!TypeOK, MethodInv
    <3>2. /\ alone[c] /\ len[c] <= Len(file)
          /\ \A i \in 1..len[c] : file[i] = src[c] + i - 1
      BY <1>1, <2>2, <3>1 DEF DataInv
    <3>3. \A i \in 1..len[c] : file[i] \in V!Cell \cup {0}
      BY <1>1, <2>2, <3>2, ElementOfSeq, LenProperties DEF V!TypeOK
    <3>4. /\ SubSeq(file, 1, len[c]) \in Seq(V!Cell \cup {0})
          /\ Len(SubSeq(file, 1, len[c])) = len[c]
          /\ \A i \in 1..len[c] : SubSeq(file, 1, len[c])[i] = file[i]
      BY <1>1, <2>2, <3>2, <3>3, SubSeqProperties DEF V!TypeOK
    <3>5. dest'[c] \in [1..len[c] -> V!Cell \cup {0}]
      BY <3>1, <3>4, LenProperties
    <3> QED
      BY <3>1, <3>2, <3>4, <3>5
  <2>5. CASE ~V!ReadProcess(c) /\ ~V!Memcpy(c)
    BY <1>1, <1>4, <2>2, <2>5 DEF V!CopyStep, V!GrowFile, V!Remap, V!RemapFails,
       V!Write, V!FetchBuffer, V!Return, V!Goto, V!TypeOK
  <2> QED
    BY <2>3, <2>4, <2>5
<1>5. CASE (\E a \in V!Cell : V!Change(a)) \/ UNCHANGED V!vars
  BY <1>1, <1>5 DEF V!Change, V!vars
<1> QED
  BY <1>2, <1>3, <1>4, <1>5 DEF V!Next

LEMMA CrashStep ==
  ASSUME VmInv, [V!Next]_V!vars
  PROVE  V!NeverCrashes'
<1> USE DEF V!NeverCrashes, V!chosen, V!reader, V!copy
<1>1. V!TypeOK /\ MethodInv /\ AloneInv /\ SizeInv /\ V!NeverCrashes
  BY DEF VmInv
<1>2. CASE V!InitSafeCopy
  BY <1>1, <1>2 DEF V!InitSafeCopy, V!UseSafeMemcpy, V!UseProcessVmReadv,
     V!CreateVmReader, V!NoTmpFile, V!NoMapping, V!MapTmpFile, V!UseVmReader,
     V!Trying, MethodInv
<1>3. ASSUME NEW c \in Copiers, NEW a \in V!Cell, NEW n \in V!Cell,
             V!Begin(c, a, n)
      PROVE  V!NeverCrashes'
  <2>1. /\ UNCHANGED buffer /\ vm_pc'[c] # "crashed"
        /\ \A d \in Copiers \ {c} : vm_pc'[d] = vm_pc[d]
        /\ overlapped => overlapped'
    BY <1>1, <1>3, Zenon DEF V!Begin, V!Goto, V!TypeOK
  <2> QED
    BY <1>1, <2>1
<1>4. ASSUME NEW c \in Copiers, V!CopyStep(c) PROVE V!NeverCrashes'
  <2>1. /\ UNCHANGED overlapped
        /\ \A d \in Copiers \ {c} : vm_pc'[d] = vm_pc[d]
        /\ buffer = nullptr => UNCHANGED buffer
    BY <1>4, OthersWait DEF V!CopyStep, V!ReadProcess, V!GrowFile, V!Remap,
       V!RemapFails, V!Write, V!FetchBuffer, V!Memcpy, V!reader
  <2>2. vm_pc'[c] = "crashed" => buffer' = nullptr \/ overlapped'
    <3>1. CASE V!Memcpy(c)
      <4>1. vm_pc[c] = "memcpy" /\ UNCHANGED <<buffer, overlapped>>
        BY <3>1 DEF V!Memcpy
      <4>2. safe_copy = "vmreader"
        BY <1>1, <4>1 DEF MethodInv, V!TypeOK
      <4>3. buffer # nullptr /\ ~overlapped => V!Mapped(c)
        <5>1. len[c] \in Nat /\ sz \in Nat /\ Len(file) \in Nat
          BY <1>1, Asked, LenProperties DEF V!TypeOK
        <5> QED
          BY <1>1, <4>1, <4>2, <5>1 DEF SizeInv, V!Mapped
      <4>4. V!Mapped(c) => vm_pc'[c] # "crashed"
        BY <1>1, <3>1 DEF V!Memcpy, V!Goto, V!TypeOK
      <4> QED
        BY <4>1, <4>3, <4>4
    <3>2. CASE ~V!Memcpy(c)
      BY <1>1, <1>4, <3>2 DEF V!CopyStep, V!ReadProcess, V!GrowFile, V!Remap,
         V!RemapFails, V!Write, V!FetchBuffer, V!Return, V!Goto, V!TypeOK
    <3> QED
      BY <3>1, <3>2
  <2> QED
    BY <1>1, <2>1, <2>2
<1>5. CASE (\E a \in V!Cell : V!Change(a)) \/ UNCHANGED V!vars
  BY <1>1, <1>5 DEF V!Change, V!vars
<1> QED
  BY <1>2, <1>3, <1>4, <1>5 DEF V!Next

LEMMA VmStart == V!Init => VmInv
<1> SUFFICES ASSUME V!Init PROVE VmInv
  OBVIOUS
<1> USE DEF V!Init
<1>1. 0 \in V!Sizes /\ <<>> \in Seq(V!Cell \cup {0}) /\ Len(<<>>) = 0
  BY SizesBound
<1>2. V!TypeOK
  <2>1. /\ src \in [Copiers -> V!Cell \cup {1}] /\ len \in [Copiers -> V!Sizes]
        /\ result \in [Copiers -> V!Sizes \cup {-1}]
        /\ dest \in [Copiers -> Seq(V!Cell \cup {0})]
    BY <1>1
  <2>2. 1 \in V!Cell
    BY ReadsAssumption DEF V!Cell
  <2>3. src \in [Copiers -> V!Cell]
    BY <2>1, <2>2
  <2>4. dir \in 0..V!TmpDirs + 1 /\ maps \in 0..MaxMaps /\ sz \in V!Sizes
    BY <1>1, ReadsAssumption DEF V!TmpDirs
  <2> QED
    BY <1>1, <2>1, <2>3, <2>4 DEF V!TypeOK
<1>3. MethodInv /\ AloneInv /\ SizeInv /\ DataInv /\ V!CopyTrue
      /\ V!NeverCrashes
  BY DEF MethodInv, AloneInv, SizeInv, DataInv, V!CopyTrue, V!NeverCrashes,
     V!Copying
<1> QED
  BY <1>2, <1>3 DEF VmInv

LEMMA VmStep == VmInv /\ [V!Next]_V!vars => VmInv'
BY VmTyping, MethodStep, AloneStep, SizeStep, DataStep, TrueStep, CrashStep
   DEF VmInv

(* A copy VmReader reports as made is right, and one that it cannot make   *)
(* is reported as failed: for memory and buffers of any size.              *)
THEOREM CopiesTrue == V!Spec => []V!CopySafe
<1>1. VmInv => V!CopySafe
  BY DEF VmInv, V!CopySafe
<1> QED
  BY <1>1, VmStart, VmStep, PTL DEF V!Spec

-----------------------------------------------------------------------------
(* Side by side, each of the two runs as it does by itself.                *)
LEMMA Parts == MCSpec => M!Spec /\ V!Spec
<1>1. MCInit => M!Init /\ V!Init
  BY DEF MCInit
<1>2. ASSUME [MCNext]_<<part, vars, memcpy_vars, vmreader_vars, interp_vars>>
      PROVE  [M!Next]_M!vars /\ [V!Next]_V!vars
  <2>1. UNCHANGED memcpy_vars => UNCHANGED M!vars
    BY DEF memcpy_vars, M!vars, M!handlers, M!local
  <2>2. UNCHANGED vmreader_vars => UNCHANGED V!vars
    BY DEF vmreader_vars, V!vars, V!chosen, V!reader, V!copy
  <2> QED
    BY <1>2, <2>1, <2>2, Zenon DEF MCNext
<1> QED
  BY <1>1, <1>2, PTL DEF MCSpec, M!Spec, V!Spec

(* Whichever way memory is copied, the copy is right or has failed, and a  *)
(* fault on the way does not end the process.                              *)
THEOREM CopiesAreSafe == MCSpec => []CopiesSafe
<1>1. V!CopySafe /\ M!Survives => CopiesSafe
  BY DEF CopiesSafe
<1> QED
  BY <1>1, Parts, CopiesTrue, FaultsSurvived, PTL

-----------------------------------------------------------------------------

(* Whoever is at an entry of the map has the map's lock. *)
HoldInv ==
  \A w \in Walkers :
    /\ pc[w] = "copied" => target[w] \in Threads
    /\ pc[w] \in Holding => map_lock = w /\ target[w] \in thread_info_map

(* A thread that the hooks have seen leaves the map before it ends, for    *)
(* good but for the name of the main thread, which never ends.             *)
TrackInv ==
  /\ life[MainThread] = "running" /\ MainThread \notin hooked
  /\ \A t \in hooked :
       /\ life[t] # "unborn"
       /\ life[t] \in {"untracked", "exited"} => t \notin thread_info_map \ as_main

(* The handler is installed while there is a sampler, and the sampler is   *)
(* there while there is a listener.                                        *)
InstallInv ==
  /\ pc["sampler"] # "off" => installed
  /\ pc["listener"] # "off" => pc["sampler"] # "off"

(* The handshake: one walker at a time asks, the thread it asks answers    *)
(* with the lock taken for it, and the stacks are its own from the moment  *)
(* the lock is free again.                                                 *)
Asking == {"guarded", "waiting", "render"}

HandshakeInv ==
  /\ \A w \in Walkers :
       /\ pc[w] \in Asking => current_tstate = target[w]
       /\ pc[w] \in {"guarded", "render"} => sigprof_handler_lock = 1
       /\ \/ pc[w] = "render"
          \/ pc[w] = "waiting" /\ sigprof_handler_lock = 0
          => native_stack = target[w] /\ python_stack = target[w]
  /\ \A t \in Threads :
       /\ handler[t] # "none" =>
            /\ sigprof_handler_lock = 1
            /\ \E w \in Walkers : pc[w] = "waiting" /\ target[w] = t
       /\ handler[t] \in {"python", "done"} => native_stack = t
       /\ handler[t] = "done" => python_stack = t

IInv == TypeOK /\ HoldInv /\ TrackInv /\ InstallInv /\ HandshakeInv

(* Every step keeps the state well typed. *)
LEMMA TypingStep ==
  ASSUME IInv, [Next]_vars
  PROVE  TypeOK'
<1> USE NativeAssumption DEF IInv, TypeOK, Walkers, Free, Idle, Holding,
   program, stacks, session, walk, locks
<1>1. ASSUME NEW t \in Threads, Born(t) PROVE TypeOK'
  BY <1>1 DEF Born
<1>2. ASSUME NEW t \in Threads, Leave(t) PROVE TypeOK'
  BY <1>2 DEF Leave, Undisturbed, Alive
<1>3. ASSUME NEW t \in Threads, UntrackThread(t) PROVE TypeOK'
  BY <1>3 DEF UntrackThread, UntrackLocked, Undisturbed, Alive
<1>4. ASSUME NEW t \in Threads, Exit(t) PROVE TypeOK'
  BY <1>4 DEF Exit, Undisturbed, Alive
<1>5. ASSUME NEW t \in Threads, TakeTable(t) PROVE TypeOK'
  BY <1>5 DEF TakeTable
<1>6. ASSUME NEW t \in Threads, ReleaseTable(t) PROVE TypeOK'
  BY <1>6 DEF ReleaseTable
<1>7. ASSUME NEW t \in Threads, Deliver(t) PROVE TypeOK'
  BY <1>7 DEF Deliver, Alive
<1>8. ASSUME NEW t \in Threads, UnwindNativeStack(t) PROVE TypeOK'
  BY <1>8 DEF UnwindNativeStack
<1>9. ASSUME NEW t \in Threads, UnwindPythonStack(t) PROVE TypeOK'
  BY <1>9 DEF UnwindPythonStack
<1>10. ASSUME NEW t \in Threads, HandlerUnlock(t) PROVE TypeOK'
  BY <1>10 DEF HandlerUnlock, Unlocked, HandshakeInv
<1>11. ASSUME NEW w \in Walkers, BeginPass(w) PROVE TypeOK'
  BY <1>11 DEF BeginPass, Goto
<1>12. ASSUME NEW w \in Walkers, NEW t \in Threads, CopyThread(w, t) PROVE TypeOK'
  BY <1>12 DEF CopyThread, Goto
<1>13. ASSUME NEW w \in Walkers, EndPass(w) PROVE TypeOK'
  BY <1>13 DEF EndPass, Goto
<1>14. ASSUME NEW w \in Walkers, LockMap(w) PROVE TypeOK'
  BY <1>14 DEF LockMap, Goto, Found, TakenForMain, HoldInv
<1>15. ASSUME NEW w \in Walkers, Missing(w) PROVE TypeOK'
  BY <1>15 DEF Missing, Goto
<1>16. ASSUME NEW w \in Walkers, Skip(w) PROVE TypeOK'
  BY <1>16 DEF Skip, Goto
<1>17. ASSUME NEW w \in Walkers, Guard(w) PROVE TypeOK'
  BY <1>17 DEF Guard, Goto
<1>18. ASSUME NEW w \in Walkers, Kill(w) PROVE TypeOK'
  BY <1>18 DEF Kill, Goto, HoldInv
<1>19. ASSUME NEW w \in Walkers, LockAgain(w) PROVE TypeOK'
  BY <1>19 DEF LockAgain, Goto, HandlerDone
<1>20. ASSUME NEW w \in Walkers, Render(w) PROVE TypeOK'
  BY <1>20 DEF Render, Goto, MapReleased, HandshakeInv
<1>21. ASSUME Start PROVE TypeOK'
  BY <1>21 DEF Start, TrackInv
<1>22. ASSUME Stop PROVE TypeOK'
  BY <1>22 DEF Stop
<1>23. ASSUME Unpatch PROVE TypeOK'
  BY <1>23 DEF Unpatch
<1>24. ASSUME LoopExit PROVE TypeOK'
  BY <1>24 DEF LoopExit, Goto
<1>25. ASSUME ListenerExit PROVE TypeOK'
  BY <1>25 DEF ListenerExit, Goto
<1>26. ASSUME RestoreSignals PROVE TypeOK'
  BY <1>26 DEF RestoreSignals, Goto, ListenerJoined
<1>27. CASE UNCHANGED vars
  BY <1>27 DEF vars
<1> QED
  BY <1>1, <1>2, <1>3, <1>4, <1>5, <1>6, <1>7, <1>8, <1>9, <1>10,
     <1>11, <1>12, <1>13, <1>14, <1>15, <1>16, <1>17, <1>18, <1>19,
     <1>20, <1>21, <1>22, <1>23, <1>24, <1>25, <1>26, <1>27
     DEF Next, HandlerStep, WalkerStep, Teardown

(* The lock of the map, and the entry under it. *)
LEMMA HoldStep ==
  ASSUME IInv, [Next]_vars
  PROVE  HoldInv'
<1> USE NativeAssumption DEF IInv, TypeOK, HoldInv, Walkers, Free, Idle,
   Holding, program, stacks, session, walk, locks
<1>1. ASSUME NEW t \in Threads, Born(t) PROVE HoldInv'
  BY <1>1 DEF Born
<1>2. ASSUME NEW t \in Threads, Leave(t) PROVE HoldInv'
  BY <1>2 DEF Leave, Undisturbed, Alive
<1>3. ASSUME NEW t \in Threads, UntrackThread(t) PROVE HoldInv'
  BY <1>3 DEF UntrackThread, UntrackLocked, Undisturbed, Alive
<1>4. ASSUME NEW t \in Threads, Exit(t) PROVE HoldInv'
  BY <1>4 DEF Exit, Undisturbed, Alive
<1>5. ASSUME NEW t \in Threads, TakeTable(t) PROVE HoldInv'
  BY <1>5 DEF TakeTable
<1>6. ASSUME NEW t \in Threads, ReleaseTable(t) PROVE HoldInv'
  BY <1>6 DEF ReleaseTable
<1>7. ASSUME NEW t \in Threads, Deliver(t) PROVE HoldInv'
  BY <1>7 DEF Deliver, Alive
<1>8. ASSUME NEW t \in Threads, UnwindNativeStack(t) PROVE HoldInv'
  BY <1>8 DEF UnwindNativeStack
<1>9. ASSUME NEW t \in Threads, UnwindPythonStack(t) PROVE HoldInv'
  BY <1>9 DEF UnwindPythonStack
<1>10. ASSUME NEW t \in Threads, HandlerUnlock(t) PROVE HoldInv'
  BY <1>10 DEF HandlerUnlock, Unlocked
<1>11. ASSUME NEW w \in Walkers, BeginPass(w) PROVE HoldInv'
  BY <1>11 DEF BeginPass, Goto
<1>12. ASSUME NEW w \in Walkers, NEW t \in Threads, CopyThread(w, t) PROVE HoldInv'
  BY <1>12 DEF CopyThread, Goto
<1>13. ASSUME NEW w \in Walkers, EndPass(w) PROVE HoldInv'
  BY <1>13 DEF EndPass, Goto
<1>14. ASSUME NEW w \in Walkers, LockMap(w) PROVE HoldInv'
  BY <1>14 DEF LockMap, Goto, Found, TakenForMain
<1>15. ASSUME NEW w \in Walkers, Missing(w) PROVE HoldInv'
  BY <1>15 DEF Missing, Goto
<1>16. ASSUME NEW w \in Walkers, Skip(w) PROVE HoldInv'
  BY <1>16 DEF Skip, Goto
<1>17. ASSUME NEW w \in Walkers, Guard(w) PROVE HoldInv'
  BY <1>17 DEF Guard, Goto
<1>18. ASSUME NEW w \in Walkers, Kill(w) PROVE HoldInv'
  BY <1>18 DEF Kill, Goto
<1>19. ASSUME NEW w \in Walkers, LockAgain(w) PROVE HoldInv'
  BY <1>19 DEF LockAgain, Goto, HandlerDone
<1>20. ASSUME NEW w \in Walkers, Render(w) PROVE HoldInv'
  BY <1>20 DEF Render, Goto, MapReleased
<1>21. ASSUME Start PROVE HoldInv'
  BY <1>21 DEF Start
<1>22. ASSUME Stop PROVE HoldInv'
  BY <1>22 DEF Stop
<1>23. ASSUME Unpatch PROVE HoldInv'
  BY <1>23 DEF Unpatch
<1>24. ASSUME LoopExit PROVE HoldInv'
  BY <1>24 DEF LoopExit, Goto
<1>25. ASSUME ListenerExit PROVE HoldInv'
  BY <1>25 DEF ListenerExit, Goto
<1>26. ASSUME RestoreSignals PROVE HoldInv'
  BY <1>26 DEF RestoreSignals, Goto, ListenerJoined
<1>27. CASE UNCHANGED vars
  BY <1>27 DEF vars
<1> QED
  BY <1>1, <1>2, <1>3, <1>4, <1>5, <1>6, <1>7, <1>8, <1>9, <1>10,
     <1>11, <1>12, <1>13, <1>14, <1>15, <1>16, <1>17, <1>18, <1>19,
     <1>20, <1>21, <1>22, <1>23, <1>24, <1>25, <1>26, <1>27
     DEF Next, HandlerStep, WalkerStep, Teardown

(* The life of threads and their entries. *)
LEMMA TrackStep ==
  ASSUME IInv, [Next]_vars
  PROVE  TrackInv'
<1> USE NativeAssumption DEF IInv, TypeOK, TrackInv, program, stacks, session,
   walk, locks
<1>1. ASSUME NEW t \in Threads, Born(t) PROVE TrackInv'
  BY <1>1 DEF Born
<1>2. ASSUME NEW t \in Threads, Leave(t) PROVE TrackInv'
  BY <1>2 DEF Leave, Undisturbed, Alive
<1>3. ASSUME NEW t \in Threads, UntrackThread(t) PROVE TrackInv'
  BY <1>3 DEF UntrackThread, UntrackLocked, Undisturbed, Alive
<1>4. ASSUME NEW t \in Threads, Exit(t) PROVE TrackInv'
  BY <1>4 DEF Exit, Undisturbed, Alive
<1>5. ASSUME NEW t \in Threads, TakeTable(t) PROVE TrackInv'
  BY <1>5 DEF TakeTable
<1>6. ASSUME NEW t \in Threads, ReleaseTable(t) PROVE TrackInv'
  BY <1>6 DEF ReleaseTable
<1>7. ASSUME NEW t \in Threads, Deliver(t) PROVE TrackInv'
  BY <1>7 DEF Deliver, Alive
<1>8. ASSUME NEW t \in Threads, UnwindNativeStack(t) PROVE TrackInv'
  BY <1>8 DEF UnwindNativeStack
<1>9. ASSUME NEW t \in Threads, UnwindPythonStack(t) PROVE TrackInv'
  BY <1>9 DEF UnwindPythonStack
<1>10. ASSUME NEW t \in Threads, HandlerUnlock(t) PROVE TrackInv'
  BY <1>10 DEF HandlerUnlock, Unlocked
<1>11. ASSUME NEW w \in Walkers, BeginPass(w) PROVE TrackInv'
  BY <1>11 DEF BeginPass, Goto
<1>12. ASSUME NEW w \in Walkers, NEW t \in Threads, CopyThread(w, t) PROVE TrackInv'
  BY <1>12 DEF CopyThread, Goto
<1>13. ASSUME NEW w \in Walkers, EndPass(w) PROVE TrackInv'
  BY <1>13 DEF EndPass, Goto
<1>14. ASSUME NEW w \in Walkers, LockMap(w) PROVE TrackInv'
  BY <1>14 DEF LockMap, Goto, Found, TakenForMain
<1>15. ASSUME NEW w \in Walkers, Missing(w) PROVE TrackInv'
  BY <1>15 DEF Missing, Goto
<1>16. ASSUME NEW w \in Walkers, Skip(w) PROVE TrackInv'
  BY <1>16 DEF Skip, Goto
<1>17. ASSUME NEW w \in Walkers, Guard(w) PROVE TrackInv'
  BY <1>17 DEF Guard, Goto
<1>18. ASSUME NEW w \in Walkers, Kill(w) PROVE TrackInv'
  BY <1>18 DEF Kill, Goto
<1>19. ASSUME NEW w \in Walkers, LockAgain(w) PROVE TrackInv'
  BY <1>19 DEF LockAgain, Goto, HandlerDone
<1>20. ASSUME NEW w \in Walkers, Render(w) PROVE TrackInv'
  BY <1>20 DEF Render, Goto, MapReleased
<1>21. ASSUME Start PROVE TrackInv'
  BY <1>21 DEF Start
<1>22. ASSUME Stop PROVE TrackInv'
  BY <1>22 DEF Stop
<1>23. ASSUME Unpatch PROVE TrackInv'
  BY <1>23 DEF Unpatch
<1>24. ASSUME LoopExit PROVE TrackInv'
  BY <1>24 DEF LoopExit, Goto
<1>25. ASSUME ListenerExit PROVE TrackInv'
  BY <1>25 DEF ListenerExit, Goto
<1>26. ASSUME RestoreSignals PROVE TrackInv'
  BY <1>26 DEF RestoreSignals, Goto, ListenerJoined
<1>27. CASE UNCHANGED vars
  BY <1>27 DEF vars
<1> QED
  BY <1>1, <1>2, <1>3, <1>4, <1>5, <1>6, <1>7, <1>8, <1>9, <1>10,
     <1>11, <1>12, <1>13, <1>14, <1>15, <1>16, <1>17, <1>18, <1>19,
     <1>20, <1>21, <1>22, <1>23, <1>24, <1>25, <1>26, <1>27
     DEF Next, HandlerStep, WalkerStep, Teardown

(* The handler and its users. *)
LEMMA InstallStep ==
  ASSUME IInv, [Next]_vars
  PROVE  InstallInv'
<1> USE NativeAssumption DEF IInv, TypeOK, InstallInv, Walkers, Idle, Holding,
   program, stacks, session, walk, locks
<1>1. ASSUME NEW t \in Threads, Born(t) PROVE InstallInv'
  BY <1>1 DEF Born
<1>2. ASSUME NEW t \in Threads, Leave(t) PROVE InstallInv'
  BY <1>2 DEF Leave, Undisturbed, Alive
<1>3. ASSUME NEW t \in Threads, UntrackThread(t) PROVE InstallInv'
  BY <1>3 DEF UntrackThread, UntrackLocked, Undisturbed, Alive
<1>4. ASSUME NEW t \in Threads, Exit(t) PROVE InstallInv'
  BY <1>4 DEF Exit, Undisturbed, Alive
<1>5. ASSUME NEW t \in Threads, TakeTable(t) PROVE InstallInv'
  BY <1>5 DEF TakeTable
<1>6. ASSUME NEW t \in Threads, ReleaseTable(t) PROVE InstallInv'
  BY <1>6 DEF ReleaseTable
<1>7. ASSUME NEW t \in Threads, Deliver(t) PROVE InstallInv'
  BY <1>7 DEF Deliver, Alive
<1>8. ASSUME NEW t \in Threads, UnwindNativeStack(t) PROVE InstallInv'
  BY <1>8 DEF UnwindNativeStack
<1>9. ASSUME NEW t \in Threads, UnwindPythonStack(t) PROVE InstallInv'
  BY <1>9 DEF UnwindPythonStack
<1>10. ASSUME NEW t \in Threads, HandlerUnlock(t) PROVE InstallInv'
  BY <1>10 DEF HandlerUnlock, Unlocked
<1>11. ASSUME NEW w \in Walkers, BeginPass(w) PROVE InstallInv'
  BY <1>11 DEF BeginPass, Goto
<1>12. ASSUME NEW w \in Walkers, NEW t \in Threads, CopyThread(w, t) PROVE InstallInv'
  BY <1>12 DEF CopyThread, Goto
<1>13. ASSUME NEW w \in Walkers, EndPass(w) PROVE InstallInv'
  BY <1>13 DEF EndPass, Goto
<1>14. ASSUME NEW w \in Walkers, LockMap(w) PROVE InstallInv'
  BY <1>14 DEF LockMap, Goto, Found, TakenForMain
<1>15. ASSUME NEW w \in Walkers, Missing(w) PROVE InstallInv'
  BY <1>15 DEF Missing, Goto
<1>16. ASSUME NEW w \in Walkers, Skip(w) PROVE InstallInv'
  BY <1>16 DEF Skip, Goto
<1>17. ASSUME NEW w \in Walkers, Guard(w) PROVE InstallInv'
  BY <1>17 DEF Guard, Goto
<1>18. ASSUME NEW w \in Walkers, Kill(w) PROVE InstallInv'
  BY <1>18 DEF Kill, Goto
<1>19. ASSUME NEW w \in Walkers, LockAgain(w) PROVE InstallInv'
  BY <1>19 DEF LockAgain, Goto, HandlerDone
<1>20. ASSUME NEW w \in Walkers, Render(w) PROVE InstallInv'
  BY <1>20 DEF Render, Goto, MapReleased
<1>21. ASSUME Start PROVE InstallInv'
  BY <1>21 DEF Start
<1>22. ASSUME Stop PROVE InstallInv'
  BY <1>22 DEF Stop
<1>23. ASSUME Unpatch PROVE InstallInv'
  BY <1>23 DEF Unpatch
<1>24. ASSUME LoopExit PROVE InstallInv'
  BY <1>24 DEF LoopExit, Goto
<1>25. ASSUME ListenerExit PROVE InstallInv'
  BY <1>25 DEF ListenerExit, Goto
<1>26. ASSUME RestoreSignals PROVE InstallInv'
  BY <1>26 DEF RestoreSignals, Goto, ListenerJoined
<1>27. CASE UNCHANGED vars
  BY <1>27 DEF vars
<1> QED
  BY <1>1, <1>2, <1>3, <1>4, <1>5, <1>6, <1>7, <1>8, <1>9, <1>10,
     <1>11, <1>12, <1>13, <1>14, <1>15, <1>16, <1>17, <1>18, <1>19,
     <1>20, <1>21, <1>22, <1>23, <1>24, <1>25, <1>26, <1>27
     DEF Next, HandlerStep, WalkerStep, Teardown

(* The handshake between a walker and the thread it asks. *)
LEMMA HandshakeStep ==
  ASSUME IInv, [Next]_vars
  PROVE  HandshakeInv'
<1> USE NativeAssumption DEF IInv, TypeOK, HoldInv, HandshakeInv, Asking,
   Walkers, Free, Idle, Holding, program, stacks, session, walk, locks
<1>1. ASSUME NEW t \in Threads, Born(t) PROVE HandshakeInv'
  BY <1>1 DEF Born
<1>2. ASSUME NEW t \in Threads, Leave(t) PROVE HandshakeInv'
  BY <1>2 DEF Leave, Undisturbed, Alive
<1>3. ASSUME NEW t \in Threads, UntrackThread(t) PROVE HandshakeInv'
  BY <1>3 DEF UntrackThread, UntrackLocked, Undisturbed, Alive
<1>4. ASSUME NEW t \in Threads, Exit(t) PROVE HandshakeInv'
  BY <1>4 DEF Exit, Undisturbed, Alive
<1>5. ASSUME NEW t \in Threads, TakeTable(t) PROVE HandshakeInv'
  BY <1>5 DEF TakeTable
<1>6. ASSUME NEW t \in Threads, ReleaseTable(t) PROVE HandshakeInv'
  BY <1>6 DEF ReleaseTable
<1>7. ASSUME NEW t \in Threads, Deliver(t) PROVE HandshakeInv'
  BY <1>7 DEF Deliver, Alive
<1>8. ASSUME NEW t \in Threads, UnwindNativeStack(t) PROVE HandshakeInv'
  BY <1>8 DEF UnwindNativeStack
<1>9. ASSUME NEW t \in Threads, UnwindPythonStack(t) PROVE HandshakeInv'
  BY <1>9 DEF UnwindPythonStack
<1>10. ASSUME NEW t \in Threads, HandlerUnlock(t) PROVE HandshakeInv'
  BY <1>10 DEF HandlerUnlock, Unlocked
<1>11. ASSUME NEW w \in Walkers, BeginPass(w) PROVE HandshakeInv'
  BY <1>11 DEF BeginPass, Goto
<1>12. ASSUME NEW w \in Walkers, NEW t \in Threads, CopyThread(w, t) PROVE HandshakeInv'
  BY <1>12 DEF CopyThread, Goto
<1>13. ASSUME NEW w \in Walkers, EndPass(w) PROVE HandshakeInv'
  BY <1>13 DEF EndPass, Goto
<1>14. ASSUME NEW w \in Walkers, LockMap(w) PROVE HandshakeInv'
  BY <1>14 DEF LockMap, Goto, Found, TakenForMain
<1>15. ASSUME NEW w \in Walkers, Missing(w) PROVE HandshakeInv'
  BY <1>15 DEF Missing, Goto
<1>16. ASSUME NEW w \in Walkers, Skip(w) PROVE HandshakeInv'
  BY <1>16 DEF Skip, Goto
<1>17. ASSUME NEW w \in Walkers, Guard(w) PROVE HandshakeInv'
  BY <1>17 DEF Guard, Goto
<1>18. ASSUME NEW w \in Walkers, Kill(w) PROVE HandshakeInv'
  BY <1>18 DEF Kill, Goto
<1>19. ASSUME NEW w \in Walkers, LockAgain(w) PROVE HandshakeInv'
  BY <1>19 DEF LockAgain, Goto, HandlerDone
<1>20. ASSUME NEW w \in Walkers, Render(w) PROVE HandshakeInv'
  BY <1>20 DEF Render, Goto, MapReleased
<1>21. ASSUME Start PROVE HandshakeInv'
  BY <1>21 DEF Start, InstallInv
<1>22. ASSUME Stop PROVE HandshakeInv'
  BY <1>22 DEF Stop
<1>23. ASSUME Unpatch PROVE HandshakeInv'
  BY <1>23 DEF Unpatch
<1>24. ASSUME LoopExit PROVE HandshakeInv'
  BY <1>24 DEF LoopExit, Goto
<1>25. ASSUME ListenerExit PROVE HandshakeInv'
  BY <1>25 DEF ListenerExit, Goto
<1>26. ASSUME RestoreSignals PROVE HandshakeInv'
  BY <1>26 DEF RestoreSignals, Goto, ListenerJoined
<1>27. CASE UNCHANGED vars
  BY <1>27 DEF vars
<1> QED
  BY <1>1, <1>2, <1>3, <1>4, <1>5, <1>6, <1>7, <1>8, <1>9, <1>10,
     <1>11, <1>12, <1>13, <1>14, <1>15, <1>16, <1>17, <1>18, <1>19,
     <1>20, <1>21, <1>22, <1>23, <1>24, <1>25, <1>26, <1>27
     DEF Next, HandlerStep, WalkerStep, Teardown

LEMMA InitIInv == Init => IInv
<1> SUFFICES ASSUME Init PROVE IInv
  OBVIOUS
<1>1. TypeOK
  <2>1. /\ handler \in [Threads -> {"none", "pending", "native", "python", "done"}]
        /\ pc \in [Walkers -> Idle \cup {"walk", "copied"} \cup Holding]
        /\ todo \in [Walkers -> SUBSET Threads]
        /\ target \in [Walkers -> Threads \cup {"none"}]
    BY DEF Init, Idle
  <2>2. /\ life \in [Threads -> {"unborn", "running", "leaving", "untracked", "exited"}]
        /\ sessions \in 0..MaxSessions /\ sigprof_handler_lock \in 0..1
    BY NativeAssumption DEF Init
  <2> QED
    BY <2>1, <2>2 DEF Init, TypeOK, Free
<1>2. HoldInv /\ TrackInv /\ InstallInv /\ HandshakeInv
  BY NativeAssumption DEF Init, HoldInv, TrackInv, InstallInv, HandshakeInv,
     Asking, Holding, Walkers
<1> QED
  BY <1>1, <1>2 DEF IInv

(* The invariant of native mode. *)
THEOREM Invariant == Spec => []IInv
<1>1. IInv /\ [Next]_vars => IInv'
  BY TypingStep, HoldStep, TrackStep, InstallStep, HandshakeStep DEF IInv
<1> QED
  BY <1>1, InitIInv, PTL DEF Spec

(* The stacks a walker renders are both those of the thread it asked:      *)
(* nobody else writes the globals between the signal and the rendering.    *)
THEOREM RendersTarget == Spec => []StacksOfTarget
<1>1. IInv => StacksOfTarget
  BY DEF IInv, HandshakeInv, StacksOfTarget
<1> QED
  BY <1>1, Invariant, PTL

(* A SIGPROF is sent, and arrives, only while there is someone to handle   *)
(* it: untrack_thread waits for the map's lock, and the handler is removed *)
(* after both walkers have left.                                           *)
THEOREM SignalsAreHandled == Spec => []SignalsHandled
<1>1. IInv => TargetAlive
  <2> SUFFICES ASSUME IInv, NEW w \in Walkers, pc[w] \in {"guarded", "waiting"},
                      target[w] \in hooked \ as_main
               PROVE  Alive(target[w])
    BY DEF TargetAlive
  <2>1. target[w] \in thread_info_map \ as_main
    BY DEF IInv, HoldInv, Holding
  <2> QED
    BY <2>1 DEF IInv, TypeOK, TrackInv, Alive
<1>2. IInv => NoSignalWithoutHandler
  BY DEF IInv, HandshakeInv, InstallInv, NoSignalWithoutHandler, Walkers
<1> QED
  BY <1>1, <1>2, Invariant, PTL DEF SignalsHandled
-----------------------------------------------------------------------------
(* The list is what its pointers say, from the youngest to the main one.   *)
ListInv ==
  /\ list \in Seq(Addresses) /\ Len(list) > 0
  /\ \A k \in 1..Len(list) :
       /\ memory[list[k]].id \in 1..born
       /\ memory[list[k]].next = IF k < Len(list) THEN list[k + 1] ELSE I!NULL
  /\ \A j, k \in 1..Len(list) :
       j < k => memory[list[k]].id < memory[list[j]].id

(* Memory that can be read is or was an interpreter's, and so is what has  *)
(* been copied.                                                            *)
KnownInv ==
  /\ \A a \in mapped : memory[a].id \in 1..born
  /\ interp_pc \in {"tstate_head", "next", "callback"} => info.id \in I!Ids

(* While no interpreter ends, a walk goes from the younger to the older.   *)
OrderInv ==
  /\ visited \in Seq(I!Ids)
  /\ ~ended =>
       \A m, n \in 1..Len(visited) : m < n => visited[n] < visited[m]

(* It is at one of them or past the last, and the copies are of that one;  *)
(* until it has been called back with, the pointer that the loop goes on   *)
(* with is the one it has come by, or NULL in the first round.             *)
Here == memory[interp_addr]

InList == \E k \in 1..Len(list) : interp_addr = list[k]

PlaceInv ==
  interp_pc # "off" /\ ~ended =>
    /\ interp_addr = I!NULL => interp_pc = "id"
    /\ interp_addr # I!NULL =>
         InList /\ \A n \in 1..Len(visited) : Here.id < visited[n]
    /\ interp_pc \in {"tstate_head", "next", "callback"} => info.id = Here.id
    /\ interp_pc \in {"next", "callback"} => info.tstate_head = Here.id
    /\ IF interp_pc = "callback" THEN info.next = Here.next
       ELSE info.next = interp_addr \/ (info.next = I!NULL /\ visited = <<>>)

(* Who was there when it began is still ahead, or has been called back     *)
(* with, unless the walk has failed at the first.                          *)
AheadInv ==
  interp_pc # "off" /\ ~ended =>
    \A i \in atStart :
      /\ \E k \in 1..Len(list) : memory[list[k]].id = i
      /\ \/ \E n \in 1..Len(visited) : visited[n] = i
         \/ interp_addr # I!NULL /\ i <= Here.id
         \/ interp_addr = I!NULL /\ visited = <<>>

InterpInv ==
  I!TypeOK /\ ListInv /\ KnownInv /\ OrderInv /\ PlaceInv /\ AheadInv

-----------------------------------------------------------------------------
(* What comes of a list when one is added to it, or taken from it.         *)
LEMMA Prepended ==
  ASSUME NEW s \in Seq(Addresses), NEW a \in Addresses
  PROVE  /\ <<a>> \o s \in Seq(Addresses) /\ Len(<<a>> \o s) = Len(s) + 1
         /\ (<<a>> \o s)[1] = a
         /\ \A k \in 2..(Len(s) + 1) : (<<a>> \o s)[k] = s[k - 1]
<1>1. <<a>> \in Seq(Addresses) /\ Len(<<a>>) = 1 /\ <<a>>[1] = a
  OBVIOUS
<1>2. Len(s) \in Nat
  BY LenProperties
<1> QED
  BY <1>1, <1>2, ConcatProperties

LEMMA Removed ==
  ASSUME NEW s \in Seq(Addresses), NEW i \in 1..Len(s)
  PROVE  /\ I!RemoveAt(s, i) \in Seq(Addresses)
         /\ Len(I!RemoveAt(s, i)) = Len(s) - 1
         /\ \A k \in 1..(Len(s) - 1) :
              I!RemoveAt(s, i)[k] = IF k < i THEN s[k] ELSE s[k + 1]
<1> DEFINE a == SubSeq(s, 1, i - 1)
           b == SubSeq(s, i + 1, Len(s))
<1>1. Len(s) \in Nat /\ i \in Nat /\ \A k \in 1..Len(s) : s[k] \in Addresses
  BY LenProperties, ElementOfSeq
<1>2. /\ a \in Seq(Addresses) /\ Len(a) = i - 1
      /\ \A k \in 1..(i - 1) : a[k] = s[k]
  BY <1>1, SubSeqProperties
<1>3. /\ b \in Seq(Addresses) /\ Len(b) = Len(s) - i
      /\ \A k \in 1..(Len(s) - i) : b[k] = s[k + i]
  <2>1. \A k \in (i + 1)..Len(s) : s[k] \in Addresses
    BY <1>1
  <2>2. /\ b \in Seq(Addresses)
        /\ Len(b) = IF i + 1 <= Len(s) THEN Len(s) - (i + 1) + 1 ELSE 0
        /\ \A k \in 1..(Len(s) - (i + 1) + 1) : b[k] = s[i + 1 + k - 1]
    BY <1>1, <2>1, SubSeqProperties
  <2> HIDE DEF b
  <2> QED
    BY <1>1, <2>2
<1>4. I!RemoveAt(s, i) = a \o b
  BY DEF I!RemoveAt
<1> HIDE DEF a, b
<1>5. /\ a \o b \in Seq(Addresses) /\ Len(a \o b) = Len(s) - 1
      /\ \A k \in 1..(Len(s) - 1) :
           (a \o b)[k] = IF k < i THEN a[k] ELSE b[k - (i - 1)]
  BY <1>1, <1>2, <1>3, ConcatProperties
<1> QED
  BY <1>1, <1>2, <1>3, <1>4, <1>5

(* Younger interpreters come first, so none is twice in the list.          *)
LEMMA Distinct ==
  ASSUME ListInv, NEW j \in 1..Len(list), NEW k \in 1..Len(list),
         list[j] = list[k]
  PROVE  j = k
<1>1. j \in Nat /\ k \in Nat /\ memory[list[j]].id \in Nat
  BY LenProperties DEF ListInv
<1>2. ~(j < k) /\ ~(k < j)
  BY <1>1 DEF ListInv
<1> QED
  BY <1>1, <1>2

(* The program keeps the list in order, and the walk leaves it alone.      *)
LEMMA ListStep ==
  ASSUME InterpInv, [I!Next]_I!vars
  PROVE  ListInv'
<1> USE ReadsAssumption DEF I!program, I!walk
<1>1. I!TypeOK /\ ListInv /\ Len(list) \in Nat /\ Len(list) > 0 /\ born \in Nat
  BY LenProperties DEF InterpInv, ListInv, I!TypeOK
<1> DEFINE Id(k) == memory[list[k]].id
           Linked(k) ==
             memory[list[k]].next =
               IF k < Len(list) THEN list[k + 1] ELSE I!NULL
<1>2. \A k \in 1..Len(list) : Id(k) \in 1..born /\ Linked(k)
  BY <1>1 DEF ListInv
<1>3. \A j, k \in 1..Len(list) : j < k => Id(k) < Id(j)
  BY <1>1 DEF ListInv
<1>4. ASSUME list' \in Seq(Addresses), Len(list') > 0,
             \A k \in 1..Len(list') : Id(k)' \in 1..born' /\ Linked(k)',
             \A j, k \in 1..Len(list') : j < k => Id(k)' < Id(j)'
      PROVE  ListInv'
  BY <1>4 DEF ListInv
<1>5. ASSUME NEW a \in Addresses, I!NewInterpreter(a) PROVE ListInv'
  <2>1. /\ list' \in Seq(Addresses) /\ Len(list') = Len(list) + 1
        /\ list'[1] = a
        /\ \A k \in 2..(Len(list) + 1) : list'[k] = list[k - 1]
        /\ born' = born + 1
    BY <1>1, <1>5, Prepended DEF I!NewInterpreter, ListInv
  <2>2. \A k \in 1..Len(list) :
          list[k] \in Addresses /\ list[k] # a /\ list'[k + 1] = list[k]
    <3>1. \A k \in 1..Len(list) : list[k] \in Addresses /\ list[k] # a
      BY <1>1, <1>5, ElementOfSeq DEF I!NewInterpreter, ListInv, I!ToSet
    <3> QED
      BY <1>1, <2>1, <3>1
  <2>3. I!Head0 = list[1]
    BY <1>1 DEF I!Head0, ListInv
  <2>4. /\ memory'[a].id = born + 1 /\ memory'[a].next = list[1]
        /\ \A k \in 1..Len(list) : memory'[list[k]] = memory[list[k]]
    BY <1>1, <1>5, <2>2, <2>3 DEF I!NewInterpreter, I!TypeOK
  <2>5. Id(1)' = born + 1 /\ Linked(1)'
    BY <1>1, <2>1, <2>2, <2>4
  <2>6. \A k \in 1..Len(list) : Id(k + 1)' = Id(k) /\ Linked(k + 1)'
    <3> TAKE k \in 1..Len(list)
    <3>1. memory'[list'[k + 1]] = memory[list[k]]
      BY <2>2, <2>4
    <3>2. CASE k < Len(list)
      <4>1. k + 1 \in 1..Len(list) /\ k + 1 < Len(list')
        BY <1>1, <2>1, <3>2
      <4> QED
        BY <1>2, <2>2, <3>1, <3>2, <4>1
    <3>3. CASE ~(k < Len(list))
      BY <1>1, <1>2, <2>1, <3>1, <3>3
    <3> QED
      BY <3>2, <3>3
  <2>7. \A k \in 1..Len(list') : k = 1 \/ \E m \in 1..Len(list) : k = m + 1
    <3> TAKE k \in 1..Len(list')
    <3>1. CASE k # 1
      <4>1. k - 1 \in 1..Len(list) /\ k = (k - 1) + 1
        BY <1>1, <2>1, <3>1
      <4> QED
        BY <4>1
    <3> QED
      BY <3>1
  <2> HIDE DEF Id, Linked
  <2>8. \A k \in 1..Len(list') : Id(k)' \in 1..born' /\ Linked(k)'
    BY <1>1, <1>2, <2>1, <2>5, <2>6, <2>7
  <2>9. \A j, k \in 1..Len(list') : j < k => Id(k)' < Id(j)'
    <3> SUFFICES ASSUME NEW j \in 1..Len(list'), NEW k \in 1..Len(list'), j < k
                 PROVE  Id(k)' < Id(j)'
      OBVIOUS
    <3>1. PICK m \in 1..Len(list) : k = m + 1
      BY <2>7
    <3>2. Id(k)' = Id(m) /\ Id(m) \in 1..born
      BY <1>2, <2>6, <3>1
    <3>3. CASE j = 1
      BY <1>1, <2>5, <3>2, <3>3
    <3>4. CASE j # 1
      BY <1>3, <2>6, <2>7, <3>1, <3>2, <3>4
    <3> QED
      BY <3>3, <3>4
  <2> QED
    BY <1>1, <1>4, <2>1, <2>8, <2>9
<1>6. ASSUME NEW i \in 1..Len(list), I!EndInterpreter(i) PROVE ListInv'
  <2>1. /\ list' \in Seq(Addresses) /\ Len(list') = Len(list) - 1
        /\ \A k \in 1..(Len(list) - 1) :
             list'[k] = IF k < i THEN list[k] ELSE list[k + 1]
        /\ UNCHANGED born /\ i < Len(list)
    <3>1. list \in Seq(Addresses)
      BY <1>1 DEF ListInv
    <3>2. list' = I!RemoveAt(list, i) /\ UNCHANGED born /\ i < Len(list)
      BY <1>6 DEF I!EndInterpreter
    <3>3. /\ I!RemoveAt(list, i) \in Seq(Addresses)
          /\ Len(I!RemoveAt(list, i)) = Len(list) - 1
          /\ \A k \in 1..(Len(list) - 1) :
               I!RemoveAt(list, i)[k] = IF k < i THEN list[k] ELSE list[k + 1]
      BY <3>1, Removed
    <3> QED
      BY <3>2, <3>3
  <2>2. \A k \in 1..Len(list) : list[k] \in Addresses
    BY <1>1, ElementOfSeq DEF ListInv
  <2>3. \A k \in 1..Len(list) :
          /\ memory'[list[k]].id = memory[list[k]].id
          /\ memory'[list[k]].next =
               IF k = i - 1 THEN list[i + 1] ELSE memory[list[k]].next
    <3>1. CASE i = 1
      BY <1>1, <1>6, <3>1 DEF I!EndInterpreter
    <3>2. CASE i # 1
      <4>1. i - 1 \in 1..Len(list)
        BY <3>2
      <4>2. \A k \in 1..Len(list) : list[k] = list[i - 1] => k = i - 1
        BY <1>1, <4>1, Distinct
      <4> QED
        BY <1>1, <1>6, <2>2, <3>2, <4>1, <4>2 DEF I!EndInterpreter, I!TypeOK,
           I!State
    <3> QED
      BY <3>1, <3>2
  <2> DEFINE old(k) == IF k < i THEN k ELSE k + 1
  <2>4. \A k \in 1..Len(list') :
          /\ old(k) \in 1..Len(list) /\ list'[k] = list[old(k)]
          /\ Id(k)' = Id(old(k))
    BY <1>1, <2>1, <2>3
  <2>5. \A k \in 1..Len(list') : Linked(k)'
    <3> TAKE k \in 1..Len(list')
    <3>1. CASE k = i - 1
      <4>1. k + 1 \in 1..Len(list') /\ list'[k] = list[k]
        BY <1>1, <2>1, <3>1
      <4>2. list'[k + 1] = list[i + 1]
        BY <1>1, <2>1, <3>1, <4>1
      <4> QED
        BY <1>1, <2>1, <2>3, <3>1, <4>1, <4>2
    <3>2. CASE k < i - 1
      <4>1. /\ k + 1 \in 1..Len(list')
            /\ list'[k] = list[k] /\ list'[k + 1] = list[k + 1]
            /\ k \in 1..Len(list) /\ k # i - 1 /\ k < Len(list)
        BY <1>1, <2>1, <3>2
      <4> QED
        BY <1>1, <1>2, <2>1, <2>3, <4>1
    <3>3. CASE ~(k < i)
      <4> DEFINE n == k + 1
      <4>1. n \in 1..Len(list) /\ n # i - 1 /\ list'[k] = list[n]
        BY <1>1, <2>1, <3>3
      <4>2. n < Len(list) => list'[n] = list[n + 1]
        BY <1>1, <2>1, <3>3
      <4>3. k < Len(list') <=> n < Len(list)
        BY <1>1, <2>1
      <4>4. memory'[list'[k]].next = memory[list[n]].next
        BY <2>3, <4>1
      <4> HIDE DEF n
      <4>5. memory[list[n]].next = IF n < Len(list) THEN list[n + 1] ELSE I!NULL
        BY <1>2, <4>1
      <4>6. k + 1 = n
        BY DEF n
      <4> QED
        BY <4>2, <4>3, <4>4, <4>5, <4>6
    <3> QED
      BY <3>1, <3>2, <3>3
  <2>6. \A k \in 1..Len(list') : Id(k)' \in 1..born'
    BY <1>2, <2>1, <2>4
  <2>7. \A j, k \in 1..Len(list') : j < k => Id(k)' < Id(j)'
    <3> SUFFICES ASSUME NEW j \in 1..Len(list'), NEW k \in 1..Len(list'), j < k
                 PROVE  Id(k)' < Id(j)'
      OBVIOUS
    <3>1. old(j) < old(k)
      BY <1>1, <2>1
    <3> HIDE DEF old, Id
    <3> QED
      BY <1>3, <2>4, <3>1
  <2>8. Len(list') > 0
    BY <1>1, <2>1
  <2> HIDE DEF Id, Linked
  <2> QED
    BY <1>4, <2>1, <2>5, <2>6, <2>7, <2>8
<1>7. CASE UNCHANGED I!program
  BY <1>1, <1>7 DEF ListInv
<1>8. I!Begin \/ I!WalkStep \/ I!CopyFails \/ UNCHANGED I!vars =>
        UNCHANGED I!program
  BY DEF I!Begin, I!WalkStep, I!End, I!CopyField, I!Callback, I!CopyFails,
     I!vars
<1> QED
  BY <1>5, <1>6, <1>7, <1>8 DEF I!Next

LEMMA InterpTyping ==
  ASSUME InterpInv, [I!Next]_I!vars, ListInv', OrderInv'
  PROVE  I!TypeOK'
<1> USE ReadsAssumption DEF I!program, I!walk, I!Pointer, I!Ids, I!NULL
<1>1. I!TypeOK /\ ListInv /\ Len(list) \in Nat
  BY LenProperties DEF InterpInv, ListInv
<1>2. I!IsInjective(list')
  <2>1. DOMAIN list' = 1..Len(list')
    BY LenProperties DEF ListInv
  <2>2. ASSUME NEW j \in 1..Len(list'), NEW k \in 1..Len(list'),
               list'[j] = list'[k]
        PROVE  j = k
    <3>1. j \in Nat /\ k \in Nat /\ memory'[list'[j]].id \in Nat
      BY <1>1 DEF ListInv
    <3>2. ~(j < k) /\ ~(k < j)
      BY <2>2, <3>1 DEF ListInv
    <3> QED
      BY <3>1, <3>2
  <2> QED
    BY <2>1, <2>2 DEF I!IsInjective
<1>3. \A n \in 1..Len(visited') : visited'[n] \in I!Ids
  BY ElementOfSeq DEF OrderInv
<1>4. I!ToSet(list) = {list[k] : k \in 1..Len(list)}
  BY <1>1, LenProperties DEF ListInv, I!ToSet
<1>5. I!ToSet(list') = {list'[k] : k \in 1..Len(list')}
  BY LenProperties DEF ListInv, I!ToSet
<1>6. ASSUME NEW a \in Addresses, I!NewInterpreter(a) PROVE I!TypeOK'
  <2>1. /\ list' \in Seq(Addresses) /\ Len(list') = Len(list) + 1
        /\ list'[1] = a
        /\ \A k \in 2..(Len(list) + 1) : list'[k] = list[k - 1]
    BY <1>1, <1>6, Prepended DEF I!NewInterpreter, ListInv
  <2>2. I!ToSet(list') \subseteq mapped'
    <3> SUFFICES ASSUME NEW k \in 1..Len(list') PROVE list'[k] \in mapped'
      BY <1>5
    <3>1. I!ToSet(list) \subseteq mapped /\ mapped' = mapped \cup {a}
      BY <1>1, <1>6 DEF I!NewInterpreter, I!TypeOK
    <3>2. k # 1 => k - 1 \in 1..Len(list) /\ list'[k] = list[k - 1]
      BY <1>1, <2>1
    <3> QED
      BY <1>4, <2>1, <3>1, <3>2
  <2>3. I!Head0 \in I!Pointer
    BY <1>1, ElementOfSeq DEF I!Head0, ListInv
  <2>4. memory' \in [Addresses -> I!State] /\ born' \in 0..MaxBorn
    BY <1>1, <1>6, <2>3 DEF I!NewInterpreter, I!TypeOK, I!State
  <2> QED
    BY <1>1, <1>2, <1>3, <1>6, <2>2, <2>4 DEF I!NewInterpreter, I!TypeOK
<1>7. ASSUME NEW i \in 1..Len(list), I!EndInterpreter(i) PROVE I!TypeOK'
  <2>1. /\ list' \in Seq(Addresses) /\ Len(list') = Len(list) - 1
        /\ \A k \in 1..(Len(list) - 1) :
             list'[k] = IF k < i THEN list[k] ELSE list[k + 1]
    <3>1. list \in Seq(Addresses)
      BY <1>1 DEF ListInv
    <3>2. list' = I!RemoveAt(list, i)
      BY <1>7 DEF I!EndInterpreter
    <3>3. /\ I!RemoveAt(list, i) \in Seq(Addresses)
          /\ Len(I!RemoveAt(list, i)) = Len(list) - 1
          /\ \A k \in 1..(Len(list) - 1) :
               I!RemoveAt(list, i)[k] = IF k < i THEN list[k] ELSE list[k + 1]
      BY <3>1, Removed
    <3> QED
      BY <3>2, <3>3
  <2>2. I!ToSet(list') \subseteq I!ToSet(list) \ {list[i]}
    <3> SUFFICES ASSUME NEW k \in 1..Len(list')
                 PROVE  list'[k] \in I!ToSet(list) \ {list[i]}
      BY <1>5
    <3>1. PICK m \in 1..Len(list) : list'[k] = list[m] /\ m # i
      <4>1. CASE k < i
        BY <1>1, <2>1, <4>1
      <4>2. CASE ~(k < i)
        <5>1. k + 1 \in 1..Len(list) /\ k + 1 # i /\ list'[k] = list[k + 1]
          BY <1>1, <2>1, <4>2
        <5> QED
          BY <5>1
      <4> QED
        BY <4>1, <4>2
    <3> QED
      BY <1>1, <1>4, <3>1, Distinct
  <2>3. I!ToSet(list') \subseteq mapped' /\ mapped' \subseteq Addresses
    BY <1>1, <1>7, <2>2 DEF I!EndInterpreter, I!TypeOK
  <2>4. memory' \in [Addresses -> I!State]
    <3>1. list[i + 1] \in Addresses
      BY <1>1, <1>7, ElementOfSeq DEF I!EndInterpreter, ListInv
    <3>2. CASE i = 1
      BY <1>1, <1>7, <3>2 DEF I!EndInterpreter, I!TypeOK
    <3>3. CASE i # 1
      <4>1. memory' = [memory EXCEPT ![list[i - 1]].next = list[i + 1]]
        BY <1>7, <3>3 DEF I!EndInterpreter
      <4>2. list[i - 1] \in Addresses /\ memory[list[i - 1]] \in I!State
        BY <1>1, <3>3, ElementOfSeq DEF ListInv, I!TypeOK
      <4>3. [memory[list[i - 1]] EXCEPT !.next = list[i + 1]] \in I!State
        BY <3>1, <4>2 DEF I!State
      <4> QED
        BY <1>1, <4>1, <4>2, <4>3 DEF I!TypeOK
    <3> QED
      BY <3>2, <3>3
  <2> QED
    BY <1>1, <1>2, <1>3, <1>7, <2>3, <2>4 DEF I!EndInterpreter, I!TypeOK
<1>8. CASE I!Begin
  <2>1. atStart' \subseteq I!Ids
    BY <1>1, <1>8 DEF I!Begin, ListInv, I!TypeOK
  <2>2. I!Head0 \in I!Pointer
    BY <1>1, ElementOfSeq DEF I!Head0, ListInv
  <2>3. info' \in [id : 0..MaxBorn, tstate_head : 0..MaxBorn, next : I!Pointer]
        /\ walks' \in 0..MaxWalks
    BY <1>1, <1>8 DEF I!Begin, I!TypeOK
  <2>4. UNCHANGED I!program /\ interp_addr' = I!Head0
        /\ interp_pc' = "id" /\ ended' = FALSE
    BY <1>8 DEF I!Begin
  <2> QED
    BY <1>1, <1>3, <2>1, <2>2, <2>3, <2>4 DEF I!TypeOK
<1>9. CASE I!End
  BY <1>1, <1>3, <1>9 DEF I!End, I!TypeOK
<1>10. ASSUME NEW field \in {"id", "tstate_head", "next"}, I!CopyField(field)
       PROVE  I!TypeOK'
  <2>1. interp_addr \in Addresses
    BY <1>1, <1>10 DEF I!CopyField, I!Ended, I!TypeOK
  <2>2. memory[interp_addr].id \in 0..MaxBorn
        /\ memory[interp_addr].next \in I!Pointer
    BY <1>1, <2>1 DEF I!TypeOK, I!State
  <2>3. info' \in [id : 0..MaxBorn, tstate_head : 0..MaxBorn, next : I!Pointer]
    BY <1>1, <1>10, <2>2 DEF I!CopyField, I!Copied, I!TypeOK
  <2>4. interp_pc' \in {"off", "id", "tstate_head", "next", "callback"}
    BY <1>10 DEF I!CopyField, I!After
  <2> QED
    BY <1>1, <1>3, <1>10, <2>3, <2>4 DEF I!CopyField, I!TypeOK
<1>11. CASE I!Callback
  BY <1>1, <1>3, <1>11 DEF I!Callback, I!TypeOK
<1>12. CASE I!CopyFails
  BY <1>1, <1>3, <1>12 DEF I!CopyFails, I!NextRound, I!Continue, I!TypeOK
<1>13. CASE UNCHANGED I!vars
  BY <1>1, <1>3, <1>13 DEF I!vars, I!TypeOK
<1> QED
  BY <1>6, <1>7, <1>8, <1>9, <1>10, <1>11, <1>12, <1>13 DEF I!Next, I!WalkStep

LEMMA KnownStep ==
  ASSUME InterpInv, [I!Next]_I!vars
  PROVE  KnownInv'
<1> USE ReadsAssumption DEF I!program, I!walk, I!Ids
<1>1. /\ I!TypeOK /\ ListInv /\ KnownInv
      /\ born \in Nat /\ mapped \subseteq Addresses
      /\ born \in 0..MaxBorn
  BY DEF InterpInv, I!TypeOK
<1>2. ASSUME NEW a \in Addresses, I!NewInterpreter(a) PROVE KnownInv'
  BY <1>1, <1>2 DEF I!NewInterpreter, KnownInv, I!TypeOK
<1>3. ASSUME NEW i \in 1..Len(list), I!EndInterpreter(i) PROVE KnownInv'
  <2>1. \A b \in mapped : memory'[b].id = memory[b].id
    BY <1>1, <1>3 DEF I!EndInterpreter, I!TypeOK, I!State
  <2> QED
    BY <1>1, <1>3, <2>1 DEF I!EndInterpreter, KnownInv
<1>4. ASSUME NEW field \in {"id", "tstate_head", "next"}, I!CopyField(field)
      PROVE  KnownInv'
  <2>1. memory[interp_addr].id \in I!Ids
    BY <1>1, <1>4 DEF I!CopyField, KnownInv
  <2> QED
    BY <1>1, <1>4, <2>1 DEF I!CopyField, I!Copied, I!After, KnownInv, I!TypeOK
<1>5. CASE I!Begin \/ I!End \/ I!Callback \/ I!CopyFails
  BY <1>1, <1>5 DEF I!Begin, I!End, I!Callback, I!CopyFails, I!Continue,
     KnownInv
<1>6. CASE UNCHANGED I!vars
  BY <1>1, <1>6 DEF I!vars, KnownInv
<1> QED
  BY <1>2, <1>3, <1>4, <1>5, <1>6 DEF I!Next, I!WalkStep

(* A callback is one more in the walk.                                     *)
LEMMA Called ==
  ASSUME InterpInv, I!Callback
  PROVE  /\ info.id \in I!Ids /\ Len(visited) \in Nat
         /\ visited' \in Seq(I!Ids) /\ Len(visited') = Len(visited) + 1
         /\ \A n \in 1..Len(visited) : visited'[n] = visited[n]
         /\ visited'[Len(visited) + 1] = info.id
<1>1. visited \in Seq(I!Ids) /\ Len(visited) \in Nat
  BY LenProperties DEF InterpInv, OrderInv
<1>2. info.id \in I!Ids
  BY DEF InterpInv, KnownInv, I!Callback
<1> QED
  BY <1>1, <1>2, AppendProperties DEF I!Callback

(* The one called back with is older than all before it.                   *)
LEMMA OrderStep ==
  ASSUME InterpInv, [I!Next]_I!vars
  PROVE  OrderInv'
<1> USE ReadsAssumption DEF I!program, I!walk, OrderInv
<1>1. I!TypeOK /\ OrderInv /\ PlaceInv /\ Len(visited) \in Nat
  BY LenProperties DEF InterpInv
<1>2. CASE I!Callback
  <2>1. info.id \in Nat /\ \A n \in 1..Len(visited) : visited[n] \in Nat
    BY <1>1, <1>2, Called, ElementOfSeq DEF I!Ids
  <2>2. ASSUME ~ended PROVE \A n \in 1..Len(visited) : info.id < visited[n]
    BY <1>1, <1>2, <2>2 DEF I!Callback, PlaceInv
  <2>3. UNCHANGED ended
    BY <1>2 DEF I!Callback
  <2>4. ASSUME ~ended,
               NEW m \in 1..Len(visited'), NEW n \in 1..Len(visited'), m < n
        PROVE  visited'[n] < visited'[m]
    <3>1. m \in 1..Len(visited) /\ visited'[m] = visited[m]
      BY <1>1, <1>2, <2>4, Called
    <3>2. CASE n = Len(visited) + 1
      BY <1>2, <2>2, <2>4, <3>1, <3>2, Called
    <3>3. CASE n # Len(visited) + 1
      <4>1. n \in 1..Len(visited)
        BY <1>1, <1>2, <3>3, Called
      <4> QED
        BY <1>1, <1>2, <2>4, <3>1, <4>1, Called
    <3> QED
      BY <3>2, <3>3
  <2> QED
    BY <1>2, <2>3, <2>4, Called
<1>3. CASE I!Begin
  BY <1>1, <1>3 DEF I!Begin
<1>4. ASSUME NEW i \in 1..Len(list), I!EndInterpreter(i) PROVE OrderInv'
  BY <1>1, <1>4 DEF I!EndInterpreter
<1>5. CASE UNCHANGED <<visited, ended>>
  BY <1>1, <1>5
<1>6. (\E a \in Addresses : I!NewInterpreter(a)) \/ I!End \/ I!CopyFails
      \/ (\E field \in {"id", "tstate_head", "next"} : I!CopyField(field))
      \/ UNCHANGED I!vars => UNCHANGED <<visited, ended>>
  BY DEF I!NewInterpreter, I!End, I!CopyFails, I!CopyField, I!vars
<1> QED
  BY <1>2, <1>3, <1>4, <1>5, <1>6 DEF I!Next, I!WalkStep

(* The interpreters that are there are not disturbed by a new one.         *)
LEMMA Pushed ==
  ASSUME InterpInv, NEW a \in Addresses, I!NewInterpreter(a)
  PROVE  \A k \in 1..Len(list) :
           /\ k + 1 \in 1..Len(list') /\ list'[k + 1] = list[k]
           /\ memory'[list[k]] = memory[list[k]]
<1>1. /\ I!TypeOK /\ Len(list) \in Nat /\ list \in Seq(Addresses)
      /\ \A k \in 1..Len(list) : list[k] \in Addresses /\ list[k] # a
  BY LenProperties, ElementOfSeq DEF InterpInv, ListInv, I!NewInterpreter,
     I!ToSet
<1>2. /\ Len(list') = Len(list) + 1
      /\ \A k \in 2..(Len(list) + 1) : list'[k] = list[k - 1]
  BY <1>1, Prepended DEF I!NewInterpreter
<1>3. \A k \in 1..Len(list) : k + 1 \in 1..Len(list') /\ list'[k + 1] = list[k]
  BY <1>1, <1>2
<1>4. \A k \in 1..Len(list) : memory'[list[k]] = memory[list[k]]
  BY <1>1 DEF I!NewInterpreter, I!TypeOK
<1> QED
  BY <1>3, <1>4

(* The walk goes from an interpreter to the next older one, or stays.      *)
LEMMA PlaceStep ==
  ASSUME InterpInv, [I!Next]_I!vars
  PROVE  PlaceInv'
<1> USE ReadsAssumption DEF I!program, I!walk
<1>1. I!TypeOK /\ ListInv /\ OrderInv /\ PlaceInv /\ Len(list) \in Nat
  BY LenProperties DEF InterpInv, ListInv
<1>2. ASSUME NEW a \in Addresses, I!NewInterpreter(a) PROVE PlaceInv'
  <2>1. UNCHANGED I!walk
    BY <1>2 DEF I!NewInterpreter
  <2>2. InList => InList' /\ Here' = Here
    BY <1>2, <2>1, Pushed DEF InList, Here
  <2>3. interp_pc # "off" /\ interp_pc # "id" /\ ~ended => InList
    BY <1>1 DEF PlaceInv
  <2> HIDE DEF InList, Here
  <2> QED
    BY <1>1, <2>1, <2>2, <2>3, Zenon DEF PlaceInv
<1>3. ASSUME NEW i \in 1..Len(list), I!EndInterpreter(i) PROVE PlaceInv'
  BY <1>3 DEF I!EndInterpreter, PlaceInv
<1>4. CASE I!Begin
  <2>1. interp_addr' = list[1] /\ 1 \in 1..Len(list) /\ list[1] \in Addresses
    BY <1>1, <1>4, ElementOfSeq DEF I!Begin, I!Head0, ListInv
  <2> QED
    BY <1>1, <1>4, <2>1 DEF I!Begin, PlaceInv, InList, Here, I!NULL
<1>5. CASE I!End
  BY <1>1, <1>5 DEF I!End, PlaceInv
<1>6. ASSUME NEW field \in {"id", "tstate_head", "next"}, I!CopyField(field)
      PROVE  PlaceInv'
  <2>1. UNCHANGED <<I!program, interp_addr, visited, ended>>
        /\ InList' = InList /\ Here' = Here
    BY <1>6 DEF I!CopyField, InList, Here
  <2>2. info' = [info EXCEPT ![field] =
                   IF field = "next" THEN Here.next ELSE Here.id]
    BY <1>6 DEF I!CopyField, I!Copied, Here
  <2>3. interp_pc = field /\ interp_addr # I!NULL /\ interp_pc' = I!After(field)
    BY <1>6 DEF I!CopyField, I!Ended
  <2> HIDE DEF Here, InList
  <2> QED
    BY <1>1, <2>1, <2>2, <2>3 DEF PlaceInv, I!After, I!TypeOK
<1>7. CASE I!CopyFails
  <2>1. /\ UNCHANGED <<I!program, info, visited, ended>>
        /\ interp_pc' = "id" /\ interp_addr' = info.next
        /\ interp_pc \in {"id", "tstate_head", "next"}
    BY <1>7 DEF I!CopyFails, I!NextRound, I!Continue
  <2>2. CASE ~ended /\ info.next = interp_addr
    BY <1>1, <2>1, <2>2 DEF PlaceInv, InList, Here
  <2>3. CASE ~ended /\ info.next = I!NULL /\ visited = <<>>
    BY <1>1, <2>1, <2>3 DEF PlaceInv
  <2>4. ~ended =>
          info.next = interp_addr \/ (info.next = I!NULL /\ visited = <<>>)
    BY <1>1, <2>1 DEF PlaceInv
  <2> QED
    BY <2>1, <2>2, <2>3, <2>4 DEF PlaceInv
<1>8. CASE I!Callback
  <2>1. /\ UNCHANGED <<I!program, info, ended>>
        /\ interp_pc = "callback" /\ interp_pc' = "id"
        /\ interp_addr' = info.next
    BY <1>8 DEF I!Callback
  <2> SUFFICES ASSUME ~ended PROVE PlaceInv'
    BY <2>1 DEF PlaceInv
  <2>2. PICK k \in 1..Len(list) : interp_addr = list[k]
    BY <1>1, <2>1 DEF PlaceInv, InList
  <2>3. info.next = IF k < Len(list) THEN list[k + 1] ELSE I!NULL
    BY <1>1, <2>1, <2>2 DEF PlaceInv, Here, ListInv
  <2>4. info.id = memory[list[k]].id
    BY <1>1, <2>1, <2>2 DEF PlaceInv, Here
  <2>5. CASE k < Len(list)
    <3>1. k + 1 \in 1..Len(list) /\ interp_addr' = list[k + 1]
          /\ interp_addr' # I!NULL /\ InList'
      <4>1. k + 1 \in 1..Len(list) /\ interp_addr' = list[k + 1]
        BY <1>1, <2>1, <2>3, <2>5
      <4>2. list[k + 1] \in Addresses
        BY <1>1, <4>1, ElementOfSeq DEF ListInv
      <4> QED
        BY <2>1, <4>1, <4>2 DEF InList, I!NULL
    <3>2. Here'.id < info.id /\ Here'.id \in Nat
      BY <1>1, <2>1, <2>4, <3>1 DEF Here, ListInv
    <3>3. \A n \in 1..Len(visited') : Here'.id < visited'[n]
      <4> TAKE n \in 1..Len(visited')
      <4>1. CASE n = Len(visited) + 1
        BY <1>8, <3>2, <4>1, Called
      <4>2. CASE n # Len(visited) + 1
        <5>1. n \in 1..Len(visited) /\ visited'[n] = visited[n]
          BY <1>8, <4>2, Called
        <5>2. info.id < visited[n] /\ visited[n] \in Nat /\ info.id \in Nat
          <6>1. visited[n] \in I!Ids /\ info.id \in I!Ids
            BY <1>1, <1>8, <5>1, Called, ElementOfSeq DEF OrderInv
          <6>2. info.id < visited[n]
            BY <1>1, <2>1, <2>2, <2>4, <5>1 DEF PlaceInv, Here
          <6> QED
            BY <6>1, <6>2 DEF I!Ids
        <5> QED
          BY <3>2, <5>1, <5>2
      <4> QED
        BY <4>1, <4>2
    <3> QED
      BY <2>1, <3>1, <3>3 DEF PlaceInv
  <2>6. CASE ~(k < Len(list))
    BY <2>1, <2>3, <2>6 DEF PlaceInv
  <2> QED
    BY <2>5, <2>6
<1>9. CASE UNCHANGED I!vars
  BY <1>1, <1>9 DEF I!vars, PlaceInv, InList, Here
<1> QED
  BY <1>2, <1>3, <1>4, <1>5, <1>6, <1>7, <1>8, <1>9 DEF I!Next, I!WalkStep

(* It leaves nobody behind whom it has not called back with.               *)
LEMMA AheadStep ==
  ASSUME InterpInv, [I!Next]_I!vars
  PROVE  AheadInv'
<1> USE ReadsAssumption DEF I!program, I!walk
<1>1. /\ I!TypeOK /\ ListInv /\ OrderInv /\ PlaceInv /\ AheadInv
      /\ Len(list) \in Nat /\ Len(list) > 0
  BY LenProperties DEF InterpInv, ListInv
<1>2. ASSUME NEW a \in Addresses, I!NewInterpreter(a) PROVE AheadInv'
  <2>1. UNCHANGED I!walk
    BY <1>2 DEF I!NewInterpreter
  <2> SUFFICES ASSUME interp_pc # "off", ~ended, NEW i \in atStart
               PROVE  /\ \E k \in 1..Len(list') : memory'[list'[k]].id = i
                      /\ \/ \E n \in 1..Len(visited) : visited[n] = i
                         \/ interp_addr # I!NULL /\ i <= Here.id'
                         \/ interp_addr = I!NULL /\ visited = <<>>
    BY <2>1 DEF AheadInv, Here
  <2>2. PICK k \in 1..Len(list) : memory[list[k]].id = i
    BY <1>1 DEF AheadInv
  <2>3. k + 1 \in 1..Len(list') /\ memory'[list'[k + 1]].id = i
    BY <1>2, <2>2, Pushed
  <2>4. interp_addr # I!NULL => Here' = Here
    BY <1>1, <1>2, <2>1, Pushed DEF PlaceInv, InList, Here
  <2> QED
    BY <1>1, <2>3, <2>4 DEF AheadInv
<1>3. ASSUME NEW i \in 1..Len(list), I!EndInterpreter(i) PROVE AheadInv'
  BY <1>3 DEF I!EndInterpreter, AheadInv
<1>4. CASE I!Begin
  <2>1. /\ UNCHANGED I!program /\ interp_addr' = list[1] /\ 1 \in 1..Len(list)
        /\ list[1] \in Addresses
        /\ atStart' = {memory[list[k]].id : k \in 1..Len(list)}
    BY <1>1, <1>4, ElementOfSeq DEF I!Begin, I!Head0, ListInv
  <2>2. \A k \in 1..Len(list) : memory[list[k]].id <= memory[list[1]].id
    <3> TAKE k \in 1..Len(list)
    <3>1. memory[list[k]].id \in Nat /\ memory[list[1]].id \in Nat
      BY <1>1, <2>1 DEF ListInv
    <3>2. k # 1 => memory[list[k]].id < memory[list[1]].id
      BY <1>1, <2>1 DEF ListInv
    <3> QED
      BY <3>1, <3>2
  <2> QED
    BY <2>1, <2>2 DEF AheadInv, Here, I!NULL
<1>5. CASE I!End
  BY <1>5 DEF I!End, AheadInv
<1>6. CASE \E field \in {"id", "tstate_head", "next"} : I!CopyField(field)
  BY <1>1, <1>6 DEF I!CopyField, AheadInv, Here
<1>7. CASE I!CopyFails
  <2>1. /\ UNCHANGED <<I!program, visited, atStart, ended>>
        /\ interp_addr' = info.next
        /\ interp_pc # "off" /\ interp_pc # "callback"
        /\ interp_addr # I!NULL
    BY <1>7 DEF I!CopyFails, I!NextRound, I!Ended
  <2>2. ~ended =>
          info.next = interp_addr \/ (info.next = I!NULL /\ visited = <<>>)
    BY <1>1, <2>1 DEF PlaceInv
  <2> QED
    BY <1>1, <2>1, <2>2 DEF AheadInv, Here
<1>8. CASE I!Callback
  <2>1. /\ UNCHANGED <<I!program, info, atStart, ended>>
        /\ interp_pc = "callback" /\ interp_pc' = "id"
        /\ interp_addr' = info.next
    BY <1>8 DEF I!Callback
  <2> SUFFICES ASSUME ~ended, NEW i \in atStart
               PROVE  /\ \E k \in 1..Len(list) : memory[list[k]].id = i
                      /\ \/ \E n \in 1..Len(visited') : visited'[n] = i
                         \/ interp_addr' # I!NULL /\ i <= Here'.id
    BY <2>1 DEF AheadInv
  <2>2. PICK m \in 1..Len(list) : interp_addr = list[m]
    BY <1>1, <2>1 DEF PlaceInv, InList
  <2>3. interp_addr # I!NULL
    BY <1>1, <2>1 DEF PlaceInv
  <2>4. info.next = IF m < Len(list) THEN list[m + 1] ELSE I!NULL
    BY <1>1, <2>1, <2>2 DEF PlaceInv, Here, ListInv
  <2>5. info.id = memory[list[m]].id
    BY <1>1, <2>1, <2>2 DEF PlaceInv, Here
  <2>6. PICK k \in 1..Len(list) : memory[list[k]].id = i
    BY <1>1, <2>1 DEF AheadInv
  <2>7. CASE \E n \in 1..Len(visited) : visited[n] = i
    <3>1. PICK n \in 1..Len(visited) : visited[n] = i
      BY <2>7
    <3>2. n \in 1..Len(visited') /\ visited'[n] = i
      BY <1>8, <3>1, Called
    <3> QED
      BY <2>6, <3>2
  <2>8. CASE i <= memory[list[m]].id
    <3>1. ~(k < m)
      BY <1>1, <2>6, <2>8 DEF ListInv
    <3>2. CASE k = m
      <4>1. /\ Len(visited) + 1 \in 1..Len(visited')
            /\ visited'[Len(visited) + 1] = i
        BY <1>8, <2>5, <2>6, <3>2, Called
      <4> QED
        BY <2>6, <4>1
    <3>3. CASE k > m
      <4>1. m + 1 \in 1..Len(list) /\ interp_addr' = list[m + 1] /\ m + 1 <= k
        BY <1>1, <2>1, <2>4, <3>3
      <4>2. list[m + 1] \in Addresses
        BY <1>1, <4>1, ElementOfSeq DEF ListInv
      <4>3. i <= memory[list[m + 1]].id
        <5>1. i \in Nat /\ memory[list[m + 1]].id \in Nat
          BY <1>1, <2>6, <4>1 DEF ListInv
        <5>2. m + 1 < k => i < memory[list[m + 1]].id
          BY <1>1, <2>6, <4>1 DEF ListInv
        <5> QED
          BY <2>6, <4>1, <5>1, <5>2
      <4> QED
        BY <2>1, <2>6, <4>1, <4>2, <4>3 DEF Here, I!NULL
    <3> QED
      BY <1>1, <3>1, <3>2, <3>3
  <2> QED
    BY <1>1, <2>1, <2>2, <2>3, <2>7, <2>8 DEF AheadInv, Here
<1>9. CASE UNCHANGED I!vars
  BY <1>1, <1>9 DEF I!vars, AheadInv, Here
<1> QED
  BY <1>2, <1>3, <1>4, <1>5, <1>6, <1>7, <1>8, <1>9 DEF I!Next, I!WalkStep

LEMMA InterpStep == InterpInv /\ [I!Next]_I!vars => InterpInv'
BY ListStep, InterpTyping, KnownStep, OrderStep, PlaceStep, AheadStep
   DEF InterpInv

LEMMA InterpStart == I!Init => InterpInv
<1> SUFFICES ASSUME NEW a \in Addresses, list = <<a>>, mapped = {a},
                    memory = [b \in Addresses |->
                                [id |-> IF b = a THEN 1 ELSE 0,
                                 next |-> I!NULL]],
                    I!Init
             PROVE  InterpInv
  BY DEF I!Init
<1> USE ReadsAssumption
<1>1. list \in Seq(Addresses) /\ Len(list) = 1 /\ list[1] = a
      /\ DOMAIN list = 1..1
  OBVIOUS
<1>2. visited = <<>> /\ visited \in Seq(I!Ids) /\ Len(visited) = 0
  BY DEF I!Init
<1>3. born = 1 /\ interp_pc = "off" /\ interp_addr = I!NULL
      /\ atStart = {} /\ ended = FALSE
      /\ walks = 0 /\ info = [id |-> 0, tstate_head |-> 0, next |-> I!NULL]
  BY DEF I!Init
<1>4. I!ToSet(list) \subseteq mapped /\ I!IsInjective(list)
  BY <1>1 DEF I!ToSet, I!IsInjective
<1>5. memory \in [Addresses -> I!State]
  BY DEF I!State, I!Pointer
<1>6. I!TypeOK
  <2>1. 0 \in 0..MaxBorn /\ born \in 0..MaxBorn /\ walks \in 0..MaxWalks
    BY <1>3
  <2>2. info \in [id : 0..MaxBorn, tstate_head : 0..MaxBorn, next : I!Pointer]
    BY <1>3, <2>1 DEF I!Pointer
  <2>3. /\ mapped \subseteq Addresses /\ interp_addr \in I!Pointer
        /\ interp_pc \in {"off", "id", "tstate_head", "next", "callback"}
        /\ atStart \subseteq I!Ids /\ ended \in BOOLEAN
    BY <1>3 DEF I!Pointer
  <2>4. \A n \in 1..Len(visited) : visited[n] \in I!Ids
    BY <1>2
  <2> QED
    BY <1>4, <1>5, <2>1, <2>2, <2>3, <2>4, Zenon DEF I!TypeOK
<1>7. ListInv
  BY <1>1, <1>3 DEF ListInv
<1>8. KnownInv /\ OrderInv /\ PlaceInv /\ AheadInv
  BY <1>2, <1>3 DEF KnownInv, OrderInv, PlaceInv, AheadInv
<1> QED
  BY <1>6, <1>7, <1>8 DEF InterpInv

LEMMA WalksCall == InterpInv => I!CallsBackAll
<1> SUFFICES ASSUME InterpInv PROVE I!CallsBackAll
  OBVIOUS
<1>1. visited \in Seq(I!Ids) /\ Len(visited) \in Nat
  BY LenProperties DEF InterpInv, OrderInv
<1>2. \A n \in 1..Len(visited) : visited[n] \in Nat
  BY <1>1, ElementOfSeq, ReadsAssumption DEF I!Ids
<1>3. I!Once
  <2> SUFFICES ASSUME ~ended,
                      NEW m \in 1..Len(visited), NEW n \in 1..Len(visited),
                      visited[m] = visited[n]
               PROVE  m = n
    BY DEF I!Once
  <2>1. ~(m < n) /\ ~(n < m)
    BY <1>2 DEF InterpInv, OrderInv
  <2> QED
    BY <2>1
<1>4. I!OneInterpreter
  BY DEF InterpInv, PlaceInv, I!OneInterpreter
<1>5. I!AllOrNone
  <2> SUFFICES ASSUME interp_pc = "id", interp_addr = I!NULL,
                      ~ended, visited # <<>>
               PROVE  atStart \subseteq I!ToSet(visited)
    BY DEF I!AllOrNone, I!Ended
  <2>1. \A i \in atStart : \E n \in 1..Len(visited) : visited[n] = i
    BY DEF InterpInv, AheadInv
  <2>2. DOMAIN visited = 1..Len(visited)
    BY <1>1, LenProperties
  <2> QED
    BY <2>1, <2>2 DEF I!ToSet
<1> QED
  BY <1>3, <1>4, <1>5 DEF I!CallsBackAll

(* By itself: a walk calls back with interpreters, all or none of them.    *)
THEOREM InterpretersCalledBack == I!Spec => []I!CallsBackAll
BY InterpStart, InterpStep, WalksCall, PTL DEF I!Spec

-----------------------------------------------------------------------------
(* Side by side, each part runs as it does by itself.                      *)
LEMMA ReadParts == MCSpec => Spec /\ I!Spec
<1>1. MCInit => Init /\ I!Init
  BY DEF MCInit
<1>2. ASSUME [MCNext]_<<part, vars, memcpy_vars, vmreader_vars, interp_vars>>
      PROVE  [Next]_vars /\ [I!Next]_I!vars
  <2>1. UNCHANGED interp_vars => UNCHANGED I!vars
    BY DEF interp_vars, I!vars, I!program, I!walk
  <2> QED
    BY <1>2, <2>1, Zenon DEF MCNext
<1> QED
  BY <1>1, <1>2, PTL DEF MCSpec, Spec, I!Spec

(* Whatever interpreters come meanwhile, and whichever copy fails, a walk  *)
(* calls back with interpreters: each at most once, never with a mixture   *)
(* of two, and with all of them if with any.                               *)
THEOREM WalksAreComplete == MCSpec => []CallsBackAll
<1>1. I!CallsBackAll => CallsBackAll
  BY DEF CallsBackAll
<1> QED
  BY <1>1, ReadParts, InterpretersCalledBack, PTL

(* The types of the part that runs, all four.                              *)
THEOREM ReadsTyped == MCSpec => []TypesOK
<1>1. IInv /\ MemcpyInv /\ VmInv /\ InterpInv => TypesOK
  BY DEF TypesOK, IInv, MemcpyInv, VmInv, InterpInv
<1>2. V!Spec => []VmInv
  BY VmStart, VmStep, PTL DEF V!Spec
<1>3. I!Spec => []InterpInv
  BY InterpStart, InterpStep, PTL DEF I!Spec
<1> QED
  BY <1>1, <1>2, <1>3, Invariant, MemcpyInvariant, Parts, ReadParts, PTL
=============================================================================
