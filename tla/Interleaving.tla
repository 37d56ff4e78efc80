------------------------------ MODULE Interleaving ------------------------------
(***************************************************************************)
(* Native mode: the SIGPROF handler unwinds the native and the Python      *)
(* stack of the thread it interrupts, and interleave_stacks (stacks.h)     *)
(* puts the Python frames in the place of the interpreter loops that       *)
(* execute them.  Which frames belong to one loop is told by is_entry,     *)
(* kept in the frame cache, one flag for all frames of a location.         *)
(*                                                                         *)
(* Stacks have their innermost frame first.  The thread is still while it  *)
(* is unwound, and interleaving reads only copies, so the thread waits     *)
(* here until that is done.                                                *)
(***************************************************************************)
EXTENDS Naturals, Sequences, FiniteSets, SequencesExt

CONSTANTS
  Functions,    (* functions of C                                          *)
  Locations,    (* Python frames, by the key of their location             *)
  max_frames,
  MaxDepth,     (* bound on the C frames, and on the Python frames         *)
  PyEval_EvalFrameDefault, HANDLER, TRAMPOLINE, UNKNOWN_FRAME

VARIABLES
  version,      (* of Python: 10, 11 or 12                                 *)
  c_stack,      (* C frames, each with the Python frames it executes       *)
  pc, native_stack, python_stack,
  is_entry,     (* the flags of the cached frames                          *)
  interleaved_stack,
  n, p          (* what is left of the native stack and of the Python stack *)

vars == <<version, c_stack, pc, native_stack, python_stack, is_entry,
          interleaved_stack, n, p>>

Native == Functions \cup {PyEval_EvalFrameDefault, HANDLER, TRAMPOLINE, UNKNOWN_FRAME}
CFrame == [name : Functions \cup {PyEval_EvalFrameDefault}, python : Seq(Locations)]

TypeOK ==
  /\ version \in 10..12
  /\ c_stack \in Seq(CFrame)
  /\ pc \in {"run", "interleave", "done", "undefined"}
  /\ native_stack \in Seq(Native)
  /\ python_stack \in Seq(Locations)
  /\ is_entry \in [Locations -> BOOLEAN]
  /\ interleaved_stack \in Seq(Native \cup Locations)
  /\ n \in 0..Len(native_stack)
  /\ p \in 0..Len(python_stack)

Init ==
  /\ version \in 10..12
  /\ c_stack = <<>>
  /\ pc = "run"
  /\ native_stack = <<>> /\ python_stack = <<>>
  /\ is_entry = [l \in Locations |-> FALSE]
  /\ interleaved_stack = <<>>
  /\ n = 0 /\ p = 0

-----------------------------------------------------------------------------
(* The thread (CPython, external).  A call from Python to Python takes a   *)
(* loop of its own before 3.11.                                            *)

PythonStack == FlattenSeq([i \in DOMAIN c_stack |-> c_stack[i].python])

Executes(program) ==
  /\ pc = "run"
  /\ c_stack' = program
  /\ UNCHANGED <<version, pc, native_stack, python_stack, is_entry,
                 interleaved_stack, n, p>>

Call(f) ==
  /\ Len(c_stack) < MaxDepth
  /\ Executes(<<[name |-> f, python |-> <<>>]>> \o c_stack)

Eval(l) ==
  /\ Len(c_stack) < MaxDepth /\ Len(PythonStack) < MaxDepth
  /\ Executes(<<[name |-> PyEval_EvalFrameDefault, python |-> <<l>>]>> \o c_stack)

EvalInline(l) ==
  /\ version >= 11 /\ Len(PythonStack) < MaxDepth
  /\ c_stack # <<>> /\ Head(c_stack).python # <<>>
  /\ Executes([c_stack EXCEPT ![1].python = <<l>> \o @])

Return ==
  /\ c_stack # <<>>
  /\ Executes(IF Len(Head(c_stack).python) > 1
              THEN [c_stack EXCEPT ![1].python = Tail(@)]
              ELSE Tail(c_stack))

-----------------------------------------------------------------------------
(* sigprof_handler: unwind_native_stack and unwind_python_stack.           *)

NativeNames ==
  <<HANDLER, TRAMPOLINE>> \o [i \in DOMAIN c_stack |-> c_stack[i].name]

(* The first frames that a loop bounded by max_frames gets to. *)
Lengths(s) == 0..(IF Len(s) < max_frames THEN Len(s) ELSE max_frames)

(* Unwinding may end early, and frames may be without a name. *)
FirstNames(k, nameless) ==
  [i \in 1..k |-> IF i \in nameless THEN UNKNOWN_FRAME ELSE NativeNames[i]]

NativeStacks ==
  {FirstNames(k, nameless) :
     k \in Lengths(NativeNames), nameless \in SUBSET (3..Len(NativeNames))}

(* CPython's flag for each frame of PythonStack: the outermost of its loop. *)
Entries ==
  FlattenSeq([i \in DOMAIN c_stack |->
                [j \in DOMAIN c_stack[i].python |-> j = Len(c_stack[i].python)]])

(* What Frame::read takes for it: from 3.12 on, only the shim frames have  *)
(* the owner it looks for, and these are not in the stack.                 *)
EntriesRead == [i \in DOMAIN Entries |-> version = 11 /\ Entries[i]]

(* The frame that is read last sets the flag of its location. *)
FlagsAfter(k) ==
  [l \in Locations |->
     LET at == {i \in 1..k : PythonStack[i] = l}
     IN at # {} /\ EntriesRead[CHOOSE i \in at : \A j \in at : j <= i]]

Unwind ==
  /\ pc = "run"
  /\ native_stack' \in NativeStacks
  /\ \E k \in Lengths(PythonStack) :
       /\ python_stack' = SubSeq(PythonStack, 1, k)
       /\ is_entry' = FlagsAfter(k)
       /\ p' = k
  /\ n' = Len(native_stack')
  /\ interleaved_stack' = <<>>
  /\ pc' = "interleave"
  /\ UNCHANGED <<version, c_stack>>

-----------------------------------------------------------------------------
(* interleave_stacks: from the outermost frames inwards, without the two   *)
(* of the signal.  Names of native frames are in the string table.         *)

NextIs(eval) ==
  /\ pc = "interleave" /\ n > 2
  /\ eval = (native_stack[n] = PyEval_EvalFrameDefault)
  /\ n' = n - 1
  /\ UNCHANGED <<version, c_stack, pc, native_stack, python_stack, is_entry>>

(* A loop without Python frames stands for itself. *)
PushNative ==
  /\ \/ NextIs(FALSE)
     \/ NextIs(TRUE) /\ p = 0
  /\ interleaved_stack' = <<native_stack[n]>> \o interleaved_stack
  /\ UNCHANGED p

Entered(first) == Cardinality({i \in first..p : is_entry[python_stack[i]]})

PastTheNext(first) == Entered(first) <= 2

BeforeTheNext(first) == Entered(first) <= 1

(* The innermost of the frames that are taken for those of the loop. *)
LoopEnd ==
  IF version = 10 THEN p
  ELSE CHOOSE i \in 1..p :
         BeforeTheNext(i) /\ \A j \in 1..p : BeforeTheNext(j) => i <= j

PushPython ==
  /\ p > 0
  /\ NextIs(TRUE)
  /\ interleaved_stack' = SubSeq(python_stack, LoopEnd, p) \o interleaved_stack
  /\ p' = LoopEnd - 1

PushRest ==
  /\ pc = "interleave" /\ n = 2
  /\ interleaved_stack' = SubSeq(python_stack, 1, p) \o interleaved_stack
  /\ p' = 0
  /\ pc' = "done"
  /\ UNCHANGED <<version, c_stack, native_stack, python_stack, is_entry, n>>

(* rend() - 2 is not in a stack of less than two frames. *)
Overrun ==
  /\ pc = "interleave" /\ n < 2
  /\ pc' = "undefined"
  /\ UNCHANGED <<version, c_stack, native_stack, python_stack, is_entry,
                 interleaved_stack, n, p>>

(* The stack is rendered; what is left behind is not read again. *)
Rendered ==
  /\ pc = "done"
  /\ pc' = "run"
  /\ native_stack' = <<>> /\ python_stack' = <<>> /\ interleaved_stack' = <<>>
  /\ is_entry' = [l \in Locations |-> FALSE]
  /\ n' = 0 /\ p' = 0
  /\ UNCHANGED <<version, c_stack>>

Next ==
  \/ \E f \in Functions : Call(f)
  \/ \E l \in Locations : Eval(l) \/ EvalInline(l)
  \/ Return \/ Unwind \/ PushNative \/ PushPython \/ PushRest \/ Overrun \/ Rendered

Spec == Init /\ [][Next]_vars

-----------------------------------------------------------------------------
(* Properties.                                                             *)

(* The stack as it is: loops replaced by the Python frames they execute. *)
Truth ==
  FlattenSeq([i \in DOMAIN c_stack |->
                IF c_stack[i].python = <<>> THEN <<c_stack[i].name>>
                ELSE c_stack[i].python])

(* Both stacks have been unwound to their ends, under their names. *)
Whole == native_stack = NativeNames /\ python_stack = PythonStack

Loops == {i \in DOMAIN c_stack : c_stack[i].python # <<>>}

(* The flags say where loops begin: not from 3.12 on, where all frames go  *)
(* to the first loop, nor where a location recurs as an entry and inline.  *)
LoopsKnown ==
  \/ version = 10
  \/ version = 11 /\ \A i \in DOMAIN python_stack : is_entry[python_stack[i]] = Entries[i]
  \/ version = 12 /\ Cardinality(Loops) <= 1

(* The Python frames of a stack, as they are in it. *)
PythonFrames(s) ==
  FlattenSeq([i \in DOMAIN s |-> IF s[i] \in Locations THEN <<s[i]>> ELSE <<>>])

(* interleave_stacks (stacks.h:260-320) loses no Python frame, adds none   *)
(* and keeps their order, whatever the native stack; and where both stacks *)
(* are whole and the flags right, every frame is in its place.             *)
Interleaved ==
  pc = "done" =>
    /\ PythonFrames(interleaved_stack) = python_stack
    /\ Whole /\ LoopsKnown => interleaved_stack = Truth
=============================================================================
