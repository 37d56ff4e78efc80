------------------------------- MODULE MCFrames -------------------------------
(* What a sample is made of, checked side by side: the frames and their   *)
(* cache, the copies of chunks that frames are read from, the order of    *)
(* native and Python frames, the lines of frames and the numbers written. *)
(* They share no state: a behaviour is of one part, and leaves the others *)
(* where they start.  Every code location is in one file.                 *)
EXTENDS Frames, Integers, TLC

CONSTANTS
  Threads, LastCell, MAX_CHUNK_SIZE, MaxWrites,
  Functions, max_frames, MaxDepth,
  PyEval_EvalFrameDefault, HANDLER, TRAMPOLINE, UNKNOWN_FRAME,
  Units, Deltas, MaxRuns,
  Width, Values, PyLong_SHIFT, MAX_DIGITS

VARIABLES
  part,   (* "frames", "chunks", "interleaving", "lines" or "numbers" *)
  memory, objects, chunks, writes, stack_chunk, chunk_pc, chunk_addr, chunk,
  level, frame_addr, frame, since, freed,
  version, c_stack, native_pc, native_stack, own_stack, is_entry,
  interleaved_stack, native_left, own_left,
  format, runs, lasti, whole, table, line_pc, at, bc, lineno,
  conversion, value, number_pc, integer, output, digits_left, ret

chunk_vars  == <<memory, objects, chunks, writes, stack_chunk, chunk_pc, chunk_addr,
                 chunk, level, frame_addr, frame, since, freed>>
native_vars == <<version, c_stack, native_pc, native_stack, own_stack, is_entry,
                 interleaved_stack, native_left, own_left>>
line_vars   == <<format, runs, lasti, whole, table, line_pc, at, bc, lineno>>
number_vars == <<conversion, value, number_pc, integer, output, digits_left, ret>>

C == INSTANCE StackChunks WITH pc <- chunk_pc
N == INSTANCE Interleaving WITH
       pc <- native_pc, python_stack <- own_stack, n <- native_left, p <- own_left
L == INSTANCE LineTables WITH version <- format, pc <- line_pc, i <- at
D == INSTANCE Numbers WITH pc <- number_pc, i <- digits_left

(* A pointer that is not null is an address, and no cell is nullptr.      *)
ASSUME ChunksAssumption ==
  /\ LastCell \in Nat /\ MAX_CHUNK_SIZE \in Nat /\ MaxWrites \in Nat
  /\ nullptr \notin C!Addresses \cup C!Cell

(* A name of a C function is no Python frame, and only the interpreter loop *)
(* has the name that interleave_stacks looks for.                          *)
ASSUME InterleavingAssumption ==
  /\ N!Native \cap Locations = {}
  /\ PyEval_EvalFrameDefault \notin Functions
  /\ max_frames \in Nat /\ MaxDepth \in Nat

(* What the proofs need of powers of two: words are two halves, each of     *)
(* which is a number of digits, and a digit has more than one value.       *)
ASSUME NumbersAssumption ==
  /\ Values \subseteq Int /\ MAX_DIGITS \in Nat
  /\ D!Modulus \in Nat \ {0} /\ D!Modulus = 2 * (D!Modulus \div 2)
  /\ D!Base \in Nat \ {0, 1} /\ (D!Modulus \div 2) % D!Base = 0

(* A run has instructions, and a line that is not there is no difference.  *)
ASSUME LinesAssumption ==
  /\ \A v \in 9..11 : Units[v] \subseteq Nat \ {0}
  /\ Deltas \subseteq Int /\ nullptr \notin Int
  /\ MaxRuns \in Nat

MCStringsOf == [k \in Locations |-> CodeStrings]
MCUnits     == [v \in 9..11 |-> IF v = 11 THEN {1, 9} ELSE {1, 128}]
MCDeltas    == {0, 2, 200, -300}
MCValues    == {s * (2^k + d) : s \in {-1, 1}, k \in 0..17, d \in {-1, 0, 1, 7}}
MCSymmetry  == Permutations(Threads) \cup Permutations(Locations)

(* Where lines and numbers are while another part runs.                   *)
NoLines ==
  /\ format = 9 /\ runs = <<>> /\ lasti = 0 /\ whole = FALSE /\ table = <<>>
  /\ line_pc = "loop" /\ at = 0 /\ bc = 0 /\ lineno = 0

NoNumbers ==
  /\ conversion = "ref" /\ value = 0 /\ number_pc = "begin"
  /\ integer = 0 /\ output = <<>> /\ digits_left = 0 /\ ret = 0

MCInit ==
  /\ part \in {"frames", "chunks", "interleaving", "lines", "numbers"}
  /\ Init /\ C!Init /\ N!Init
  /\ part # "interleaving" => version = 10
  /\ IF part = "lines" THEN L!Init ELSE NoLines
  /\ IF part = "numbers" THEN D!Init ELSE NoNumbers

Others(name) ==
  /\ part = name
  /\ UNCHANGED part
  /\ name # "frames" => UNCHANGED vars
  /\ name # "chunks" => UNCHANGED chunk_vars
  /\ name # "interleaving" => UNCHANGED native_vars
  /\ name # "lines" => UNCHANGED line_vars
  /\ name # "numbers" => UNCHANGED number_vars

MCNext ==
  \/ Others("frames") /\ Next
  \/ Others("chunks") /\ C!Next
  \/ Others("interleaving") /\ N!Next
  \/ Others("lines") /\ L!Next
  \/ Others("numbers") /\ D!Next

MCSpec ==
  MCInit /\ [][MCNext]_<<part, vars, chunk_vars, native_vars, line_vars, number_vars>>

(* The types of the parts that run.                                        *)
TypesOK ==
  /\ part = "chunks" => C!TypeOK
  /\ part = "interleaving" => N!TypeOK
  /\ part = "lines" => L!TypeOK
  /\ part = "numbers" => D!TypeOK

(* Frames are read from fresh copies (see StackChunks).                   *)
FramesFresh == C!FramesFresh

(* Native and Python frames are in their order (see Interleaving).        *)
Interleaved == N!Interleaved

(* Lines and numbers are those encoded (see LineTables and Numbers).      *)
DecodedRight == L!LinesRight /\ D!NumbersKept
=============================================================================
