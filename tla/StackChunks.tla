------------------------------ MODULE StackChunks ------------------------------
(***************************************************************************)
(* The copies of a thread's data stack (stack_chunk.h), from which frames  *)
(* are read (Frame::read, Python 3.11 and later).  CPython keeps frames in *)
(* chunks, a list per thread with the newest first; frames of generators   *)
(* are objects of their own.  There is one list of copies, which serves    *)
(* all threads in turn; the program goes on while it is updated and read.  *)
(*                                                                         *)
(* Memory is cells, a frame each; the first cell of a chunk also has its   *)
(* size and the address of the chunk before.                               *)
(***************************************************************************)
EXTENDS Naturals, Sequences

CONSTANTS
  Threads,
  LastCell,       (* addresses are 1..LastCell                             *)
  MAX_CHUNK_SIZE,
  MaxWrites,      (* bound: cells that are ever written                    *)
  nullptr

VARIABLES
  memory,       (* of each address: nullptr if it cannot be read           *)
  objects,      (* the addresses of generator frames                       *)
  chunks,       (* per thread, its chunks: address and size                *)
  writes,
  stack_chunk,  (* the copies: origin, size and the frames they hold       *)
  pc, chunk_addr, chunk,  (* of update: where it is, and the first copy    *)
  level,        (* how many copies have been updated                       *)
  frame_addr, frame,      (* what has been read last, and where            *)
  since,        (* the frames at each address since the unwinding began    *)
  freed         (* has a chunk been given back since?                      *)

program == <<memory, objects, chunks, writes>>
update  == <<stack_chunk, pc, chunk_addr, chunk, level>>
found   == <<frame_addr, frame>>
vars    == <<program, update, found, since, freed>>

Addresses == 1..LastCell
Pointer   == Addresses \cup {nullptr}
Frame     == 0..MaxWrites   (* 0: not a frame that anybody wrote *)
Outside   == MaxWrites + 1  (* what is beyond a copy *)
Cell      == [frame : Frame, size : 0..LastCell, previous : Pointer]
Copy      == [origin : Addresses, size : Nat, data : Seq(Frame)]

TypeOK ==
  /\ memory \in [Addresses -> Cell \cup {nullptr}]
  /\ objects \subseteq Addresses
  /\ \A t \in Threads : chunks[t] \in Seq([at : Addresses, size : 1..LastCell])
  /\ writes \in 0..MaxWrites
  /\ stack_chunk \in Seq(Copy)
  /\ pc \in {"idle", "header", "data", "frames"}
  /\ chunk_addr \in Pointer
  /\ chunk \in [frame : Frame, size : 0..MAX_CHUNK_SIZE, previous : Pointer]
  /\ level \in Nat
  /\ frame_addr \in Pointer
  /\ frame \in Frame \cup {Outside}
  /\ since \in [Addresses -> SUBSET Frame]
  /\ freed \in BOOLEAN

NoChunk == [frame |-> 0, size |-> 0, previous |-> nullptr]

Init ==
  /\ memory = [a \in Addresses |-> nullptr]
  /\ objects = {}
  /\ chunks = [t \in Threads |-> <<>>]
  /\ writes = 0
  /\ stack_chunk = <<>>
  /\ pc = "idle" /\ chunk_addr = nullptr /\ chunk = NoChunk /\ level = 0
  /\ frame_addr = nullptr /\ frame = 0
  /\ since = [a \in Addresses |-> {}]
  /\ freed = FALSE

-----------------------------------------------------------------------------
(* The program (CPython, external).                                        *)

CellsOf(c) == c.at..(c.at + c.size - 1)

Used == objects \cup UNION {UNION {CellsOf(chunks[t][k]) : k \in DOMAIN chunks[t]} :
                              t \in Threads}

Top(t) == IF chunks[t] = <<>> THEN nullptr ELSE Head(chunks[t]).at

(* The cells of S are written, one frame after the other. *)
Write(S, size, previous) ==
  LET first == CHOOSE a \in S : \A b \in S : a <= b
      new(a) == [frame |-> writes + 1 + a - first,
                 size |-> IF a = first THEN size ELSE 0,
                 previous |-> IF a = first THEN previous ELSE nullptr]
  IN /\ writes + size <= MaxWrites
     /\ writes' = writes + size
     /\ memory' = [a \in Addresses |-> IF a \in S THEN new(a) ELSE memory[a]]
     /\ since' = [a \in Addresses |->
                    IF a \in S THEN since[a] \cup {new(a).frame} ELSE since[a]]

PushChunk(t, c) ==
  /\ CellsOf(c) \subseteq Addresses \ Used
  /\ Write(CellsOf(c), c.size, Top(t))
  /\ chunks' = [chunks EXCEPT ![t] = <<c>> \o @]
  /\ UNCHANGED <<objects, update, found, freed>>

(* A call, or the return from one and the next: another frame in a chunk.  *)
Call(t) ==
  /\ chunks[t] # <<>>
  /\ \E a \in CellsOf(Head(chunks[t])) \ {Top(t)} : Write({a}, 1, nullptr)
  /\ UNCHANGED <<objects, chunks, update, found, freed>>

(* What has been freed may stay readable, with what was there. *)
Freed(S) ==
  memory' \in {memory, [a \in Addresses |-> IF a \in S THEN nullptr ELSE memory[a]]}

PopChunk(t) ==
  /\ chunks[t] # <<>>
  /\ Freed(CellsOf(Head(chunks[t])))
  /\ chunks' = [chunks EXCEPT ![t] = Tail(@)]
  /\ freed' = TRUE
  /\ UNCHANGED <<objects, writes, update, found, since>>

NewGenerator(a) ==
  /\ a \notin Used
  /\ Write({a}, 1, nullptr)
  /\ objects' = objects \cup {a}
  /\ UNCHANGED <<chunks, update, found, freed>>

EndGenerator(a) ==
  /\ a \in objects
  /\ Freed({a})
  /\ objects' = objects \ {a}
  /\ UNCHANGED <<chunks, writes, update, found, since, freed>>

-----------------------------------------------------------------------------
(* unwind_python_stack and StackChunk::update.                             *)

UnwindPythonStack(t) ==
  /\ pc = "idle"
  /\ pc' = "header"
  /\ chunk_addr' = Top(t)
  /\ level' = 0
  /\ since' = [a \in Addresses |->
                 IF memory[a] = nullptr THEN {} ELSE {memory[a].frame}]
  /\ freed' = FALSE
  /\ UNCHANGED <<program, stack_chunk, chunk, found>>

(* The levels that have been updated; none if the first one fails. *)
Updated == SubSeq(stack_chunk, 1, level)

UpdateFails ==
  /\ stack_chunk' = Updated
  /\ pc' = "frames"
  /\ UNCHANGED <<chunk_addr, chunk, level>>

Readable(S) == \A a \in S : a \in Addresses /\ memory[a] # nullptr

NoLimit(size) == FALSE

TooLarge(size) == size > MAX_CHUNK_SIZE

(* The first copy, of the header alone.  What is no chunk any more has     *)
(* some size and some pointer in its place.                                *)
CopyHeader ==
  /\ pc = "header"
  /\ IF chunk_addr # nullptr /\ Readable({chunk_addr})
     THEN LET c == memory[chunk_addr] IN
          \E size \in IF c.size > 0 THEN {c.size} ELSE 0..MAX_CHUNK_SIZE + 1 :
            IF TooLarge(size) THEN UpdateFails
            ELSE /\ chunk' = [c EXCEPT !.size = size]
                 /\ pc' = "data"
                 /\ UNCHANGED <<stack_chunk, chunk_addr, level>>
     ELSE UpdateFails
  /\ UNCHANGED <<program, found, since, freed>>

(* The copy at this level, with room for all that the header announced. *)
Old == IF level < Len(stack_chunk) THEN stack_chunk[level + 1]
       ELSE [origin |-> chunk_addr, size |-> 0, data |-> <<>>]

CopiedCells == {chunk_addr + i - 1 : i \in 1..chunk.size}

(* The size that counts from now on comes from the second copy. *)
SizesAgain ==
  IF chunk.size = 0 THEN {Old.size}
  ELSE IF memory[chunk_addr].frame = chunk.frame THEN {chunk.size}
  ELSE IF memory[chunk_addr].size > 0 THEN {memory[chunk_addr].size}
  ELSE 0..MAX_CHUNK_SIZE + 1

Longer(m, n) == IF m > n THEN m ELSE n

DataAgain ==
  [i \in 1..Longer(Len(Old.data), chunk.size) |->
     IF i <= chunk.size THEN memory[chunk_addr + i - 1].frame ELSE Old.data[i]]

(* The pointer that is followed is that of the first copy. *)
CopyData ==
  /\ pc = "data"
  /\ IF Readable(CopiedCells)
     THEN /\ \E size \in SizesAgain :
               LET copy == [origin |-> chunk_addr, size |-> size, data |-> DataAgain]
               IN stack_chunk' = SubSeq(stack_chunk, 1, level) \o <<copy>>
                                   \o SubSeq(stack_chunk, level + 2, Len(stack_chunk))
          /\ level' = level + 1
          /\ chunk_addr' = chunk.previous
          /\ pc' = IF chunk.previous = nullptr THEN "frames" ELSE "header"
          /\ UNCHANGED chunk
     ELSE UpdateFails
  /\ UNCHANGED <<program, found, since, freed>>

-----------------------------------------------------------------------------
(* Frame::read and StackChunk::resolve.                                    *)

HoldsOneMore(c, a) == a >= c.origin /\ a <= c.origin + c.size

Holds(c, a) == a >= c.origin /\ a < c.origin + c.size

(* The first copy that has the address, unless one before it is not valid. *)
Resolving(a) ==
  {d \in DOMAIN stack_chunk :
     /\ Holds(stack_chunk[d], a)
     /\ \A e \in 1..d : Len(stack_chunk[e].data) > 0
     /\ \A e \in 1..(d - 1) : ~Holds(stack_chunk[e], a)}

ReadCopy(a) ==
  \E d \in Resolving(a) :
    LET c == stack_chunk[d]
        i == a - c.origin + 1
    IN frame' = IF i \in DOMAIN c.data THEN c.data[i] ELSE Outside

(* An address that frames of the thread may have: something is, or was,    *)
(* there while it was unwound.                                             *)
ReadFrame(a) ==
  /\ pc = "frames" /\ since[a] # {}
  /\ \/ ReadCopy(a)
     \/ Resolving(a) = {} /\ Readable({a}) /\ frame' = memory[a].frame
  /\ frame_addr' = a
  /\ UNCHANGED <<program, update, since, freed>>

StackEnds ==
  /\ pc = "frames"
  /\ pc' = "idle"
  /\ frame_addr' = nullptr /\ frame' = 0
  /\ chunk' = NoChunk /\ chunk_addr' = nullptr
  /\ UNCHANGED <<program, stack_chunk, level, since, freed>>

-----------------------------------------------------------------------------
Next ==
  \/ \E t \in Threads :
       \/ \E a, n \in Addresses : PushChunk(t, [at |-> a, size |-> n])
       \/ Call(t)
       \/ PopChunk(t)
       \/ UnwindPythonStack(t)
  \/ \E a \in Addresses : NewGenerator(a) \/ EndGenerator(a) \/ ReadFrame(a)
  \/ CopyHeader \/ CopyData \/ StackEnds

Spec == Init /\ [][Next]_vars

-----------------------------------------------------------------------------
(* Properties.                                                             *)

(* Copies of a longer list than that of the thread unwound are kept: the   *)
(* last one has no chunk before it, and does not forget its own.           *)
Kept == Len(stack_chunk) > level

(* A frame is read as it is, or has been since the unwinding of its thread *)
(* began (stack_chunk.h:89-108): never from a copy made for another        *)
(* thread, nor from beyond a copy.  That is, as long as no chunk is given  *)
(* back meanwhile, and no copies are kept of a list that was longer.       *)
FramesFresh ==
  frame_addr # nullptr => frame \in since[frame_addr] \/ freed \/ Kept
=============================================================================
