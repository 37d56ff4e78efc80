-------------------------------- MODULE VmReader --------------------------------
(***************************************************************************)
(* How memory is copied safely on Linux (vm.h): the choice of a method     *)
(* when the module is loaded, and the one that needs state, VmReader,      *)
(* which writes the source to a temporary file and reads it back through a *)
(* mapping of that file.  The sampler and the SIGQUIT listener, or hooks   *)
(* in several threads, use the one instance together, without a lock.      *)
(*                                                                         *)
(* Memory is cells; a cell that can be read holds its own address, so a    *)
(* copy is right when it holds the addresses it was made of.               *)
(***************************************************************************)
EXTENDS Integers, Sequences, FiniteSets

CONSTANTS
  Copiers,      (* threads that copy                                       *)
  Cells,        (* the last address: addresses are 1..Cells                *)
  BufferSize,   (* the size the buffer is created with                     *)
  MaxMaps,      (* bound: times the buffer is mapped or remapped           *)
  nullptr

TmpDirs == 3

VARIABLES
  safe_copy,  (* the method chosen, "none" before                          *)
  failed_safe_copy,
  dir,        (* the temporary directory being tried                       *)
  fd,         (* is the temporary file open?                               *)
  buffer,     (* the mapping of the file, numbered, or nullptr             *)
  sz,
  maps,       (* mappings made                                             *)
  file,       (* the cells of the file, 0 where nothing was written        *)
  readable,   (* the addresses that can be read                            *)
  pc, src, len, (* of each copy: where it is, and what it copies           *)
  from,       (* the mapping it reads                                      *)
  dest,       (* the cells it has been given                               *)
  result,     (* what safe_copy has returned                               *)
  alone,      (* has no other copy been under way during this one?         *)
  overlapped  (* have two copies ever been under way at a time?            *)

chosen == <<safe_copy, failed_safe_copy, dir>>
reader == <<fd, buffer, sz, maps>>
copy   == <<pc, src, len, from, dest, result, alone, overlapped>>
vars   == <<chosen, reader, file, readable, copy>>

Cell == 1..Cells
Sizes     == 0..(IF Cells > BufferSize THEN Cells ELSE BufferSize)

TypeOK ==
  /\ safe_copy \in {"none", "process_vm_readv", "safe_memcpy", "vmreader"}
  /\ failed_safe_copy \in BOOLEAN
  /\ dir \in 0..TmpDirs + 1
  /\ fd \in BOOLEAN
  /\ buffer \in 1..MaxMaps \cup {nullptr}
  /\ sz \in Sizes
  /\ maps \in 0..MaxMaps
  /\ file \in Seq(Cell \cup {0}) /\ Len(file) \in Sizes
  /\ readable \subseteq Cell
  /\ pc \in [Copiers -> {"idle", "resize", "remap", "write", "fetch", "memcpy",
                         "returned", "crashed"}]
  /\ src \in [Copiers -> Cell]
  /\ len \in [Copiers -> Sizes]
  /\ from \in [Copiers -> 1..MaxMaps \cup {nullptr}]
  /\ dest \in [Copiers -> Seq(Cell \cup {0})]
  /\ result \in [Copiers -> Sizes \cup {-1}]
  /\ alone \in [Copiers -> BOOLEAN]
  /\ overlapped \in BOOLEAN

Init ==
  /\ safe_copy = "none" /\ failed_safe_copy = FALSE /\ dir = 0
  /\ fd = FALSE /\ buffer = nullptr /\ sz = 0 /\ maps = 0
  /\ file = <<>>
  /\ readable = Cell
  /\ pc = [c \in Copiers |-> "idle"]
  /\ src = [c \in Copiers |-> 1]
  /\ len = [c \in Copiers |-> 0]
  /\ from = [c \in Copiers |-> nullptr]
  /\ dest = [c \in Copiers |-> <<>>]
  /\ result = [c \in Copiers |-> 0]
  /\ alone = [c \in Copiers |-> TRUE]
  /\ overlapped = FALSE

Zeros(n) == [i \in 1..n |-> 0]

-----------------------------------------------------------------------------
(* init_safe_copy, before anything is copied.                              *)

(* The environment asks for memcpy, and the fault handler is installed. *)
UseSafeMemcpy ==
  /\ safe_copy = "none" /\ dir = 0
  /\ safe_copy' = "safe_memcpy"
  /\ UNCHANGED <<failed_safe_copy, dir, reader, file, readable, copy>>

(* The system call works, and is not overridden. *)
UseProcessVmReadv ==
  /\ safe_copy = "none" /\ dir = 0
  /\ safe_copy' = "process_vm_readv"
  /\ UNCHANGED <<failed_safe_copy, dir, reader, file, readable, copy>>

CreateVmReader ==
  /\ safe_copy = "none" /\ dir = 0
  /\ dir' = 1
  /\ UNCHANGED <<safe_copy, failed_safe_copy, reader, file, readable, copy>>

Trying == safe_copy = "none" /\ dir \in 1..TmpDirs

NoTmpFile ==
  /\ Trying
  /\ dir' = dir + 1
  /\ fd' = FALSE
  /\ UNCHANGED <<safe_copy, failed_safe_copy, buffer, sz, maps, file, readable,
                 copy>>

(* ftruncate or mmap fails; the file is closed only by another attempt. *)
NoMapping ==
  /\ Trying
  /\ dir' = dir + 1
  /\ fd' = TRUE
  /\ file' \in {<<>>, Zeros(BufferSize)}
  /\ UNCHANGED <<safe_copy, failed_safe_copy, buffer, sz, maps, readable, copy>>

MapTmpFile ==
  /\ Trying
  /\ maps < MaxMaps
  /\ dir' = TmpDirs + 1
  /\ fd' = TRUE
  /\ file' = Zeros(BufferSize)
  /\ maps' = maps + 1
  /\ buffer' = maps'
  /\ UNCHANGED <<safe_copy, failed_safe_copy, sz, readable, copy>>

(* The instance exists in any case, which is all that is asked of it. *)
UseVmReader ==
  /\ safe_copy = "none" /\ dir = TmpDirs + 1
  /\ safe_copy' = "vmreader"
  /\ sz' = BufferSize
  /\ UNCHANGED <<failed_safe_copy, dir, fd, buffer, maps, file, readable, copy>>

-----------------------------------------------------------------------------
(* copy_memory.                                                            *)

Goto(c, next) == pc' = [pc EXCEPT ![c] = next]

Source(c) == [i \in 1..len[c] |-> src[c] + i - 1]

(* How many of the first cells can be read. *)
Readable(c) ==
  Cardinality({n \in 1..len[c] : src[c]..(src[c] + n - 1) \subseteq readable})

Copying == {c \in Copiers : pc[c] \notin {"idle", "returned"}}

Begin(c, a, n) ==
  /\ safe_copy \in {"process_vm_readv", "vmreader"}
  /\ pc[c] \in {"idle", "returned"}
  /\ a + n - 1 <= Cells
  /\ src' = [src EXCEPT ![c] = a]
  /\ len' = [len EXCEPT ![c] = n]
  /\ dest' = [dest EXCEPT ![c] = <<>>]
  /\ from' = [from EXCEPT ![c] = nullptr]
  /\ result' = [result EXCEPT ![c] = 0]
  /\ alone' = [d \in Copiers |->
                 IF d = c THEN Copying = {} ELSE alone[d] /\ d \notin Copying]
  /\ overlapped' = (overlapped \/ Copying # {})
  /\ Goto(c, IF safe_copy = "vmreader" /\ n > sz THEN "resize" ELSE "write")
  /\ UNCHANGED <<chosen, reader, file, readable>>

AllAsked(c) == len[c]

(* What readv or writev returns: less than was asked, or -1 for nothing. *)
Transferred(c) == IF Readable(c) = 0 THEN -1 ELSE Readable(c)

Return(c, n) ==
  /\ Goto(c, "returned")
  /\ result' = [result EXCEPT ![c] = n]

ReadProcess(c) ==
  /\ safe_copy = "process_vm_readv" /\ pc[c] = "write"
  /\ dest' = [dest EXCEPT ![c] = SubSeq(Source(c), 1, Readable(c))]
  /\ Return(c, Transferred(c))
  /\ UNCHANGED <<chosen, reader, file, readable, src, len, from, alone,
                 overlapped>>

(* The file when it is truncated or extended to n cells. *)
Resize(n) ==
  IF n <= Len(file) THEN SubSeq(file, 1, n) ELSE file \o Zeros(n - Len(file))

(* ftruncate, which fails without a file. *)
GrowFile(c) ==
  /\ pc[c] = "resize"
  /\ IF fd THEN /\ file' = Resize(len[c])
                /\ Goto(c, "remap")
                /\ UNCHANGED result
     ELSE Return(c, 0) /\ UNCHANGED file
  /\ UNCHANGED <<chosen, reader, readable, src, len, from, dest, alone,
                 overlapped>>

(* mremap may move the mapping. *)
Remap(c) ==
  /\ pc[c] = "remap" /\ buffer # nullptr
  /\ \/ UNCHANGED <<buffer, maps>>
     \/ maps < MaxMaps /\ maps' = maps + 1 /\ buffer' = maps'
  /\ sz' = len[c]
  /\ Goto(c, "write")
  /\ UNCHANGED <<chosen, fd, file, readable, src, len, from, dest, result, alone,
                 overlapped>>

RemapFails(c) ==
  /\ pc[c] = "remap"
  /\ Return(c, 0)
  /\ UNCHANGED <<chosen, reader, file, readable, src, len, from, dest, alone,
                 overlapped>>

Written(c) ==
  [i \in 1..(IF Len(file) > Readable(c) THEN Len(file) ELSE Readable(c)) |->
     IF i <= Readable(c) THEN Source(c)[i] ELSE file[i]]

(* pwritev *)
Write(c) ==
  /\ safe_copy = "vmreader" /\ pc[c] = "write"
  /\ IF fd /\ Readable(c) > 0
     THEN /\ file' = Written(c)
          /\ result' = [result EXCEPT ![c] = Transferred(c)]
          /\ Goto(c, "fetch")
     ELSE Return(c, -1) /\ UNCHANGED file
  /\ UNCHANGED <<chosen, reader, readable, src, len, from, dest, alone,
                 overlapped>>

FetchBuffer(c) ==
  /\ pc[c] = "fetch"
  /\ from' = [from EXCEPT ![c] = buffer]
  /\ Goto(c, "memcpy")
  /\ UNCHANGED <<chosen, reader, file, readable, src, len, dest, result, alone,
                 overlapped>>

(* The mapping is there, and the file behind it is long enough. *)
Mapped(c) ==
  from[c] # nullptr /\ from[c] = buffer /\ len[c] <= sz /\ len[c] <= Len(file)

Memcpy(c) ==
  /\ pc[c] = "memcpy"
  /\ IF Mapped(c)
     THEN /\ dest' = [dest EXCEPT ![c] = SubSeq(file, 1, len[c])]
          /\ Goto(c, "returned")
     ELSE Goto(c, "crashed") /\ UNCHANGED dest
  /\ UNCHANGED <<chosen, reader, file, readable, src, len, from, result, alone,
                 overlapped>>

(* The program unmaps memory, and maps it again. *)
Change(a) ==
  /\ readable' = IF a \in readable THEN readable \ {a} ELSE readable \cup {a}
  /\ UNCHANGED <<chosen, reader, file, copy>>

-----------------------------------------------------------------------------
InitSafeCopy ==
  \/ UseSafeMemcpy \/ UseProcessVmReadv \/ CreateVmReader
  \/ NoTmpFile \/ NoMapping \/ MapTmpFile \/ UseVmReader

CopyStep(c) ==
  \/ ReadProcess(c) \/ GrowFile(c) \/ Remap(c) \/ RemapFails(c)
  \/ Write(c) \/ FetchBuffer(c) \/ Memcpy(c)

Next ==
  \/ InitSafeCopy
  \/ \E c \in Copiers : CopyStep(c) \/ \E a, n \in Cell : Begin(c, a, n)
  \/ \E a \in Cell : Change(a)

Spec == Init /\ [][Next]_vars

-----------------------------------------------------------------------------
(* Properties.                                                             *)

(* copy_memory reports success only for a copy of what it was asked for    *)
(* (vm.h:312), whatever the program unmaps meanwhile and whichever method  *)
(* has been chosen, unless VmReader made two copies at the same time.      *)
CopyTrue ==
  \A c \in Copiers :
    /\ pc[c] = "returned" /\ result[c] = len[c]
    /\ safe_copy = "vmreader" => alone[c]
    => dest[c] = Source(c)

(* A copy fails rather than touch memory that is not there, unless there   *)
(* never was a mapping (vm.h:122), or two copies were ever made at a time: *)
(* growing the file together, they may leave it shorter than sz says, for  *)
(* a later copy to find.                                                   *)
NeverCrashes ==
  \A c \in Copiers : pc[c] = "crashed" => buffer = nullptr \/ overlapped

(* Whatever the method, and whatever goes wrong, a copy that is reported   *)
(* as made is right, and one that cannot be made is reported as failed.    *)
CopySafe == CopyTrue /\ NeverCrashes
=============================================================================
