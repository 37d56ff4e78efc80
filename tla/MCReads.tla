-------------------------------- MODULE MCReads --------------------------------
(* How another thread is read, checked side by side: by itself, in native  *)
(* mode (NativeUnwind), with the two ways of copying its memory that echion*)
(* has of its own (SafeMemcpy, VmReader), and interpreter by interpreter   *)
(* (Interpreters).  Each models the state it needs, so a behaviour is of   *)
(* one part alone and leaves the others where they start.                  *)
EXTENDS NativeUnwind

CONSTANTS
  Pages,
  Copiers, Cells, BufferSize, MaxMaps, nullptr,
  Addresses, MaxBorn, MaxWalks

(* There is memory to copy, a mapping is not nullptr, and no interpreter   *)
(* is at address NULL.                                                     *)
ASSUME ReadsAssumption ==
  /\ Cells \in Nat /\ Cells > 0 /\ BufferSize \in Nat
  /\ MaxMaps \in Nat /\ nullptr \notin 1..MaxMaps
  /\ "NULL" \notin Addresses
  /\ MaxBorn \in Nat \ {0} /\ MaxWalks \in Nat

VARIABLES
  part,  (* "native", "memcpy", "vmreader" or "interpreters" *)
  disposition, g_old_segv, enabled, previous, pages_readable, copies,
  t_handler_armed, t_jmpenv, nested, killed,
  safe_copy, failed_safe_copy, dir, fd, buffer, sz, maps, file, readable,
  vm_pc, src, len, from, dest, result, alone, overlapped,
  list, memory, mapped, born, interp_pc, interp_addr, info, visited, atStart,
  ended, walks

memcpy_vars ==
  <<disposition, g_old_segv, enabled, previous, pages_readable, copies,
    t_handler_armed, t_jmpenv, nested, killed>>

vmreader_vars ==
  <<safe_copy, failed_safe_copy, dir, fd, buffer, sz, maps, file, readable,
    vm_pc, src, len, from, dest, result, alone, overlapped>>

interp_vars ==
  <<list, memory, mapped, born, interp_pc, interp_addr, info, visited, atStart,
    ended, walks>>

M == INSTANCE SafeMemcpy WITH readable <- pages_readable
V == INSTANCE VmReader WITH pc <- vm_pc
I == INSTANCE Interpreters WITH pc <- interp_pc

MCInit ==
  /\ part \in {"native", "memcpy", "vmreader", "interpreters"}
  /\ Init /\ M!Init /\ V!Init /\ I!Init
  /\ part # "native" => \A t \in Threads : life[t] = "running"
  /\ part # "memcpy" => ~enabled /\ pages_readable = Pages
  /\ list = <<CHOOSE a \in Addresses : TRUE>>  (* the addresses are alike *)

MCNext ==
  \/ /\ part = "native" /\ Next
     /\ UNCHANGED <<part, memcpy_vars, vmreader_vars, interp_vars>>
  \/ /\ part = "memcpy" /\ M!Next
     /\ UNCHANGED <<part, vars, vmreader_vars, interp_vars>>
  \/ /\ part = "vmreader" /\ V!Next
     /\ UNCHANGED <<part, vars, memcpy_vars, interp_vars>>
  \/ /\ part = "interpreters" /\ I!Next
     /\ UNCHANGED <<part, vars, memcpy_vars, vmreader_vars>>

MCSpec ==
  MCInit /\ [][MCNext]_<<part, vars, memcpy_vars, vmreader_vars, interp_vars>>

(* The types of the part that runs. *)
TypesOK ==
  /\ part = "native" => TypeOK
  /\ part = "memcpy" => M!TypeOK
  /\ part = "vmreader" => V!TypeOK
  /\ part = "interpreters" => I!TypeOK

(* A copy is right, or reported as failed (see VmReader); and a fault in   *)
(* a guarded one does not end the process (see SafeMemcpy).                *)
CopiesSafe == V!CopySafe /\ M!Survives

(* A walk calls back with interpreters, all or none (see Interpreters).    *)
CallsBackAll == I!CallsBackAll

(* Walkers get their stacks and a stop ends, where the targets can answer  *)
(* (see NativeUnwind); and a walk over the interpreters ends (see          *)
(* Interpreters).                                                          *)
WaitsEnd ==
  /\ Fairness => UnwindReturns /\ StopEnds
  /\ I!Fairness => I!WalkEnds
=============================================================================
