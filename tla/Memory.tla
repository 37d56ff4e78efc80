------------------------------- MODULE Memory -------------------------------
(***************************************************************************)
(* Memory mode: the allocator hooks of memory.h, which charge every block  *)
(* to the stack that allocated it, and the sampler thread's flush, set-up  *)
(* and tear-down.                                                          *)
(*                                                                         *)
(* A hook is several steps, each under a lock of its own, around the call  *)
(* of the real allocator.  Allocations run with the GIL; frees of the RAW  *)
(* domain may run without it.  The sampler never takes the GIL, but in     *)
(* stealth mode stop() keeps it while the sampler tears down.              *)
(***************************************************************************)
EXTENDS Integers, FiniteSets, FiniteSetsExt

CONSTANTS
  Threads,       (* the Python threads                                     *)
  Addresses,     (* the heap                                               *)
  Stacks,        (* stack keys                                             *)
  Sizes,         (* block sizes                                            *)
  NonAscii,      (* stacks with a name whose UTF-8 form must be allocated  *)
  Untracked,     (* threads that allocate while they are not tracked       *)
  Stealth,       (* does stop() keep the GIL during the tear-down?         *)
  RawFrees,      (* are there frees without the GIL, as in the RAW domain? *)
  ReallocFails,  (* may the real realloc return NULL?                      *)
  MaxSessions,   (* bound on the number of sessions                        *)
  stopper,       (* the thread inside stop(), as a holder of the GIL       *)
  nullptr

ASSUME MemoryAssumption ==
  /\ Sizes \subseteq Nat \ {0}
  /\ NonAscii \subseteq Stacks
  /\ Untracked \subseteq Threads
  /\ Stealth \in BOOLEAN
  /\ RawFrees \in BOOLEAN
  /\ ReallocFails \in BOOLEAN
  /\ MaxSessions \in Nat
  /\ stopper \notin Threads
  /\ nullptr \notin Threads \cup Addresses \cup Stacks \cup {stopper}

ASSUME HeapAssumption ==
  /\ IsFiniteSet(Addresses)
  /\ nullptr \notin Int \cup [stack : Stacks, size : Sizes]

VARIABLES
  heap,          (* the real allocator: size of every block, 0 when free   *)
  charged,       (* history: the stack a live block was allocated by while *)
                 (* the hooks were in, else nullptr                        *)
  memory_table,  (* address -> the stack and size of a tracked block       *)
  stack_table,   (* keys of the stored stacks                              *)
  stats,         (* stack_stats: bytes not yet emitted, or nullptr         *)
  emitted,       (* history: bytes emitted for each stack in this session  *)
  hooks,         (* are Echion's allocators installed?                     *)
  phase,         (* the sampler thread                                     *)
  sessions,      (* sessions so far                                        *)
  gil,           (* holder of the GIL                                      *)
  table_lock,    (* holder of the string table's lock                      *)
  op             (* what every thread is doing                             *)

tables == <<memory_table, stack_table, stats>>
control == <<hooks, phase, sessions>>
vars == <<heap, charged, memory_table, stack_table, stats, emitted, hooks,
          phase, sessions, gil, table_lock, op>>

Entry == [stack : Stacks, size : Sizes]

(* kind: the hook that runs; addr, stack, size: its arguments; entry: what *)
(* unlink returned.                                                        *)
Op == [pc : {"idle", "store", "nested", "link", "update", "unlink", "credit",
             "real", "crashed"},
       kind : {"none", "malloc", "realloc", "free"},
       addr : Addresses \cup {nullptr}, stack : Stacks \cup {nullptr},
       size : Sizes \cup {0}, entry : Entry \cup {nullptr}]

Hook(pc, kind, a, s, n) ==
  [pc |-> pc, kind |-> kind, addr |-> a, stack |-> s, size |-> n,
   entry |-> nullptr]

Idle == Hook("idle", "none", nullptr, nullptr, 0)

TypeOK ==
  /\ heap \in [Addresses -> Sizes \cup {0}]
  /\ charged \in [Addresses -> Stacks \cup {nullptr}]
  /\ memory_table \in [Addresses -> Entry \cup {nullptr}]
  /\ stack_table \subseteq Stacks
  /\ stats \in [Stacks -> Int \cup {nullptr}]
  /\ emitted \in [Stacks -> Int]
  /\ hooks \in BOOLEAN
  /\ phase \in {"off", "on", "stopping", "unhooked", "flushed", "stats",
                "stacks"}
  /\ sessions \in 0..MaxSessions
  /\ gil \in Threads \cup {stopper, nullptr}
  /\ table_lock \in Threads \cup {nullptr}
  /\ op \in [Threads -> Op]

(* The program has blocks of its own before Echion starts. *)
Init ==
  /\ heap \in [Addresses -> Sizes \cup {0}]
  /\ charged = [a \in Addresses |-> nullptr]
  /\ memory_table = [a \in Addresses |-> nullptr]
  /\ stack_table = {}
  /\ stats = [s \in Stacks |-> nullptr]
  /\ emitted = [s \in Stacks |-> 0]
  /\ hooks = FALSE
  /\ phase = "off"
  /\ sessions = 0
  /\ gil = nullptr
  /\ table_lock = nullptr
  /\ op = [t \in Threads |-> Idle]

-----------------------------------------------------------------------------
(* The real allocator (external).                                          *)

Free == {a \in Addresses : heap[a] = 0}

(* The program owns the blocks that no hook is working on. *)
Owned(a) == heap[a] > 0 /\ \A t \in Threads : op[t].addr # a

-----------------------------------------------------------------------------
(* The hooks.  A call reads the allocator once, so a hook that has begun   *)
(* goes on to its end when the allocators are restored.                    *)

Done(t) ==
  /\ op' = [op EXCEPT ![t] = Idle]
  /\ gil' = IF gil = t THEN nullptr ELSE gil

(* echion_malloc and echion_calloc: the real allocation comes first. *)
Malloc(t, a, s, n) ==
  /\ op[t].pc = "idle"
  /\ gil = nullptr
  /\ a \in Free
  /\ heap' = [heap EXCEPT ![a] = n]
  /\ IF hooks
     THEN /\ gil' = t
          /\ charged' = [charged EXCEPT ![a] = s]
          /\ op' = [op EXCEPT ![t] = Hook("store", "malloc", a, s, n)]
     ELSE UNCHANGED <<gil, charged, op>>
  /\ UNCHANGED <<tables, emitted, control, table_lock>>

AnyName(s) == s \in Stacks

(* key_unsafe: PyUnicode_AsUTF8 has to allocate. *)
NeedsUtf8(s) == s \in NonAscii

(* general_alloc: unwind and store the stack.  The names of new frames go  *)
(* to the string table under table_lock ...                                *)
Store(t) ==
  /\ op[t].pc = "store"
  /\ table_lock = nullptr
  /\ ~NeedsUtf8(op[t].stack)
  /\ stack_table' = stack_table \cup {op[t].stack}
  /\ op' = [op EXCEPT ![t].pc = "link"]
  /\ UNCHANGED <<heap, charged, memory_table, stats, emitted, control, gil,
                 table_lock>>

(* ... where the UTF-8 form of a name that is not ASCII is allocated: the  *)
(* nested hook waits for the lock that its own thread holds.               *)
StoreNonAscii(t) ==
  /\ op[t].pc = "store"
  /\ table_lock = nullptr
  /\ NeedsUtf8(op[t].stack)
  /\ table_lock' = t
  /\ op' = [op EXCEPT ![t].pc = "nested"]
  /\ UNCHANGED <<heap, charged, tables, emitted, control, gil>>

(* What link records for a block. *)
NewEntry(t) == [stack |-> op[t].stack, size |-> op[t].size]

(* link: emplace keeps an entry that is there already. *)
Link(t) ==
  LET a == op[t].addr
  IN  /\ op[t].pc = "link"
      /\ memory_table' = [memory_table EXCEPT
                            ![a] = IF @ = nullptr THEN NewEntry(t) ELSE @]
      /\ op' = [op EXCEPT ![t].pc = "update"]
      /\ UNCHANGED <<heap, charged, stack_table, stats, emitted, control, gil,
                     table_lock>>

(* StackStats::update for an allocation. *)
Update(t) ==
  LET s == op[t].stack
  IN  /\ op[t].pc = "update"
      /\ stats' = [stats EXCEPT ![s] = IF @ = nullptr THEN op[t].size
                                                      ELSE @ + op[t].size]
      /\ Done(t)
      /\ UNCHANGED <<heap, charged, memory_table, stack_table, emitted,
                     control, table_lock>>

(* The first time a stack is seen, its entry takes the name of the thread: *)
(* for one that is not in thread_info_map this reads a null pointer.       *)
UpdateUntracked(t) ==
  /\ op[t].pc = "update"
  /\ t \in Untracked
  /\ stats[op[t].stack] = nullptr
  /\ op' = [op EXCEPT ![t].pc = "crashed"]
  /\ UNCHANGED <<heap, charged, tables, emitted, control, gil, table_lock>>

FreeFirst == "real"

(* echion_free and echion_realloc account for the old block first. *)
FirstStep == "unlink"

(* echion_free; without the GIL in the RAW domain. *)
FreeBlock(t, a, raw) ==
  /\ op[t].pc = "idle"
  /\ raw \/ gil = nullptr
  /\ Owned(a)
  /\ IF hooks
     THEN /\ gil' = IF raw THEN gil ELSE t
          /\ op' = [op EXCEPT ![t] = Hook(FirstStep, "free", a, nullptr, 0)]
          /\ UNCHANGED <<heap, charged>>
     ELSE /\ heap' = [heap EXCEPT ![a] = 0]
          /\ charged' = [charged EXCEPT ![a] = nullptr]
          /\ UNCHANGED <<gil, op>>
  /\ UNCHANGED <<tables, emitted, control, table_lock>>

(* echion_realloc: "a deallocation followed by an allocation". *)
Realloc(t, a, s, n) ==
  /\ op[t].pc = "idle"
  /\ gil = nullptr
  /\ Owned(a)
  /\ IF hooks
     THEN /\ gil' = t
          /\ op' = [op EXCEPT ![t] = Hook(FirstStep, "realloc", a, s, n)]
          /\ UNCHANGED heap
     ELSE /\ heap' = [heap EXCEPT ![a] = n]
          /\ UNCHANGED <<gil, op>>
  /\ UNCHANGED <<charged, tables, emitted, control, table_lock>>

(* general_free: unlink ... *)
Unlink(t) ==
  LET e == memory_table[op[t].addr]
  IN  /\ op[t].pc = "unlink"
      /\ memory_table' = [memory_table EXCEPT ![op[t].addr] = nullptr]
      /\ op' = [op EXCEPT ![t].pc = IF e = nullptr THEN "real" ELSE "credit",
                          ![t].entry = e]
      /\ UNCHANGED <<heap, charged, stack_table, stats, emitted, control, gil,
                     table_lock>>

(* ... and StackStats::update for a deallocation. *)
Credit(t) ==
  LET e == op[t].entry
  IN  /\ op[t].pc = "credit"
      /\ stats' = [stats EXCEPT ![e.stack] = IF @ = nullptr THEN @
                                                           ELSE @ - e.size]
      /\ op' = [op EXCEPT ![t].pc = "real"]
      /\ UNCHANGED <<heap, charged, memory_table, stack_table, emitted,
                     control, gil, table_lock>>

RealFree(t) ==
  /\ op[t].pc = "real"
  /\ op[t].kind = "free"
  /\ heap' = [heap EXCEPT ![op[t].addr] = 0]
  /\ charged' = [charged EXCEPT ![op[t].addr] = nullptr]
  /\ Done(t)
  /\ UNCHANGED <<tables, emitted, control, table_lock>>

(* The block moves to b, or stays and changes its size. *)
RealRealloc(t, b) ==
  LET a == op[t].addr
  IN  /\ op[t].pc = "real"
      /\ op[t].kind = "realloc"
      /\ b \in Free \cup {a}
      /\ heap' = [heap EXCEPT ![a] = 0, ![b] = op[t].size]
      /\ charged' = [charged EXCEPT ![a] = nullptr, ![b] = op[t].stack]
      /\ op' = [op EXCEPT ![t].pc = "store", ![t].addr = b]
      /\ UNCHANGED <<tables, emitted, control, gil, table_lock>>

(* NULL: the old block is still there, and the hook returns. *)
RealReallocFails(t) ==
  /\ ReallocFails
  /\ op[t].pc = "real"
  /\ op[t].kind = "realloc"
  /\ Done(t)
  /\ UNCHANGED <<heap, charged, tables, emitted, control, table_lock>>

-----------------------------------------------------------------------------
(* The sampler thread.                                                     *)

(* setup_memory, at the end of _start.  A stop() that comes before it     *)
(* leaves the same state as one that comes right after it.                *)
SetupMemory ==
  /\ phase = "off"
  /\ sessions < MaxSessions
  /\ phase' = "on"
  /\ sessions' = sessions + 1
  /\ hooks' = TRUE
  /\ emitted' = [s \in Stacks |-> 0]
  /\ charged' = [a \in Addresses |-> nullptr]
  /\ UNCHANGED <<heap, tables, gil, table_lock, op>>

DropFlushed == [s \in Stacks |-> nullptr]

(* What flush leaves in the map: entries stay, with nothing to emit. *)
Flushed == [s \in Stacks |-> IF stats[s] = nullptr THEN nullptr ELSE 0]

Pending(s) == IF stats[s] = nullptr THEN 0 ELSE stats[s]

(* StackStats::flush, under its lock. *)
FlushStats ==
  /\ emitted' = [s \in Stacks |-> emitted[s] + Pending(s)]
  /\ stats' = Flushed

(* The loop of _sampler, when the resident size has changed. *)
Flush ==
  /\ phase \in {"on", "stopping"}
  /\ FlushStats
  /\ UNCHANGED <<heap, charged, memory_table, stack_table, control, gil,
                 table_lock, op>>

(* stop(): in stealth mode it waits for the sampler with the GIL, else it  *)
(* returns at once.                                                        *)
Stop ==
  /\ phase = "on"
  /\ gil = nullptr
  /\ gil' = IF Stealth THEN stopper ELSE nullptr
  /\ phase' = "stopping"
  /\ UNCHANGED <<heap, charged, tables, emitted, hooks, sessions, table_lock,
                 op>>

(* The loop has ended: teardown_memory restores the allocators, and then   *)
(* it flushes and clears.                                                  *)
RestoreAllocators ==
  /\ phase = "stopping"
  /\ hooks' = FALSE
  /\ phase' = "unhooked"
  /\ UNCHANGED <<heap, charged, tables, emitted, sessions, gil, table_lock,
                 op>>

LastFlush ==
  /\ phase = "unhooked"
  /\ FlushStats
  /\ phase' = "flushed"
  /\ UNCHANGED <<heap, charged, memory_table, stack_table, hooks, sessions,
                 gil, table_lock, op>>

KeepStats == stats

ClearedStats == [s \in Stacks |-> nullptr]

ClearStats ==
  /\ phase = "flushed"
  /\ stats' = ClearedStats
  /\ phase' = "stats"
  /\ UNCHANGED <<heap, charged, memory_table, stack_table, emitted, hooks,
                 sessions, gil, table_lock, op>>

ClearStacks ==
  /\ phase = "stats"
  /\ stack_table' = {}
  /\ phase' = "stacks"
  /\ UNCHANGED <<heap, charged, memory_table, stats, emitted, hooks, sessions,
                 gil, table_lock, op>>

ClearedTable == [a \in Addresses |-> nullptr]

(* The end of teardown_memory, and of stop(). *)
ClearTable ==
  /\ phase = "stacks"
  /\ memory_table' = ClearedTable
  /\ phase' = "off"
  /\ gil' = IF gil = stopper THEN nullptr ELSE gil
  /\ UNCHANGED <<heap, charged, stack_table, stats, emitted, hooks, sessions,
                 table_lock, op>>

-----------------------------------------------------------------------------
(* A crash is the end of the process. *)
Alive == \A t \in Threads : op[t].pc # "crashed"

HookStep(t) ==
  /\ Alive
  /\ \/ Store(t) \/ StoreNonAscii(t) \/ Link(t) \/ Update(t)
     \/ UpdateUntracked(t) \/ Unlink(t) \/ Credit(t) \/ RealFree(t)
     \/ \E b \in Addresses : RealRealloc(t, b)
     \/ RealReallocFails(t)

Call(t) ==
  \E a \in Addresses :
     \/ \E s \in Stacks, n \in Sizes : Malloc(t, a, s, n) \/ Realloc(t, a, s, n)
     \/ \E raw \in {FALSE, RawFrees} : FreeBlock(t, a, raw)

SamplerStep ==
  \/ SetupMemory \/ Flush \/ Stop \/ RestoreAllocators \/ LastFlush
  \/ ClearStats \/ ClearStacks \/ ClearTable

Next ==
  /\ Alive
  /\ SamplerStep \/ \E t \in Threads : HookStep(t) \/ Call(t)

Spec == Init /\ [][Next]_vars

(* A thread inside an allocator call gets on. *)
FairSpec == Spec /\ \A t \in Threads : WF_vars(HookStep(t))

-----------------------------------------------------------------------------
(* Properties.                                                             *)

(* flush renders every entry that has something to emit through            *)
(* stack_table.retrieve, which dereferences find() unchecked: whenever a   *)
(* flush can come, the stack of such an entry is in the table, although    *)
(* the tear-down clears the two tables in separate steps.                  *)
RetrieveSafe ==
  phase \in {"on", "stopping", "unhooked"} =>
    \A s \in Stacks : Pending(s) # 0 => s \in stack_table

(* A tracked address is a live block of the recorded size: the hooks       *)
(* unlink before the real free and link after the real allocation, so no   *)
(* other thread can be given an address that still has an entry.           *)
TrackedLive ==
  hooks => \A a \in Addresses :
             memory_table[a] # nullptr => heap[a] = memory_table[a].size

(* Why: a hook's arguments have the shape its step needs, and no two hooks *)
(* work on the same block ...                                              *)
ShapeInv ==
  \A t \in Threads :
    /\ op[t].pc = "idle" => op[t].kind = "none" /\ op[t].addr = nullptr
    /\ op[t].pc # "idle" => op[t].addr \in Addresses
    /\ op[t].pc \in {"unlink", "credit", "real"} =>
         op[t].kind \in {"free", "realloc"}
    /\ op[t].pc \in {"store", "nested", "link", "update", "crashed"} =>
         op[t].kind \in {"malloc", "realloc"}
    /\ op[t].kind \in {"malloc", "realloc"} =>
         op[t].stack \in Stacks /\ op[t].size \in Sizes
    /\ op[t].pc = "credit" => op[t].entry \in Entry

BlockInv ==
  \A t \in Threads :
    LET a == op[t].addr
    IN  op[t].pc # "idle" =>
          /\ heap[a] > 0
          /\ \A u \in Threads \ {t} : op[u].addr # a
          /\ op[t].pc \in {"store", "nested", "link"} =>
               heap[a] = op[t].size
          /\ op[t].pc \in {"credit", "real"} => memory_table[a] = nullptr

(* ... an allocation keeps the GIL, which stop() takes before the sampler  *)
(* tears down and keeps until the tables are empty ...                     *)
GilInv ==
  /\ hooks <=> phase \in {"on", "stopping"}
  /\ phase \notin {"off", "on"} => gil = stopper
  /\ \A t \in Threads :
       op[t].kind \in {"malloc", "realloc"} => gil = t /\ phase = "on"

(* ... so that the stack of an allocation is in the table until the stats  *)
(* that refer to it are gone, and tracking starts with empty tables.       *)
TableInv ==
  /\ \A s \in Stacks : stats[s] # nullptr => s \in stack_table
  /\ \A t \in Threads :
       op[t].pc \in {"link", "update"} => op[t].stack \in stack_table
  /\ phase \in {"stats", "stacks"} => \A s \in Stacks : stats[s] = nullptr
  /\ phase = "off" => \A a \in Addresses : memory_table[a] = nullptr

StealthInv == ShapeInv /\ BlockInv /\ GilInv /\ TableInv /\ TrackedLive

Quiescent == \A t \in Threads : op[t].pc = "idle"

LiveBytes(s) ==
  LET mine == {a \in Addresses : charged[a] = s}
  IN  MapThenSumSet(LAMBDA a : heap[a], mine)

(* "all the non-negative values reported by Echion represent memory that   *)
(* was still allocated": while tracking, and between calls, what has been  *)
(* emitted for a stack plus what waits for the next flush is the memory    *)
(* that this stack has allocated and that is still there.                  *)
Balanced ==
  phase = "on" /\ Quiescent =>
    \A s \in Stacks : emitted[s] + Pending(s) = LiveBytes(s)

(* A hook comes back to the program, whatever the sampler does: it takes   *)
(* four locks on its way and never waits for one that its own thread has.  *)
AllocationReturns ==
  \A t \in Threads : op[t].pc # "idle" ~> op[t].pc = "idle"
=============================================================================
