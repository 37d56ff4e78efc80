------------------------------ MODULE MemoryProofs ------------------------------
(***************************************************************************)
(* Proofs about Memory, for every heap, number of threads and of sessions: *)
(* when stop() keeps the GIL during the tear-down, the table of blocks     *)
(* tells the truth and a flush finds every stack it renders.               *)
(***************************************************************************)
EXTENDS MCMemory, Induction, TLAPS

(* Typing of a hook after unlink. *)
LEMMA UnlinkTyping ==
  ASSUME NEW r \in Op, NEW p \in {"credit", "real"},
         NEW e \in Entry \cup {nullptr}
  PROVE  [r EXCEPT !.pc = p, !.entry = e] \in Op
  BY DEF Op

(* Every step keeps the state well typed. *)
LEMMA TypingStep ==
  ASSUME TypeOK, ShapeInv, [Next]_vars
  PROVE  TypeOK'
<1> USE MemoryAssumption DEF vars, tables, control, TypeOK, Op, ShapeInv, Entry
<1>1. ASSUME NEW t \in Threads, NEW a \in Addresses, NEW s \in Stacks,
             NEW n \in Sizes, Malloc(t, a, s, n)
      PROVE  TypeOK'
  <2>1. CASE hooks
    BY <1>1, <2>1 DEF Malloc, Free, Hook
  <2>2. CASE ~hooks
    BY <1>1, <2>2 DEF Malloc, Free, Hook
  <2> QED
    BY <2>1, <2>2
<1>2. ASSUME NEW t \in Threads, Store(t) PROVE TypeOK'
  <2>1. op' \in [Threads -> Op]
    BY <1>2 DEF Store
  <2>2. op[t].stack \in Stacks
    BY <1>2 DEF Store
  <2> HIDE DEF Op, ShapeInv
  <2> QED
    BY <1>2, <2>1, <2>2 DEF Store
<1>3. ASSUME NEW t \in Threads, StoreNonAscii(t) PROVE TypeOK'
  BY <1>3 DEF StoreNonAscii
<1>22. ASSUME NEW t \in Threads, UpdateUntracked(t) PROVE TypeOK'
  BY <1>22 DEF UpdateUntracked
<1>4. ASSUME NEW t \in Threads, Link(t) PROVE TypeOK'
  BY <1>4 DEF Link, NewEntry
<1>5. ASSUME NEW t \in Threads, Update(t) PROVE TypeOK'
  <2>1. Idle \in Op
    BY DEF Idle, Hook
  <2> HIDE DEF Op
  <2>2. op' \in [Threads -> Op]
    BY <1>5, <2>1 DEF Update, Done
  <2>3. op[t].size \in Int
    <3>1. op[t] \in Op
      OBVIOUS
    <3>2. op[t].size \in Sizes \cup {0}
      BY <3>1 DEF Op
    <3>3. \A x \in Sizes \cup {0} : x \in Int
      BY MemoryAssumption
    <3> HIDE DEF TypeOK
    <3> QED
      BY <3>2, <3>3
  <2>4. stats' \in [Stacks -> Int \cup {nullptr}]
    BY <1>5, <2>3 DEF Update
  <2> QED
    BY <1>5, <2>2, <2>4 DEF Update, Done
<1>6. ASSUME NEW t \in Threads, NEW a \in Addresses, NEW raw \in BOOLEAN,
             FreeBlock(t, a, raw)
      PROVE  TypeOK'
  <2>1. CASE hooks
    BY <1>6, <2>1 DEF FreeBlock, Owned, FirstStep, Hook
  <2>2. CASE ~hooks
    BY <1>6, <2>2 DEF FreeBlock, Owned, FirstStep, Hook
  <2> QED
    BY <2>1, <2>2
<1>7. ASSUME NEW t \in Threads, NEW a \in Addresses, NEW s \in Stacks,
             NEW n \in Sizes, Realloc(t, a, s, n)
      PROVE  TypeOK'
  <2>1. CASE hooks
    BY <1>7, <2>1 DEF Realloc, Owned, FirstStep, Hook
  <2>2. CASE ~hooks
    BY <1>7, <2>2 DEF Realloc, Owned, FirstStep, Hook
  <2> QED
    BY <2>1, <2>2
<1>8. ASSUME NEW t \in Threads, Unlink(t) PROVE TypeOK'
  <2> DEFINE e == memory_table[op[t].addr]
             p == IF e = nullptr THEN "real" ELSE "credit"
             r == [op[t] EXCEPT !.pc = p, !.entry = e]
  <2>1. op[t].addr \in Addresses
    BY <1>8 DEF Unlink
  <2>2. r \in Op
    <3> HIDE DEF Op, Entry
    <3>1. op[t] \in Op /\ e \in Entry \cup {nullptr}
      BY <2>1
    <3>2. p \in {"credit", "real"}
      OBVIOUS
    <3> HIDE DEF e, p
    <3> QED
      BY <3>1, <3>2, UnlinkTyping
  <2>3. op' = [op EXCEPT ![t] = r]
    <3> HIDE DEF TypeOK, ShapeInv, Op, Entry
    <3> QED
      BY <1>8 DEF Unlink
  <2>4. op' \in [Threads -> Op]
    BY <2>2, <2>3
  <2> QED
    BY <1>8, <2>4 DEF Unlink
<1>9. ASSUME NEW t \in Threads, Credit(t) PROVE TypeOK'
  BY <1>9 DEF Credit
<1>10. ASSUME NEW t \in Threads, RealFree(t) PROVE TypeOK'
  BY <1>10 DEF RealFree, Done, Idle, Hook
<1>11. ASSUME NEW t \in Threads, NEW b \in Addresses, RealRealloc(t, b)
       PROVE  TypeOK'
  BY <1>11 DEF RealRealloc, Free
<1>12. ASSUME NEW t \in Threads, RealReallocFails(t) PROVE TypeOK'
  BY <1>12 DEF RealReallocFails, Done, Idle, Hook
<1>13. ASSUME SetupMemory PROVE TypeOK'
  BY <1>13 DEF SetupMemory
<1>14. ASSUME Flush PROVE TypeOK'
  BY <1>14 DEF Flush, FlushStats, Flushed, Pending
<1>15. ASSUME Stop PROVE TypeOK'
  BY <1>15 DEF Stop
<1>16. ASSUME RestoreAllocators PROVE TypeOK'
  BY <1>16 DEF RestoreAllocators
<1>17. ASSUME LastFlush PROVE TypeOK'
  BY <1>17 DEF LastFlush, FlushStats, Flushed, Pending
<1>18. ASSUME ClearStats PROVE TypeOK'
  BY <1>18 DEF ClearStats, ClearedStats
<1>19. ASSUME ClearStacks PROVE TypeOK'
  BY <1>19 DEF ClearStacks
<1>20. ASSUME ClearTable PROVE TypeOK'
  BY <1>20 DEF ClearTable, ClearedTable
<1>21. CASE UNCHANGED vars
  BY <1>21
<1> HIDE DEF vars, tables, control, TypeOK, Op, ShapeInv, Entry
<1> QED
  BY <1>1, <1>2, <1>3, <1>4, <1>5, <1>6, <1>7, <1>8, <1>9, <1>10, <1>11,
      <1>12, <1>13, <1>14, <1>15, <1>16, <1>17, <1>18, <1>19, <1>20, <1>21, <1>22
  DEF Next, SamplerStep, HookStep, Call, vars

(* Every step hands the hook on with the arguments its next step needs. *)
LEMMA ShapeStep ==
  ASSUME TypeOK, ShapeInv, [Next]_vars
  PROVE  ShapeInv'
<1> USE MemoryAssumption DEF vars, tables, control, TypeOK, Op, ShapeInv, Entry
<1>1. ASSUME NEW t \in Threads, NEW a \in Addresses, NEW s \in Stacks,
             NEW n \in Sizes, Malloc(t, a, s, n)
      PROVE  ShapeInv'
  <2>1. CASE hooks
    BY <1>1, <2>1 DEF Malloc, Free, Hook
  <2>2. CASE ~hooks
    BY <1>1, <2>2 DEF Malloc, Free, Hook
  <2> QED
    BY <2>1, <2>2
<1>2. ASSUME NEW t \in Threads, Store(t) PROVE ShapeInv'
  BY <1>2 DEF Store
<1>3. ASSUME NEW t \in Threads, StoreNonAscii(t) PROVE ShapeInv'
  BY <1>3 DEF StoreNonAscii
<1>22. ASSUME NEW t \in Threads, UpdateUntracked(t) PROVE ShapeInv'
  BY <1>22 DEF UpdateUntracked
<1>4. ASSUME NEW t \in Threads, Link(t) PROVE ShapeInv'
  BY <1>4 DEF Link, NewEntry
<1>5. ASSUME NEW t \in Threads, Update(t) PROVE ShapeInv'
  BY <1>5 DEF Update, Done, Idle, Hook
<1>6. ASSUME NEW t \in Threads, NEW a \in Addresses, NEW raw \in BOOLEAN,
             FreeBlock(t, a, raw)
      PROVE  ShapeInv'
  <2>1. CASE hooks
    BY <1>6, <2>1 DEF FreeBlock, Owned, FirstStep, Hook
  <2>2. CASE ~hooks
    BY <1>6, <2>2 DEF FreeBlock, Owned, FirstStep, Hook
  <2> QED
    BY <2>1, <2>2
<1>7. ASSUME NEW t \in Threads, NEW a \in Addresses, NEW s \in Stacks,
             NEW n \in Sizes, Realloc(t, a, s, n)
      PROVE  ShapeInv'
  <2>1. CASE hooks
    BY <1>7, <2>1 DEF Realloc, Owned, FirstStep, Hook
  <2>2. CASE ~hooks
    BY <1>7, <2>2 DEF Realloc, Owned, FirstStep, Hook
  <2> QED
    BY <2>1, <2>2
<1>8. ASSUME NEW t \in Threads, Unlink(t) PROVE ShapeInv'
  <2>1. CASE memory_table[op[t].addr] = nullptr
    BY <1>8, <2>1 DEF Unlink
  <2>2. CASE memory_table[op[t].addr] # nullptr
    BY <1>8, <2>2 DEF Unlink
  <2> QED
    BY <2>1, <2>2
<1>9. ASSUME NEW t \in Threads, Credit(t) PROVE ShapeInv'
  BY <1>9 DEF Credit
<1>10. ASSUME NEW t \in Threads, RealFree(t) PROVE ShapeInv'
  BY <1>10 DEF RealFree, Done, Idle, Hook
<1>11. ASSUME NEW t \in Threads, NEW b \in Addresses, RealRealloc(t, b)
       PROVE  ShapeInv'
  BY <1>11 DEF RealRealloc, Free
<1>12. ASSUME NEW t \in Threads, RealReallocFails(t) PROVE ShapeInv'
  BY <1>12 DEF RealReallocFails, Done, Idle, Hook
<1>13. ASSUME SetupMemory PROVE ShapeInv'
  BY <1>13 DEF SetupMemory
<1>14. ASSUME Flush PROVE ShapeInv'
  BY <1>14 DEF Flush, FlushStats, Flushed, Pending
<1>15. ASSUME Stop PROVE ShapeInv'
  BY <1>15 DEF Stop
<1>16. ASSUME RestoreAllocators PROVE ShapeInv'
  BY <1>16 DEF RestoreAllocators
<1>17. ASSUME LastFlush PROVE ShapeInv'
  BY <1>17 DEF LastFlush, FlushStats, Flushed, Pending
<1>18. ASSUME ClearStats PROVE ShapeInv'
  BY <1>18 DEF ClearStats, ClearedStats
<1>19. ASSUME ClearStacks PROVE ShapeInv'
  BY <1>19 DEF ClearStacks
<1>20. ASSUME ClearTable PROVE ShapeInv'
  BY <1>20 DEF ClearTable, ClearedTable
<1>21. CASE UNCHANGED vars
  BY <1>21
<1> HIDE DEF vars, tables, control, TypeOK, Op, ShapeInv, Entry
<1> QED
  BY <1>1, <1>2, <1>3, <1>4, <1>5, <1>6, <1>7, <1>8, <1>9, <1>10, <1>11,
      <1>12, <1>13, <1>14, <1>15, <1>16, <1>17, <1>18, <1>19, <1>20, <1>21, <1>22
  DEF Next, SamplerStep, HookStep, Call, vars

(* A hook keeps its block to itself: the block is live, has the size the   *)
(* hook will record, and has no entry between unlink and the real call.    *)
LEMMA BlockStep ==
  ASSUME TypeOK, StealthInv, [Next]_vars
  PROVE  BlockInv'
<1> USE MemoryAssumption DEF vars, tables, control, TypeOK, Op, ShapeInv,
    BlockInv, GilInv, TrackedLive, StealthInv, Entry
<1>1. ASSUME NEW t \in Threads, NEW a \in Addresses, NEW s \in Stacks,
             NEW n \in Sizes, Malloc(t, a, s, n)
      PROVE  BlockInv'
  <2>1. CASE hooks
    BY <1>1, <2>1 DEF Malloc, Free, Hook
  <2>2. CASE ~hooks
    BY <1>1, <2>2 DEF Malloc, Free, Hook
  <2> QED
    BY <2>1, <2>2
<1>2. ASSUME NEW t \in Threads, Store(t) PROVE BlockInv'
  BY <1>2 DEF Store
<1>3. ASSUME NEW t \in Threads, StoreNonAscii(t) PROVE BlockInv'
  BY <1>3 DEF StoreNonAscii
<1>22. ASSUME NEW t \in Threads, UpdateUntracked(t) PROVE BlockInv'
  BY <1>22 DEF UpdateUntracked
<1>4. ASSUME NEW t \in Threads, Link(t) PROVE BlockInv'
  BY <1>4 DEF Link, NewEntry
<1>5. ASSUME NEW t \in Threads, Update(t) PROVE BlockInv'
  BY <1>5 DEF Update, Done, Idle, Hook
<1>6. ASSUME NEW t \in Threads, NEW a \in Addresses, NEW raw \in BOOLEAN,
             FreeBlock(t, a, raw)
      PROVE  BlockInv'
  <2>1. CASE hooks
    BY <1>6, <2>1 DEF FreeBlock, Owned, FirstStep, Hook
  <2>2. CASE ~hooks
    BY <1>6, <2>2 DEF FreeBlock, Owned, FirstStep, Hook
  <2> QED
    BY <2>1, <2>2
<1>7. ASSUME NEW t \in Threads, NEW a \in Addresses, NEW s \in Stacks,
             NEW n \in Sizes, Realloc(t, a, s, n)
      PROVE  BlockInv'
  <2>1. CASE hooks
    BY <1>7, <2>1 DEF Realloc, Owned, FirstStep, Hook
  <2>2. CASE ~hooks
    BY <1>7, <2>2 DEF Realloc, Owned, FirstStep, Hook
  <2> QED
    BY <2>1, <2>2
<1>8. ASSUME NEW t \in Threads, Unlink(t) PROVE BlockInv'
  <2>1. CASE memory_table[op[t].addr] = nullptr
    BY <1>8, <2>1 DEF Unlink
  <2>2. CASE memory_table[op[t].addr] # nullptr
    BY <1>8, <2>2 DEF Unlink
  <2> QED
    BY <2>1, <2>2
<1>9. ASSUME NEW t \in Threads, Credit(t) PROVE BlockInv'
  BY <1>9 DEF Credit
<1>10. ASSUME NEW t \in Threads, RealFree(t) PROVE BlockInv'
  BY <1>10 DEF RealFree, Done, Idle, Hook
<1>11. ASSUME NEW t \in Threads, NEW b \in Addresses, RealRealloc(t, b)
       PROVE  BlockInv'
  BY <1>11 DEF RealRealloc, Free
<1>12. ASSUME NEW t \in Threads, RealReallocFails(t) PROVE BlockInv'
  BY <1>12 DEF RealReallocFails, Done, Idle, Hook
<1>13. ASSUME SetupMemory PROVE BlockInv'
  BY <1>13 DEF SetupMemory
<1>14. ASSUME Flush PROVE BlockInv'
  BY <1>14 DEF Flush, FlushStats, Flushed, Pending
<1>15. ASSUME Stop PROVE BlockInv'
  BY <1>15 DEF Stop
<1>16. ASSUME RestoreAllocators PROVE BlockInv'
  BY <1>16 DEF RestoreAllocators
<1>17. ASSUME LastFlush PROVE BlockInv'
  BY <1>17 DEF LastFlush, FlushStats, Flushed, Pending
<1>18. ASSUME ClearStats PROVE BlockInv'
  BY <1>18 DEF ClearStats, ClearedStats
<1>19. ASSUME ClearStacks PROVE BlockInv'
  BY <1>19 DEF ClearStacks
<1>20. ASSUME ClearTable PROVE BlockInv'
  BY <1>20 DEF ClearTable, ClearedTable
<1>21. CASE UNCHANGED vars
  BY <1>21
<1> HIDE DEF vars, tables, control, TypeOK, Op, ShapeInv, BlockInv, GilInv,
    TrackedLive, StealthInv, Entry
<1> QED
  BY <1>1, <1>2, <1>3, <1>4, <1>5, <1>6, <1>7, <1>8, <1>9, <1>10, <1>11,
      <1>12, <1>13, <1>14, <1>15, <1>16, <1>17, <1>18, <1>19, <1>20, <1>21, <1>22
  DEF Next, SamplerStep, HookStep, Call, vars

(* Only here stealth mode matters: stop() takes the GIL when no allocation *)
(* is under way and gives it back with the hooks out.                      *)
LEMMA GilStep ==
  ASSUME Stealth, TypeOK, StealthInv, [Next]_vars
  PROVE  GilInv'
<1> USE MemoryAssumption DEF vars, tables, control, TypeOK, Op, ShapeInv,
    GilInv, StealthInv
<1>1. ASSUME NEW t \in Threads, NEW a \in Addresses, NEW s \in Stacks,
             NEW n \in Sizes, Malloc(t, a, s, n)
      PROVE  GilInv'
  <2>1. CASE hooks
    BY <1>1, <2>1 DEF Malloc, Free, Hook
  <2>2. CASE ~hooks
    BY <1>1, <2>2 DEF Malloc, Free, Hook
  <2> QED
    BY <2>1, <2>2
<1>2. ASSUME NEW t \in Threads, Store(t) PROVE GilInv'
  BY <1>2 DEF Store
<1>3. ASSUME NEW t \in Threads, StoreNonAscii(t) PROVE GilInv'
  BY <1>3 DEF StoreNonAscii
<1>22. ASSUME NEW t \in Threads, UpdateUntracked(t) PROVE GilInv'
  BY <1>22 DEF UpdateUntracked
<1>4. ASSUME NEW t \in Threads, Link(t) PROVE GilInv'
  BY <1>4 DEF Link, NewEntry
<1>5. ASSUME NEW t \in Threads, Update(t) PROVE GilInv'
  BY <1>5 DEF Update, Done, Idle, Hook
<1>6. ASSUME NEW t \in Threads, NEW a \in Addresses, NEW raw \in BOOLEAN,
             FreeBlock(t, a, raw)
      PROVE  GilInv'
  <2>1. CASE hooks
    BY <1>6, <2>1 DEF FreeBlock, Owned, FirstStep, Hook
  <2>2. CASE ~hooks
    BY <1>6, <2>2 DEF FreeBlock, Owned, FirstStep, Hook
  <2> QED
    BY <2>1, <2>2
<1>7. ASSUME NEW t \in Threads, NEW a \in Addresses, NEW s \in Stacks,
             NEW n \in Sizes, Realloc(t, a, s, n)
      PROVE  GilInv'
  <2>1. CASE hooks
    BY <1>7, <2>1 DEF Realloc, Owned, FirstStep, Hook
  <2>2. CASE ~hooks
    BY <1>7, <2>2 DEF Realloc, Owned, FirstStep, Hook
  <2> QED
    BY <2>1, <2>2
<1>8. ASSUME NEW t \in Threads, Unlink(t) PROVE GilInv'
  <2>1. CASE memory_table[op[t].addr] = nullptr
    BY <1>8, <2>1 DEF Unlink
  <2>2. CASE memory_table[op[t].addr] # nullptr
    BY <1>8, <2>2 DEF Unlink
  <2> QED
    BY <2>1, <2>2
<1>9. ASSUME NEW t \in Threads, Credit(t) PROVE GilInv'
  BY <1>9 DEF Credit
<1>10. ASSUME NEW t \in Threads, RealFree(t) PROVE GilInv'
  BY <1>10 DEF RealFree, Done, Idle, Hook
<1>11. ASSUME NEW t \in Threads, NEW b \in Addresses, RealRealloc(t, b)
       PROVE  GilInv'
  BY <1>11 DEF RealRealloc, Free
<1>12. ASSUME NEW t \in Threads, RealReallocFails(t) PROVE GilInv'
  BY <1>12 DEF RealReallocFails, Done, Idle, Hook
<1>13. ASSUME SetupMemory PROVE GilInv'
  BY <1>13 DEF SetupMemory
<1>14. ASSUME Flush PROVE GilInv'
  BY <1>14 DEF Flush, FlushStats, Flushed, Pending
<1>15. ASSUME Stop PROVE GilInv'
  BY <1>15 DEF Stop
<1>16. ASSUME RestoreAllocators PROVE GilInv'
  BY <1>16 DEF RestoreAllocators
<1>17. ASSUME LastFlush PROVE GilInv'
  BY <1>17 DEF LastFlush, FlushStats, Flushed, Pending
<1>18. ASSUME ClearStats PROVE GilInv'
  BY <1>18 DEF ClearStats, ClearedStats
<1>19. ASSUME ClearStacks PROVE GilInv'
  BY <1>19 DEF ClearStacks
<1>20. ASSUME ClearTable PROVE GilInv'
  BY <1>20 DEF ClearTable, ClearedTable
<1>21. CASE UNCHANGED vars
  BY <1>21
<1> HIDE DEF vars, tables, control, TypeOK, Op, ShapeInv, GilInv, StealthInv
<1> QED
  BY <1>1, <1>2, <1>3, <1>4, <1>5, <1>6, <1>7, <1>8, <1>9, <1>10, <1>11,
      <1>12, <1>13, <1>14, <1>15, <1>16, <1>17, <1>18, <1>19, <1>20, <1>21, <1>22
  DEF Next, SamplerStep, HookStep, Call, vars

(* The stacks outlive the stats, and tracking starts with empty tables. *)
LEMMA TableStep ==
  ASSUME TypeOK, StealthInv, [Next]_vars
  PROVE  TableInv'
<1> USE MemoryAssumption DEF vars, tables, control, TypeOK, Op, ShapeInv,
    GilInv, TableInv, StealthInv
<1>1. ASSUME NEW t \in Threads, NEW a \in Addresses, NEW s \in Stacks,
             NEW n \in Sizes, Malloc(t, a, s, n)
      PROVE  TableInv'
  <2>1. CASE hooks
    BY <1>1, <2>1 DEF Malloc, Free, Hook
  <2>2. CASE ~hooks
    BY <1>1, <2>2 DEF Malloc, Free, Hook
  <2> QED
    BY <2>1, <2>2
<1>2. ASSUME NEW t \in Threads, Store(t) PROVE TableInv'
  BY <1>2 DEF Store
<1>3. ASSUME NEW t \in Threads, StoreNonAscii(t) PROVE TableInv'
  BY <1>3 DEF StoreNonAscii
<1>22. ASSUME NEW t \in Threads, UpdateUntracked(t) PROVE TableInv'
  BY <1>22 DEF UpdateUntracked
<1>4. ASSUME NEW t \in Threads, Link(t) PROVE TableInv'
  BY <1>4 DEF Link, NewEntry
<1>5. ASSUME NEW t \in Threads, Update(t) PROVE TableInv'
  BY <1>5 DEF Update, Done, Idle, Hook
<1>6. ASSUME NEW t \in Threads, NEW a \in Addresses, NEW raw \in BOOLEAN,
             FreeBlock(t, a, raw)
      PROVE  TableInv'
  <2>1. CASE hooks
    BY <1>6, <2>1 DEF FreeBlock, Owned, FirstStep, Hook
  <2>2. CASE ~hooks
    BY <1>6, <2>2 DEF FreeBlock, Owned, FirstStep, Hook
  <2> QED
    BY <2>1, <2>2
<1>7. ASSUME NEW t \in Threads, NEW a \in Addresses, NEW s \in Stacks,
             NEW n \in Sizes, Realloc(t, a, s, n)
      PROVE  TableInv'
  <2>1. CASE hooks
    BY <1>7, <2>1 DEF Realloc, Owned, FirstStep, Hook
  <2>2. CASE ~hooks
    BY <1>7, <2>2 DEF Realloc, Owned, FirstStep, Hook
  <2> QED
    BY <2>1, <2>2
<1>8. ASSUME NEW t \in Threads, Unlink(t) PROVE TableInv'
  <2>1. CASE memory_table[op[t].addr] = nullptr
    BY <1>8, <2>1 DEF Unlink
  <2>2. CASE memory_table[op[t].addr] # nullptr
    BY <1>8, <2>2 DEF Unlink
  <2> QED
    BY <2>1, <2>2
<1>9. ASSUME NEW t \in Threads, Credit(t) PROVE TableInv'
  BY <1>9 DEF Credit
<1>10. ASSUME NEW t \in Threads, RealFree(t) PROVE TableInv'
  BY <1>10 DEF RealFree, Done, Idle, Hook
<1>11. ASSUME NEW t \in Threads, NEW b \in Addresses, RealRealloc(t, b)
       PROVE  TableInv'
  BY <1>11 DEF RealRealloc, Free
<1>12. ASSUME NEW t \in Threads, RealReallocFails(t) PROVE TableInv'
  BY <1>12 DEF RealReallocFails, Done, Idle, Hook
<1>13. ASSUME SetupMemory PROVE TableInv'
  BY <1>13 DEF SetupMemory
<1>14. ASSUME Flush PROVE TableInv'
  BY <1>14 DEF Flush, FlushStats, Flushed, Pending
<1>15. ASSUME Stop PROVE TableInv'
  BY <1>15 DEF Stop
<1>16. ASSUME RestoreAllocators PROVE TableInv'
  BY <1>16 DEF RestoreAllocators
<1>17. ASSUME LastFlush PROVE TableInv'
  BY <1>17 DEF LastFlush, FlushStats, Flushed, Pending
<1>18. ASSUME ClearStats PROVE TableInv'
  BY <1>18 DEF ClearStats, ClearedStats
<1>19. ASSUME ClearStacks PROVE TableInv'
  BY <1>19 DEF ClearStacks
<1>20. ASSUME ClearTable PROVE TableInv'
  BY <1>20 DEF ClearTable, ClearedTable
<1>21. CASE UNCHANGED vars
  BY <1>21
<1> HIDE DEF vars, tables, control, TypeOK, Op, ShapeInv, GilInv, TableInv,
    StealthInv
<1> QED
  BY <1>1, <1>2, <1>3, <1>4, <1>5, <1>6, <1>7, <1>8, <1>9, <1>10, <1>11,
      <1>12, <1>13, <1>14, <1>15, <1>16, <1>17, <1>18, <1>19, <1>20, <1>21, <1>22
  DEF Next, SamplerStep, HookStep, Call, vars

(* Every step keeps the entries of the memory table true. *)
LEMMA TrackedStep ==
  ASSUME TypeOK, StealthInv, [Next]_vars
  PROVE  TrackedLive'
<1> USE MemoryAssumption DEF vars, tables, control, TypeOK, Op, ShapeInv,
    BlockInv, GilInv, TableInv, TrackedLive, StealthInv, Entry
<1>1. ASSUME NEW t \in Threads, NEW a \in Addresses, NEW s \in Stacks,
             NEW n \in Sizes, Malloc(t, a, s, n)
      PROVE  TrackedLive'
  <2>1. CASE hooks
    BY <1>1, <2>1 DEF Malloc, Free, Hook
  <2>2. CASE ~hooks
    BY <1>1, <2>2 DEF Malloc, Free, Hook
  <2> QED
    BY <2>1, <2>2
<1>2. ASSUME NEW t \in Threads, Store(t) PROVE TrackedLive'
  BY <1>2 DEF Store
<1>3. ASSUME NEW t \in Threads, StoreNonAscii(t) PROVE TrackedLive'
  BY <1>3 DEF StoreNonAscii
<1>22. ASSUME NEW t \in Threads, UpdateUntracked(t) PROVE TrackedLive'
  BY <1>22 DEF UpdateUntracked
<1>4. ASSUME NEW t \in Threads, Link(t) PROVE TrackedLive'
  BY <1>4 DEF Link, NewEntry
<1>5. ASSUME NEW t \in Threads, Update(t) PROVE TrackedLive'
  BY <1>5 DEF Update, Done, Idle, Hook
<1>6. ASSUME NEW t \in Threads, NEW a \in Addresses, NEW raw \in BOOLEAN,
             FreeBlock(t, a, raw)
      PROVE  TrackedLive'
  <2>1. CASE hooks
    BY <1>6, <2>1 DEF FreeBlock, Owned, FirstStep, Hook
  <2>2. CASE ~hooks
    BY <1>6, <2>2 DEF FreeBlock, Owned, FirstStep, Hook
  <2> QED
    BY <2>1, <2>2
<1>7. ASSUME NEW t \in Threads, NEW a \in Addresses, NEW s \in Stacks,
             NEW n \in Sizes, Realloc(t, a, s, n)
      PROVE  TrackedLive'
  <2>1. CASE hooks
    BY <1>7, <2>1 DEF Realloc, Owned, FirstStep, Hook
  <2>2. CASE ~hooks
    BY <1>7, <2>2 DEF Realloc, Owned, FirstStep, Hook
  <2> QED
    BY <2>1, <2>2
<1>8. ASSUME NEW t \in Threads, Unlink(t) PROVE TrackedLive'
  <2>1. CASE memory_table[op[t].addr] = nullptr
    BY <1>8, <2>1 DEF Unlink
  <2>2. CASE memory_table[op[t].addr] # nullptr
    BY <1>8, <2>2 DEF Unlink
  <2> QED
    BY <2>1, <2>2
<1>9. ASSUME NEW t \in Threads, Credit(t) PROVE TrackedLive'
  BY <1>9 DEF Credit
<1>10. ASSUME NEW t \in Threads, RealFree(t) PROVE TrackedLive'
  BY <1>10 DEF RealFree, Done, Idle, Hook
<1>11. ASSUME NEW t \in Threads, NEW b \in Addresses, RealRealloc(t, b)
       PROVE  TrackedLive'
  BY <1>11 DEF RealRealloc, Free
<1>12. ASSUME NEW t \in Threads, RealReallocFails(t) PROVE TrackedLive'
  BY <1>12 DEF RealReallocFails, Done, Idle, Hook
<1>13. ASSUME SetupMemory PROVE TrackedLive'
  BY <1>13 DEF SetupMemory
<1>14. ASSUME Flush PROVE TrackedLive'
  BY <1>14 DEF Flush, FlushStats, Flushed, Pending
<1>15. ASSUME Stop PROVE TrackedLive'
  BY <1>15 DEF Stop
<1>16. ASSUME RestoreAllocators PROVE TrackedLive'
  BY <1>16 DEF RestoreAllocators
<1>17. ASSUME LastFlush PROVE TrackedLive'
  BY <1>17 DEF LastFlush, FlushStats, Flushed, Pending
<1>18. ASSUME ClearStats PROVE TrackedLive'
  BY <1>18 DEF ClearStats, ClearedStats
<1>19. ASSUME ClearStacks PROVE TrackedLive'
  BY <1>19 DEF ClearStacks
<1>20. ASSUME ClearTable PROVE TrackedLive'
  BY <1>20 DEF ClearTable, ClearedTable
<1>21. CASE UNCHANGED vars
  BY <1>21
<1> HIDE DEF vars, tables, control, TypeOK, Op, ShapeInv, BlockInv, GilInv,
    TableInv, TrackedLive, StealthInv, Entry
<1> QED
  BY <1>1, <1>2, <1>3, <1>4, <1>5, <1>6, <1>7, <1>8, <1>9, <1>10, <1>11,
      <1>12, <1>13, <1>14, <1>15, <1>16, <1>17, <1>18, <1>19, <1>20, <1>21, <1>22
  DEF Next, SamplerStep, HookStep, Call, vars

LEMMA TypingStart == Init => TypeOK /\ ShapeInv
<1> SUFFICES ASSUME Init PROVE TypeOK /\ ShapeInv
  OBVIOUS
<1>1. Idle \in Op
  BY MemoryAssumption DEF Idle, Hook, Op
<1>2. TypeOK
  <2>1. op \in [Threads -> Op]
    BY <1>1 DEF Init
  <2>2. sessions \in 0..MaxSessions /\ emitted \in [Stacks -> Int]
    BY MemoryAssumption DEF Init
  <2> QED
    BY <2>1, <2>2, MemoryAssumption DEF Init, TypeOK
<1>3. ShapeInv
  BY MemoryAssumption DEF Init, ShapeInv, Idle, Hook
<1> QED
  BY <1>2, <1>3

(* The state is well typed, in every mode: each hook has the arguments its *)
(* next step needs.                                                        *)
THEOREM Shaped == Spec => [](TypeOK /\ ShapeInv)
<1>1. TypeOK /\ ShapeInv /\ [Next]_vars => (TypeOK /\ ShapeInv)'
  BY TypingStep, ShapeStep
<1> QED
  BY <1>1, TypingStart, PTL DEF Spec

(* The tables and the hooks stay well typed whatever the mode. *)
THEOREM Typing == Spec => []TypeOK
  BY Shaped, PTL

LEMMA StealthStart == Init => StealthInv
  BY MemoryAssumption
  DEF Init, StealthInv, ShapeInv, BlockInv, GilInv, TableInv, TrackedLive,
      Idle, Hook

LEMMA StealthStep ==
  ASSUME Stealth, TypeOK, StealthInv, [Next]_vars PROVE StealthInv'
<1>1. ShapeInv
  BY DEF StealthInv
<1> QED
  BY <1>1, ShapeStep, BlockStep, GilStep, TableStep, TrackedStep
  DEF StealthInv

(* The inductive invariant of stealth mode. *)
THEOREM StealthInvariant ==
  ASSUME Stealth
  PROVE  Spec => []StealthInv
<1>1. TypeOK /\ StealthInv /\ [Next]_vars => StealthInv'
  BY StealthStep
<1> QED
  BY <1>1, StealthStart, Typing, PTL DEF Spec

(* While Echion tracks, every entry of the memory table is a live block of *)
(* the recorded size: no address is handed out with an entry left over.    *)
THEOREM StealthTrackedLive ==
  ASSUME Stealth
  PROVE  Spec => []TrackedLive
<1>1. StealthInv => TrackedLive
  BY DEF StealthInv
<1> QED
  BY <1>1, StealthInvariant, PTL

(* A flush finds the stack of every entry it renders. *)
THEOREM StealthRetrieveSafe ==
  ASSUME Stealth
  PROVE  Spec => []RetrieveSafe
<1>1. StealthInv => RetrieveSafe
  BY DEF StealthInv, TableInv, RetrieveSafe, Pending
<1> QED
  BY <1>1, StealthInvariant, PTL

-----------------------------------------------------------------------------
(* What the stats say, between calls and inside of them.                   *)

(* Blocks that the stats have, and still have, under a stack: the hooks    *)
(* that work on them have yet to credit them.                              *)
CountedBlocks(s) ==
  {a \in Addresses :
     /\ charged[a] = s
     /\ \A t \in Threads : op[t].addr = a => op[t].pc \in {"unlink", "credit"}}

(* Emitted and pending bytes are those of the counted blocks ...           *)
SumInv ==
  phase = "on" =>
    \A s \in Stacks : emitted[s] + Pending(s) = SumOver(heap, CountedBlocks(s))

(* ... since a block that is charged to a stack is in the memory table     *)
(* with that stack and with its size, from Link to Unlink, and the hook    *)
(* that has taken it out remembers both ...                                *)
Charged(a, e) ==
  /\ charged[a] = e.stack
  /\ heap[a] = e.size

BlockCharge(a) ==
  /\ memory_table[a] # nullptr => Charged(a, memory_table[a])
  /\ heap[a] = 0 => charged[a] = nullptr
  /\ charged[a] # nullptr /\ memory_table[a] = nullptr =>
       \E t \in Threads :
         op[t].addr = a /\ op[t].pc \in {"store", "link", "credit", "real"}
  /\ memory_table[a] # nullptr =>
       \/ stats[memory_table[a].stack] # nullptr
       \/ \E t \in Threads : op[t].addr = a /\ op[t].pc = "update"

HookCharge(t) ==
  /\ op[t].pc \in {"store", "link", "update"} =>
       charged[op[t].addr] = op[t].stack /\ heap[op[t].addr] = op[t].size
  /\ op[t].pc \in {"store", "link"} => memory_table[op[t].addr] = nullptr
  /\ op[t].pc = "credit" =>
       Charged(op[t].addr, op[t].entry) /\ stats[op[t].entry.stack] # nullptr

ChargeInv ==
  phase = "on" =>
    /\ \A a \in Addresses : BlockCharge(a)
    /\ \A t \in Threads : HookCharge(t)

(* ... in the only session, before which there is nothing.                 *)
FreshInv ==
  /\ sessions = 0 =>
       /\ phase = "off" /\ Quiescent
       /\ \A a \in Addresses : memory_table[a] = nullptr
       /\ \A s \in Stacks : stats[s] = nullptr
  /\ \A t \in Threads : op[t].pc \notin {"nested", "crashed"}

AccountInv == SumInv /\ ChargeInv /\ FreshInv

Faultless == NonAscii = {} /\ Untracked = {} /\ ~ReallocFails /\ MaxSessions = 1

(* The steps that there are without faults; after the tear-down has begun, *)
(* tracking is over for good.                                              *)
LEMMA FaultlessSteps ==
  ASSUME Faultless, TypeOK, GilInv, FreshInv, Next
  PROVE  \/ \E t \in Threads :
              \/ Store(t) \/ Link(t) \/ Update(t) \/ Unlink(t) \/ Credit(t)
              \/ RealFree(t) \/ \E b \in Addresses : RealRealloc(t, b)
              \/ Call(t)
         \/ SetupMemory /\ sessions = 0
         \/ Flush
         \/ phase' \notin {"on", "off"} /\ UNCHANGED op /\ sessions # 0 /\ UNCHANGED sessions
         \/ phase' = "off" /\ UNCHANGED op /\ sessions # 0 /\ UNCHANGED sessions
<1>1. \A t \in Threads : ~StoreNonAscii(t) /\ ~UpdateUntracked(t) /\ ~RealReallocFails(t)
  BY DEF Faultless, StoreNonAscii, NeedsUtf8, UpdateUntracked, RealReallocFails
<1>2. SetupMemory => sessions = 0
  BY DEF Faultless, SetupMemory, TypeOK
<1>3. phase # "off" => sessions # 0
  BY DEF FreshInv
<1>4. CASE SamplerStep
  BY <1>2, <1>3, <1>4 DEF SamplerStep, Stop, RestoreAllocators, LastFlush, ClearStats,
    ClearStacks, ClearTable, control
<1>5. CASE \E t \in Threads : HookStep(t) \/ Call(t)
  BY <1>1, <1>5 DEF HookStep
<1> QED
  BY <1>4, <1>5 DEF Next

(* Tracking starts with setup_memory, and once. *)
LEMMA StartStep ==
  ASSUME Faultless, TypeOK, GilInv, FreshInv, Next, phase # "on", phase' = "on"
  PROVE  SetupMemory /\ sessions = 0
<1>1. ASSUME NEW t \in Threads,
             \/ Store(t) \/ Link(t) \/ Update(t) \/ Unlink(t) \/ Credit(t)
             \/ RealFree(t) \/ \E b \in Addresses : RealRealloc(t, b)
      PROVE  UNCHANGED phase
  BY <1>1 DEF Store, Link, Update, Unlink, Credit, RealFree, RealRealloc, control
<1>2. ASSUME NEW t \in Threads, Call(t) PROVE UNCHANGED phase
  BY <1>2 DEF Call, Malloc, Realloc, FreeBlock, control
<1>3. Flush => UNCHANGED phase
  BY DEF Flush, control
<1> QED
  BY <1>1, <1>2, <1>3, FaultlessSteps

(* In the only session nothing crashes, and nothing goes on before it. *)
LEMMA FreshStep ==
  ASSUME Faultless, TypeOK, StealthInv, FreshInv, [Next]_vars
  PROVE  FreshInv'
<1> DEFINE Good(r) == r.pc \notin {"nested", "crashed"}
<1> SUFFICES ASSUME Next PROVE FreshInv'
  BY DEF FreshInv, Quiescent, vars, tables, control
<1>1. GilInv
  BY DEF StealthInv
<1>2. sessions = 0 => ~hooks /\ phase = "off"
  BY <1>1 DEF FreshInv, GilInv
<1>3. ASSUME NEW t \in Threads,
             \/ Store(t) \/ Link(t) \/ Update(t) \/ Unlink(t) \/ Credit(t)
             \/ RealFree(t) \/ \E b \in Addresses : RealRealloc(t, b)
      PROVE  FreshInv'
  <2>1. op[t].pc # "idle" /\ UNCHANGED <<sessions, phase>>
    BY <1>3 DEF Store, Link, Update, Unlink, Credit, RealFree, RealRealloc, control
  <2>2. sessions # 0
    BY <2>1 DEF FreshInv, Quiescent
  <2>3. \A u \in Threads : Good(op'[u])
    <3>1. \A u \in Threads : Good(op[u])
      BY DEF FreshInv
    <3>2. op \in [Threads -> Op]
      BY DEF TypeOK
    <3>3. CASE Store(t) \/ Link(t) \/ Unlink(t) \/ Credit(t)
      BY <3>1, <3>2, <3>3 DEF Store, Link, Unlink, Credit, Op
    <3>4. CASE Update(t) \/ RealFree(t)
      BY <3>1, <3>2, <3>4 DEF Update, RealFree, Done, Idle, Hook
    <3>5. CASE \E b \in Addresses : RealRealloc(t, b)
      BY <3>1, <3>2, <3>5 DEF RealRealloc, Op
    <3> QED
      BY <1>3, <3>3, <3>4, <3>5
  <2> QED
    BY <2>1, <2>2, <2>3 DEF FreshInv
<1>4. ASSUME NEW t \in Threads, Call(t) PROVE FreshInv'
  <2>1. UNCHANGED <<sessions, phase, memory_table, stats>>
    BY <1>4 DEF Call, Malloc, Realloc, FreeBlock, control, tables
  <2>2. ~hooks => UNCHANGED op
    BY <1>4 DEF Call, Malloc, Realloc, FreeBlock
  <2>3. \A u \in Threads : Good(op'[u])
    BY <1>4 DEF FreshInv, TypeOK, Call, Malloc, Realloc, FreeBlock, Hook, FirstStep
  <2> QED
    BY <1>2, <2>1, <2>2, <2>3 DEF FreshInv, Quiescent
<1>5. CASE SetupMemory \/ Flush
  BY <1>2, <1>5 DEF SetupMemory, Flush, FreshInv, TypeOK, control
<1>6. CASE sessions # 0 /\ UNCHANGED <<sessions, op>>
  BY <1>6 DEF FreshInv
<1> QED
  BY <1>1, <1>3, <1>4, <1>5, <1>6, FaultlessSteps

(* What the table says of the charged blocks stays true. *)
LEMMA ChargeStep ==
  ASSUME Faultless, TypeOK, StealthInv, FreshInv, ChargeInv, [Next]_vars, phase' = "on"
  PROVE  ChargeInv'
<1> USE MemoryAssumption, HeapAssumption DEF TypeOK, Op, ShapeInv, BlockInv, GilInv, StealthInv,
    ChargeInv, BlockCharge, HookCharge, Charged, Entry, control, tables
<1>1. ASSUME phase = "on", NEW t \in Threads, NEW a \in Addresses, NEW s \in Stacks,
             NEW n \in Sizes, Malloc(t, a, s, n)
      PROVE  ChargeInv'
  BY <1>1 DEF Malloc, Free, Hook, TrackedLive
<1>2. ASSUME phase = "on", NEW t \in Threads, Store(t) PROVE ChargeInv'
  BY <1>2 DEF Store
<1>4. ASSUME phase = "on", NEW t \in Threads, Link(t) PROVE ChargeInv'
  <2>1. \A a \in Addresses : BlockCharge(a)'
    BY <1>4 DEF Link, NewEntry
  <2>2. \A u \in Threads : HookCharge(u)'
    BY <1>4 DEF Link, NewEntry
  <2> HIDE DEF BlockCharge, HookCharge
  <2> QED
    BY <2>1, <2>2
<1>5. ASSUME phase = "on", NEW t \in Threads, Update(t) PROVE ChargeInv'
  <2>1. op[t].stack \in Stacks /\ op[t].size \in Int /\ op[t].pc = "update"
    <3>1. op[t].pc = "update" /\ op[t].stack \in Stacks /\ op[t].size \in Sizes
      BY <1>5 DEF Update
    <3>2. \A x \in Sizes : x \in Int
      BY MemoryAssumption, HeapAssumption
    <3> HIDE DEF TypeOK, Op, ShapeInv, BlockInv, GilInv, StealthInv, ChargeInv
    <3> QED
      BY <3>1, <3>2
  <2>2. \A s \in Stacks : stats[s] # nullptr \/ s = op[t].stack => stats'[s] # nullptr
    BY <1>5, <2>1 DEF Update
  <2>3. UNCHANGED <<heap, charged, memory_table, phase>>
    BY <1>5 DEF Update
  <2>4. op'[t] = Idle /\ \A u \in Threads \ {t} : op'[u] = op[u]
    BY <1>5 DEF Update, Done
  <2>5. Idle.pc = "idle" /\ Idle.addr = nullptr
    BY DEF Idle, Hook
  <2>6. \A a \in Addresses : memory_table[a] # nullptr => memory_table[a].stack \in Stacks
    OBVIOUS
  <2>7. op[t].addr \in Addresses /\ HookCharge(t)
    BY <1>5, <2>1
  <2>8. ASSUME NEW a \in Addresses PROVE BlockCharge(a)'
    <3>1. BlockCharge(a)
      BY <1>5
    <3>2. memory_table[a] # nullptr /\ op[t].addr = a =>
            memory_table[a].stack = op[t].stack
      BY <2>1, <2>7, <3>1
    <3> HIDE DEF TypeOK, Op, ShapeInv, BlockInv, GilInv, StealthInv, ChargeInv, HookCharge
    <3> QED
      BY <2>1, <2>2, <2>3, <2>4, <2>6, <3>1, <3>2
  <2>9. ASSUME NEW u \in Threads PROVE HookCharge(u)'
    <3>1. HookCharge(u)
      BY <1>5
    <3>2. op[u].pc = "credit" => op[u].entry.stack \in Stacks
      BY <1>5
    <3> HIDE DEF TypeOK, Op, ShapeInv, BlockInv, GilInv, StealthInv, ChargeInv, BlockCharge
    <3> QED
      BY <2>2, <2>3, <2>4, <2>5, <3>1, <3>2
  <2> HIDE DEF BlockCharge, HookCharge
  <2> QED
    BY <2>8, <2>9
<1>6. ASSUME phase = "on", NEW t \in Threads, NEW a \in Addresses,
             NEW raw \in BOOLEAN, FreeBlock(t, a, raw)
      PROVE  ChargeInv'
  <2>1. \A b \in Addresses : BlockCharge(b)'
    BY <1>6 DEF FreeBlock, Owned, FirstStep, Hook
  <2>2. \A u \in Threads : HookCharge(u)'
    BY <1>6 DEF FreeBlock, Owned, FirstStep, Hook
  <2> HIDE DEF BlockCharge, HookCharge
  <2> QED
    BY <2>1, <2>2
<1>7. ASSUME phase = "on", NEW t \in Threads, NEW a \in Addresses, NEW s \in Stacks,
             NEW n \in Sizes, Realloc(t, a, s, n)
      PROVE  ChargeInv'
  BY <1>7 DEF Realloc, Owned, FirstStep, Hook
<1>8. ASSUME phase = "on", NEW t \in Threads, Unlink(t) PROVE ChargeInv'
  <2> DEFINE a == op[t].addr
             e == memory_table[a]
  <2>1. /\ a \in Addresses /\ op[t].pc = "unlink"
        /\ memory_table' = [memory_table EXCEPT ![a] = nullptr]
        /\ UNCHANGED <<heap, charged, stats, phase>>
    BY <1>8 DEF Unlink
  <2>2. /\ op'[t].addr = a /\ op'[t].entry = e
        /\ op'[t].pc = IF e = nullptr THEN "real" ELSE "credit"
        /\ \A u \in Threads \ {t} : op'[u] = op[u]
    BY <1>8 DEF Unlink
  <2>3. \A u \in Threads \ {t} : op[u].pc # "idle" => op[u].addr # a
    BY <2>1
  <2>4. (\A b \in Addresses : BlockCharge(b)) /\ \A u \in Threads : HookCharge(u)
    BY <1>8
  <2>5. \A u \in Threads : op[u].pc \in {"store", "link", "update", "credit", "real"} =>
          op[u].addr \in Addresses
    OBVIOUS
  <2>6. \A b \in Addresses : memory_table[b] # nullptr => b \in DOMAIN memory_table
    OBVIOUS
  <2>7. DOMAIN memory_table = Addresses
    OBVIOUS
  <2> HIDE DEF TypeOK, Op, ShapeInv, BlockInv, GilInv, StealthInv, ChargeInv, a, e
  <2>8. ASSUME NEW b \in Addresses PROVE BlockCharge(b)'
    BY <2>1, <2>2, <2>3, <2>4, <2>7
  <2>9. ASSUME NEW u \in Threads PROVE HookCharge(u)'
    <3>1. CASE u = t
      <4>1. e # nullptr => Charged(a, e) /\ stats[e.stack] # nullptr
        <5>1. BlockCharge(a)
          BY <2>1, <2>4
        <5>2. \A w \in Threads : op[w].addr = a => op[w].pc # "update"
          BY <2>1, <2>3
        <5> QED
          BY <5>1, <5>2 DEF e
      <4> QED
        BY <2>1, <2>2, <3>1, <4>1
    <3>2. CASE u # t
      BY <2>1, <2>2, <2>3, <2>4, <2>5, <2>7, <3>2
    <3> QED
      BY <3>1, <3>2
  <2> HIDE DEF BlockCharge, HookCharge
  <2> QED
    BY <2>8, <2>9 DEF ChargeInv
<1>9. ASSUME phase = "on", NEW t \in Threads, Credit(t) PROVE ChargeInv'
  <2>1. \A a \in Addresses : BlockCharge(a)'
    BY <1>9 DEF Credit
  <2>2. \A u \in Threads : HookCharge(u)'
    BY <1>9 DEF Credit
  <2> HIDE DEF BlockCharge, HookCharge
  <2> QED
    BY <2>1, <2>2
<1>10. ASSUME phase = "on", NEW t \in Threads, RealFree(t) PROVE ChargeInv'
  BY <1>10 DEF RealFree, Done, Idle, Hook
<1>11. ASSUME phase = "on", NEW t \in Threads, NEW b \in Addresses, RealRealloc(t, b)
       PROVE  ChargeInv'
  BY <1>11 DEF RealRealloc, Free, TrackedLive
<1>13. ASSUME SetupMemory, sessions = 0 PROVE ChargeInv'
  BY <1>13 DEF SetupMemory, FreshInv, Quiescent
<1>14. ASSUME phase = "on", Flush PROVE ChargeInv'
  <2>1. \A a \in Addresses : BlockCharge(a)'
    BY <1>14 DEF Flush, FlushStats, Flushed
  <2>2. \A u \in Threads : HookCharge(u)'
    BY <1>14 DEF Flush, FlushStats, Flushed
  <2> HIDE DEF BlockCharge, HookCharge
  <2> QED
    BY <2>1, <2>2
<1>15. CASE UNCHANGED vars
  BY <1>15 DEF vars
<1>16. CASE phase = "on" /\ Next
  <2>1. sessions # 0
    BY <1>16 DEF FreshInv
  <2> HIDE DEF TypeOK, Op, ShapeInv, BlockInv, GilInv, StealthInv, ChargeInv
  <2>2. GilInv
    BY DEF StealthInv
  <2> QED
    BY <1>1, <1>2, <1>4, <1>5, <1>6, <1>7, <1>8, <1>9, <1>10, <1>11, <1>14, <1>16,
      <2>1, <2>2, FaultlessSteps DEF Call
<1>17. CASE phase # "on" /\ Next
  <2>1. GilInv
    BY DEF StealthInv
  <2>2. SetupMemory /\ sessions = 0
    <3> HIDE DEF TypeOK, Op, ShapeInv, BlockInv, GilInv, StealthInv, ChargeInv
    <3> QED
      BY <1>17, <2>1, StartStep
  <2> QED
    BY <1>13, <2>2
<1> QED
  BY <1>15, <1>16, <1>17

(* Blocks are finitely many, and of a size. *)
LEMMA BlocksFinite ==
  ASSUME NEW h \in [Addresses -> Sizes \cup {0}], NEW B \in SUBSET Addresses
  PROVE  IsFiniteSet(B) /\ Numbered(h, B) /\ SumOver(h, B) \in Int
<1>1. IsFiniteSet(B)
  BY FS_Subset, MemoryAssumption, HeapAssumption
<1>2. Numbered(h, B)
  <2>1. \A x \in Sizes \cup {0} : x \in Int
    BY MemoryAssumption, HeapAssumption
  <2> QED
    BY <2>1 DEF Numbered
<1> QED
  BY <1>1, <1>2, SumSplit

(* A step that changes no counted block changes no sum. *)
LEMMA SumKept ==
  ASSUME TypeOK, NEW s \in Stacks, CountedBlocks(s)' = CountedBlocks(s),
         \A a \in CountedBlocks(s) : heap'[a] = heap[a]
  PROVE  SumOver(heap, CountedBlocks(s))' = SumOver(heap, CountedBlocks(s))
<1> DEFINE A == CountedBlocks(s)
<1>1. IsFiniteSet(A) /\ Numbered(heap, A) /\ \A a \in A : heap'[a] = heap[a]
  BY BlocksFinite DEF TypeOK, CountedBlocks
<1>2. SumOver(heap', A) = SumOver(heap, A)
  <2> HIDE DEF A
  <2> QED
    BY <1>1, SumSame
<1> QED
  BY <1>2

(* Nor does one that leaves every hook where it was counted. *)
LEMMA CountedSame ==
  ASSUME TypeOK, TypeOK', NEW t \in Threads, NEW s \in Stacks,
         \A u \in Threads \ {t} : op'[u] = op[u],
         \A a \in Addresses :
           a \notin {op[t].addr, op'[t].addr} =>
             charged'[a] = charged[a] /\ heap'[a] = heap[a],
         \A a \in Addresses \cap {op[t].addr, op'[t].addr} :
           /\ a \in CountedBlocks(s) <=> a \in CountedBlocks(s)'
           /\ a \in CountedBlocks(s) => heap'[a] = heap[a]
  PROVE  SumOver(heap, CountedBlocks(s))' = SumOver(heap, CountedBlocks(s))
<1>1. \A a \in Addresses : a \notin {op[t].addr, op'[t].addr} =>
        (a \in CountedBlocks(s) <=> a \in CountedBlocks(s)')
  BY DEF CountedBlocks
<1>2. CountedBlocks(s) \subseteq Addresses /\ CountedBlocks(s)' \subseteq Addresses
  BY DEF CountedBlocks
<1>3. CountedBlocks(s)' = CountedBlocks(s)
  BY <1>1, <1>2
<1>4. \A a \in CountedBlocks(s) : heap'[a] = heap[a]
  BY <1>2
<1> QED
  BY <1>3, <1>4, SumKept

(* What is emitted and pending stays what the counted blocks add up to. *)
LEMMA SumStep ==
  ASSUME Faultless, TypeOK, TypeOK', StealthInv, AccountInv, [Next]_vars,
         phase = "on", phase' = "on"
  PROVE  SumInv'
<1> USE DEF control, tables
<1>1. ShapeInv /\ BlockInv /\ GilInv /\ ChargeInv /\ FreshInv
  BY DEF StealthInv, AccountInv
<1>2. \A s \in Stacks : emitted[s] + Pending(s) = SumOver(heap, CountedBlocks(s))
  BY DEF AccountInv, SumInv
<1>3. (\A a \in Addresses : BlockCharge(a)) /\ \A t \in Threads : HookCharge(t)
  BY <1>1 DEF ChargeInv
<1>4. op \in [Threads -> Op] /\ op' \in [Threads -> Op]
  BY DEF TypeOK
<1>5. ASSUME NEW t \in Threads,
             UNCHANGED <<stats, emitted>>,
             \A u \in Threads \ {t} : op'[u] = op[u],
             \A a \in Addresses :
               a \notin {op[t].addr, op'[t].addr} =>
                 charged'[a] = charged[a] /\ heap'[a] = heap[a],
             \A s \in Stacks :
               \A a \in Addresses \cap {op[t].addr, op'[t].addr} :
                 /\ a \in CountedBlocks(s) <=> a \in CountedBlocks(s)'
                 /\ a \in CountedBlocks(s) => heap'[a] = heap[a]
      PROVE  SumInv'
  <2>1. \A s \in Stacks : SumOver(heap, CountedBlocks(s))' = SumOver(heap, CountedBlocks(s))
    BY <1>5, CountedSame
  <2>2. \A s \in Stacks : emitted'[s] + Pending(s)' = emitted[s] + Pending(s)
    BY <1>5 DEF Pending
  <2> QED
    BY <1>2, <2>1, <2>2 DEF SumInv
<1>6. \A x \in Sizes : x \in Int /\ x > 0
  BY MemoryAssumption, HeapAssumption
<1>7. Idle.addr = nullptr /\ nullptr \notin Addresses \cup Stacks
  BY MemoryAssumption, HeapAssumption DEF Idle, Hook
<1>8. ASSUME NEW t \in Threads, op[t].pc # "idle"
      PROVE  op[t].addr \in Addresses /\ \A u \in Threads \ {t} : op[u].addr # op[t].addr
  BY <1>1, <1>8 DEF ShapeInv, BlockInv
<1>9. hooks
  BY <1>1 DEF GilInv
<1>10. /\ heap \in [Addresses -> Sizes \cup {0}] /\ heap' \in [Addresses -> Sizes \cup {0}]
       /\ \A s \in Stacks : CountedBlocks(s) \subseteq Addresses /\ CountedBlocks(s)' \subseteq Addresses
  BY DEF TypeOK, CountedBlocks
<1>11. ASSUME NEW t \in Threads, NEW a \in Addresses, NEW s \in Stacks, NEW n \in Sizes,
              Malloc(t, a, s, n)
       PROVE  SumInv'
  <2>1. op[t].addr = nullptr /\ heap[a] = 0 /\ op'[t].addr = a /\ op'[t].pc = "store"
    BY <1>1, <1>4, <1>9, <1>11 DEF Malloc, Free, ShapeInv, Hook
  <2>2. charged[a] = nullptr
    BY <1>3, <2>1 DEF BlockCharge
  <2>3. \A r \in Stacks : a \notin CountedBlocks(r) /\ a \notin CountedBlocks(r)'
    BY <1>7, <2>1, <2>2 DEF CountedBlocks
  <2>4. \A b \in Addresses \ {a} : charged'[b] = charged[b] /\ heap'[b] = heap[b]
    BY <1>11 DEF Malloc, TypeOK
  <2>5. UNCHANGED <<stats, emitted>> /\ \A u \in Threads \ {t} : op'[u] = op[u]
    BY <1>4, <1>11 DEF Malloc
  <2>6. \A b \in Addresses \cap {op[t].addr, op'[t].addr} : b = a
    BY <1>7, <2>1
  <2>7. \A b \in Addresses : b \notin {op[t].addr, op'[t].addr} => b \in Addresses \ {a}
    BY <2>1
  <2> HIDE DEF CountedBlocks
  <2> QED
    BY <1>5, <2>3, <2>4, <2>5, <2>6, <2>7
<1>12. ASSUME NEW t \in Threads, Store(t) \/ Link(t) PROVE SumInv'
  <2>1. /\ op[t].pc \in {"store", "link"} /\ op'[t].pc \in {"link", "update"}
        /\ op'[t].addr = op[t].addr
    BY <1>4, <1>12 DEF Store, Link, Op
  <2>2. \A r \in Stacks : op[t].addr \notin CountedBlocks(r) /\ op[t].addr \notin CountedBlocks(r)'
    BY <2>1 DEF CountedBlocks
  <2>3. UNCHANGED <<heap, charged, stats, emitted>> /\ \A u \in Threads \ {t} : op'[u] = op[u]
    BY <1>4, <1>12 DEF Store, Link
  <2> QED
    BY <1>5, <2>1, <2>2, <2>3
<1>13. ASSUME NEW t \in Threads, Unlink(t) PROVE SumInv'
  <2> DEFINE a == op[t].addr
  <2>1. /\ op[t].pc = "unlink" /\ op'[t].addr = a
        /\ op'[t].pc = IF memory_table[a] = nullptr THEN "real" ELSE "credit"
        /\ UNCHANGED <<heap, charged, stats, emitted>>
        /\ \A u \in Threads \ {t} : op'[u] = op[u]
    BY <1>4, <1>13 DEF Unlink, Op
  <2>2. a \in Addresses /\ \A u \in Threads \ {t} : op[u].addr # a
    BY <1>8, <2>1
  <2>3. memory_table[a] = nullptr => charged[a] = nullptr
    BY <1>3, <2>1, <2>2 DEF BlockCharge
  <2>4. \A r \in Stacks : a \in CountedBlocks(r) <=> a \in CountedBlocks(r)'
    BY <1>7, <2>1, <2>2, <2>3 DEF CountedBlocks
  <2> QED
    BY <1>5, <2>1, <2>4
<1>14. ASSUME NEW t \in Threads, RealFree(t) PROVE SumInv'
  <2> DEFINE a == op[t].addr
  <2>1. /\ op[t].pc = "real" /\ op'[t] = Idle
        /\ UNCHANGED <<stats, emitted>>
        /\ \A u \in Threads \ {t} : op'[u] = op[u]
    BY <1>4, <1>14 DEF RealFree, Done
  <2>2. a \in Addresses
    BY <1>8, <2>1
  <2>3. /\ charged'[a] = nullptr
        /\ \A b \in Addresses \ {a} : charged'[b] = charged[b] /\ heap'[b] = heap[b]
    BY <1>14, <2>2 DEF RealFree, TypeOK
  <2>4. \A r \in Stacks : a \notin CountedBlocks(r) /\ a \notin CountedBlocks(r)'
    BY <1>7, <2>1, <2>3 DEF CountedBlocks
  <2>5. \A b \in Addresses \cap {op[t].addr, op'[t].addr} : b = a
    BY <1>7, <2>1
  <2> QED
    BY <1>5, <2>1, <2>3, <2>4, <2>5
<1>15. ASSUME NEW t \in Threads, NEW b \in Addresses, RealRealloc(t, b) PROVE SumInv'
  <2> DEFINE a == op[t].addr
  <2>1. /\ op[t].pc = "real" /\ op'[t].pc = "store" /\ op'[t].addr = b
        /\ UNCHANGED <<stats, emitted>>
        /\ \A u \in Threads \ {t} : op'[u] = op[u]
    BY <1>4, <1>15 DEF RealRealloc, Op
  <2>2. a \in Addresses
    BY <1>8, <2>1
  <2>3. a # b => charged'[a] = nullptr
    BY <1>15, <2>2 DEF RealRealloc, TypeOK
  <2>4. a # b => charged[b] = nullptr
    BY <1>3, <1>15 DEF RealRealloc, Free, BlockCharge
  <2>5. \A c \in Addresses \ {a, b} : charged'[c] = charged[c] /\ heap'[c] = heap[c]
    BY <1>15, <2>2 DEF RealRealloc, TypeOK
  <2>6. \A r \in Stacks : /\ a \notin CountedBlocks(r) /\ a \notin CountedBlocks(r)'
                          /\ b \notin CountedBlocks(r) /\ b \notin CountedBlocks(r)'
    BY <1>7, <2>1, <2>3, <2>4 DEF CountedBlocks
  <2> QED
    BY <1>5, <2>1, <2>5, <2>6
<1>16. ASSUME NEW t \in Threads, NEW a \in Addresses,
              \/ \E raw \in BOOLEAN : FreeBlock(t, a, raw)
              \/ \E s \in Stacks, n \in Sizes : Realloc(t, a, s, n)
       PROVE  SumInv'
  <2>1. /\ op[t].pc = "idle" /\ op'[t].pc = "unlink" /\ op'[t].addr = a
        /\ \A u \in Threads : op[u].addr # a
        /\ UNCHANGED <<heap, charged, stats, emitted>>
        /\ \A u \in Threads \ {t} : op'[u] = op[u]
    <3>1. CASE \E raw \in BOOLEAN : FreeBlock(t, a, raw)
      BY <1>4, <1>9, <3>1 DEF FreeBlock, Owned, Hook, FirstStep
    <3>2. CASE \E s \in Stacks, n \in Sizes : Realloc(t, a, s, n)
      BY <1>4, <1>9, <3>2 DEF Realloc, Owned, Hook, FirstStep
    <3> QED
      BY <1>16, <3>1, <3>2
  <2>2. op[t].addr \notin Addresses
    BY <1>1, <1>7, <2>1 DEF ShapeInv
  <2>3. \A r \in Stacks : a \in CountedBlocks(r) <=> a \in CountedBlocks(r)'
    BY <2>1 DEF CountedBlocks
  <2> QED
    BY <1>5, <2>1, <2>2, <2>3
<1>17. ASSUME NEW t \in Threads, Update(t) PROVE SumInv'
  <2>1. /\ op[t].pc = "update" /\ op'[t] = Idle
        /\ UNCHANGED <<heap, charged, emitted>>
        /\ \A u \in Threads \ {t} : op'[u] = op[u]
    BY <1>4, <1>17 DEF Update, Done
  <2>2. PICK a \in Addresses : a = op[t].addr /\ \A u \in Threads \ {t} : op[u].addr # a
    BY <1>8, <2>1
  <2>3. PICK s \in Stacks, n \in Int :
          s = op[t].stack /\ n = op[t].size /\ charged[a] = s /\ heap[a] = n
    BY <1>1, <1>3, <1>6, <2>1, <2>2 DEF ShapeInv, HookCharge
  <2>4. /\ \A r \in Stacks \ {s} : Pending(r)' = Pending(r)
        /\ Pending(s)' = Pending(s) + n
    <3>1. stats' = [stats EXCEPT ![s] = IF @ = nullptr THEN n ELSE @ + n]
      BY <1>17, <2>3 DEF Update
    <3>2. stats \in [Stacks -> Int \cup {nullptr}] /\ nullptr \notin Int
      BY MemoryAssumption, HeapAssumption DEF TypeOK
    <3> QED
      BY <2>3, <3>1, <3>2 DEF Pending
  <2>5. ASSUME NEW r \in Stacks \ {s}
        PROVE  SumOver(heap, CountedBlocks(r))' = SumOver(heap, CountedBlocks(r))
    <3>1. CountedBlocks(r)' = CountedBlocks(r)
      BY <1>7, <2>1, <2>2, <2>3 DEF CountedBlocks
    <3> QED
      BY <2>1, <3>1
  <2>6. SumOver(heap, CountedBlocks(s))' = n + SumOver(heap, CountedBlocks(s))
    <3>1. a \in CountedBlocks(s)' /\ CountedBlocks(s) = CountedBlocks(s)' \ {a}
      BY <1>7, <2>1, <2>2, <2>3 DEF CountedBlocks
    <3>2. IsFiniteSet(CountedBlocks(s)') /\ Numbered(heap', CountedBlocks(s)')
      BY <1>10, BlocksFinite
    <3>3. SumOver(heap', CountedBlocks(s)') =
            heap'[a] + SumOver(heap', CountedBlocks(s)' \ {a})
      BY <3>1, <3>2, SumSplit
    <3> QED
      BY <2>1, <2>3, <3>1, <3>3
  <2>7. ASSUME NEW r \in Stacks
        PROVE  emitted[r] \in Int /\ Pending(r) \in Int /\ SumOver(heap, CountedBlocks(r)) \in Int
    BY <1>10, BlocksFinite DEF TypeOK, Pending
  <2> QED
    BY <1>2, <2>1, <2>3, <2>4, <2>5, <2>6, <2>7 DEF SumInv
<1>18. ASSUME NEW t \in Threads, Credit(t) PROVE SumInv'
  <2>1. /\ op[t].pc = "credit" /\ op'[t].pc = "real" /\ op'[t].addr = op[t].addr
        /\ UNCHANGED <<heap, charged, emitted>>
        /\ \A u \in Threads \ {t} : op'[u] = op[u]
    BY <1>4, <1>18 DEF Credit, Op
  <2>2. PICK a \in Addresses : a = op[t].addr /\ \A u \in Threads \ {t} : op[u].addr # a
    BY <1>8, <2>1
  <2>3. PICK s \in Stacks, n \in Int :
          /\ s = op[t].entry.stack /\ n = op[t].entry.size
          /\ charged[a] = s /\ heap[a] = n /\ stats[s] # nullptr
    BY <1>1, <1>3, <1>6, <2>1, <2>2 DEF ShapeInv, HookCharge, Charged, Entry
  <2>4. /\ \A r \in Stacks \ {s} : Pending(r)' = Pending(r)
        /\ Pending(s)' = Pending(s) - n
    <3>1. stats' = [stats EXCEPT ![s] = IF @ = nullptr THEN @ ELSE @ - n]
      BY <1>18, <2>3 DEF Credit
    <3>2. stats \in [Stacks -> Int \cup {nullptr}] /\ nullptr \notin Int
      BY MemoryAssumption, HeapAssumption DEF TypeOK
    <3> QED
      BY <2>3, <3>1, <3>2 DEF Pending
  <2>5. ASSUME NEW r \in Stacks \ {s}
        PROVE  SumOver(heap, CountedBlocks(r))' = SumOver(heap, CountedBlocks(r))
    <3>1. CountedBlocks(r)' = CountedBlocks(r)
      BY <2>1, <2>2, <2>3 DEF CountedBlocks
    <3> QED
      BY <2>1, <3>1
  <2>6. SumOver(heap, CountedBlocks(s)) = n + SumOver(heap, CountedBlocks(s))'
    <3>1. a \in CountedBlocks(s) /\ CountedBlocks(s)' = CountedBlocks(s) \ {a}
      BY <2>1, <2>2, <2>3 DEF CountedBlocks
    <3>2. IsFiniteSet(CountedBlocks(s)) /\ Numbered(heap, CountedBlocks(s))
      BY <1>10, BlocksFinite
    <3>3. SumOver(heap, CountedBlocks(s)) =
            heap[a] + SumOver(heap, CountedBlocks(s) \ {a})
      BY <3>1, <3>2, SumSplit
    <3> QED
      BY <2>1, <2>3, <3>1, <3>3
  <2>7. ASSUME NEW r \in Stacks
        PROVE  emitted[r] \in Int /\ Pending(r) \in Int /\ SumOver(heap, CountedBlocks(r))' \in Int
    <3>1. SumOver(heap, CountedBlocks(r))' \in Int
      BY <1>10, BlocksFinite
    <3> QED
      BY <3>1 DEF TypeOK, Pending
  <2>8. ASSUME NEW r \in Stacks
        PROVE  emitted'[r] + Pending(r)' = SumOver(heap, CountedBlocks(r))'
    <3>1. emitted[r] + Pending(r) = SumOver(heap, CountedBlocks(r)) /\ emitted'[r] = emitted[r]
      BY <1>2, <2>1
    <3>2. CASE r = s
      BY <2>4, <2>6, <2>7, <3>1, <3>2
    <3>3. CASE r # s
      BY <2>4, <2>5, <3>1, <3>3
    <3> QED
      BY <3>2, <3>3
  <2> QED
    BY <2>8 DEF SumInv
<1>19. ASSUME Flush PROVE SumInv'
  <2>1. UNCHANGED <<heap, charged, op>>
    BY <1>19 DEF Flush
  <2>2. ASSUME NEW s \in Stacks
        PROVE  emitted'[s] = emitted[s] + Pending(s) /\ Pending(s)' = 0
    BY <1>19 DEF Flush, FlushStats, Flushed, Pending
  <2>3. ASSUME NEW s \in Stacks PROVE emitted[s] \in Int /\ Pending(s) \in Int
    BY DEF TypeOK, Pending
  <2>4. ASSUME NEW s \in Stacks PROVE CountedBlocks(s)' = CountedBlocks(s)
    BY <2>1 DEF CountedBlocks
  <2>5. ASSUME NEW s \in Stacks
        PROVE  (emitted[s] + Pending(s) = SumOver(heap, CountedBlocks(s)))'
    BY <1>2, <2>1, <2>2, <2>3, <2>4
  <2> QED
    BY <2>5 DEF SumInv
<1>20. CASE UNCHANGED vars
  BY <1>2, <1>20 DEF vars, SumInv, CountedBlocks, Pending
<1>21. CASE Next
  <2>1. sessions # 0 /\ ~SetupMemory
    BY <1>1 DEF FreshInv, SetupMemory
  <2>2. \A t \in Threads : Call(t) => SumInv'
    BY <1>11, <1>16, MemoryAssumption, HeapAssumption DEF Call
  <2> QED
    BY <1>1, <1>12, <1>13, <1>14, <1>15, <1>17, <1>18, <1>19, <1>21, <2>1, <2>2,
      FaultlessSteps
<1> QED
  BY <1>20, <1>21

(* Tracking starts with nothing emitted, pending or counted. *)
LEMMA SumStart ==
  ASSUME Faultless, TypeOK, GilInv, FreshInv, Next, phase # "on", phase' = "on"
  PROVE  SumInv'
<1>1. SetupMemory /\ sessions = 0
  BY StartStep
<1>2. ASSUME NEW s \in Stacks PROVE emitted'[s] + Pending(s)' = 0
  BY <1>1, <1>2 DEF FreshInv, SetupMemory, Pending, tables
<1>3. ASSUME NEW s \in Stacks PROVE CountedBlocks(s)' = {}
  <2>1. charged' = [a \in Addresses |-> nullptr] /\ s # nullptr
    BY <1>1, <1>3, MemoryAssumption, HeapAssumption DEF SetupMemory
  <2> QED
    BY <2>1 DEF CountedBlocks
<1>4. ASSUME NEW s \in Stacks PROVE SumOver(heap', CountedBlocks(s)') = 0
  <2>1. IsFiniteSet({}) /\ Numbered(heap', {})
    BY FS_EmptySet DEF Numbered
  <2>2. SumOver(heap', {}) = 0
    BY <2>1, SumSplit
  <2> QED
    BY <1>3, <2>2
<1> QED
  BY <1>2, <1>4 DEF SumInv

(* The accounts stay right. *)
LEMMA AccountStep ==
  ASSUME Faultless, TypeOK, StealthInv, AccountInv, [Next]_vars
  PROVE  AccountInv'
<1>1. TypeOK' /\ FreshInv /\ ChargeInv /\ GilInv
  <2>1. ShapeInv
    BY DEF StealthInv
  <2> QED
    BY <2>1, TypingStep DEF StealthInv, AccountInv
<1>2. FreshInv'
  BY <1>1, FreshStep
<1>3. ChargeInv'
  BY <1>1, ChargeStep DEF ChargeInv
<1>4. SumInv'
  <2>1. CASE phase' # "on"
    BY <2>1 DEF SumInv
  <2>2. CASE phase' = "on" /\ phase = "on"
    BY <1>1, <2>2, SumStep
  <2>3. CASE phase' = "on" /\ phase # "on"
    BY <1>1, <2>3, SumStart DEF vars, control
  <2> QED
    BY <2>1, <2>2, <2>3
<1> QED
  BY <1>2, <1>3, <1>4 DEF AccountInv

LEMMA AccountStart == Init => AccountInv
  BY DEF Init, AccountInv, SumInv, ChargeInv, FreshInv, Quiescent, Idle, Hook

(* Between calls, every block that is charged to a stack is counted. *)
LEMMA AccountsBalanced ==
  ASSUME TypeOK, ShapeInv, SumInv PROVE Balanced
<1> SUFFICES ASSUME phase = "on", Quiescent, NEW s \in Stacks
             PROVE  emitted[s] + Pending(s) = LiveBytes(s)
  BY DEF Balanced
<1>1. \A t \in Threads : op[t].addr \notin Addresses
  BY MemoryAssumption, HeapAssumption DEF Quiescent, ShapeInv
<1>2. CountedBlocks(s) = {a \in Addresses : charged[a] = s}
  BY <1>1 DEF CountedBlocks
<1> QED
  BY <1>2 DEF SumInv, LiveBytes, SumOver

(* In stealth mode and without faults, what has been emitted for a stack   *)
(* and what waits for the next flush is together the memory that it has    *)
(* allocated and that is still there, whenever no hook is under way.       *)
THEOREM StealthBalanced ==
  ASSUME Stealth, Faultless
  PROVE  Spec => []Balanced
<1>1. TypeOK /\ StealthInv /\ AccountInv /\ [Next]_vars => AccountInv'
  BY AccountStep
<1>2. TypeOK /\ StealthInv /\ AccountInv => Balanced
  BY AccountsBalanced DEF StealthInv, AccountInv
<1> QED
  BY <1>1, <1>2, AccountStart, Typing, StealthInvariant, PTL DEF Spec

(* The same of the accounting setting of the model-checked specification.  *)
THEOREM AccountingBalanced ==
  ASSUME Stealth, Faultless
  PROVE  MCSpec => []BalancedWithoutFaults
<1> DEFINE Inv == setting = "accounting" => TypeOK /\ StealthInv /\ AccountInv
<1>1. MCInit => Inv
  BY TypingStart, StealthStart, AccountStart DEF MCInit
<1>2. Inv /\ [MCNext]_<<setting, vars>> => Inv'
  <2> SUFFICES ASSUME Inv, [MCNext]_<<setting, vars>>, setting' = "accounting"
               PROVE  (TypeOK /\ StealthInv /\ AccountInv)'
    OBVIOUS
  <2>1. setting = "accounting" /\ [Next]_vars
    BY DEF MCNext
  <2>2. TypeOK /\ ShapeInv /\ StealthInv /\ AccountInv
    BY <2>1 DEF StealthInv
  <2> QED
    BY <2>1, <2>2, TypingStep, StealthStep, AccountStep
<1>3. Inv => BalancedWithoutFaults
  BY AccountsBalanced DEF StealthInv, AccountInv, BalancedWithoutFaults
<1> QED
  BY <1>1, <1>2, <1>3, PTL DEF MCSpec
=============================================================================
