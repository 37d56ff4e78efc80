----------------------------- MODULE SamplingProofs -----------------------------
(***************************************************************************)
(* Proofs about Sampling, for every program: the ThreadInfo a callback     *)
(* works on stays where it is, callbacks exclude each other, entries,      *)
(* labels and stacks are a thread's own, and passes miss nobody.           *)
(***************************************************************************)
EXTENDS Sampling, TLAPS

(* Typing of the records: a tracked thread's ThreadInfo, a loop set in it. *)
LEMMA TrackedTyping ==
  ASSUME NEW t \in Threads
  PROVE  Tracked(t) \in ThreadInfo
  BY DEF ThreadInfo, Tracked

LEMMA LoopTyping ==
  ASSUME NEW info \in ThreadInfo, NEW loop \in BOOLEAN
  PROVE  [info EXCEPT !.loop = loop] \in ThreadInfo
  BY DEF ThreadInfo

(* Typing of a walker when its callback begins and when it ends. *)
LEMMA EnterTyping ==
  ASSUME NEW r \in Walk, NEW info \in ThreadInfo
  PROVE  [r EXCEPT !.pc = "sample", !.info = info] \in Walk
  BY DEF Walk

LEMMA UnwoundTyping ==
  ASSUME NEW r \in Walk
  PROVE  [r EXCEPT !.pc = "unwound"] \in Walk
  BY DEF Walk

LEMMA BaseTyping ==
  ASSUME NEW r \in Walk, NEW t
  PROVE  [r EXCEPT !.base = @ \ {t}] \in Walk
  BY DEF Walk

LEMMA ReleaseTyping ==
  ASSUME walk \in [Walkers -> Walk], NEW w \in Walkers, Release(w)
  PROVE  walk' \in [Walkers -> Walk]
<1>1. walk' = [walk EXCEPT ![w] = [walk[w] EXCEPT !.pc = "pop",
                                                   !.info = nullptr]]
  BY DEF Release
<1>2. [walk[w] EXCEPT !.pc = "pop", !.info = nullptr] \in Walk
  BY DEF Walk
<1> QED
  BY <1>1, <1>2

(* Every step keeps the state well typed. *)
LEMMA TypingStep ==
  ASSUME TypeOK, PinInv, [Next]_vars
  PROVE  TypeOK'
<1> USE SamplingAssumption DEF vars, program, session, greenlets, stacks,
    TypeOK
<1>1. ASSUME NEW t \in Threads, NEW i \in Ids, ThreadStart(t, i) PROVE TypeOK'
  BY <1>1 DEF ThreadStart, Alive
<1>2. ASSUME NEW t \in Threads, ThreadSetNativeId(t) PROVE TypeOK'
  <2>1. thread_info_map' \in [Ids -> ThreadInfo \cup {nullptr}]
    BY <1>2, TrackedTyping DEF ThreadSetNativeId, TrackThread
  <2> QED
    BY <1>2, <2>1 DEF ThreadSetNativeId, TrackThread, Tracked
<1>3. ASSUME NEW t \in Threads, ThreadReturns(t) PROVE TypeOK'
  BY <1>3 DEF ThreadReturns, MapUnlocked, UntrackThread
<1>4. ASSUME NEW t \in Threads, ThreadExit(t) PROVE TypeOK'
  <2>1. walk' \in [Walkers -> Walk]
    BY <1>4, BaseTyping DEF ThreadExit
  <2>2. next' \in [Threads -> Threads \cup {nullptr}]
    BY <1>4, <2>1 DEF ThreadExit
  <2>3. prev' \in [Threads -> Threads \cup {nullptr}]
    BY <1>4, <2>1, <2>2 DEF ThreadExit
  <2> QED
    BY <1>4, <2>1, <2>2, <2>3 DEF ThreadExit
<1>5. ASSUME NEW t \in Threads, TrackGreenlet(t) PROVE TypeOK'
  BY <1>5 DEF TrackGreenlet
<1>6. ASSUME NEW t \in Threads, UntrackGreenlet(t) PROVE TypeOK'
  BY <1>6 DEF UntrackGreenlet
<1>7. ASSUME NEW t \in Threads, NEW loop \in BOOLEAN, TrackAsyncioLoop(t, loop)
      PROVE  TypeOK'
  <2>1. thread_info_map[ident[t]] \in ThreadInfo
    BY <1>7 DEF TrackAsyncioLoop, PinInv, BornInv, Born
  <2>2. [thread_info_map[ident[t]] EXCEPT !.loop = loop] \in ThreadInfo
    BY <1>7, <2>1, LoopTyping
  <2>3. thread_info_map' = [thread_info_map EXCEPT ![ident[t]] =
                         [thread_info_map[ident[t]] EXCEPT !.loop = loop]]
    BY <1>7, <2>1, <2>2 DEF TrackAsyncioLoop
  <2>4. thread_info_map' \in [Ids -> ThreadInfo \cup {nullptr}]
    BY <1>7, <2>1, <2>2, <2>3
  <2> QED
    BY <1>7, <2>1, <2>2, <2>3, <2>4 DEF TrackAsyncioLoop
<1>8. ASSUME BootStart PROVE TypeOK'
  <2>1. thread_info_map' \in [Ids -> ThreadInfo \cup {nullptr}]
    BY <1>8, TrackedTyping DEF BootStart
  <2> QED
    BY <1>8, <2>1 DEF BootStart, Tracked
<1>9. ASSUME BootStop PROVE TypeOK'
  BY <1>9 DEF BootStop
<1>10. ASSUME ClearMaps PROVE TypeOK'
  BY <1>10 DEF ClearMaps
<1>11. ASSUME Unpatch PROVE TypeOK'
  BY <1>11 DEF Unpatch
<1>11a. ASSUME ListenerJoined PROVE TypeOK'
  BY <1>11a DEF ListenerJoined
<1>12. ASSUME NEW w \in Walkers, PassBegin(w) PROVE TypeOK'
  <2>1. walk' \in [Walkers -> Walk]
    <3>1. [IdleWalk EXCEPT !.pc = "pop", !.todo = {tstate_head}, !.base = Alive]
            \in Walk
      BY DEF IdleWalk, Alive, Walk
    <3>2. walk' = [walk EXCEPT ![w] = [IdleWalk EXCEPT !.pc = "pop",
                                 !.todo = {tstate_head}, !.base = Alive]]
      BY <1>12 DEF PassBegin
    <3> QED
      BY <3>1, <3>2
  <2>2. dumps' \in 0..MaxDumps
    BY <1>12, <2>1 DEF PassBegin
  <2> QED
    BY <1>12, <2>1, <2>2 DEF PassBegin, IdleWalk, Alive
<1>13. ASSUME NEW w \in Walkers, PassEnd(w) PROVE TypeOK'
  <2>1. walk' \in [Walkers -> Walk]
    BY <1>13 DEF PassEnd, IdleWalk, Walk
  <2> QED
    BY <1>13, <2>1 DEF PassEnd, IdleWalk
<1>14. ASSUME NEW w \in Walkers, NEW t \in Threads, PopCopied(w, t)
       PROVE  TypeOK'
  <2>1. walk' \in [Walkers -> Walk]
    BY <1>14 DEF PopCopied, Reached, Walk
  <2> QED
    BY <1>14, <2>1 DEF PopCopied, Reached
<1>15. ASSUME NEW w \in Walkers, NEW t \in Threads, PopFailed(w, t)
       PROVE  TypeOK'
  <2>1. walk' \in [Walkers -> Walk]
    BY <1>15 DEF PopFailed, Walk
  <2> QED
    BY <1>15, <2>1 DEF PopFailed
<1>16. ASSUME NEW w \in Walkers, Enter(w) PROVE TypeOK'
  <2>1. Entry(w) \in ThreadInfo
    BY <1>16 DEF Enter, PinInv, BornInv, Born, Entry
  <2>2. walk' = [walk EXCEPT ![w] = [walk[w] EXCEPT !.pc = "sample",
                                                     !.info = Entry(w)]]
    BY <1>16, <2>1 DEF Enter
  <2>3. walk' \in [Walkers -> Walk]
    BY <1>16, <2>1, <2>2, EnterTyping
  <2> QED
    BY <1>16, <2>1, <2>2, <2>3 DEF Enter, GuardFree
<1>17. ASSUME NEW w \in Walkers, Adopt(w) PROVE TypeOK'
  <2>1. walk[w].cur \in Threads
    BY <1>17 DEF Adopt, PinInv, BornInv, Born
  <2>2. [owner |-> walk[w].cur, main |-> TRUE, loop |-> FALSE] \in ThreadInfo
    BY <1>17, <2>1 DEF ThreadInfo
  <2>3. thread_info_map' \in [Ids -> ThreadInfo \cup {nullptr}]
    BY <1>17, <2>1, <2>2 DEF Adopt
  <2>4. walk' = [walk EXCEPT ![w] =
                 [walk[w] EXCEPT !.pc = "sample", !.info =
                    [owner |-> walk[w].cur, main |-> TRUE, loop |-> FALSE]]]
    BY <1>17, <2>1, <2>2, <2>3 DEF Adopt
  <2>5. walk' \in [Walkers -> Walk]
    BY <1>17, <2>1, <2>2, <2>3, <2>4, EnterTyping
  <2> QED
    BY <1>17, <2>1, <2>2, <2>3, <2>4, <2>5 DEF Adopt, GuardFree
<1>18. ASSUME NEW w \in Walkers, SkipUnknown(w) PROVE TypeOK'
  <2>1. walk' \in [Walkers -> Walk]
    BY <1>18 DEF SkipUnknown, Goto, Walk
  <2> QED
    BY <1>18, <2>1 DEF SkipUnknown, Goto, GuardFree
<1>19. ASSUME NEW w \in Walkers, SampleIdle(w) PROVE TypeOK'
  <2>1. walk' \in [Walkers -> Walk]
    BY <1>19, ReleaseTyping DEF SampleIdle
  <2> QED
    BY <1>19, <2>1 DEF SampleIdle, Release
<1>20. ASSUME NEW w \in Walkers, NEW tasks \in BOOLEAN, Unwind(w, tasks)
       PROVE  TypeOK'
  <2>1. walk' = [walk EXCEPT ![w].pc = "unwound"]
    BY <1>20 DEF Unwind, UnwindTasks, UnwindGreenlets, Goto
  <2>2. [walk[w] EXCEPT !.pc = "unwound"] \in Walk
    BY UnwoundTyping
  <2>3. walk' \in [Walkers -> Walk]
    BY <1>20, <2>1, <2>2
  <2>4. walk[w].cur \in Threads /\ walk[w].info.owner \in Threads
    BY <1>20, <2>1, <2>2, <2>3 DEF Unwind, UnwindTasks, UnwindGreenlets,
       PinInv, BornInv, LockInv, Born,
       InCallback, ThreadInfo
  <2> QED
    BY <1>20, <2>1, <2>2, <2>3, <2>4 DEF Unwind, UnwindTasks,
       UnwindGreenlets, Goto
<1>21. ASSUME NEW w \in Walkers, RenderTasks(w) PROVE TypeOK'
  <2>1. walk' \in [Walkers -> Walk]
    BY <1>21, ReleaseTyping DEF RenderTasks
  <2>2. walk[w].cur \in Threads /\ walk[w].info.owner \in Threads
    BY <1>21, <2>1 DEF RenderTasks, PinInv, BornInv, LockInv, Born,
       InCallback, ThreadInfo
  <2>3. emitted' \in [by : Walkers, of : Threads, label : Threads,
                      stacks : SUBSET Threads] \cup {nullptr}
    BY <1>21, <2>1, <2>2 DEF RenderTasks, Emit
  <2> QED
    BY <1>21, <2>1, <2>2, <2>3 DEF RenderTasks, RenderedTasks, Release, Emit
<1>22. ASSUME NEW w \in Walkers, RenderGreenlets(w) PROVE TypeOK'
  <2>1. walk' \in [Walkers -> Walk]
    BY <1>22, ReleaseTyping DEF RenderGreenlets
  <2>2. walk[w].cur \in Threads /\ walk[w].info.owner \in Threads
    BY <1>22, <2>1 DEF RenderGreenlets, PinInv, BornInv, LockInv, Born,
       InCallback, ThreadInfo
  <2>3. emitted' \in [by : Walkers, of : Threads, label : Threads,
                      stacks : SUBSET Threads] \cup {nullptr}
    BY <1>22, <2>1, <2>2 DEF RenderGreenlets, Emit
  <2> QED
    BY <1>22, <2>1, <2>2, <2>3 DEF RenderGreenlets, RenderedGreenlets,
       Release, Emit
<1>23. ASSUME NEW w \in Walkers, RenderFails(w) PROVE TypeOK'
  <2>1. walk' \in [Walkers -> Walk]
    BY <1>23, ReleaseTyping DEF RenderFails
  <2>2. walk[w].cur \in Threads /\ walk[w].info.owner \in Threads
    BY <1>23, <2>1 DEF RenderFails, PinInv, BornInv, LockInv, Born,
       InCallback, ThreadInfo
  <2>3. emitted' \in [by : Walkers, of : Threads, label : Threads,
                      stacks : SUBSET Threads] \cup {nullptr}
    BY <1>23, <2>1, <2>2 DEF RenderFails, Emit
  <2> QED
    BY <1>23, <2>1, <2>2, <2>3 DEF RenderFails, Release, Emit
<1>24. ASSUME NEW w \in Walkers, RenderThread(w) PROVE TypeOK'
  <2>1. walk' \in [Walkers -> Walk]
    BY <1>24, ReleaseTyping DEF RenderThread
  <2>2. walk[w].cur \in Threads /\ walk[w].info.owner \in Threads
    BY <1>24, <2>1 DEF RenderThread, PinInv, BornInv, LockInv, Born,
       InCallback, ThreadInfo
  <2>3. python_stack \in Threads
    BY <1>24, <2>1, <2>2 DEF RenderThread, PinInv, LockInv, InCallback
  <2>4. emitted' \in [by : Walkers, of : Threads, label : Threads,
                      stacks : SUBSET Threads] \cup {nullptr}
    BY <1>24, <2>1, <2>2, <2>3 DEF RenderThread, Emit
  <2> QED
    BY <1>24, <2>1, <2>2, <2>3, <2>4 DEF RenderThread, Release, Emit
<1>25. ASSUME NEW w \in Walkers, RenderWhere(w) PROVE TypeOK'
  <2>1. walk' \in [Walkers -> Walk]
    BY <1>25, ReleaseTyping DEF RenderWhere
  <2>2. walk[w].cur \in Threads /\ walk[w].info.owner \in Threads
    BY <1>25, <2>1 DEF RenderWhere, PinInv, BornInv, LockInv, Born,
       InCallback, ThreadInfo
  <2>3. python_stack \in Threads
    BY <1>25, <2>1, <2>2 DEF RenderWhere, PinInv, LockInv, InCallback
  <2>4. emitted' \in [by : Walkers, of : Threads, label : Threads,
                      stacks : SUBSET Threads] \cup {nullptr}
    BY <1>25, <2>1, <2>2, <2>3 DEF RenderWhere, Emit
  <2> QED
    BY <1>25, <2>1, <2>2, <2>3, <2>4 DEF RenderWhere, Release, Emit
<1>26. CASE UNCHANGED vars
  BY <1>26
<1> QED
  BY <1>1, <1>2, <1>3, <1>4, <1>5, <1>6, <1>7, <1>8, <1>9, <1>10, <1>11,
     <1>11a,
     <1>12, <1>13, <1>14, <1>15, <1>16, <1>17, <1>18, <1>19, <1>20,
     <1>21, <1>22, <1>23, <1>24, <1>25, <1>26
  DEF Next, ProgramStep, WalkStep

(* Walkers only meet thread states that have been created. *)
LEMMA BornStep ==
  ASSUME TypeOK, BornInv, [Next]_vars
  PROVE  BornInv'
<1> USE SamplingAssumption DEF vars, program, session, greenlets, stacks,
    TypeOK, Walk, BornInv, Born
<1>1. ASSUME NEW t \in Threads, NEW i \in Ids, ThreadStart(t, i) PROVE BornInv'
  BY <1>1 DEF ThreadStart, Alive
<1>2. ASSUME NEW t \in Threads, ThreadSetNativeId(t) PROVE BornInv'
  BY <1>2 DEF ThreadSetNativeId, TrackThread, Tracked
<1>3. ASSUME NEW t \in Threads, ThreadReturns(t) PROVE BornInv'
  BY <1>3 DEF ThreadReturns, MapUnlocked, UntrackThread
<1>4. ASSUME NEW t \in Threads, ThreadExit(t) PROVE BornInv'
  <2> HIDE DEF Born, BornInv
  <2>1. Born' = Born
    BY <1>4 DEF ThreadExit, Born
  <2>2. \A u \in Born : ident'[u] \in Ids
    BY <1>4 DEF ThreadExit, BornInv
  <2>3. tstate_head' \in Born \cup {nullptr}
    BY <1>4 DEF ThreadExit, BornInv
  <2>4. \A u \in Threads : {next'[u], prev'[u]} \subseteq Born \cup {nullptr}
    BY <1>4 DEF ThreadExit, BornInv
  <2>5. \A v \in Walkers :
          /\ walk'[v].todo = walk[v].todo
          /\ walk'[v].pc = walk[v].pc
          /\ walk'[v].cur = walk[v].cur
    BY <1>4 DEF ThreadExit, Walk
  <2> QED
    BY <2>1, <2>2, <2>3, <2>4, <2>5 DEF BornInv
<1>5. ASSUME NEW t \in Threads, TrackGreenlet(t) PROVE BornInv'
  BY <1>5 DEF TrackGreenlet
<1>6. ASSUME NEW t \in Threads, UntrackGreenlet(t) PROVE BornInv'
  BY <1>6 DEF UntrackGreenlet
<1>7. ASSUME NEW t \in Threads, NEW loop \in BOOLEAN, TrackAsyncioLoop(t, loop)
      PROVE  BornInv'
  BY <1>7 DEF TrackAsyncioLoop
<1>8. ASSUME BootStart PROVE BornInv'
  BY <1>8 DEF BootStart, Tracked
<1>9. ASSUME BootStop PROVE BornInv'
  BY <1>9 DEF BootStop
<1>10. ASSUME ClearMaps PROVE BornInv'
  BY <1>10 DEF ClearMaps
<1>11. ASSUME Unpatch PROVE BornInv'
  BY <1>11 DEF Unpatch
<1>11a. ASSUME ListenerJoined PROVE BornInv'
  BY <1>11a DEF ListenerJoined
<1>12. ASSUME NEW w \in Walkers, PassBegin(w) PROVE BornInv'
  BY <1>12 DEF PassBegin, IdleWalk, Alive
<1>13. ASSUME NEW w \in Walkers, PassEnd(w) PROVE BornInv'
  BY <1>13 DEF PassEnd, IdleWalk
<1>14. ASSUME NEW w \in Walkers, NEW t \in Threads, PopCopied(w, t)
       PROVE  BornInv'
  BY <1>14 DEF PopCopied, Reached
<1>15. ASSUME NEW w \in Walkers, NEW t \in Threads, PopFailed(w, t)
       PROVE  BornInv'
  BY <1>15 DEF PopFailed
<1>16. ASSUME NEW w \in Walkers, Enter(w) PROVE BornInv'
  BY <1>16 DEF Enter, GuardFree
<1>17. ASSUME NEW w \in Walkers, Adopt(w) PROVE BornInv'
  BY <1>17 DEF Adopt, GuardFree
<1>18. ASSUME NEW w \in Walkers, SkipUnknown(w) PROVE BornInv'
  BY <1>18 DEF SkipUnknown, Goto, GuardFree
<1>19. ASSUME NEW w \in Walkers, SampleIdle(w) PROVE BornInv'
  BY <1>19 DEF SampleIdle, Release
<1>20. ASSUME NEW w \in Walkers, NEW tasks \in BOOLEAN, Unwind(w, tasks)
       PROVE  BornInv'
  BY <1>20 DEF Unwind, UnwindTasks, UnwindGreenlets, Goto
<1>21. ASSUME NEW w \in Walkers, RenderTasks(w) PROVE BornInv'
  BY <1>21 DEF RenderTasks, RenderedTasks, Release, Emit
<1>22. ASSUME NEW w \in Walkers, RenderGreenlets(w) PROVE BornInv'
  BY <1>22 DEF RenderGreenlets, RenderedGreenlets, Release, Emit
<1>23. ASSUME NEW w \in Walkers, RenderFails(w) PROVE BornInv'
  BY <1>23 DEF RenderFails, Release, Emit
<1>24. ASSUME NEW w \in Walkers, RenderThread(w) PROVE BornInv'
  BY <1>24 DEF RenderThread, Release, Emit
<1>25. ASSUME NEW w \in Walkers, RenderWhere(w) PROVE BornInv'
  BY <1>25 DEF RenderWhere, Release, Emit
<1>26. CASE UNCHANGED vars
  BY <1>26
<1> QED
  BY <1>1, <1>2, <1>3, <1>4, <1>5, <1>6, <1>7, <1>8, <1>9, <1>10, <1>11,
     <1>11a,
     <1>12, <1>13, <1>14, <1>15, <1>16, <1>17, <1>18, <1>19, <1>20,
     <1>21, <1>22, <1>23, <1>24, <1>25, <1>26
  DEF Next, ProgramStep, WalkStep

(* A callback keeps the lock and its ThreadInfo. *)
LEMMA LockStep ==
  ASSUME TypeOK, PinInv, [Next]_vars
  PROVE  LockInv'
<1> USE SamplingAssumption DEF vars, program, session, greenlets, stacks,
    TypeOK, ThreadInfo, Walk, PinInv, BornInv, LockInv, InCallback,
    Entry, Born
<1>1. ASSUME NEW t \in Threads, NEW i \in Ids, ThreadStart(t, i) PROVE LockInv'
  BY <1>1 DEF ThreadStart, Alive
<1>2. ASSUME NEW t \in Threads, ThreadSetNativeId(t) PROVE LockInv'
  <2>1. /\ walk' = walk /\ map_lock' = map_lock /\ ident' = ident
        /\ python_stack' = python_stack
    BY <1>2 DEF ThreadSetNativeId
  <2>2. CASE map_lock = nullptr
    <3>1. \A w \in Walkers : ~InCallback(w)
      BY <2>2
    <3> QED
      BY <2>1, <3>1
  <2>3. CASE thread_info_map' = thread_info_map
    BY <2>1, <2>3
  <2> QED
    BY <1>2, <2>2, <2>3 DEF ThreadSetNativeId
<1>3. ASSUME NEW t \in Threads, ThreadReturns(t) PROVE LockInv'
  BY <1>3 DEF ThreadReturns, MapUnlocked, UntrackThread
<1>4. ASSUME NEW t \in Threads, ThreadExit(t) PROVE LockInv'
  <2>1. \A w \in Walkers : /\ walk'[w].pc = walk[w].pc
                           /\ walk'[w].info = walk[w].info
                           /\ walk'[w].cur = walk[w].cur
    BY <1>4 DEF ThreadExit, Walk
  <2>2. UNCHANGED <<ident, thread_info_map, map_lock, python_stack>>
    BY <1>4 DEF ThreadExit
  <2> QED
    BY <2>1, <2>2
<1>5. ASSUME NEW t \in Threads, TrackGreenlet(t) PROVE LockInv'
  BY <1>5 DEF TrackGreenlet
<1>6. ASSUME NEW t \in Threads, UntrackGreenlet(t) PROVE LockInv'
  BY <1>6 DEF UntrackGreenlet
<1>7. ASSUME NEW t \in Threads, NEW loop \in BOOLEAN, TrackAsyncioLoop(t, loop)
      PROVE  LockInv'
  BY <1>7 DEF TrackAsyncioLoop
<1>8. ASSUME BootStart PROVE LockInv'
  BY <1>8 DEF BootStart, Tracked
<1>9. ASSUME BootStop PROVE LockInv'
  BY <1>9 DEF BootStop
<1>10. ASSUME ClearMaps PROVE LockInv'
  BY <1>10 DEF ClearMaps
<1>11. ASSUME Unpatch PROVE LockInv'
  BY <1>11 DEF Unpatch
<1>11a. ASSUME ListenerJoined PROVE LockInv'
  BY <1>11a DEF ListenerJoined
<1>12. ASSUME NEW w \in Walkers, PassBegin(w) PROVE LockInv'
  BY <1>12 DEF PassBegin, IdleWalk, Alive
<1>13. ASSUME NEW w \in Walkers, PassEnd(w) PROVE LockInv'
  <2>1. \A v \in Walkers :
          walk'[v].pc \in {"sample", "unwound"} => v # w /\ walk'[v] = walk[v]
    BY <1>13 DEF PassEnd, IdleWalk
  <2> QED
    BY <1>13, <2>1 DEF PassEnd
<1>14. ASSUME NEW w \in Walkers, NEW t \in Threads, PopCopied(w, t)
       PROVE  LockInv'
  BY <1>14 DEF PopCopied, Reached
<1>15. ASSUME NEW w \in Walkers, NEW t \in Threads, PopFailed(w, t)
       PROVE  LockInv'
  BY <1>15 DEF PopFailed
<1>16. ASSUME NEW w \in Walkers, Enter(w) PROVE LockInv'
  BY <1>16 DEF Enter, GuardFree
<1>17. ASSUME NEW w \in Walkers, Adopt(w) PROVE LockInv'
  BY <1>17 DEF Adopt, GuardFree
<1>18. ASSUME NEW w \in Walkers, SkipUnknown(w) PROVE LockInv'
  BY <1>18 DEF SkipUnknown, Goto, GuardFree
<1>19. ASSUME NEW w \in Walkers, SampleIdle(w) PROVE LockInv'
  BY <1>19 DEF SampleIdle, Release
<1>20. ASSUME NEW w \in Walkers, NEW tasks \in BOOLEAN, Unwind(w, tasks)
       PROVE  LockInv'
  BY <1>20 DEF Unwind, UnwindTasks, UnwindGreenlets, Goto
<1>21. ASSUME NEW w \in Walkers, RenderTasks(w) PROVE LockInv'
  BY <1>21 DEF RenderTasks, RenderedTasks, Release, Emit
<1>22. ASSUME NEW w \in Walkers, RenderGreenlets(w) PROVE LockInv'
  BY <1>22 DEF RenderGreenlets, RenderedGreenlets, Release, Emit
<1>23. ASSUME NEW w \in Walkers, RenderFails(w) PROVE LockInv'
  BY <1>23 DEF RenderFails, Release, Emit
<1>24. ASSUME NEW w \in Walkers, RenderThread(w) PROVE LockInv'
  BY <1>24 DEF RenderThread, Release, Emit
<1>25. ASSUME NEW w \in Walkers, RenderWhere(w) PROVE LockInv'
  BY <1>25 DEF RenderWhere, Release, Emit
<1>26. CASE UNCHANGED vars
  BY <1>26
<1> QED
  BY <1>1, <1>2, <1>3, <1>4, <1>5, <1>6, <1>7, <1>8, <1>9, <1>10, <1>11,
     <1>11a,
     <1>12, <1>13, <1>14, <1>15, <1>16, <1>17, <1>18, <1>19, <1>20,
     <1>21, <1>22, <1>23, <1>24, <1>25, <1>26
  DEF Next, ProgramStep, WalkStep

(* The inductive invariant: typing, created thread states, the lock. *)
THEOREM Pinned == Spec => [](TypeOK /\ PinInv)
<1>1. Init => TypeOK /\ PinInv
  <2> SUFFICES ASSUME Init PROVE TypeOK /\ PinInv
    OBVIOUS
  <2>1. IdleWalk \in Walk
    BY DEF IdleWalk, Walk
  <2>2. walk \in [Walkers -> Walk]
    BY <2>1 DEF Init
  <2>3. sessions \in 0..MaxSessions /\ dumps \in 0..MaxDumps
    BY SamplingAssumption DEF Init
  <2>4. status \in [Threads -> {"absent", "started", "running", "ending",
                                "exited"}]
    BY DEF Init
  <2>5. ident \in [Threads -> Ids \cup {nullptr}]
    BY DEF Init
  <2>6. /\ next \in [Threads -> Threads \cup {nullptr}]
        /\ prev \in [Threads -> Threads \cup {nullptr}]
        /\ thread_info_map \in [Ids -> ThreadInfo \cup {nullptr}]
    BY DEF Init
  <2>7. TypeOK
    BY <2>2, <2>3, <2>4, <2>5, <2>6, SamplingAssumption, Zenon DEF Init, TypeOK
  <2>8. BornInv
    BY SamplingAssumption DEF Init, BornInv, Born, IdleWalk
  <2>9. LockInv
    BY DEF Init, LockInv, InCallback, IdleWalk
  <2> QED
    BY <2>7, <2>8, <2>9 DEF PinInv
<1>2. TypeOK /\ PinInv /\ [Next]_vars => (TypeOK /\ PinInv)'
  BY TypingStep, BornStep, LockStep DEF PinInv
<1> QED
  BY <1>1, <1>2, PTL DEF Spec

(* The sampler's view of the program is well typed. *)
THEOREM Typing == Spec => []TypeOK
  BY Pinned, PTL

(* The ThreadInfo& that sample or do_where works on is neither erased nor  *)
(* replaced during the callback, however many threads start, end and reuse *)
(* ids, and however sessions and dumps overlap.                            *)
THEOREM InfoStaysPinned == Spec => []InfoPinned
<1>1. PinInv => InfoPinned
  BY DEF PinInv, LockInv, InfoPinned
<1> QED
  BY <1>1, Pinned, PTL

(* The sampler and the listener never use the accumulators together. *)
THEOREM CallbacksExclude == Spec => []CallbacksExclusive
<1>1. PinInv => CallbacksExclusive
  BY DEF PinInv, LockInv, CallbacksExclusive
<1> QED
  BY <1>1, Pinned, PTL
(* Why entries and labels are right: without threads that    *)
(* start unseen, and without dumps that outlive the sampler's map, a       *)
(* thread is in the map only while it runs, and the main thread is there   *)
(* as long as anybody walks.                                               *)
LabelInv ==
  /\ status[MainThread] = "running"
  /\ \A t \in Alive \ {MainThread} : t \in hooked
  /\ \A t, u \in Alive : ident[t] = ident[u] => t = u
  /\ \A i \in Ids :
       thread_info_map[i] # nullptr =>
         /\ status[thread_info_map[i].owner] = "running"
         /\ ident[thread_info_map[i].owner] = i
  /\ phase \in {"on", "stopping"} =>
       LET e == thread_info_map[ident[MainThread]] IN e # nullptr /\ e.main
  /\ \A w \in Walkers : walk[w].pc # "idle" => phase \in {"on", "stopping"}

LEMMA NullIsNoInfo == nullptr \notin ThreadInfo
  BY SamplingAssumption DEF ThreadInfo

LEMMA LabelStep ==
  ASSUME EarlyThreads = {}, Walkers \subseteq {"sampler"},
         TypeOK, PinInv, LabelInv, [Next]_vars
  PROVE  LabelInv'
<1> USE SamplingAssumption DEF TypeOK, PinInv, LabelInv, program, session, greenlets, stacks
<1>1. ASSUME NEW t \in Threads, NEW i \in Ids, ThreadStart(t, i) PROVE LabelInv'
  BY <1>1 DEF ThreadStart, Alive
<1>2. ASSUME NEW t \in Threads, ThreadSetNativeId(t) PROVE LabelInv'
  <2>1. CASE patched
    <3>1. thread_info_map' = [thread_info_map EXCEPT ![ident[t]] = Tracked(t)]
      BY <1>2, <2>1 DEF ThreadSetNativeId, TrackThread
    <3>2. Tracked(t) # nullptr /\ Tracked(t).owner = t
      BY TrackedTyping, NullIsNoInfo DEF Tracked
    <3>3. t # MainThread /\ t \in Alive /\ MainThread \in Alive /\ ident[t] \in Ids
      BY <1>2, SamplingAssumption DEF ThreadSetNativeId, Alive, BornInv, Born
    <3> QED
      BY <1>2, <3>1, <3>2, <3>3 DEF ThreadSetNativeId, Alive
  <2>2. CASE ~patched
    BY <1>2, <2>2 DEF ThreadSetNativeId, Alive
  <2> QED
    BY <2>1, <2>2
<1>3. ASSUME NEW t \in Threads, ThreadReturns(t) PROVE LabelInv'
  <2>1. t # MainThread /\ t \in Alive /\ MainThread \in Alive /\ t \in hooked
        /\ ident[t] \in Ids
    BY <1>3, SamplingAssumption DEF ThreadReturns, Alive, BornInv, Born
  <2>2. thread_info_map' = [thread_info_map EXCEPT ![ident[t]] = nullptr]
    BY <1>3, <2>1 DEF ThreadReturns, UntrackThread
  <2>3. ident[t] # ident[MainThread]
    BY <2>1
  <2> QED
    BY <1>3, <2>1, <2>2, <2>3 DEF ThreadReturns, Alive
<1>4. ASSUME NEW t \in Threads, ThreadExit(t) PROVE LabelInv'
  <2>1. t # MainThread /\ status' = [status EXCEPT ![t] = "exited"]
        /\ UNCHANGED <<ident, hooked, thread_info_map, phase>>
    BY <1>4 DEF ThreadExit
  <2>2. \A w \in Walkers : walk'[w].pc = walk[w].pc
    BY <1>4 DEF ThreadExit, Walk
  <2>3. status[t] # "running"
    BY <1>4 DEF ThreadExit
  <2> QED
    BY <2>1, <2>2, <2>3, SamplingAssumption DEF Alive
<1>5. ASSUME NEW t \in Threads, TrackGreenlet(t) PROVE LabelInv'
  BY <1>5 DEF TrackGreenlet, Alive
<1>6. ASSUME NEW t \in Threads, UntrackGreenlet(t) PROVE LabelInv'
  BY <1>6 DEF UntrackGreenlet, Alive
<1>7. ASSUME NEW t \in Threads, NEW loop \in BOOLEAN, TrackAsyncioLoop(t, loop) PROVE LabelInv'
  <2>1. thread_info_map[ident[t]] \in ThreadInfo /\ ident[t] \in Ids
    BY <1>7 DEF TrackAsyncioLoop, BornInv, Born
  <2> DEFINE info == [thread_info_map[ident[t]] EXCEPT !.loop = loop]
  <2>2. /\ info # nullptr /\ info.owner = thread_info_map[ident[t]].owner
        /\ info.main = thread_info_map[ident[t]].main
    BY <2>1, LoopTyping, NullIsNoInfo DEF ThreadInfo
  <2>3. thread_info_map' = [thread_info_map EXCEPT ![ident[t]] = info]
    BY <1>7 DEF TrackAsyncioLoop
  <2> HIDE DEF info
  <2>4. UNCHANGED <<status, ident, hooked, phase, walk>>
    BY <1>7 DEF TrackAsyncioLoop
  <2> QED
    BY <1>7, <2>1, <2>2, <2>3, <2>4 DEF TrackAsyncioLoop, Alive
<1>8. ASSUME BootStart PROVE LabelInv'
  <2>1. ASSUME NEW i \in Ids, \E t \in Threads : status[t] = "running" /\ ident[t] = i
        PROVE  \E t \in Threads : /\ status[t] = "running" /\ ident[t] = i
                                  /\ thread_info_map'[i] = Tracked(t)
    <3> DEFINE c == CHOOSE t \in Threads : status[t] = "running" /\ ident[t] = i
    <3>1. c \in Threads /\ status[c] = "running" /\ ident[c] = i
      BY <2>1
    <3>2. thread_info_map'[i] = Tracked(c)
      BY <1>8, <2>1, SMTT(30) DEF BootStart
    <3> QED
      BY <3>1, <3>2
  <2>2. ASSUME NEW i \in Ids, ~\E t \in Threads : status[t] = "running" /\ ident[t] = i
        PROVE  thread_info_map'[i] = thread_info_map[i]
    BY <1>8, <2>2, SMTT(30) DEF BootStart
  <2>3. UNCHANGED <<status, ident, hooked, walk>> /\ phase = "off" /\ phase' = "on"
    BY <1>8 DEF BootStart
  <2>4. \A t \in Threads : Tracked(t) # nullptr /\ Tracked(t).owner = t
                            /\ (Tracked(t).main <=> t = MainThread)
    <3>1. \A t \in Threads : Tracked(t) # nullptr
      BY TrackedTyping, NullIsNoInfo
    <3>2. \A t \in Threads : /\ Tracked(t).owner = t
                             /\ (Tracked(t).main <=> t = MainThread)
      BY DEF Tracked
    <3> QED
      BY <3>1, <3>2
  <2>5. ASSUME NEW i \in Ids, thread_info_map'[i] # nullptr
        PROVE  /\ status[thread_info_map'[i].owner] = "running"
               /\ ident[thread_info_map'[i].owner] = i
    BY <2>1, <2>2, <2>4, <2>5
  <2>6. LET e == thread_info_map'[ident[MainThread]] IN e # nullptr /\ e.main
    <3>1. MainThread \in Alive /\ ident[MainThread] \in Ids
      BY SamplingAssumption DEF Alive, BornInv, Born
    <3>2. PICK t \in Threads : /\ status[t] = "running"
                               /\ ident[t] = ident[MainThread]
                               /\ thread_info_map'[ident[MainThread]] = Tracked(t)
      BY <2>1, <3>1, SamplingAssumption
    <3>3. t = MainThread
      BY <3>1, <3>2 DEF Alive
    <3> QED
      BY <2>4, <3>2, <3>3
  <2> QED
    BY <2>3, <2>5, <2>6 DEF Alive
<1>9. ASSUME BootStop PROVE LabelInv'
  BY <1>9 DEF BootStop, Alive
<1>10. ASSUME ClearMaps PROVE LabelInv'
  BY <1>10 DEF ClearMaps, Alive
<1>11. ASSUME ListenerJoined PROVE LabelInv'
  BY <1>11 DEF ListenerJoined, Alive
<1>12. ASSUME Unpatch PROVE LabelInv'
  BY <1>12 DEF Unpatch, Alive
<1>13. ASSUME NEW w \in Walkers, PassBegin(w) PROVE LabelInv'
  BY <1>13 DEF PassBegin, Alive
<1>14. ASSUME NEW w \in Walkers, PassEnd(w) PROVE LabelInv'
  BY <1>14 DEF PassEnd, Alive, IdleWalk
<1>15. ASSUME NEW w \in Walkers, NEW t \in Threads, PopCopied(w, t) PROVE LabelInv'
  BY <1>15 DEF PopCopied, Alive
<1>16. ASSUME NEW w \in Walkers, NEW t \in Threads, PopFailed(w, t) PROVE LabelInv'
  BY <1>16 DEF PopFailed, Alive
<1>17. ASSUME NEW w \in Walkers, Enter(w) PROVE LabelInv'
  BY <1>17 DEF Enter, Alive
<1>18. ASSUME NEW w \in Walkers, Adopt(w) PROVE LabelInv'
  <2>1. phase \in {"on", "stopping"}
    BY <1>18 DEF Adopt
  <2>2. MainThreadTracked
    BY <2>1, SamplingAssumption DEF MainThreadTracked, BornInv, Born
  <2> QED
    BY <1>18, <2>2 DEF Adopt
<1>19. ASSUME NEW w \in Walkers, SkipUnknown(w) PROVE LabelInv'
  BY <1>19 DEF SkipUnknown, Alive, Goto
<1>20. ASSUME NEW w \in Walkers, SampleIdle(w) PROVE LabelInv'
  BY <1>20 DEF SampleIdle, Alive, Release
<1>21. ASSUME NEW w \in Walkers, NEW tasks \in BOOLEAN, Unwind(w, tasks) PROVE LabelInv'
  BY <1>21 DEF Unwind, Alive, Goto
<1>22. ASSUME NEW w \in Walkers, RenderTasks(w) PROVE LabelInv'
  BY <1>22 DEF RenderTasks, Alive, Release
<1>23. ASSUME NEW w \in Walkers, RenderGreenlets(w) PROVE LabelInv'
  BY <1>23 DEF RenderGreenlets, Alive, Release
<1>24. ASSUME NEW w \in Walkers, RenderFails(w) PROVE LabelInv'
  BY <1>24 DEF RenderFails, Alive, Release
<1>25. ASSUME NEW w \in Walkers, RenderThread(w) PROVE LabelInv'
  BY <1>25 DEF RenderThread, Alive, Release
<1>26. ASSUME NEW w \in Walkers, RenderWhere(w) PROVE LabelInv'
  BY <1>26 DEF RenderWhere, Alive, Release
<1>27. CASE UNCHANGED vars
  BY <1>27 DEF vars, Alive
<1> QED
  BY <1>1, <1>2, <1>3, <1>4, <1>5, <1>6, <1>7, <1>8, <1>9, <1>10,
     <1>11, <1>12, <1>13, <1>14, <1>15, <1>16, <1>17, <1>18, <1>19,
     <1>20, <1>21, <1>22, <1>23, <1>24, <1>25, <1>26, <1>27
     DEF Next, ProgramStep, WalkStep

THEOREM Labelled ==
  ASSUME EarlyThreads = {}, Walkers \subseteq {"sampler"}
  PROVE  Spec => []LabelInv
<1>1. Init => LabelInv
  BY SamplingAssumption DEF Init, LabelInv, Alive, IdleWalk
<1>2. TypeOK /\ PinInv /\ LabelInv /\ [Next]_vars => LabelInv'
  BY LabelStep
<1> QED
  BY <1>1, <1>2, Pinned, PTL DEF Spec

(* "Untrack a terminated thread": when every thread has started under the  *)
(* hooks, and the sampler is alone, no entry survives its thread, across   *)
(* any number of sessions.                                                 *)
THEOREM NoEntryIsStale ==
  ASSUME EarlyThreads = {}, Walkers \subseteq {"sampler"}
  PROVE  Spec => []NoStaleEntry
<1>1. LabelInv => NoStaleEntry
  BY DEF LabelInv, NoStaleEntry
<1> QED
  BY <1>1, Labelled, PTL

(* ... and a thread that is still there is sampled under its own name,     *)
(* however often ids are used again.                                       *)
THEOREM LabelsAreOwn ==
  ASSUME EarlyThreads = {}, Walkers \subseteq {"sampler"}
  PROVE  Spec => []OwnLabel
<1>1. TypeOK /\ PinInv /\ LabelInv => OwnLabel
  <2> SUFFICES ASSUME TypeOK, PinInv, LabelInv, NEW w \in Walkers, InCallback(w),
                      status[walk[w].cur] # "exited"
               PROVE  walk[w].info.owner = walk[w].cur
    BY DEF OwnLabel
  <2> DEFINE c == walk[w].cur
             o == walk[w].info.owner
  <2>1. c \in Alive /\ ident[c] \in Ids
    BY DEF PinInv, BornInv, Born, InCallback, Alive
  <2>2. walk[w].info = thread_info_map[ident[c]] /\ walk[w].info \in ThreadInfo
    BY DEF PinInv, LockInv, Entry
  <2>3. walk[w].info # nullptr /\ o \in Threads
    BY <2>2, NullIsNoInfo DEF ThreadInfo
  <2>4. status[o] = "running" /\ ident[o] = ident[c]
    BY <2>1, <2>2, <2>3 DEF LabelInv
  <2>5. o \in Alive
    BY <2>3, <2>4 DEF Alive
  <2> QED
    BY <2>1, <2>4, <2>5 DEF LabelInv
<1> QED
  BY <1>1, Pinned, Labelled, PTL
(* Whose stacks a sample shows: without dumps and           *)
(* greenlets, the tasks that wait to be rendered are those of the thread   *)
(* in the callback, they all have names, and there are none between two    *)
(* samples.                                                                *)
QueueInv ==
  /\ greenlet_info_map = {} /\ current_greenlets = {}
  /\ current_tasks # {} =>
       \E w \in Walkers : /\ walk[w].pc = "unwound"
                          /\ current_tasks = {walk[w].info.owner}
  /\ current_tasks \subseteq Named("task")
  /\ StacksOfThread

LEMMA QueueStep ==
  ASSUME GreenletThreads = {}, Walkers \subseteq {"sampler"},
         TypeOK, PinInv, QueueInv, [Next]_vars
  PROVE  QueueInv'
<1> USE SamplingAssumption DEF TypeOK, QueueInv, StacksOfThread, program, session, greenlets, stacks
<1>1. ASSUME NEW t \in Threads, NEW i \in Ids, ThreadStart(t, i) PROVE QueueInv'
  <2>1. \A w \in Walkers : walk'[w].pc = walk[w].pc /\ walk'[w].info = walk[w].info
    BY <1>1 DEF ThreadStart, Walk
  <2>2. UNCHANGED <<greenlets, stacks, emitted>>
    BY <1>1 DEF ThreadStart
  <2> QED
    BY <2>1, <2>2 DEF Named
<1>2. ASSUME NEW t \in Threads, ThreadSetNativeId(t) PROVE QueueInv'
  BY <1>2 DEF ThreadSetNativeId, Named
<1>3. ASSUME NEW t \in Threads, ThreadReturns(t) PROVE QueueInv'
  BY <1>3 DEF ThreadReturns, Named
<1>4. ASSUME NEW t \in Threads, ThreadExit(t) PROVE QueueInv'
  <2>1. \A w \in Walkers : walk'[w].pc = walk[w].pc /\ walk'[w].info = walk[w].info
    BY <1>4 DEF ThreadExit, Walk
  <2>2. UNCHANGED <<greenlets, stacks, emitted>>
    BY <1>4 DEF ThreadExit
  <2> QED
    BY <2>1, <2>2 DEF Named
<1>5. ASSUME NEW t \in Threads, TrackGreenlet(t) PROVE QueueInv'
  BY <1>5 DEF TrackGreenlet, Named
<1>6. ASSUME NEW t \in Threads, UntrackGreenlet(t) PROVE QueueInv'
  BY <1>6 DEF UntrackGreenlet, Named
<1>7. ASSUME NEW t \in Threads, NEW loop \in BOOLEAN, TrackAsyncioLoop(t, loop) PROVE QueueInv'
  BY <1>7 DEF TrackAsyncioLoop, Named
<1>8. ASSUME BootStart PROVE QueueInv'
  BY <1>8 DEF BootStart, Named
<1>9. ASSUME BootStop PROVE QueueInv'
  BY <1>9 DEF BootStop, Named
<1>10. ASSUME ClearMaps PROVE QueueInv'
  BY <1>10 DEF ClearMaps, Named
<1>11. ASSUME ListenerJoined PROVE QueueInv'
  BY <1>11 DEF ListenerJoined, Named
<1>12. ASSUME Unpatch PROVE QueueInv'
  BY <1>12 DEF Unpatch, Named
<1>13. ASSUME NEW w \in Walkers, PassBegin(w) PROVE QueueInv'
  BY <1>13 DEF PassBegin, Named
<1>14. ASSUME NEW w \in Walkers, PassEnd(w) PROVE QueueInv'
  BY <1>14 DEF PassEnd, Named, IdleWalk
<1>15. ASSUME NEW w \in Walkers, NEW t \in Threads, PopCopied(w, t) PROVE QueueInv'
  BY <1>15 DEF PopCopied, Named
<1>16. ASSUME NEW w \in Walkers, NEW t \in Threads, PopFailed(w, t) PROVE QueueInv'
  BY <1>16 DEF PopFailed, Named
<1>17. ASSUME NEW w \in Walkers, Enter(w) PROVE QueueInv'
  BY <1>17 DEF Enter, Named
<1>18. ASSUME NEW w \in Walkers, Adopt(w) PROVE QueueInv'
  BY <1>18 DEF Adopt, Named
<1>19. ASSUME NEW w \in Walkers, SkipUnknown(w) PROVE QueueInv'
  BY <1>19 DEF SkipUnknown, Named, Goto
<1>20. ASSUME NEW w \in Walkers, SampleIdle(w) PROVE QueueInv'
  BY <1>20 DEF SampleIdle, Named, Release
<1>21. ASSUME NEW w \in Walkers, NEW tasks \in BOOLEAN, Unwind(w, tasks) PROVE QueueInv'
  <2>1. current_tasks = {}
    BY <1>21 DEF Unwind
  <2>2. /\ walk'[w].pc = "unwound" /\ walk'[w].info = walk[w].info
        /\ walk[w].info \in ThreadInfo
    BY <1>21 DEF Unwind, Goto, Walk, PinInv, LockInv, Entry, InCallback
  <2>3. current_tasks' \in {{}, {walk[w].info.owner}}
    BY <1>21, <2>1 DEF Unwind, UnwindTasks
  <2>4. current_tasks' \subseteq Named("task")'
    BY <1>21, <2>1, <2>2 DEF Unwind, UnwindTasks, Named, ThreadInfo
  <2>5. current_greenlets' = {} /\ greenlet_info_map' = {} /\ emitted' = emitted
    BY <1>21 DEF Unwind, UnwindGreenlets
  <2> QED
    BY <2>2, <2>3, <2>4, <2>5
<1>22. ASSUME NEW w \in Walkers, RenderTasks(w) PROVE QueueInv'
  <2>1. current_tasks = {walk[w].info.owner}
    BY <1>22 DEF RenderTasks
  <2>2. emitted'.stacks = {emitted'.label}
    BY <1>22, <2>1 DEF RenderTasks, Emit
  <2> QED
    BY <1>22, <2>2 DEF RenderTasks, RenderedTasks
<1>23. ASSUME NEW w \in Walkers, RenderGreenlets(w) PROVE QueueInv'
  BY <1>23 DEF RenderGreenlets, Named, Release
<1>24. ASSUME NEW w \in Walkers, RenderFails(w) PROVE QueueInv'
  BY <1>24 DEF RenderFails, Named, Release
<1>25. ASSUME NEW w \in Walkers, RenderThread(w) PROVE QueueInv'
  <2>1. python_stack = walk[w].cur
    BY <1>25 DEF RenderThread, PinInv, LockInv, InCallback
  <2>2. emitted'.stacks = {emitted'.of}
    BY <1>25, <2>1 DEF RenderThread, Emit
  <2> QED
    BY <1>25, <2>2 DEF RenderThread
<1>26. ASSUME NEW w \in Walkers, RenderWhere(w) PROVE QueueInv'
  BY <1>26 DEF RenderWhere, Named, Release
<1>27. CASE UNCHANGED vars
  BY <1>27 DEF vars, Named
<1> QED
  BY <1>1, <1>2, <1>3, <1>4, <1>5, <1>6, <1>7, <1>8, <1>9, <1>10,
     <1>11, <1>12, <1>13, <1>14, <1>15, <1>16, <1>17, <1>18, <1>19,
     <1>20, <1>21, <1>22, <1>23, <1>24, <1>25, <1>26, <1>27
     DEF Next, ProgramStep, WalkStep

(* A sample shows the stacks of the thread it is labelled with, or of the  *)
(* thread state it was made from: the accumulators of tasks carry nothing  *)
(* over from one sample to the next, unless a dump or a greenlet without a *)
(* name leaves something behind.                                           *)
THEOREM StacksAreOwn ==
  ASSUME GreenletThreads = {}, Walkers \subseteq {"sampler"}
  PROVE  Spec => []StacksOfThread
<1>1. Init => QueueInv
  BY DEF Init, QueueInv, StacksOfThread
<1>2. TypeOK /\ PinInv /\ QueueInv /\ [Next]_vars => QueueInv'
  BY QueueStep
<1>3. QueueInv => StacksOfThread
  BY DEF QueueInv
<1> QED
  BY <1>1, <1>2, <1>3, Pinned, PTL DEF Spec

-----------------------------------------------------------------------------
(* Why a pass misses nobody: the thread states that are alive are linked   *)
(* both ways, from the head on ...                                         *)
LinkInv ==
  /\ \A t \in Threads :
       status[t] = "absent" => next[t] = nullptr /\ prev[t] = nullptr
  /\ tstate_head # nullptr =>
       tstate_head \in Alive /\ prev[tstate_head] = nullptr
  /\ \A t \in Alive :
       /\ next[t] # nullptr => next[t] \in Alive /\ prev[next[t]] = t
       /\ IF prev[t] = nullptr THEN t = tstate_head
          ELSE prev[t] \in Alive /\ next[prev[t]] = t

(* ... and whatever contains what a walker has yet to visit, and what the  *)
(* links lead to from there, through thread states it has not seen, those  *)
(* of exited threads included, contains the threads it must still meet.    *)
Closed(C, S) == \A t \in (C \ S) \cap Threads : Reached(t) \ S \subseteq C

Sets == SUBSET (Threads \cup {nullptr})

HeadReaches ==
  \A C \in Sets : tstate_head \in C /\ Closed(C, {}) => Alive \subseteq C

WalkerReaches(w) ==
  ~walk[w].blind =>
    \A C \in Sets :
      walk[w].todo \subseteq C /\ Closed(C, walk[w].seen)
        => walk[w].base \subseteq C \cup walk[w].seen

ReachInv == HeadReaches /\ \A w \in Walkers : WalkerReaches(w)

(* A thread state is linked before the head, and unlinked between its      *)
(* neighbours.                                                             *)
LEMMA LinkStep ==
  ASSUME TypeOK, LinkInv, [Next]_vars
  PROVE  LinkInv'
<1> USE SamplingAssumption DEF program, LinkInv, Alive
<1>1. ASSUME NEW t \in Threads, NEW i \in Ids, ThreadStart(t, i) PROVE LinkInv'
  BY <1>1 DEF ThreadStart, TypeOK
<1>2. ASSUME NEW t \in Threads, ThreadExit(t) PROVE LinkInv'
  <2> USE <1>2 DEF ThreadExit, TypeOK
  <2>1. t \in Alive /\ Alive' = Alive \ {t}
    OBVIOUS
  <2>2. \A u \in Threads : status'[u] = "absent" => next'[u] = nullptr /\ prev'[u] = nullptr
    BY <2>1
  <2>3. tstate_head' # nullptr =>
          tstate_head' \in Alive' /\ prev'[tstate_head'] = nullptr
    BY <2>1
  <2>4. ASSUME NEW u \in Alive', next'[u] # nullptr
        PROVE  next'[u] \in Alive' /\ prev'[next'[u]] = u
    BY <2>1, <2>4
  <2>5. ASSUME NEW u \in Alive'
        PROVE  IF prev'[u] = nullptr THEN u = tstate_head'
               ELSE prev'[u] \in Alive' /\ next'[prev'[u]] = u
    BY <2>1, <2>5
  <2> HIDE <1>2 DEF ThreadExit, TypeOK, Alive
  <2> QED
    BY <2>2, <2>3, <2>4, <2>5
<1>3. ASSUME NEW t \in Threads, ThreadSetNativeId(t) \/ ThreadReturns(t)
      PROVE  LinkInv'
  BY <1>3 DEF ThreadSetNativeId, ThreadReturns, TypeOK
<1>4. ASSUME UNCHANGED <<status, tstate_head, next, prev>> PROVE LinkInv'
  BY <1>4
<1>5. CASE (\E t \in Threads :
              TrackGreenlet(t) \/ UntrackGreenlet(t)
              \/ \E loop \in BOOLEAN : TrackAsyncioLoop(t, loop))
           \/ BootStart \/ BootStop \/ ClearMaps \/ ListenerJoined \/ Unpatch
           \/ UNCHANGED vars
  BY <1>4, <1>5 DEF TrackGreenlet, UntrackGreenlet, TrackAsyncioLoop,
     BootStart, BootStop, ClearMaps, ListenerJoined, Unpatch, vars
<1>6. ASSUME NEW w \in Walkers, WalkStep(w) PROVE LinkInv'
  BY <1>4, <1>6 DEF WalkStep, PassBegin, PassEnd, PopCopied, PopFailed, Enter,
     Adopt, SkipUnknown, SampleIdle, Unwind, RenderTasks, RenderGreenlets,
     RenderFails, RenderThread, RenderWhere
<1> QED
  BY <1>1, <1>2, <1>3, <1>5, <1>6 DEF Next, ProgramStep

(* Whoever started follows a link to everybody who follows one without it. *)
LEMMA ClosedBeforeStart ==
  ASSUME TypeOK, LinkInv, NEW t \in Threads, NEW i \in Ids, ThreadStart(t, i),
         NEW C \in Sets, NEW S,
         \A u \in (C \ S) \cap Threads :
           ({next'[u], prev'[u]} \ {nullptr}) \ S \subseteq C
  PROVE  Closed(C, S)
<1> USE SamplingAssumption DEF TypeOK
<1>1. next[t] = nullptr /\ prev[t] = nullptr
  BY DEF ThreadStart, LinkInv
<1>2. tstate_head # nullptr => prev[tstate_head] = nullptr
  BY DEF LinkInv
<1>3. \A u \in Threads : Reached(u) \subseteq {next'[u], prev'[u]} \ {nullptr}
  BY <1>1, <1>2 DEF ThreadStart, Reached
<1> QED
  BY <1>3 DEF Closed, Sets

(* A thread that exits was between the two that are neighbours now.        *)
LEMMA ClosedBeforeExit ==
  ASSUME TypeOK, LinkInv, NEW t \in Threads, ThreadExit(t),
         NEW C \in Sets, NEW S,
         \A u \in (C \ S) \cap Threads :
           ({next'[u], prev'[u]} \ {nullptr}) \ S \subseteq C
  PROVE  \/ Closed(C, S)
         \/ Closed(C \cup {t}, S)
<1> USE SamplingAssumption DEF TypeOK, Sets
<1>1. t \in Alive /\ t # nullptr
  BY DEF ThreadExit, Alive
<1>2. /\ next[t] # nullptr => next[t] \in Threads /\ prev[next[t]] = t
      /\ prev[t] # nullptr => prev[t] \in Threads /\ next[prev[t]] = t
  BY <1>1 DEF LinkInv, Alive
<1>3. /\ \A u \in Threads : next'[u] = IF u = prev[t] THEN next[t] ELSE next[u]
      /\ \A u \in Threads : prev'[u] = IF u = next[t] THEN prev[t] ELSE prev[u]
  BY DEF ThreadExit
<1>4. CASE \A u \in (C \ S) \cap Threads : u # next[t] /\ u # prev[t]
  <2>1. \A u \in (C \ S) \cap Threads : next'[u] = next[u] /\ prev'[u] = prev[u]
    BY <1>3, <1>4
  <2> QED
    BY <2>1 DEF Closed, Reached
<1>5. CASE \E u \in (C \ S) \cap Threads : u = next[t] \/ u = prev[t]
  <2>1. Reached(t) \ S \subseteq C
    BY <1>2, <1>3, <1>5 DEF Reached
  <2>2. \A u \in (C \ S) \cap Threads : Reached(u) \ S \subseteq C \cup {t}
    BY <1>2, <1>3 DEF Reached
  <2> QED
    BY <2>1, <2>2 DEF Closed
<1> QED
  BY <1>4, <1>5

(* All that are alive are linked to the head.                              *)
LEMMA HeadStep ==
  ASSUME TypeOK, LinkInv, HeadReaches, [Next]_vars
  PROVE  HeadReaches'
<1> USE SamplingAssumption DEF program
<1>1. ASSUME UNCHANGED <<tstate_head, next, prev>>, Alive' = Alive
      PROVE  HeadReaches'
  BY <1>1 DEF HeadReaches, Closed, Reached
<1>2. ASSUME NEW t \in Threads, NEW i \in Ids, ThreadStart(t, i)
      PROVE  HeadReaches'
  <2> SUFFICES ASSUME NEW C \in Sets, t \in C,
                      \A u \in (C \ {}) \cap Threads :
                        ({next'[u], prev'[u]} \ {nullptr}) \ {} \subseteq C
               PROVE  Alive' \subseteq C
    BY <1>2 DEF HeadReaches, Closed, Reached, ThreadStart
  <2>1. Closed(C, {})
    BY <1>2, ClosedBeforeStart
  <2>2. CASE tstate_head = nullptr
    <3>1. Closed({nullptr}, {}) /\ {nullptr} \in Sets
      BY DEF Closed, Sets
    <3>2. Alive \subseteq {nullptr}
      BY <2>2, <3>1 DEF HeadReaches
    <3> QED
      BY <1>2, <3>2 DEF ThreadStart, Alive, TypeOK
  <2>3. CASE tstate_head # nullptr
    <3>1. tstate_head \in C
      BY <1>2, <2>3 DEF ThreadStart, TypeOK
    <3>2. Alive \subseteq C
      BY <2>1, <3>1 DEF HeadReaches
    <3> QED
      BY <1>2, <3>2 DEF ThreadStart, Alive, TypeOK
  <2> QED
    BY <2>2, <2>3
<1>3. ASSUME NEW t \in Threads, ThreadExit(t) PROVE HeadReaches'
  <2> SUFFICES ASSUME NEW C \in Sets, tstate_head' \in C,
                      \A u \in (C \ {}) \cap Threads :
                        ({next'[u], prev'[u]} \ {nullptr}) \ {} \subseteq C
               PROVE  Alive' \subseteq C
    BY <1>3 DEF HeadReaches, Closed, Reached
  <2>1. Alive' = Alive \ {t} /\ t \in Alive
    BY <1>3 DEF ThreadExit, Alive, TypeOK
  <2>2. Closed(C, {}) \/ Closed(C \cup {t}, {})
    BY <1>3, ClosedBeforeExit
  <2>3. CASE tstate_head = t
    <3>1. prev[t] = nullptr /\ next[t] \in C
      BY <1>3, <2>1, <2>3 DEF ThreadExit, LinkInv
    <3>2. Closed(C \cup {t}, {}) /\ C \cup {t} \in Sets
      BY <2>2, <3>1 DEF Closed, Reached, Sets
    <3>3. Alive \subseteq C \cup {t}
      BY <2>3, <3>2 DEF HeadReaches
    <3> QED
      BY <2>1, <3>3
  <2>4. CASE tstate_head # t
    <3>1. tstate_head \in C
      BY <1>3, <2>4 DEF ThreadExit
    <3>2. C \cup {t} \in Sets
      BY DEF Sets
    <3>3. Alive \subseteq C \cup {t}
      BY <2>2, <3>1, <3>2 DEF HeadReaches
    <3> QED
      BY <2>1, <3>3
  <2> QED
    BY <2>3, <2>4
<1>4. ASSUME NEW t \in Threads, ThreadSetNativeId(t) \/ ThreadReturns(t)
      PROVE  HeadReaches'
  <2>1. Alive' = Alive
    BY <1>4 DEF ThreadSetNativeId, ThreadReturns, Alive, TypeOK
  <2> QED
    BY <1>1, <1>4, <2>1 DEF ThreadSetNativeId, ThreadReturns
<1>5. CASE (\E t \in Threads :
              TrackGreenlet(t) \/ UntrackGreenlet(t)
              \/ \E loop \in BOOLEAN : TrackAsyncioLoop(t, loop))
           \/ BootStart \/ BootStop \/ ClearMaps \/ ListenerJoined \/ Unpatch
           \/ UNCHANGED vars
  BY <1>1, <1>5 DEF TrackGreenlet, UntrackGreenlet, TrackAsyncioLoop,
     BootStart, BootStop, ClearMaps, ListenerJoined, Unpatch, vars, Alive
<1>6. ASSUME NEW w \in Walkers, WalkStep(w) PROVE HeadReaches'
  BY <1>1, <1>6 DEF WalkStep, PassBegin, PassEnd, PopCopied, PopFailed, Enter,
     Adopt, SkipUnknown, SampleIdle, Unwind, RenderTasks, RenderGreenlets,
     RenderFails, RenderThread, RenderWhere, Alive
<1> QED
  BY <1>2, <1>3, <1>4, <1>5, <1>6 DEF Next, ProgramStep

(* A pass begins at the head, and takes over from a thread state that it   *)
(* copies those linked to it.                                              *)
LEMMA WalkerStep ==
  ASSUME TypeOK, LinkInv, ReachInv, [Next]_vars, NEW v \in Walkers
  PROVE  WalkerReaches(v)'
<1> USE SamplingAssumption DEF program, ReachInv
<1>1. ASSUME UNCHANGED <<next, prev>>, walk'[v].todo = walk[v].todo,
             walk'[v].seen = walk[v].seen, walk'[v].base = walk[v].base,
             walk'[v].blind = walk[v].blind
      PROVE  WalkerReaches(v)'
  BY <1>1 DEF WalkerReaches, Closed, Reached
<1>2. ASSUME NEW t \in Threads, NEW i \in Ids, ThreadStart(t, i)
      PROVE  WalkerReaches(v)'
  <2>1. UNCHANGED walk
    BY <1>2 DEF ThreadStart
  <2> SUFFICES ASSUME ~walk[v].blind, NEW C \in Sets, walk[v].todo \subseteq C,
                      \A u \in (C \ walk[v].seen) \cap Threads :
                        ({next'[u], prev'[u]} \ {nullptr}) \ walk[v].seen \subseteq C
               PROVE  walk[v].base \subseteq C \cup walk[v].seen
    BY <2>1 DEF WalkerReaches, Closed, Reached
  <2>2. Closed(C, walk[v].seen)
    BY <1>2, ClosedBeforeStart
  <2> QED
    BY <2>2 DEF WalkerReaches
<1>3. ASSUME NEW t \in Threads, ThreadExit(t) PROVE WalkerReaches(v)'
  <2>1. /\ walk'[v].todo = walk[v].todo
        /\ walk'[v].seen = walk[v].seen
        /\ walk'[v].base = walk[v].base \ {t}
        /\ walk'[v].blind = walk[v].blind
    BY <1>3 DEF ThreadExit, TypeOK, Walk
  <2> SUFFICES ASSUME ~walk[v].blind, NEW C \in Sets, walk[v].todo \subseteq C,
                      \A u \in (C \ walk[v].seen) \cap Threads :
                        ({next'[u], prev'[u]} \ {nullptr}) \ walk[v].seen \subseteq C
               PROVE  walk[v].base \ {t} \subseteq C \cup walk[v].seen
    BY <2>1 DEF WalkerReaches, Closed, Reached
  <2>2. Closed(C, walk[v].seen) \/ Closed(C \cup {t}, walk[v].seen)
    BY <1>3, ClosedBeforeExit
  <2>3. C \cup {t} \in Sets
    BY DEF Sets
  <2> QED
    BY <2>2, <2>3 DEF WalkerReaches
<1>4. ASSUME NEW w \in Walkers, PassBegin(w) PROVE WalkerReaches(v)'
  <2>1. CASE v = w
    <3>1. /\ walk'[v].todo = {tstate_head} /\ walk'[v].seen = {}
          /\ walk'[v].base = Alive
      BY <1>4, <2>1 DEF PassBegin, IdleWalk, TypeOK
    <3> QED
      BY <1>4, <3>1 DEF PassBegin, WalkerReaches, HeadReaches, Closed, Reached
  <2>2. CASE v # w
    BY <1>1, <1>4, <2>2 DEF PassBegin, TypeOK
  <2> QED
    BY <2>1, <2>2
<1>5. ASSUME NEW w \in Walkers, PassEnd(w) PROVE WalkerReaches(v)'
  <2>1. CASE v = w
    BY <1>5, <2>1 DEF PassEnd, IdleWalk, TypeOK, WalkerReaches
  <2>2. CASE v # w
    BY <1>1, <1>5, <2>2 DEF PassEnd, TypeOK
  <2> QED
    BY <2>1, <2>2
<1>6. ASSUME NEW w \in Walkers, NEW t \in Threads, PopCopied(w, t)
      PROVE  WalkerReaches(v)'
  <2>1. CASE v = w
    <3>1. /\ walk'[v].seen = walk[v].seen \cup {t}
          /\ walk'[v].todo = (walk[v].todo \ {t}) \cup (Reached(t) \ walk'[v].seen)
          /\ walk'[v].base = walk[v].base /\ walk'[v].blind = walk[v].blind
          /\ UNCHANGED <<next, prev>>
      BY <1>6, <2>1 DEF PopCopied, TypeOK, Walk
    <3> SUFFICES ASSUME ~walk[v].blind, NEW C \in Sets, walk'[v].todo \subseteq C,
                        \A u \in (C \ walk'[v].seen) \cap Threads :
                          Reached(u) \ walk'[v].seen \subseteq C
                 PROVE  walk[v].base \subseteq C \cup walk'[v].seen
      BY <3>1 DEF WalkerReaches, Closed, Reached
    <3>2. C \cup {t} \in Sets /\ walk[v].todo \subseteq C \cup {t}
      BY <3>1 DEF Sets
    <3>3. Closed(C \cup {t}, walk[v].seen)
      BY <3>1 DEF Closed
    <3> QED
      BY <3>1, <3>2, <3>3 DEF WalkerReaches
  <2>2. CASE v # w
    BY <1>1, <1>6, <2>2 DEF PopCopied, TypeOK
  <2> QED
    BY <2>1, <2>2
<1>7. ASSUME NEW w \in Walkers, NEW t \in Threads, PopFailed(w, t)
      PROVE  WalkerReaches(v)'
  <2>1. CASE v = w
    BY <1>7, <2>1 DEF PopFailed, TypeOK, Walk, WalkerReaches
  <2>2. CASE v # w
    BY <1>1, <1>7, <2>2 DEF PopFailed, TypeOK
  <2> QED
    BY <2>1, <2>2
<1>8. ASSUME NEW w \in Walkers,
             Enter(w) \/ Adopt(w) \/ SkipUnknown(w) \/ SampleIdle(w)
             \/ (\E tasks \in BOOLEAN : Unwind(w, tasks))
             \/ RenderTasks(w) \/ RenderGreenlets(w) \/ RenderFails(w)
             \/ RenderThread(w) \/ RenderWhere(w)
      PROVE  WalkerReaches(v)'
  <2> DEFINE Same == /\ walk'[v].todo = walk[v].todo
                     /\ walk'[v].seen = walk[v].seen
                     /\ walk'[v].base = walk[v].base
                     /\ walk'[v].blind = walk[v].blind
  <2>1. walk[v] \in Walk /\ walk[w] \in Walk /\ walk \in [Walkers -> Walk]
    BY DEF TypeOK
  <2>2. Same
    <3>1. CASE SkipUnknown(w)
      BY <2>1, <3>1 DEF SkipUnknown, Goto, Walk
    <3>2. CASE \E tasks \in BOOLEAN : Unwind(w, tasks)
      <4>1. walk' = [walk EXCEPT ![w].pc = "unwound"]
        BY <3>2 DEF Unwind, Goto
      <4> QED
        BY <2>1, <4>1 DEF Walk
    <3>3. CASE Enter(w)
      BY <2>1, <3>3 DEF Enter, Walk
    <3>4. CASE Adopt(w)
      BY <2>1, <3>4 DEF Adopt, Walk
    <3>5. CASE SampleIdle(w) \/ RenderTasks(w) \/ RenderGreenlets(w)
               \/ RenderFails(w) \/ RenderThread(w) \/ RenderWhere(w)
      <4>1. Release(w)
        BY <3>5 DEF SampleIdle, RenderTasks, RenderGreenlets, RenderFails,
           RenderThread, RenderWhere
      <4> QED
        BY <2>1, <4>1 DEF Release, Walk
    <3> QED
      BY <1>8, <3>1, <3>2, <3>3, <3>4, <3>5
  <2>3. UNCHANGED <<next, prev>>
    BY <1>8 DEF Enter, Adopt, SkipUnknown, SampleIdle, Unwind, RenderTasks,
       RenderGreenlets, RenderFails, RenderThread, RenderWhere
  <2> QED
    BY <1>1, <2>2, <2>3
<1>9. CASE (\E t \in Threads :
              ThreadSetNativeId(t) \/ ThreadReturns(t)
              \/ TrackGreenlet(t) \/ UntrackGreenlet(t)
              \/ \E loop \in BOOLEAN : TrackAsyncioLoop(t, loop))
           \/ BootStart \/ BootStop \/ ClearMaps \/ ListenerJoined \/ Unpatch
           \/ UNCHANGED vars
  <2>1. UNCHANGED <<next, prev, walk>>
    BY <1>9 DEF ThreadSetNativeId, ThreadReturns, TrackGreenlet,
       UntrackGreenlet, TrackAsyncioLoop, BootStart, BootStop, ClearMaps,
       ListenerJoined, Unpatch, vars
  <2> QED
    BY <1>1, <2>1
<1> QED
  BY <1>2, <1>3, <1>4, <1>5, <1>6, <1>7, <1>8, <1>9
     DEF Next, ProgramStep, WalkStep

(* A pass of for_each_thread whose copies all succeed meets every thread   *)
(* that was there from its beginning to its end, whatever starts and ends  *)
(* meanwhile, and though it follows links in the memory of threads that    *)
(* have exited (threads.h:362-424).                                        *)
THEOREM PassesAreComplete == Spec => []PassComplete
<1>1. Init => LinkInv /\ ReachInv
  <2> SUFFICES ASSUME Init PROVE LinkInv /\ ReachInv
    OBVIOUS
  <2>1. Alive = {MainThread}
    BY SamplingAssumption DEF Init, Alive
  <2>2. LinkInv
    BY <2>1, SamplingAssumption DEF Init, LinkInv
  <2>3. HeadReaches
    BY <2>1 DEF Init, HeadReaches
  <2>4. \A w \in Walkers : WalkerReaches(w)
    BY DEF Init, IdleWalk, WalkerReaches
  <2> QED
    BY <2>2, <2>3, <2>4 DEF ReachInv
<1>2. TypeOK /\ LinkInv /\ ReachInv /\ [Next]_vars => (LinkInv /\ ReachInv)'
  BY LinkStep, HeadStep, WalkerStep DEF ReachInv
<1>3. TypeOK /\ ReachInv => PassComplete
  <2> SUFFICES ASSUME ReachInv, NEW w \in Walkers, walk[w].todo = {}, ~walk[w].blind
               PROVE  walk[w].base \subseteq walk[w].seen
    BY DEF PassComplete
  <2>1. Closed({}, walk[w].seen) /\ {} \in Sets
    BY DEF Closed, Sets
  <2> QED
    BY <2>1 DEF ReachInv, WalkerReaches
<1> QED
  BY <1>1, <1>2, <1>3, Typing, PTL DEF Spec
=============================================================================
