----------------------------- MODULE BootstrapProofs -----------------------------
(***************************************************************************)
(* Proofs about the life of the sampler and what goes on around it.        *)
(*                                                                         *)
(* About Lifecycle, for every set of sampler threads and any number of     *)
(* signals: typing and the exclusion of dumps in every mode, and the       *)
(* ownership of a session's state when every start is a stealth start;     *)
(* then Lifecycle implements Session: what a thread holds follows from     *)
(* where it is (SessionInv), so that every step of Lifecycle is one step   *)
(* of Session or none.                                                     *)
(*                                                                         *)
(* About Fork, for any number of starts, of samplers and of forks, those   *)
(* of children of children included; about Hooks, for any modules and any  *)
(* number of starts; and that all three are well typed side by side.       *)
(***************************************************************************)
EXTENDS MCBootstrap, TLAPS

(* Every step keeps the state well typed. *)
LEMMA TypingStep ==
  ASSUME TypeOK, [Next]_vars
  PROVE  TypeOK'
<1> USE LifecycleAssumption DEF vars, state, env, render, Goto, TypeOK, SamplerStates, ListenerStates
<1>1. ASSUME NEW s \in Samplers, NEW w \in WhereModes, BootStartStealth(s, w) PROVE TypeOK'
  BY <1>1 DEF BootStartStealth, CanStartAsync
<1>2. ASSUME NEW s \in Samplers, NEW w \in WhereModes, BootStartPlain(s, w) PROVE TypeOK'
  BY <1>2 DEF BootStartPlain
<1>3. ASSUME Stop PROVE TypeOK'
  BY <1>3 DEF Stop, StoppedFlag
<1>4. ASSUME StopJoined PROVE TypeOK'
  BY <1>4 DEF StopJoined
<1>5. ASSUME SigQuit PROVE TypeOK'
  BY <1>5 DEF SigQuit
<1>6. ASSUME SigQuitNotify PROVE TypeOK'
  BY <1>6 DEF SigQuitNotify, NotifyOne, Waiting
<1>7. ASSUME NEW s \in Samplers, EcStart(s) PROVE TypeOK'
  BY <1>7 DEF EcStart
<1>8. ASSUME NEW s \in Samplers, InitFrameCache(s) PROVE TypeOK'
  BY <1>8 DEF InitFrameCache
<1>9. ASSUME NEW s \in Samplers, OpenRenderer(s) PROVE TypeOK'
  BY <1>9 DEF OpenRenderer
<1>10. ASSUME NEW s \in Samplers, OpenFails(s) PROVE TypeOK'
  BY <1>10 DEF OpenFails
<1>11. ASSUME NEW s \in Samplers, InstallSignals(s) PROVE TypeOK'
  BY <1>11 DEF InstallSignals
<1>12. ASSUME NEW s \in Samplers, WhereDump(s) PROVE TypeOK'
  BY <1>12 DEF WhereDump
<1>13. ASSUME NEW s \in Samplers, SetupWhere(s) PROVE TypeOK'
  BY <1>13 DEF SetupWhere
<1>14. ASSUME NEW s \in Samplers, Header(s) PROVE TypeOK'
  BY <1>14 DEF Header
<1>15. ASSUME NEW s \in Samplers, LoopEnter(s) PROVE TypeOK'
  BY <1>15 DEF LoopEnter
<1>16. ASSUME NEW s \in Samplers, PassDone(s) PROVE TypeOK'
  BY <1>16 DEF PassDone
<1>17. ASSUME NEW s \in Samplers, LoopExit(s) PROVE TypeOK'
  BY <1>17 DEF LoopExit
<1>18. ASSUME NEW s \in Samplers, ClearMaps(s) PROVE TypeOK'
  BY <1>18 DEF ClearMaps
<1>19. ASSUME NEW s \in Samplers, TeardownNotify(s) PROVE TypeOK'
  BY <1>19 DEF TeardownNotify, NotifyOne, Waiting
<1>20. ASSUME NEW s \in Samplers, TeardownNothing(s) PROVE TypeOK'
  BY <1>20 DEF TeardownNothing
<1>21. ASSUME NEW s \in Samplers, TeardownJoined(s) PROVE TypeOK'
  BY <1>21 DEF TeardownJoined, ListenerEnded
<1>22. ASSUME NEW s \in Samplers, RestoreSignals(s) PROVE TypeOK'
  BY <1>22 DEF RestoreSignals
<1>23. ASSUME NEW s \in Samplers, CloseRenderer(s) PROVE TypeOK'
  BY <1>23 DEF CloseRenderer
<1>24. ASSUME NEW s \in Samplers, ResetFrameCache(s) PROVE TypeOK'
  BY <1>24 DEF ResetFrameCache
<1>25. ASSUME NEW s \in Samplers, ListenerWait(s) PROVE TypeOK'
  BY <1>25 DEF ListenerWait
<1>26. ASSUME NEW s \in Samplers, ListenerExit(s) PROVE TypeOK'
  BY <1>26 DEF ListenerExit, WhereLockFree
<1>27. ASSUME NEW s \in Samplers, ListenerDump(s) PROVE TypeOK'
  BY <1>27 DEF ListenerDump, WhereLockFree
<1>28. ASSUME NEW s \in Samplers, ListenerDumped(s) PROVE TypeOK'
  BY <1>28 DEF ListenerDumped
<1>29. ASSUME NEW s \in Samplers, SpuriousWakeup(s) PROVE TypeOK'
  BY <1>29 DEF SpuriousWakeup
<1>30. CASE UNCHANGED vars
  BY <1>30
<1> QED
  BY <1>1, <1>2, <1>3, <1>4, <1>5, <1>6, <1>7, <1>8, <1>9, <1>10, <1>11,
       <1>12, <1>13, <1>14, <1>15, <1>16, <1>17, <1>18, <1>19, <1>20,
       <1>21, <1>22, <1>23, <1>24, <1>25, <1>26, <1>27, <1>28, <1>29,
       <1>30
     DEF Next, StealthNext, PlainNext, SamplerStep, ListenerStep

(* The sampler's state is well typed in every mode of starting it. *)
THEOREM Typing == Spec => []TypeOK
<1>1. Init => TypeOK
  <2> SUFFICES ASSUME Init PROVE TypeOK
    OBVIOUS
  <2>1. pc \in [Samplers -> SamplerStates]
    BY DEF Init, SamplerStates
  <2>2. listener \in [Samplers -> ListenerStates]
    BY DEF Init, ListenerStates
  <2>3. wakeups \in 0..MaxWakeups
    BY LifecycleAssumption DEF Init
  <2> QED
    BY <2>1, <2>2, <2>3, Zenon DEF Init, TypeOK
<1>2. TypeOK /\ [Next]_vars => TypeOK'
  BY TypingStep
<1> QED
  BY <1>1, <1>2, PTL DEF Spec

(* One step of a program whose starts are all stealth starts. *)
LEMMA StealthStep ==
  ASSUME Modes \subseteq {"stealth"}, TypeOK, StealthInv, [Next]_vars
  PROVE  StealthInv'
<1> USE LifecycleAssumption DEF vars, state, env, render, Goto, TypeOK, StealthInv, OwnerInv, ListenerInv, CacheInv, LockInv, Active
<1>1. ASSUME NEW s \in Samplers, NEW w \in WhereModes, BootStartStealth(s, w) PROVE StealthInv'
  BY <1>1 DEF BootStartStealth, CanStartAsync
<1>2. ASSUME NEW s \in Samplers, NEW w \in WhereModes, BootStartPlain(s, w) PROVE StealthInv'
  BY <1>2 DEF BootStartPlain
<1>3. ASSUME Stop PROVE StealthInv'
  BY <1>3 DEF Stop, StoppedFlag
<1>4. ASSUME StopJoined PROVE StealthInv'
  BY <1>4 DEF StopJoined
<1>5. ASSUME SigQuit PROVE StealthInv'
  BY <1>5 DEF SigQuit
<1>6. ASSUME SigQuitNotify PROVE StealthInv'
  BY <1>6 DEF SigQuitNotify, NotifyOne, Waiting
<1>7. ASSUME NEW s \in Samplers, EcStart(s) PROVE StealthInv'
  BY <1>7 DEF EcStart
<1>8. ASSUME NEW s \in Samplers, InitFrameCache(s) PROVE StealthInv'
  BY <1>8 DEF InitFrameCache
<1>9. ASSUME NEW s \in Samplers, OpenRenderer(s) PROVE StealthInv'
  BY <1>9 DEF OpenRenderer
<1>10. ASSUME NEW s \in Samplers, OpenFails(s) PROVE StealthInv'
  BY <1>10 DEF OpenFails
<1>11. ASSUME NEW s \in Samplers, InstallSignals(s) PROVE StealthInv'
  BY <1>11 DEF InstallSignals
<1>12. ASSUME NEW s \in Samplers, WhereDump(s) PROVE StealthInv'
  BY <1>12 DEF WhereDump
<1>13. ASSUME NEW s \in Samplers, SetupWhere(s) PROVE StealthInv'
  BY <1>13 DEF SetupWhere
<1>14. ASSUME NEW s \in Samplers, Header(s) PROVE StealthInv'
  BY <1>14 DEF Header
<1>15. ASSUME NEW s \in Samplers, LoopEnter(s) PROVE StealthInv'
  BY <1>15 DEF LoopEnter
<1>16. ASSUME NEW s \in Samplers, PassDone(s) PROVE StealthInv'
  BY <1>16 DEF PassDone
<1>17. ASSUME NEW s \in Samplers, LoopExit(s) PROVE StealthInv'
  BY <1>17 DEF LoopExit
<1>18. ASSUME NEW s \in Samplers, ClearMaps(s) PROVE StealthInv'
  BY <1>18 DEF ClearMaps
<1>19. ASSUME NEW s \in Samplers, TeardownNotify(s) PROVE StealthInv'
  BY <1>19 DEF TeardownNotify, NotifyOne, Waiting
<1>20. ASSUME NEW s \in Samplers, TeardownNothing(s) PROVE StealthInv'
  BY <1>20 DEF TeardownNothing
<1>21. ASSUME NEW s \in Samplers, TeardownJoined(s) PROVE StealthInv'
  BY <1>21 DEF TeardownJoined, ListenerEnded
<1>22. ASSUME NEW s \in Samplers, RestoreSignals(s) PROVE StealthInv'
  BY <1>22 DEF RestoreSignals
<1>23. ASSUME NEW s \in Samplers, CloseRenderer(s) PROVE StealthInv'
  BY <1>23 DEF CloseRenderer
<1>24. ASSUME NEW s \in Samplers, ResetFrameCache(s) PROVE StealthInv'
  BY <1>24 DEF ResetFrameCache
<1>25. ASSUME NEW s \in Samplers, ListenerWait(s) PROVE StealthInv'
  BY <1>25 DEF ListenerWait
<1>26. ASSUME NEW s \in Samplers, ListenerExit(s) PROVE StealthInv'
  BY <1>26 DEF ListenerExit, WhereLockFree
<1>27. ASSUME NEW s \in Samplers, ListenerDump(s) PROVE StealthInv'
  BY <1>27 DEF ListenerDump, WhereLockFree
<1>28. ASSUME NEW s \in Samplers, ListenerDumped(s) PROVE StealthInv'
  BY <1>28 DEF ListenerDumped
<1>29. ASSUME NEW s \in Samplers, SpuriousWakeup(s) PROVE StealthInv'
  BY <1>29 DEF SpuriousWakeup
<1>30. CASE UNCHANGED vars
  BY <1>30
<1> QED
  BY <1>1, <1>2, <1>3, <1>4, <1>5, <1>6, <1>7, <1>8, <1>9, <1>10, <1>11,
       <1>12, <1>13, <1>14, <1>15, <1>16, <1>17, <1>18, <1>19, <1>20,
       <1>21, <1>22, <1>23, <1>24, <1>25, <1>26, <1>27, <1>28, <1>29,
       <1>30
     DEF Next, StealthNext, PlainNext, SamplerStep, ListenerStep

(* In stealth mode the state of a session has one owner, and the session   *)
(* brackets the life of its listener and of the frame cache.               *)
THEOREM StealthInvariant ==
  ASSUME Modes \subseteq {"stealth"}
  PROVE  Spec => []StealthInv
<1>1. Init => StealthInv
  BY LifecycleAssumption
     DEF Init, StealthInv, OwnerInv, ListenerInv, CacheInv, LockInv, Active
<1>2. TypeOK /\ StealthInv /\ [Next]_vars => StealthInv'
  BY StealthStep
<1> QED
  BY <1>1, <1>2, Typing, PTL DEF Spec

(* start_async never lets a second sampler thread into sampler() before    *)
(* stop() has joined the first, even when a where session ends by itself.  *)
THEOREM StealthSingleSession ==
  ASSUME Modes \subseteq {"stealth"}
  PROVE  Spec => []SingleSession
<1>1. StealthInv => SingleSession
  BY DEF StealthInv, OwnerInv, SingleSession
<1> QED
  BY <1>1, StealthInvariant, PTL

(* In stealth mode nobody unwinds or renders without a frame cache: _stop  *)
(* deletes it after the loop has ended and the listener has been joined.   *)
THEOREM StealthCacheLive ==
  ASSUME Modes \subseteq {"stealth"}
  PROVE  Spec => []CacheLive
<1>1. StealthInv => CacheLive
  <2> SUFFICES ASSUME StealthInv, NEW s \in Samplers,
                      pc[s] \in {"where", "pass", "clear"}
                        \/ listener[s] = "dumping"
               PROVE  frame_cache = "live"
    BY DEF CacheLive
  <2>1. Active(s) /\ pc[s] # "init"
    BY DEF StealthInv, ListenerInv, Active
  <2> QED
    BY <2>1 DEF StealthInv, CacheInv
<1> QED
  BY <1>1, StealthInvariant, PTL

(* In stealth mode a SIGQUIT dump finds the output file open: teardown     *)
(* joins the listener before it closes the renderer.                       *)
THEOREM StealthDumpWhileOpen ==
  ASSUME Modes \subseteq {"stealth"}
  PROVE  Spec => []DumpWhileOpen
<1>1. StealthInv => DumpWhileOpen
  BY DEF StealthInv, ListenerInv, DumpWhileOpen
<1> QED
  BY <1>1, StealthInvariant, PTL

(* In stealth mode the listener ends before the session that created it. *)
THEOREM StealthListenerInSession ==
  ASSUME Modes \subseteq {"stealth"}
  PROVE  Spec => []ListenerInSession
<1>1. StealthInv => ListenerInSession
  BY DEF StealthInv, ListenerInv, ListenerInSession, Active
<1> QED
  BY <1>1, StealthInvariant, PTL

(* where_lock belongs to the listener that is dumping, in every mode. *)
LEMMA LockStep ==
  ASSUME TypeOK, LockInv, [Next]_vars
  PROVE  LockInv'
<1> USE LifecycleAssumption DEF TypeOK, LockInv, vars, state, env, render, Goto
<1>1. CASE \E s \in Samplers, w \in WhereModes :
             BootStartStealth(s, w) \/ BootStartPlain(s, w)
  BY <1>1 DEF BootStartStealth, BootStartPlain
<1>2. CASE Stop \/ StopJoined \/ SigQuit
  BY <1>2 DEF Stop, StopJoined, SigQuit
<1>3. CASE SigQuitNotify
  BY <1>3 DEF SigQuitNotify, NotifyOne, Waiting
<1>4. ASSUME NEW s \in Samplers, TeardownNotify(s) PROVE LockInv'
  BY <1>4 DEF TeardownNotify, NotifyOne, Waiting
<1>5. ASSUME NEW s \in Samplers, SetupWhere(s) PROVE LockInv'
  BY <1>5 DEF SetupWhere
<1>6. ASSUME NEW s \in Samplers, ListenerStep(s) PROVE LockInv'
  BY <1>6 DEF ListenerStep, ListenerWait, ListenerExit, ListenerDump,
              ListenerDumped, WhereLockFree
<1>7. ASSUME NEW s \in Samplers,
             SamplerStep(s), ~TeardownNotify(s), ~SetupWhere(s)
      PROVE  LockInv'
  BY <1>7 DEF SamplerStep, InitFrameCache, OpenRenderer, OpenFails,
              InstallSignals, WhereDump, Header, LoopEnter, PassDone,
              LoopExit, ClearMaps, TeardownNothing, TeardownJoined,
              RestoreSignals, CloseRenderer, ResetFrameCache
<1>8. ASSUME NEW s \in Samplers, EcStart(s) \/ SpuriousWakeup(s)
      PROVE  LockInv'
  BY <1>8 DEF EcStart, SpuriousWakeup
<1>9. CASE UNCHANGED vars
  BY <1>9
<1> QED
  BY <1>1, <1>2, <1>3, <1>4, <1>5, <1>6, <1>7, <1>8, <1>9
     DEF Next, StealthNext, PlainNext

(* Two SIGQUIT dumps never overlap, however the sampler is started and     *)
(* however many sessions a restart has left behind.                        *)
THEOREM DumpsExclude == Spec => []DumpsExclusive
<1>1. Init => LockInv
  BY LifecycleAssumption DEF Init, LockInv
<1>2. TypeOK /\ LockInv /\ [Next]_vars => LockInv'
  BY LockStep
<1>3. LockInv => DumpsExclusive
  BY DEF LockInv, DumpsExclusive
<1> QED
  BY <1>1, <1>2, <1>3, Typing, PTL DEF Spec

-----------------------------------------------------------------------------
(* One step of a program whose starts are all stealth starts. *)
LEMMA SessionStep ==
  ASSUME Modes \subseteq {"stealth"}, TypeOK, StealthInv, SessionInv,
         [Next]_vars
  PROVE  SessionInv'
<1> USE LifecycleAssumption DEF vars, state, env, render, Goto, TypeOK, SamplerStates, StealthInv, OwnerInv, ListenerInv, Active, SessionInv, ResourceInv
<1>1. ASSUME NEW s \in Samplers, NEW w \in WhereModes, BootStartStealth(s, w) PROVE SessionInv'
  BY <1>1 DEF BootStartStealth, CanStartAsync
<1>2. ASSUME NEW s \in Samplers, NEW w \in WhereModes, BootStartPlain(s, w) PROVE SessionInv'
  BY <1>2 DEF BootStartPlain
<1>3. ASSUME Stop PROVE SessionInv'
  BY <1>3 DEF Stop, StoppedFlag, MustJoin, MainFree
<1>4. ASSUME StopJoined PROVE SessionInv'
  BY <1>4 DEF StopJoined
<1>5. ASSUME SigQuit PROVE SessionInv'
  BY <1>5 DEF SigQuit
<1>6. ASSUME SigQuitNotify PROVE SessionInv'
  BY <1>6 DEF SigQuitNotify, NotifyOne, Waiting
<1>7. ASSUME NEW s \in Samplers, EcStart(s) PROVE SessionInv'
  BY <1>7 DEF EcStart
<1>8. ASSUME NEW s \in Samplers, InitFrameCache(s) PROVE SessionInv'
  BY <1>8 DEF InitFrameCache
<1>9. ASSUME NEW s \in Samplers, OpenRenderer(s) PROVE SessionInv'
  BY <1>9 DEF OpenRenderer
<1>10. ASSUME NEW s \in Samplers, OpenFails(s) PROVE SessionInv'
  BY <1>10 DEF OpenFails
<1>11. ASSUME NEW s \in Samplers, InstallSignals(s) PROVE SessionInv'
  BY <1>11 DEF InstallSignals
<1>12. ASSUME NEW s \in Samplers, WhereDump(s) PROVE SessionInv'
  BY <1>12 DEF WhereDump
<1>13. ASSUME NEW s \in Samplers, SetupWhere(s) PROVE SessionInv'
  BY <1>13 DEF SetupWhere
<1>14. ASSUME NEW s \in Samplers, Header(s) PROVE SessionInv'
  BY <1>14 DEF Header
<1>15. ASSUME NEW s \in Samplers, LoopEnter(s) PROVE SessionInv'
  BY <1>15 DEF LoopEnter
<1>16. ASSUME NEW s \in Samplers, PassDone(s) PROVE SessionInv'
  BY <1>16 DEF PassDone
<1>17. ASSUME NEW s \in Samplers, LoopExit(s) PROVE SessionInv'
  BY <1>17 DEF LoopExit
<1>18. ASSUME NEW s \in Samplers, ClearMaps(s) PROVE SessionInv'
  BY <1>18 DEF ClearMaps
<1>19. ASSUME NEW s \in Samplers, TeardownNotify(s) PROVE SessionInv'
  BY <1>19 DEF TeardownNotify, NotifyOne, Waiting
<1>20. ASSUME NEW s \in Samplers, TeardownNothing(s) PROVE SessionInv'
  BY <1>20 DEF TeardownNothing
<1>21. ASSUME NEW s \in Samplers, TeardownJoined(s) PROVE SessionInv'
  BY <1>21 DEF TeardownJoined, ListenerEnded
<1>22. ASSUME NEW s \in Samplers, RestoreSignals(s) PROVE SessionInv'
  BY <1>22 DEF RestoreSignals
<1>23. ASSUME NEW s \in Samplers, CloseRenderer(s) PROVE SessionInv'
  BY <1>23 DEF CloseRenderer
<1>24. ASSUME NEW s \in Samplers, ResetFrameCache(s) PROVE SessionInv'
  BY <1>24 DEF ResetFrameCache
<1>25. ASSUME NEW s \in Samplers, ListenerWait(s) PROVE SessionInv'
  BY <1>25 DEF ListenerWait
<1>26. ASSUME NEW s \in Samplers, ListenerExit(s) PROVE SessionInv'
  BY <1>26 DEF ListenerExit, WhereLockFree
<1>27. ASSUME NEW s \in Samplers, ListenerDump(s) PROVE SessionInv'
  BY <1>27 DEF ListenerDump, WhereLockFree
<1>28. ASSUME NEW s \in Samplers, ListenerDumped(s) PROVE SessionInv'
  BY <1>28 DEF ListenerDumped
<1>29. ASSUME NEW s \in Samplers, SpuriousWakeup(s) PROVE SessionInv'
  BY <1>29 DEF SpuriousWakeup
<1>30. CASE UNCHANGED vars
  BY <1>30
<1> QED
  BY <1>1, <1>2, <1>3, <1>4, <1>5, <1>6, <1>7, <1>8, <1>9, <1>10,
       <1>11, <1>12, <1>13, <1>14, <1>15, <1>16, <1>17, <1>18, <1>19,
       <1>20, <1>21, <1>22, <1>23, <1>24, <1>25, <1>26, <1>27, <1>28,
       <1>29, <1>30
     DEF Next, StealthNext, PlainNext, SamplerStep, ListenerStep

(* The resources a session has taken when it has taken n of them. *)
LEMMA FirstSets ==
  /\ S!First(0) = {}
  /\ S!First(1) = {"frame_cache"}
  /\ S!First(2) = {"frame_cache", "output"}
  /\ S!First(3) = {"frame_cache", "output", "signals"}
  /\ S!First(4) = {"frame_cache", "output", "signals", "listener"}
<1>1. 1..0 = {} /\ 1..1 = {1} /\ 1..2 = {1, 2} /\ 1..3 = {1, 2, 3}
      /\ 1..4 = {1, 2, 3, 4}
  OBVIOUS
<1> QED
  BY <1>1 DEF S!First, S!Resources

(* Every step of the sampler, the listener, the signal handler and the     *)
(* program is a step of the session, or none.                              *)
LEMMA RefinementStep ==
  ASSUME Modes \subseteq {"stealth"}, TypeOK, StealthInv, SessionInv,
         [Next]_vars
  PROVE  [S!Next]_(S!vars)
<1> USE LifecycleAssumption, FirstSets DEF vars, state, env, render, Goto, TypeOK, SamplerStates, StealthInv, OwnerInv, ListenerInv, LockInv, Active, SessionInv, ResourceInv, PhaseOf, Held, Busy, S!vars
<1>1. ASSUME NEW s \in Samplers, NEW w \in WhereModes, BootStartStealth(s, w) PROVE S!Begin(s) \/ UNCHANGED S!vars
  BY <1>1 DEF BootStartStealth, CanStartAsync, MainFree, S!Begin
<1>2. ASSUME Stop PROVE S!Stop
  BY <1>2 DEF Stop, StoppedFlag, MustJoin, MainFree, S!Stop
<1>3. ASSUME StopJoined PROVE S!StopReturns
  BY <1>3 DEF StopJoined, S!StopReturns
<1>4. ASSUME SigQuit PROVE UNCHANGED S!vars
  BY <1>4 DEF SigQuit
<1>5. ASSUME SigQuitNotify PROVE UNCHANGED S!vars
  BY <1>5 DEF SigQuitNotify, NotifyOne, Waiting
<1>6. ASSUME NEW s \in Samplers, InitFrameCache(s) PROVE S!Acquire
  BY <1>6 DEF InitFrameCache, S!Acquire
<1>7. ASSUME NEW s \in Samplers, OpenRenderer(s) PROVE S!Acquire
  BY <1>7 DEF OpenRenderer, S!Acquire
<1>8. ASSUME NEW s \in Samplers, OpenFails(s) PROVE UNCHANGED S!vars
  BY <1>8 DEF OpenFails
<1>9. ASSUME NEW s \in Samplers, InstallSignals(s) PROVE S!Acquire
  BY <1>9 DEF InstallSignals, S!Acquire
<1>10. ASSUME NEW s \in Samplers, WhereDump(s) PROVE S!Retire
  BY <1>10 DEF WhereDump, S!Retire
<1>11. ASSUME NEW s \in Samplers, SetupWhere(s) PROVE S!Acquire
  BY <1>11 DEF SetupWhere, S!Acquire
<1>12. ASSUME NEW s \in Samplers, Header(s) PROVE UNCHANGED S!vars
  BY <1>12 DEF Header
<1>13. ASSUME NEW s \in Samplers, LoopEnter(s) PROVE S!BeginPass
  BY <1>13 DEF LoopEnter, S!BeginPass
<1>14. ASSUME NEW s \in Samplers, PassDone(s) PROVE S!EndUse
  BY <1>14 DEF PassDone, S!EndUse
<1>15. ASSUME NEW s \in Samplers, LoopExit(s) PROVE S!TurnDown
  BY <1>15 DEF LoopExit, S!TurnDown
<1>16. ASSUME NEW s \in Samplers, ClearMaps(s) PROVE UNCHANGED S!vars
  BY <1>16 DEF ClearMaps
<1>17. ASSUME NEW s \in Samplers, TeardownNotify(s) PROVE UNCHANGED S!vars
  BY <1>17 DEF TeardownNotify, NotifyOne, Waiting
<1>18. ASSUME NEW s \in Samplers, TeardownNothing(s) PROVE UNCHANGED S!vars
  BY <1>18 DEF TeardownNothing
<1>19. ASSUME NEW s \in Samplers, TeardownJoined(s) PROVE S!Release
  BY <1>19 DEF TeardownJoined, ListenerEnded, S!Release
<1>20. ASSUME NEW s \in Samplers, RestoreSignals(s) PROVE S!Release \/ UNCHANGED S!vars
  BY <1>20 DEF RestoreSignals, S!Release
<1>21. ASSUME NEW s \in Samplers, CloseRenderer(s) PROVE S!Release \/ UNCHANGED S!vars
  BY <1>21 DEF CloseRenderer, S!Release
<1>22. ASSUME NEW s \in Samplers, ResetFrameCache(s) PROVE S!Release
  BY <1>22 DEF ResetFrameCache, S!Release
<1>23. ASSUME NEW s \in Samplers, ListenerWait(s) PROVE UNCHANGED S!vars
  BY <1>23 DEF ListenerWait
<1>24. ASSUME NEW s \in Samplers, ListenerExit(s) PROVE UNCHANGED S!vars
  BY <1>24 DEF ListenerExit, WhereLockFree
<1>25. ASSUME NEW s \in Samplers, ListenerDump(s) PROVE S!BeginDump
  BY <1>25 DEF ListenerDump, WhereLockFree, S!BeginDump
<1>26. ASSUME NEW s \in Samplers, ListenerDumped(s) PROVE S!EndUse
  BY <1>26 DEF ListenerDumped, S!EndUse
<1>27. ASSUME NEW s \in Samplers, SpuriousWakeup(s) PROVE UNCHANGED S!vars
  BY <1>27 DEF SpuriousWakeup
<1>28. CASE UNCHANGED vars
  BY <1>28
<1> QED
  BY <1>1, <1>2, <1>3, <1>4, <1>5, <1>6, <1>7, <1>8, <1>9, <1>10,
       <1>11, <1>12, <1>13, <1>14, <1>15, <1>16, <1>17, <1>18, <1>19,
       <1>20, <1>21, <1>22, <1>23, <1>24, <1>25, <1>26, <1>27, <1>28
     DEF Next, StealthNext, PlainNext, SamplerStep, ListenerStep, S!Next, BootStartPlain, EcStart

(* In stealth mode what a sampler thread holds follows from where it is    *)
(* between _start and _stop, and nothing is held without a sampler thread  *)
(* that has not been joined.                                               *)
THEOREM StealthSessionInvariant ==
  ASSUME Modes \subseteq {"stealth"}
  PROVE  Spec => []SessionInv
<1>1. Init => SessionInv
  BY DEF Init, SessionInv
<1>2. TypeOK /\ StealthInv /\ SessionInv /\ [Next]_vars => SessionInv'
  BY SessionStep
<1> QED
  BY <1>1, <1>2, Typing, StealthInvariant, PTL DEF Spec

(* start_async, stop, the sampler thread, the SIGQUIT listener and its     *)
(* handler together keep the promises of Session: one session at a time,   *)
(* whose resources are taken in order and given back in the opposite one   *)
(* while nobody uses them, and a stop that returns only when it is over.   *)
THEOREM StealthImplementsSession ==
  ASSUME Modes \subseteq {"stealth"}
  PROVE  Spec => ImplementsSession
<1>1. Init => S!Init
  <2> SUFFICES ASSUME Init PROVE S!Init
    OBVIOUS
  <2>1. Held = {} /\ Busy = {}
    BY DEF Init, Held, Busy
  <2>2. PhaseOf(sampler_thread) = "none"
    BY DEF Init, PhaseOf
  <2> QED
    BY <2>1, <2>2 DEF Init, S!Init
<1>2. TypeOK /\ StealthInv /\ SessionInv /\ [Next]_vars => [S!Next]_(S!vars)
  BY RefinementStep
<1> QED
  BY <1>1, <1>2, Typing, StealthInvariant, StealthSessionInvariant, PTL
     DEF Spec, ImplementsSession, S!Spec
-----------------------------------------------------------------------------
(* Fork.                                                                   *)

(* In stealth mode whoever samples is the thread that a stop would join.   *)
ForkOwnerInv ==
  stealth => \A s \in ForkSamplers : F!Live(s) => fork_sampler_thread = s /\ fork_pc[s] # "begin"

(* A restart runs in a callback of the fork.                               *)
CallbackInv == fork_main \in {"restart_stop", "restart"} => hooksLeft > 0

(* A program that has stopped, or has not started, has nothing to restart  *)
(* in its children, and no thread that a stop would join.                  *)
AskedInv ==
  ~asked =>
    /\ fork_main \in {"run", "at_fork"}
    /\ ~do_on_fork \/ hooks = 0
    /\ stealth => fork_sampler_thread = "none"

(* What the table has, the stream has defined, or it was inherited; that   *)
(* is all there is when a sampler opens its stream.                        *)
StreamInv ==
  stealth =>
    /\ (\A s \in ForkSamplers : fork_pc[s] \in {"none", "start"})
         => string_table \subseteq inherited
    /\ (\E s \in ForkSamplers : fork_pc[s] \in {"idle", "locked"})
         => string_table \cup used \subseteq defined \cup inherited

ForkInv == F!TypeOK /\ ForkOwnerInv /\ CallbackInv /\ AskedInv /\ StreamInv

-----------------------------------------------------------------------------
(* The sampler of a stealth start is a thread that does nothing else.      *)
LEMMA StealthStart ==
  ASSUME F!TypeOK, ForkOwnerInv, F!StartSampler, stealth
  PROVE  \/ UNCHANGED <<fork_running, fork_sampler_thread, fork_pc>>
         \/ /\ \A s \in ForkSamplers : ~F!Live(s)
            /\ \E s \in ForkSamplers :
                 /\ fork_running' = TRUE /\ fork_sampler_thread' = s
                 /\ fork_pc' = [fork_pc EXCEPT ![s] = "start"]
<1>1. CASE fork_sampler_thread = "none"
  <2>1. \A s \in ForkSamplers : ~F!Live(s)
    BY <1>1, BootstrapAssumption DEF ForkOwnerInv
  <2>2. F!Unused = ForkSamplers /\ (CHOOSE s \in F!Unused : TRUE) \in F!Unused
    BY <2>1, BootstrapAssumption DEF F!Unused
  <2> QED
    BY <2>1, <2>2 DEF F!StartSampler
<1>2. CASE fork_sampler_thread # "none"
  BY <1>2 DEF F!StartSampler
<1> QED
  BY <1>1, <1>2

(* Every start keeps the state well typed. *)
LEMMA StartTyping ==
  ASSUME F!TypeOK, ForkOwnerInv, F!StartSampler, UNCHANGED stealth,
         UNCHANGED thread_info_map_lock
  PROVE  /\ fork_running' \in BOOLEAN
         /\ fork_sampler_thread' \in ForkSamplers \cup {"none"}
         /\ fork_pc' \in [ForkSamplers -> {"none", "begin", "start", "idle", "locked"}]
         /\ thread_info_map_lock'
              \in {s \in ForkSamplers : fork_pc'[s] = "locked"} \cup {"free", "lost"}
<1>1. CASE stealth
  BY <1>1, StealthStart DEF F!TypeOK, F!Live
<1>2. CASE ~stealth
  BY <1>2 DEF F!StartSampler, F!NoLock, F!TypeOK
<1> QED
  BY <1>1, <1>2

LEMMA ForkTypingStep ==
  ASSUME F!TypeOK, ForkOwnerInv, CallbackInv, [F!Next]_(F!vars)
  PROVE  F!TypeOK'
<1> USE BootstrapAssumption DEF F!TypeOK, F!bootstrap, F!stream
<1>1. CASE F!Start
  <2>1. F!StartSampler /\ UNCHANGED stealth /\ UNCHANGED thread_info_map_lock
    BY <1>1 DEF F!Start, F!BootStart
  <2>2. hooks' \in Nat /\ hooksLeft' \in 0..hooks' /\ starts' \in 0..MaxStarts
    BY <1>1 DEF F!Start, F!BootStart
  <2> QED
    BY <1>1, <2>1, <2>2, StartTyping DEF F!Start, F!BootStart
<1>2. CASE F!Stop
  BY <1>2 DEF F!Stop
<1>3. CASE F!StopReturn
  BY <1>3 DEF F!StopReturn
<1>4. CASE F!Fork
  BY <1>4 DEF F!Fork
<1>5. CASE F!RestartOnFork
  BY <1>5 DEF F!RestartOnFork, F!StoppedFlag
<1>6. CASE F!NoRestart
  BY <1>6 DEF F!NoRestart
<1>7. CASE F!RestartStopped
  BY <1>7 DEF F!RestartStopped
<1>8. CASE F!RestartStart
  <2>1. F!StartSampler /\ UNCHANGED stealth /\ UNCHANGED thread_info_map_lock
    BY <1>8 DEF F!RestartStart, F!BootStart
  <2>2. hooks' \in Nat /\ hooksLeft' \in 0..hooks'
    BY <1>8 DEF F!RestartStart, F!BootStart, CallbackInv
  <2> QED
    BY <1>8, <2>1, <2>2, StartTyping DEF F!RestartStart, F!BootStart
<1>9. CASE F!ForkReturn
  BY <1>9 DEF F!ForkReturn
<1>10. ASSUME NEW s \in ForkSamplers, F!SamplerStep(s) PROVE F!TypeOK'
  <2>1. CASE F!SamplerBegin(s)
    BY <2>1 DEF F!SamplerBegin
  <2>2. CASE F!OpenStream(s)
    BY <2>2 DEF F!OpenStream
  <2>3. CASE F!LockMap(s)
    BY <2>3 DEF F!LockMap
  <2>4. CASE F!Sample(s)
    BY <2>4 DEF F!Sample, F!Unlocked
  <2>5. CASE F!SamplerEnd(s)
    BY <2>5 DEF F!SamplerEnd, F!NoLock, F!TableCleared
  <2> QED
    BY <1>10, <2>1, <2>2, <2>3, <2>4, <2>5 DEF F!SamplerStep
<1>11. CASE UNCHANGED F!vars
  BY <1>11 DEF F!vars
<1> QED
  BY <1>1, <1>2, <1>3, <1>4, <1>5, <1>6, <1>7, <1>8, <1>9, <1>10, <1>11 DEF F!Next

(* A stop joins before it forgets whom; a fork leaves nobody.              *)
LEMMA ForkOwnerStep ==
  ASSUME F!TypeOK, ForkOwnerInv, [F!Next]_(F!vars)
  PROVE  ForkOwnerInv'
<1> SUFFICES ASSUME stealth' PROVE ForkOwnerInv'
  BY DEF ForkOwnerInv
<1> USE DEF ForkOwnerInv, F!TypeOK, F!Live, F!bootstrap
<1>1. CASE F!Start \/ F!RestartStart
  <2>1. F!StartSampler /\ stealth
    BY <1>1 DEF F!Start, F!RestartStart, F!BootStart
  <2>2. CASE UNCHANGED <<fork_running, fork_sampler_thread, fork_pc>>
    BY <2>1, <2>2
  <2>3. ASSUME \A s \in ForkSamplers : ~F!Live(s), NEW s \in ForkSamplers,
               fork_sampler_thread' = s, fork_pc' = [fork_pc EXCEPT ![s] = "start"]
        PROVE  ForkOwnerInv'
    BY <2>3
  <2> QED
    BY <2>1, <2>2, <2>3, StealthStart
<1>2. CASE F!StopReturn \/ F!RestartStopped
  BY <1>2 DEF F!StopReturn, F!RestartStopped, F!Joined
<1>3. CASE F!Fork
  BY <1>3 DEF F!Fork
<1>4. CASE F!Stop \/ F!RestartOnFork \/ F!NoRestart \/ F!ForkReturn \/ UNCHANGED F!vars
  BY <1>4 DEF F!Stop, F!RestartOnFork, F!NoRestart, F!ForkReturn, F!vars
<1>5. ASSUME NEW s \in ForkSamplers, F!SamplerStep(s) PROVE ForkOwnerInv'
  BY <1>5 DEF F!SamplerStep, F!SamplerBegin, F!OpenStream, F!LockMap, F!Sample, F!SamplerEnd
<1> QED
  BY <1>1, <1>2, <1>3, <1>4, <1>5 DEF F!Next

(* Only the restart of one callback leads to the next.                     *)
LEMMA CallbackStep ==
  ASSUME F!TypeOK, CallbackInv, [F!Next]_(F!vars)
  PROVE  CallbackInv'
<1> USE DEF CallbackInv, F!bootstrap
<1>1. CASE F!Start \/ F!Stop \/ F!StopReturn \/ F!Fork \/ F!NoRestart \/ F!ForkReturn
  BY <1>1 DEF F!Start, F!Stop, F!StopReturn, F!Fork, F!NoRestart, F!ForkReturn
<1>2. CASE F!RestartOnFork \/ F!RestartStopped \/ F!RestartStart
  BY <1>2 DEF F!RestartOnFork, F!RestartStopped, F!RestartStart
<1>3. ASSUME NEW s \in ForkSamplers, F!SamplerStep(s) PROVE CallbackInv'
  BY <1>3 DEF F!SamplerStep, F!SamplerBegin, F!OpenStream, F!LockMap, F!Sample, F!SamplerEnd
<1>4. CASE UNCHANGED F!vars
  BY <1>4 DEF F!vars
<1> QED
  BY <1>1, <1>2, <1>3, <1>4 DEF F!Next

(* Without a start, the callbacks of a fork do nothing.                    *)
LEMMA AskedStep ==
  ASSUME F!TypeOK, AskedInv, [F!Next]_(F!vars)
  PROVE  AskedInv'
<1> USE DEF AskedInv, F!TypeOK, F!bootstrap
<1>1. CASE F!Start \/ F!RestartStart
  BY <1>1 DEF F!Start, F!RestartStart
<1>2. CASE F!StopReturn \/ F!RestartStopped
  BY <1>2 DEF F!StopReturn, F!RestartStopped
<1>3. CASE F!Fork
  BY <1>3 DEF F!Fork
<1>4. CASE F!RestartOnFork
  BY <1>4 DEF F!RestartOnFork, F!Wanted
<1>5. CASE F!Stop \/ F!NoRestart \/ F!ForkReturn \/ UNCHANGED F!vars
  BY <1>5 DEF F!Stop, F!NoRestart, F!ForkReturn, F!vars
<1>6. ASSUME NEW s \in ForkSamplers, F!SamplerStep(s) PROVE AskedInv'
  BY <1>6 DEF F!SamplerStep, F!SamplerBegin, F!OpenStream, F!LockMap, F!Sample, F!SamplerEnd
<1> QED
  BY <1>1, <1>2, <1>3, <1>4, <1>5, <1>6 DEF F!Next

(* A sampler that ends clears the table; one that was lost to a fork       *)
(* leaves it behind as inherited.                                          *)
LEMMA StreamStep ==
  ASSUME F!TypeOK, ForkOwnerInv, StreamInv, [F!Next]_(F!vars)
  PROVE  StreamInv'
<1> SUFFICES ASSUME stealth' PROVE StreamInv'
  BY DEF StreamInv
<1> USE DEF StreamInv, F!TypeOK, F!bootstrap, F!stream
<1>1. CASE F!Start \/ F!RestartStart
  <2>1. F!StartSampler /\ stealth /\ UNCHANGED F!stream
    BY <1>1 DEF F!Start, F!RestartStart, F!BootStart
  <2> QED
    BY <2>1, StealthStart DEF F!Live
<1>2. CASE F!Fork
  BY <1>2, BootstrapAssumption DEF F!Fork
<1>3. CASE F!Stop \/ F!StopReturn \/ F!RestartOnFork \/ F!NoRestart \/ F!RestartStopped
           \/ F!ForkReturn \/ UNCHANGED F!vars
  BY <1>3 DEF F!Stop, F!StopReturn, F!RestartOnFork, F!NoRestart, F!RestartStopped,
              F!ForkReturn, F!vars
<1>4. ASSUME NEW s \in ForkSamplers, F!SamplerStep(s) PROVE StreamInv'
  <2>0. stealth /\ (F!Live(s) => \A t \in ForkSamplers \ {s} : fork_pc[t] = "none")
    BY <1>4 DEF F!SamplerStep, F!SamplerBegin, F!OpenStream, F!LockMap, F!Sample,
                F!SamplerEnd, ForkOwnerInv, F!Live
  <2>1. CASE F!SamplerBegin(s)
    BY <2>0, <2>1 DEF F!SamplerBegin, ForkOwnerInv, F!Live
  <2>2. CASE F!OpenStream(s)
    BY <2>0, <2>2 DEF F!OpenStream, F!Live
  <2>3. CASE F!LockMap(s)
    BY <2>0, <2>3 DEF F!LockMap, F!Live
  <2>4. CASE F!Sample(s)
    BY <2>0, <2>4 DEF F!Sample, F!Live
  <2>5. CASE F!SamplerEnd(s)
    BY <2>0, <2>5 DEF F!SamplerEnd, F!TableCleared, F!Live
  <2> QED
    BY <1>4, <2>1, <2>2, <2>3, <2>4, <2>5 DEF F!SamplerStep
<1> QED
  BY <1>1, <1>2, <1>3, <1>4 DEF F!Next

-----------------------------------------------------------------------------

(* What the state of the bootstrap and of its samplers always has in       *)
(* common, in the program and in all of its descendants.                   *)
THEOREM ForkInvariant == F!Spec => []ForkInv
<1>1. F!Init => ForkInv
  <2> SUFFICES ASSUME F!Init PROVE ForkInv
    OBVIOUS
  <2>1. F!TypeOK
    <3>1. hooks \in Nat /\ hooksLeft \in 0..hooks
          /\ starts \in 0..MaxStarts /\ forks \in 0..MaxForks
      BY BootstrapAssumption DEF F!Init
    <3>2. do_on_fork \in BOOLEAN /\ asked \in BOOLEAN /\ fork_running \in BOOLEAN
      BY DEF F!Init
    <3> QED
      BY <3>1, <3>2 DEF F!Init, F!TypeOK
  <2>2. ForkOwnerInv /\ CallbackInv /\ AskedInv
    BY DEF F!Init, ForkOwnerInv, CallbackInv, AskedInv, F!Live
  <2>3. StreamInv
    BY DEF F!Init, StreamInv
  <2> QED
    BY <2>1, <2>2, <2>3 DEF ForkInv
<1>2. ForkInv /\ [F!Next]_(F!vars) => ForkInv'
  BY ForkTypingStep, ForkOwnerStep, CallbackStep, AskedStep, StreamStep DEF ForkInv
<1> QED
  BY <1>1, <1>2, PTL DEF F!Spec

(* After a stop the program is not sampled, nor is any process it forks,   *)
(* however often it has been started and stopped before                    *)
(* (bootstrap/__init__.py:14-20).                                          *)
THEOREM StoppedProgramsAreLeftAlone == F!Spec => []StoppedMeansStopped
<1>1. ForkInv => StoppedMeansStopped
  BY BootstrapAssumption DEF ForkInv, ForkOwnerInv, AskedInv, StoppedMeansStopped, F!StoppedMeansStopped
<1> QED
  BY <1>1, ForkInvariant, PTL

(* Of all the restarts that the callbacks of a fork make, one at a time    *)
(* samples (coremodule.cc:252-290).                                        *)
THEOREM OneSamplerAtATime == F!Spec => []SingleSampler
<1>1. ForkInv => SingleSampler
  BY DEF ForkInv, ForkOwnerInv, F!Live, SingleSampler, F!SingleSampler
<1> QED
  BY <1>1, ForkInvariant, PTL

(* A stream defines what it refers to, but for what its process has        *)
(* inherited (coremodule.cc:182).                                          *)
THEOREM StreamsAreDefined == F!Spec => []StreamDefined
<1>1. ForkInv => StreamDefined
  BY DEF ForkInv, StreamInv, StreamDefined, F!StreamDefined
<1> QED
  BY <1>1, ForkInvariant, PTL

-----------------------------------------------------------------------------
(* Hooks.                                                                  *)

LEMMA HookStart == H!Init => H!TypeOK /\ H!HookInv
<1> SUFFICES ASSUME H!Init PROVE H!TypeOK /\ H!HookInv
  OBVIOUS
<1>1. hooks_starts \in 0..MaxStarts
  BY BootstrapAssumption DEF H!Init
<1> QED
  BY <1>1 DEF H!Init, H!TypeOK, H!HookInv, H!InFlight

LEMMA HookTyping ==
  ASSUME H!TypeOK, H!HookInv, [H!Next]_(H!vars)
  PROVE  H!TypeOK'
<1> USE BootstrapAssumption DEF H!TypeOK, H!HookInv, H!Instances, H!imports
<1>1. CASE H!Install
  BY <1>1 DEF H!Install, H!Overtaken, H!InFlight
<1>2. ASSUME NEW m \in Modules, H!RegisterModuleHook(m) PROVE H!TypeOK'
  BY <1>2 DEF H!RegisterModuleHook
<1>3. ASSUME NEW m \in Modules, H!RunHook(m) PROVE H!TypeOK'
  BY <1>3 DEF H!RunHook
<1>4. CASE H!Started
  BY <1>4 DEF H!Started
<1>5. CASE H!Stop
  BY <1>5 DEF H!Stop, H!Unpatched, H!Uninstalled, H!Overtaken, H!InFlight
<1>6. ASSUME NEW m \in Modules, H!FindSpec(m) PROVE H!TypeOK'
  BY <1>6 DEF H!FindSpec
<1>7. ASSUME NEW m \in Modules, H!CreateModule(m) \/ H!ExecModule(m)
      PROVE  H!TypeOK'
  BY <1>7 DEF H!CreateModule, H!ExecModule
<1>8. CASE UNCHANGED H!vars
  BY <1>8 DEF H!vars
<1> QED
  BY <1>1, <1>2, <1>3, <1>4, <1>5, <1>6, <1>7, <1>8 DEF H!Next, H!Import

(* The hook of a module is registered before or after its import begins,   *)
(* and runs at once or when the import ends.                               *)
LEMMA HookStep ==
  ASSUME H!TypeOK, H!HookInv, [H!Next]_(H!vars)
  PROVE  H!HookInv'
<1> USE BootstrapAssumption DEF H!TypeOK, H!HookInv, H!Instances, H!imports,
    H!InFlight, H!Imported
<1>1. CASE H!Install
  BY <1>1 DEF H!Install, H!Overtaken
<1>2. ASSUME NEW m \in Modules, H!RegisterModuleHook(m) PROVE H!HookInv'
  BY <1>2 DEF H!RegisterModuleHook, H!NowDue, H!InSysModules
<1>3. ASSUME NEW m \in Modules, H!RunHook(m) PROVE H!HookInv'
  BY <1>3 DEF H!RunHook
<1>4. CASE H!Started
  BY <1>4 DEF H!Started
<1>5. CASE H!Stop
  BY <1>5 DEF H!Stop, H!Unpatched, H!Uninstalled, H!Overtaken
<1>6. ASSUME NEW m \in Modules, H!FindSpec(m) PROVE H!HookInv'
  BY <1>6 DEF H!FindSpec
<1>7. ASSUME NEW m \in Modules, H!CreateModule(m) PROVE H!HookInv'
  BY <1>7 DEF H!CreateModule
<1>8. ASSUME NEW m \in Modules, H!ExecModule(m) PROVE H!HookInv'
  BY <1>8 DEF H!ExecModule, H!AfterImport
<1>9. CASE UNCHANGED H!vars
  BY <1>9 DEF H!vars
<1> QED
  BY <1>1, <1>2, <1>3, <1>4, <1>5, <1>6, <1>7, <1>8, <1>9
     DEF H!Next, H!Import

-----------------------------------------------------------------------------
(* A behaviour of the whole is one of each of its parts, that of the other *)
(* parts being no step of it.                                              *)
LEMMA Parts == MCSpec => Spec /\ F!Spec /\ H!Spec
<1>1. MCInit => Init /\ F!Init /\ H!Init
  BY DEF MCInit
<1>2. [MCNext]_<<part, vars, fork_vars, hooks_vars>> => [Next]_vars
  BY DEF MCNext
<1>3. [MCNext]_<<part, vars, fork_vars, hooks_vars>> => [F!Next]_(F!vars)
  BY DEF MCNext, F!vars, F!bootstrap, F!stream, fork_vars
<1>4. [MCNext]_<<part, vars, fork_vars, hooks_vars>> => [H!Next]_(H!vars)
  BY DEF MCNext, H!vars, H!imports, hooks_vars
<1> QED
  BY <1>1, <1>2, <1>3, <1>4, PTL DEF MCSpec, Spec, F!Spec, H!Spec

(* Whatever is imported while echion starts, runs and stops, by whomever:  *)
(* a module is patched exactly while echion is on, but for imports that a  *)
(* start or a stop overtakes (module.py:188-196, monkey/asyncio.py).       *)
THEOREM ModulesArePatched == MCSpec => []ImportsPatched
<1>1. H!Init => H!TypeOK /\ H!HookInv
  BY HookStart
<1>2. H!TypeOK /\ H!HookInv /\ [H!Next]_(H!vars) => (H!TypeOK /\ H!HookInv)'
  BY HookTyping, HookStep
<1>3. H!HookInv => ImportsPatched
  BY DEF H!HookInv, ImportsPatched, H!ImportsPatched, H!HooksHaveRun,
         H!StoppedUnpatched
<1> QED
  BY <1>1, <1>2, <1>3, Parts, PTL DEF H!Spec

(* What goes on around the sampler is well typed: starts and stops in      *)
(* both modes, restarts in the children of a fork, the hooks on imports.   *)
THEOREM BootstrapTyped == MCSpec => []TypesOK
<1>1. H!TypeOK /\ H!HookInv /\ [H!Next]_(H!vars) => (H!TypeOK /\ H!HookInv)'
  BY HookTyping, HookStep
<1>2. TypeOK /\ ForkInv /\ H!TypeOK => TypesOK
  BY DEF ForkInv, TypesOK
<1> QED
  BY <1>1, <1>2, HookStart, Typing, ForkInvariant, Parts, PTL DEF H!Spec
=============================================================================
