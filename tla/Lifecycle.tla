------------------------------- MODULE Lifecycle -------------------------------
(***************************************************************************)
(* The life of the sampler: the calls start, start_async and stop of the   *)
(* extension module (coremodule.cc), the way bootstrap/__init__.py issues  *)
(* them, the sampler thread's _start / _sampler / _stop, and the listener  *)
(* thread that dumps the stacks when SIGQUIT arrives.                      *)
(*                                                                         *)
(* Threads: the main Python thread (the caller of bootstrap.start and      *)
(* bootstrap.stop, and the thread the kernel picks to run the SIGQUIT      *)
(* handler), one sampler thread per start, and one listener per session    *)
(* that gets as far as setup_where.  All of the state is the process-wide  *)
(* state of state.h, frame.h and render.h.                                 *)
(***************************************************************************)
EXTENDS Naturals

CONSTANTS
  Samplers,     (* the threads that can run sampler(), one per start       *)
  Modes,        (* ECHION_STEALTH of the starts: "stealth" and/or "plain"  *)
  WhereModes,   (* ECHION_WHERE of the starts: subset of BOOLEAN           *)
  MaxWakeups,   (* bound on SIGQUITs plus spurious wake-ups                *)
  nullptr

ASSUME LifecycleAssumption ==
  /\ Modes \subseteq {"stealth", "plain"}
  /\ WhereModes \subseteq BOOLEAN
  /\ MaxWakeups \in Nat
  /\ nullptr \notin Samplers

VARIABLES
  running,         (* state.h: the flag every loop polls                   *)
  sampler_thread,  (* state.h: the std::thread of start_async, or nullptr  *)
  where,           (* config.h: where mode                                 *)
  where_thread,    (* state.h: the listener, named by its session          *)
  where_lock,      (* owner of the mutex of where_cv                       *)
  pc,              (* control state of every sampler thread                *)
  listener,        (* control state of every listener thread               *)
  main,            (* "idle", or "joining" inside stop() with the GIL      *)
  handler,         (* is the main thread inside sigquit_handler?           *)
  sigquit,         (* is sigquit_handler installed?                        *)
  frame_cache,     (* "null" or "live"                                     *)
  output,          (* the renderer's file: "closed" or "open"              *)
  wakeups          (* SIGQUITs and spurious wake-ups so far                *)

state  == <<running, sampler_thread, where, where_thread, where_lock>>
env    == <<handler, sigquit, wakeups>>
render == <<frame_cache, output>>
vars   == <<running, sampler_thread, where, where_thread, where_lock, pc,
            listener, main, handler, sigquit, frame_cache, output, wakeups>>

SamplerStates ==
  {"absent", "launched", "init", "open", "signals", "where", "setup",
   "header", "loop", "pass", "clear", "teardown", "join", "restore",
   "close", "reset", "gone"}

ListenerStates == {"none", "loop", "waiting", "woken", "dumping", "exited"}

TypeOK ==
  /\ running \in {0, 1}
  /\ sampler_thread \in Samplers \cup {nullptr}
  /\ where \in BOOLEAN
  /\ where_thread \in Samplers \cup {nullptr}
  /\ where_lock \in Samplers \cup {nullptr}
  /\ pc \in [Samplers -> SamplerStates]
  /\ listener \in [Samplers -> ListenerStates]
  /\ main \in {"idle", "joining"}
  /\ handler \in BOOLEAN
  /\ sigquit \in BOOLEAN
  /\ frame_cache \in {"null", "live"}
  /\ output \in {"closed", "open"}
  /\ wakeups \in 0..MaxWakeups

(* The extension module has just been imported. *)
Init ==
  /\ running = 0
  /\ sampler_thread = nullptr
  /\ where = FALSE
  /\ where_thread = nullptr
  /\ where_lock = nullptr
  /\ pc = [s \in Samplers |-> "absent"]
  /\ listener = [s \in Samplers |-> "none"]
  /\ main = "idle"
  /\ handler = FALSE
  /\ sigquit = FALSE
  /\ frame_cache = "null"
  /\ output = "closed"
  /\ wakeups = 0

Goto(s, from, to) ==
  /\ pc[s] = from
  /\ pc' = [pc EXCEPT ![s] = to]

-----------------------------------------------------------------------------
(* The main Python thread.  While it is inside the signal handler it does  *)
(* nothing else; while it joins it keeps the GIL.                          *)

MainFree == main = "idle" /\ ~handler

AsyncAlways == running = 0

(* start_async's two tests. *)
CanStartAsync == running = 0 /\ sampler_thread = nullptr

(* bootstrap.start with ECHION_STEALTH=1: start_async spawns the thread    *)
(* unless a sampler runs or has not been joined yet.                       *)
BootStartStealth(s, w) ==
  /\ "stealth" \in Modes
  /\ MainFree
  /\ pc[s] = "absent"
  /\ where' = w
  /\ IF CanStartAsync
     THEN /\ running' = 1
          /\ sampler_thread' = s
          /\ pc' = [pc EXCEPT ![s] = "init"]
     ELSE UNCHANGED <<running, sampler_thread, pc>>
  /\ UNCHANGED <<where_thread, where_lock, listener, main, env, render>>

(* bootstrap.start without stealth: a daemon Python thread is started that *)
(* will call the blocking start() when it gets the GIL.                    *)
BootStartPlain(s, w) ==
  /\ "plain" \in Modes
  /\ MainFree
  /\ Goto(s, "absent", "launched")
  /\ where' = w
  /\ UNCHANGED <<running, sampler_thread, where_thread, where_lock, listener,
                 main, env, render>>

(* start(): test and set under the GIL, then run without it. *)
EcStart(s) ==
  /\ main # "joining"
  /\ IF running = 0
     THEN Goto(s, "launched", "init") /\ running' = 1
     ELSE Goto(s, "launched", "gone") /\ UNCHANGED running
  /\ UNCHANGED <<sampler_thread, where, where_thread, where_lock, listener,
                 main, env, render>>

(* stop() joins the thread of start_async and nothing else. *)
MustJoin == sampler_thread # nullptr

KeepRunning == running

(* The value stop() leaves in running. *)
StoppedFlag == 0

Stop ==
  /\ MainFree
  /\ running' = StoppedFlag
  /\ main' = IF MustJoin THEN "joining" ELSE "idle"
  /\ UNCHANGED <<sampler_thread, where, where_thread, where_lock, pc, listener,
                 env, render>>

StopJoined ==
  /\ main = "joining"
  /\ ~handler
  /\ pc[sampler_thread] = "gone"
  /\ sampler_thread' = nullptr
  /\ main' = "idle"
  /\ UNCHANGED <<running, where, where_thread, where_lock, pc, listener,
                 env, render>>

-----------------------------------------------------------------------------
(* _start.                                                                 *)

InitFrameCache(s) ==
  /\ Goto(s, "init", "open")
  /\ frame_cache' = "live"
  /\ UNCHANGED <<state, listener, main, env, output>>

OpenRenderer(s) ==
  /\ Goto(s, "open", "signals")
  /\ output' = "open"
  /\ UNCHANGED <<state, listener, main, env, frame_cache>>

(* _start returns early: no signals, no listener, but the loop runs. *)
OpenFails(s) ==
  /\ Goto(s, "open", "loop")
  /\ UNCHANGED <<state, listener, main, env, render>>

InstallSignals(s) ==
  /\ Goto(s, "signals", IF where THEN "where" ELSE "setup")
  /\ sigquit' = TRUE
  /\ UNCHANGED <<state, listener, main, handler, wakeups, render>>

(* Where mode: one dump into the pipe, then the session ends itself. *)
WhereDump(s) ==
  /\ Goto(s, "where", "loop")
  /\ running' = 0
  /\ UNCHANGED <<sampler_thread, where, where_thread, where_lock, listener,
                 main, env, render>>

SetupWhere(s) ==
  /\ Goto(s, "setup", "header")
  /\ where_thread' = s
  /\ listener' = [listener EXCEPT ![s] = "loop"]
  /\ UNCHANGED <<running, sampler_thread, where, where_lock, main, env, render>>

(* Header, metadata and the empty sample that carries the PID. *)
Header(s) ==
  /\ Goto(s, "header", "loop")
  /\ UNCHANGED <<state, listener, main, env, render>>

-----------------------------------------------------------------------------
(* _sampler: running is read once per iteration; the pass over the threads *)
(* and the sleep come after the read.                                      *)

LoopEnter(s) ==
  /\ running = 1
  /\ Goto(s, "loop", "pass")
  /\ UNCHANGED <<state, listener, main, env, render>>

PassDone(s) ==
  /\ Goto(s, "pass", "loop")
  /\ UNCHANGED <<state, listener, main, env, render>>

ExitToBeJoined(s) ==
  /\ running = 0
  /\ sampler_thread = s
  /\ Goto(s, "loop", "clear")
  /\ UNCHANGED <<state, listener, main, env, render>>

LoopExit(s) ==
  /\ running = 0
  /\ Goto(s, "loop", "clear")
  /\ UNCHANGED <<state, listener, main, env, render>>

-----------------------------------------------------------------------------
(* _stop.                                                                  *)

(* The memory teardown and the clearing of the thread map and of the       *)
(* string table.                                                           *)
ClearMaps(s) ==
  /\ Goto(s, "clear", "teardown")
  /\ UNCHANGED <<state, listener, main, env, render>>

Waiting == {s \in Samplers : listener[s] = "waiting"}

(* condition_variable::notify_one: wakes one waiter, or nobody. *)
NotifyOne ==
  \/ /\ Waiting = {}
     /\ UNCHANGED listener
  \/ \E s \in Waiting : listener' = [listener EXCEPT ![s] = "woken"]

TeardownNotify(s) ==
  /\ where_thread # nullptr
  /\ where_lock = nullptr
  /\ Goto(s, "teardown", "join")
  /\ NotifyOne
  /\ UNCHANGED <<state, main, env, render>>

TeardownNothing(s) ==
  /\ where_thread = nullptr
  /\ Goto(s, "teardown", "restore")
  /\ UNCHANGED <<state, listener, main, env, render>>

NoJoinNeeded == TRUE

(* where_thread->join() returns when the listener has ended. *)
ListenerEnded == where_thread # nullptr /\ listener[where_thread] = "exited"

TeardownJoined(s) ==
  /\ ListenerEnded
  /\ Goto(s, "join", "restore")
  /\ where_thread' = nullptr
  /\ UNCHANGED <<running, sampler_thread, where, where_lock, listener, main,
                 env, render>>

RestoreSignals(s) ==
  /\ Goto(s, "restore", "close")
  /\ sigquit' = FALSE
  /\ UNCHANGED <<state, listener, main, handler, wakeups, render>>

CloseRenderer(s) ==
  /\ Goto(s, "close", "reset")
  /\ output' = "closed"
  /\ UNCHANGED <<state, listener, main, env, frame_cache>>

ResetFrameCache(s) ==
  /\ Goto(s, "reset", "gone")
  /\ frame_cache' = "null"
  /\ UNCHANGED <<state, listener, main, env, output>>

-----------------------------------------------------------------------------
(* where_listener.                                                         *)

(* Take where_lock and wait: the wait gives the lock back. *)
ListenerWait(s) ==
  /\ listener[s] = "loop"
  /\ where_lock = nullptr
  /\ listener' = [listener EXCEPT ![s] = "waiting"]
  /\ UNCHANGED <<state, pc, main, env, render>>

(* The wait has no predicate, so a spurious wake-up counts as a signal. *)
SpuriousWakeup(s) ==
  /\ wakeups < MaxWakeups
  /\ listener[s] = "waiting"
  /\ listener' = [listener EXCEPT ![s] = "woken"]
  /\ wakeups' = wakeups + 1
  /\ UNCHANGED <<state, pc, main, handler, sigquit, render>>

WhereLockFree == where_lock = nullptr

(* Woken: take the lock again, then leave or dump with the lock held. *)
ListenerExit(s) ==
  /\ listener[s] = "woken"
  /\ WhereLockFree
  /\ running = 0
  /\ listener' = [listener EXCEPT ![s] = "exited"]
  /\ UNCHANGED <<state, pc, main, env, render>>

ListenerDump(s) ==
  /\ listener[s] = "woken"
  /\ WhereLockFree
  /\ running = 1
  /\ listener' = [listener EXCEPT ![s] = "dumping"]
  /\ where_lock' = s
  /\ UNCHANGED <<running, sampler_thread, where, where_thread, pc, main, env,
                 render>>

ListenerDumped(s) ==
  /\ listener[s] = "dumping"
  /\ listener' = [listener EXCEPT ![s] = "loop"]
  /\ where_lock' = nullptr
  /\ UNCHANGED <<running, sampler_thread, where, where_thread, pc, main, env,
                 render>>

-----------------------------------------------------------------------------
(* SIGQUIT interrupts the main thread, which locks where_lock and notifies. *)

SigQuit ==
  /\ wakeups < MaxWakeups
  /\ sigquit
  /\ ~handler
  /\ handler' = TRUE
  /\ wakeups' = wakeups + 1
  /\ UNCHANGED <<state, pc, listener, main, sigquit, render>>

SigQuitNotify ==
  /\ handler
  /\ where_lock = nullptr
  /\ NotifyOne
  /\ handler' = FALSE
  /\ UNCHANGED <<state, pc, main, sigquit, wakeups, render>>

-----------------------------------------------------------------------------
SamplerStep(s) ==
  \/ InitFrameCache(s) \/ OpenRenderer(s) \/ OpenFails(s)
  \/ InstallSignals(s) \/ WhereDump(s) \/ SetupWhere(s) \/ Header(s)
  \/ LoopEnter(s) \/ PassDone(s) \/ LoopExit(s)
  \/ ClearMaps(s) \/ TeardownNotify(s) \/ TeardownNothing(s)
  \/ TeardownJoined(s) \/ RestoreSignals(s) \/ CloseRenderer(s)
  \/ ResetFrameCache(s)

ListenerStep(s) ==
  \/ ListenerWait(s) \/ ListenerExit(s) \/ ListenerDump(s)
  \/ ListenerDumped(s)

StealthNext ==
  \/ \E s \in Samplers, w \in WhereModes : BootStartStealth(s, w)
  \/ Stop \/ StopJoined \/ SigQuit \/ SigQuitNotify
  \/ \E s \in Samplers : SamplerStep(s) \/ ListenerStep(s) \/ SpuriousWakeup(s)

PlainNext ==
  \E s \in Samplers :
    EcStart(s) \/ \E w \in WhereModes : BootStartPlain(s, w)

Next == StealthNext \/ PlainNext

Spec == Init /\ [][Next]_vars

(* Every thread that can run does run: the operating system schedules the  *)
(* sampler, the listener, the signal handler and the join of stop().  The  *)
(* calls of the program and the signals are left unfair.                   *)
Fairness ==
  /\ \A s \in Samplers : WF_vars(SamplerStep(s)) /\ WF_vars(ListenerStep(s))
                         /\ WF_vars(EcStart(s))
  /\ WF_vars(StopJoined)
  /\ WF_vars(SigQuitNotify)

FairSpec == Spec /\ Fairness

-----------------------------------------------------------------------------
(* Properties.                                                             *)

(* A sampler thread between the first line of _start and the last of _stop. *)
Active(s) == pc[s] \notin {"absent", "launched", "gone"}

(* Two sampler threads are never inside sampler() at the same time, so the *)
(* process-wide state of a session has one owner.                          *)
SingleSession == \A s, r \in Samplers : Active(s) /\ Active(r) => s = r

(* Whoever unwinds or renders stacks (the sampling pass, the where-mode    *)
(* dump, the memory flush of _stop, a SIGQUIT dump) finds the frame cache  *)
(* allocated: _stop deletes it only after the listener has been joined.    *)
CacheLive ==
  (\E s \in Samplers :
      pc[s] \in {"where", "pass", "clear"} \/ listener[s] = "dumping")
    => frame_cache = "live"

(* A SIGQUIT dump adds the frames it meets to the frame cache and writes   *)
(* their definitions to the output file: it must happen while that file is *)
(* open, or later samples refer to frames the file never defines.          *)
DumpWhileOpen ==
  \A s \in Samplers : listener[s] = "dumping" => output = "open"

(* A listener never outlives the session that created it. *)
ListenerInSession ==
  \A s \in Samplers :
    listener[s] \notin {"none", "exited"} => Active(s) /\ where_thread = s

(* The dump runs with where_lock: two dumps never share the where renderer *)
(* and the accumulators.                                                   *)
DumpsExclusive ==
  \A s, r \in Samplers :
    listener[s] = "dumping" /\ listener[r] = "dumping" => s = r

(* Why the properties hold in stealth mode: the state of a session belongs *)
(* to the sampler thread that start_async recorded, and a session walks    *)
(* through _start, _sampler and _stop in an order that brackets the life   *)
(* of its listener and of the frame cache.                                 *)
OwnerInv ==
  \A s \in Samplers : pc[s] # "launched" /\ (Active(s) => sampler_thread = s)

ListenerInv ==
  \A s \in Samplers :
    /\ where_thread = s => /\ pc[s] \in {"header", "loop", "pass", "clear",
                                         "teardown", "join"}
                           /\ output = "open"
    /\ listener[s] \notin {"none", "exited"} => where_thread = s
    /\ pc[s] \in {"signals", "where", "setup", "header"} => output = "open"

CacheInv ==
  \A s \in Samplers :
    Active(s) /\ pc[s] # "init" => frame_cache = "live"

LockInv ==
  \A s \in Samplers :
    /\ listener[s] = "dumping" <=> where_lock = s
    /\ pc[s] \in {"absent", "launched", "init", "open", "signals", "where",
                 "setup"} => listener[s] = "none"

StealthInv == OwnerInv /\ ListenerInv /\ CacheInv /\ LockInv

(* _stop has notified the listener before it waited, and now joins it.     *)
LostWakeup ==
  \E s \in Samplers : pc[s] = "join" /\ listener[s] \in {"loop", "waiting"}

(* stop() returns, with the sampler thread ended, unless the notification  *)
(* of teardown_where came when the listener was not waiting.               *)
StopReturnsOrLostWakeup == main = "joining" ~> (main = "idle" \/ LostWakeup)

(* As long as sessions do not overlap, a sampler that is inside one when   *)
(* running is cleared gets to the end of _stop, with or without stop()     *)
(* waiting for it, unless the flag is set again or the notification of     *)
(* teardown_where is lost.                                                 *)
SessionEnds ==
  []SingleSession =>
    \A s \in Samplers :
      (Active(s) /\ running = 0)
      ~> (pc[s] = "gone" \/ LostWakeup \/ running = 1)

(* stop() "Stop[s] the stack sampler": the join ends. *)
StopReturns == main = "joining" ~> main = "idle"
=============================================================================
