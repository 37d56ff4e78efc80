------------------------------ MODULE NativeUnwind ------------------------------
(***************************************************************************)
(* Native mode: a thread is unwound by itself, in the handler of a SIGPROF *)
(* that the sampler, or the where listener, sends it (signals.h,           *)
(* ThreadInfo::unwind).  The two hand over through sigprof_handler_lock,   *)
(* and leave the stacks in globals.                                        *)
(***************************************************************************)
EXTENDS Integers

CONSTANTS
  Threads,
  MainThread,   (* the one of that name, which does not exit               *)
  TableUsers,   (* those that call track_greenlet                          *)
  MaxSessions

ASSUME NativeAssumption ==
  /\ MainThread \in Threads
  /\ TableUsers \subseteq Threads
  /\ MaxSessions \in Nat

VARIABLES
  life,          (* of the threads                                         *)
  patched,       (* are the hooks of threading there?                      *)
  hooked,        (* the threads that were born with them                   *)
  thread_info_map,
  as_main,       (* the threads that have the name "MainThread" in it      *)
  handler,       (* per thread: where its SIGPROF is                       *)
  map_lock, table_lock,
  sigprof_handler_lock,        (* 1 when it is locked, whoever locked it    *)
  current_tstate, native_stack, python_stack,   (* whose they are          *)
  pc,            (* of the two that walk over the threads                  *)
  todo, target,  (* the threads a walker has left, and the one it is at    *)
  running, sessions,
  installed      (* is there a handler for SIGPROF? Else it kills          *)

program == <<life, patched, hooked, thread_info_map, as_main>>
stacks  == <<current_tstate, native_stack, python_stack>>
session == <<running, sessions, installed>>
walk    == <<pc, todo, target>>
locks   == <<map_lock, table_lock, sigprof_handler_lock>>
vars    == <<program, handler, locks, stacks, walk, session>>

Walkers == {"sampler", "listener"}
Free    == "none"
Idle    == {"off", "ready", "stopping"}
Holding == {"sampling", "guarded", "waiting", "render"}

TypeOK ==
  /\ life \in [Threads -> {"unborn", "running", "leaving", "untracked", "exited"}]
  /\ patched \in BOOLEAN /\ hooked \subseteq Threads
  /\ as_main \subseteq thread_info_map /\ thread_info_map \subseteq Threads
  /\ handler \in [Threads -> {"none", "pending", "native", "python", "done"}]
  /\ map_lock \in Walkers \cup {Free}
  /\ table_lock \in Threads \cup {Free}
  /\ sigprof_handler_lock \in 0..1
  /\ current_tstate \in Threads \cup {"none"}
  /\ native_stack \in Threads \cup {"none"}
  /\ python_stack \in Threads \cup {"none"}
  /\ pc \in [Walkers -> Idle \cup {"walk", "copied"} \cup Holding]
  /\ todo \in [Walkers -> SUBSET Threads]
  /\ target \in [Walkers -> Threads \cup {"none"}]
  /\ running \in BOOLEAN /\ sessions \in 0..MaxSessions /\ installed \in BOOLEAN

Init ==
  /\ life \in [Threads -> {"unborn", "running"}] /\ life[MainThread] = "running"
  /\ patched = FALSE /\ hooked = {} /\ thread_info_map = {} /\ as_main = {}
  /\ handler = [t \in Threads |-> "none"]
  /\ map_lock = Free /\ table_lock = Free /\ sigprof_handler_lock = 0
  /\ current_tstate = "none" /\ native_stack = "none" /\ python_stack = "none"
  /\ pc = [w \in Walkers |-> "off"]
  /\ todo = [w \in Walkers |-> {}]
  /\ target = [w \in Walkers |-> "none"]
  /\ running = FALSE /\ sessions = 0 /\ installed = FALSE

-----------------------------------------------------------------------------
(* The program's threads.                                                  *)

Alive(t) == life[t] \in {"running", "leaving", "untracked"}

(* A thread whose handler runs does nothing else. *)
Undisturbed(t) == Alive(t) /\ handler[t] \in {"none", "pending"}

(* With the hooks it is tracked as it starts, and untracked as it ends; a  *)
(* walk under way may reach it.                                            *)
Born(t) ==
  /\ life[t] = "unborn" /\ (patched => map_lock = Free)
  /\ life' = [life EXCEPT ![t] = "running"]
  /\ hooked' = IF patched THEN hooked \cup {t} ELSE hooked
  /\ thread_info_map' = IF patched THEN thread_info_map \cup {t} ELSE thread_info_map
  /\ todo' \in {todo, [w \in Walkers |-> IF pc[w] \in Idle THEN todo[w]
                                          ELSE todo[w] \cup {t}]}
  /\ UNCHANGED <<patched, as_main, handler, locks, stacks, pc, target, session>>

(* thread_bootstrap_inner is about to untrack the thread. *)
Leave(t) ==
  /\ life[t] = "running" /\ Undisturbed(t) /\ t \in hooked /\ table_lock # t
  /\ life' = [life EXCEPT ![t] = "leaving"]
  /\ UNCHANGED <<patched, hooked, thread_info_map, as_main, handler, locks, stacks, walk, session>>

AnyMoment == TRUE

UntrackLocked == map_lock = Free

UntrackThread(t) ==
  /\ life[t] = "leaving" /\ Undisturbed(t) /\ UntrackLocked
  /\ life' = [life EXCEPT ![t] = "untracked"]
  /\ thread_info_map' = thread_info_map \ {t}
  /\ as_main' = as_main \ {t}
  /\ UNCHANGED <<patched, hooked, handler, locks, stacks, walk, session>>

(* Nobody untracks a thread that was born without the hooks. *)
Exit(t) ==
  /\ \/ life[t] = "untracked"
     \/ t \notin hooked \cup {MainThread} /\ life[t] = "running"
  /\ Undisturbed(t) /\ table_lock # t
  /\ life' = [life EXCEPT ![t] = "exited"]
  /\ handler' = [handler EXCEPT ![t] = "none"]
  /\ UNCHANGED <<patched, hooked, thread_info_map, as_main, locks, stacks, walk, session>>

TakeTable(t) ==
  /\ t \in TableUsers /\ life[t] = "running" /\ Undisturbed(t) /\ table_lock = Free
  /\ table_lock' = t
  /\ UNCHANGED <<program, handler, map_lock, sigprof_handler_lock, stacks, walk, session>>

ReleaseTable(t) ==
  /\ table_lock = t /\ Undisturbed(t)
  /\ table_lock' = Free
  /\ UNCHANGED <<program, handler, map_lock, sigprof_handler_lock, stacks, walk, session>>

-----------------------------------------------------------------------------
(* sigprof_handler, in the thread that was sent the signal.                *)

Deliver(t) ==
  /\ Alive(t) /\ handler[t] = "pending" /\ installed
  /\ handler' = [handler EXCEPT ![t] = "native"]
  /\ UNCHANGED <<program, locks, stacks, walk, session>>

(* The names of the frames go through the string table. *)
UnwindNativeStack(t) ==
  /\ handler[t] = "native" /\ table_lock = Free
  /\ native_stack' = t
  /\ handler' = [handler EXCEPT ![t] = "python"]
  /\ UNCHANGED <<program, locks, current_tstate, python_stack, walk, session>>

UnwindPythonStack(t) ==
  /\ handler[t] = "python" /\ table_lock = Free
  /\ python_stack' = current_tstate
  /\ handler' = [handler EXCEPT ![t] = "done"]
  /\ UNCHANGED <<program, locks, current_tstate, native_stack, walk, session>>

StillLocked == sigprof_handler_lock

Unlocked == sigprof_handler_lock - 1

HandlerUnlock(t) ==
  /\ handler[t] = "done"
  /\ sigprof_handler_lock' = Unlocked
  /\ handler' = [handler EXCEPT ![t] = "none"]
  /\ UNCHANGED <<program, map_lock, table_lock, stacks, walk, session>>

-----------------------------------------------------------------------------
(* for_each_thread and unwind, in the sampler or the listener.             *)

Goto(w, step) == pc' = [pc EXCEPT ![w] = step]

BeginPass(w) ==
  /\ pc[w] = "ready" /\ running
  /\ todo' = [todo EXCEPT ![w] = {t \in Threads : Alive(t)}]
  /\ Goto(w, "walk")
  /\ UNCHANGED <<program, handler, locks, stacks, target, session>>

(* A copy of the thread state, which may be gone by now: the copy may fail, *)
(* or not.                                                                  *)
CopyThread(w, t) ==
  /\ pc[w] = "walk" /\ t \in todo[w]
  /\ target' = [target EXCEPT ![w] = t]
  /\ todo' = [todo EXCEPT ![w] = @ \ {t}]
  /\ Goto(w, "copied") \/ (~Alive(t) /\ Goto(w, "walk"))
  /\ UNCHANGED <<program, handler, locks, stacks, session>>

EndPass(w) ==
  /\ pc[w] = "walk" /\ todo[w] = {}
  /\ Goto(w, "ready")
  /\ UNCHANGED <<program, handler, locks, stacks, todo, target, session>>

Found(w) == target[w] \in thread_info_map

(* A thread that is missing is taken for the main thread, unless the map   *)
(* has one; this fails when the thread is gone.                            *)
TakenForMain(w) == ~Found(w) /\ as_main = {} /\ Alive(target[w])

LockMap(w) ==
  /\ pc[w] = "copied" /\ map_lock = Free
  /\ Found(w) \/ TakenForMain(w)
  /\ map_lock' = w
  /\ thread_info_map' = thread_info_map \cup {target[w]}
  /\ as_main' = IF Found(w) THEN as_main ELSE {target[w]}
  /\ Goto(w, "sampling")
  /\ UNCHANGED <<life, patched, hooked, handler, table_lock, sigprof_handler_lock, stacks, todo, target, session>>

Missing(w) ==
  /\ pc[w] = "copied" /\ map_lock = Free
  /\ ~Found(w) /\ ~TakenForMain(w)
  /\ Goto(w, "walk")
  /\ UNCHANGED <<program, handler, locks, stacks, todo, target, session>>

(* In CPU mode the clock of the thread may not be read, or it may not run. *)
Skip(w) ==
  /\ pc[w] = "sampling"
  /\ map_lock' = Free
  /\ Goto(w, "walk")
  /\ UNCHANGED <<program, handler, table_lock, sigprof_handler_lock, stacks, todo, target, session>>

Guard(w) ==
  /\ pc[w] = "sampling" /\ sigprof_handler_lock = 0
  /\ sigprof_handler_lock' = 1
  /\ current_tstate' = target[w]
  /\ Goto(w, "guarded")
  /\ UNCHANGED <<program, handler, map_lock, table_lock, native_stack, python_stack, todo, target, session>>

(* A thread that has exited is sent nothing. *)
Kill(w) ==
  /\ pc[w] = "guarded"
  /\ handler' = [handler EXCEPT ![target[w]] = IF Alive(target[w]) THEN "pending" ELSE @]
  /\ Goto(w, "waiting")
  /\ UNCHANGED <<program, locks, stacks, todo, target, session>>

HandlerDone == sigprof_handler_lock = 0

LockAgain(w) ==
  /\ pc[w] = "waiting" /\ HandlerDone
  /\ sigprof_handler_lock' = sigprof_handler_lock + 1
  /\ Goto(w, "render")
  /\ UNCHANGED <<program, handler, map_lock, table_lock, stacks, todo, target, session>>

MapReleased == Free

(* The guard of unwind is released, the stacks are rendered, then the map. *)
Render(w) ==
  /\ pc[w] = "render"
  /\ sigprof_handler_lock' = sigprof_handler_lock - 1
  /\ map_lock' = MapReleased
  /\ Goto(w, "walk")
  /\ UNCHANGED <<program, handler, table_lock, stacks, todo, target, session>>

-----------------------------------------------------------------------------
(* A session: _start, stop and _stop.                                      *)

(* patch and track, then the sampler; an earlier session is over.          *)
Start ==
  /\ pc["sampler"] = "off" /\ sessions < MaxSessions
  /\ patched' = TRUE
  /\ thread_info_map' = thread_info_map \cup {t \in Threads : life[t] = "running"}
  /\ as_main' = as_main \cup {MainThread}
  /\ running' = TRUE /\ installed' = TRUE
  /\ sessions' = sessions + 1
  /\ pc' = [w \in Walkers |-> "ready"]
  /\ UNCHANGED <<life, hooked, handler, locks, stacks, todo, target>>

Stop ==
  /\ running
  /\ running' = FALSE
  /\ UNCHANGED <<program, handler, locks, stacks, walk, sessions, installed>>

Unpatch ==
  /\ patched /\ ~running
  /\ patched' = FALSE
  /\ UNCHANGED <<life, hooked, thread_info_map, as_main, handler, locks, stacks, walk, session>>

LoopExit ==
  /\ pc["sampler"] = "ready" /\ ~running /\ map_lock = Free
  /\ thread_info_map' = {} /\ as_main' = {}
  /\ Goto("sampler", "stopping")
  /\ UNCHANGED <<life, patched, hooked, handler, locks, stacks, todo, target, session>>

ListenerExit ==
  /\ pc["listener"] = "ready" /\ ~running
  /\ Goto("listener", "off")
  /\ UNCHANGED <<program, handler, locks, stacks, todo, target, session>>

ListenerJoined == pc["listener"] = "off"

(* teardown_where joins the listener, then the signals are restored. *)
RestoreSignals ==
  /\ pc["sampler"] = "stopping" /\ ListenerJoined
  /\ installed' = FALSE
  /\ Goto("sampler", "off")
  /\ UNCHANGED <<program, handler, locks, stacks, todo, target, running, sessions>>

-----------------------------------------------------------------------------

HandlerStep(t) ==
  Deliver(t) \/ UnwindNativeStack(t) \/ UnwindPythonStack(t) \/ HandlerUnlock(t)

WalkerStep(w) ==
  \/ BeginPass(w)
  \/ \E t \in Threads : CopyThread(w, t)
  \/ EndPass(w)
  \/ LockMap(w)
  \/ Missing(w)
  \/ Skip(w)
  \/ Guard(w)
  \/ Kill(w)
  \/ LockAgain(w)
  \/ Render(w)

Teardown == LoopExit \/ ListenerExit \/ RestoreSignals

Next ==
  \/ \E t \in Threads :
       \/ Born(t)
       \/ Leave(t)
       \/ UntrackThread(t)
       \/ Exit(t)
       \/ TakeTable(t)
       \/ ReleaseTable(t)
       \/ HandlerStep(t)
  \/ \E w \in Walkers : WalkerStep(w)
  \/ Start
  \/ Stop
  \/ Unpatch
  \/ Teardown

Spec == Init /\ [][Next]_vars

(* Signals are delivered and handlers run; a thread leaves the string      *)
(* table; the walkers run; whoever waits for a lock that is freed again    *)
(* and again gets it.                                                      *)
Fairness ==
  /\ \A t \in Threads : SF_vars(HandlerStep(t)) /\ WF_vars(ReleaseTable(t))
  /\ \A w \in Walkers : SF_vars(WalkerStep(w))
  /\ WF_vars(Teardown)

FairSpec == Spec /\ Fairness

-----------------------------------------------------------------------------
(* Properties.                                                             *)

(* The stacks a walker renders are both those of the thread it asked       *)
(* (threads.h:192-215): nobody else writes the globals in between.         *)
StacksOfTarget ==
  \A w \in Walkers :
    pc[w] = "render" => native_stack = target[w] /\ python_stack = target[w]

(* The signal is not sent to a thread that is gone (threads.h:208), thanks *)
(* to the map's lock alone: untrack_thread waits for it (coremodule.cc:342)*)
(* in every thread that the hooks have seen start, unless a dump has taken *)
(* it for the main thread after it was untracked (threads.h:653).          *)
TargetAlive ==
  \A w \in Walkers :
    pc[w] \in {"guarded", "waiting"} /\ target[w] \in hooked \ as_main
      => Alive(target[w])

(* No SIGPROF is on its way when its handler is removed (signals.h:55): it *)
(* would kill the program.                                                 *)
NoSignalWithoutHandler ==
  \A t \in Threads : handler[t] # "none" => installed

(* A SIGPROF is sent, and arrives, only while there is someone to handle   *)
(* it: a thread that exists, and a handler that is installed.              *)
SignalsHandled == TargetAlive /\ NoSignalWithoutHandler

(* The target is gone, or it was interrupted while it had the lock of the  *)
(* string table, which its handler takes.                                  *)
NoHandler(w) ==
  pc[w] = "waiting" /\ (~Alive(target[w]) \/ table_lock = target[w])

(* The lock "will get unlocked once the handler is done" (threads.h:196),  *)
(* so that a walker does not wait for ever, when the handler can be done.  *)
UnwindReturns ==
  \A w \in Walkers : pc[w] = "waiting" ~> pc[w] # "waiting" \/ NoHandler(w)

(* A stop ends: the sampler leaves its loop, joins the listener, restores. *)
StopEnds ==
  ~running ~> \/ running \/ pc["sampler"] = "off"
              \/ \E w \in Walkers : NoHandler(w)
=============================================================================
