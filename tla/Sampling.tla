------------------------------- MODULE Sampling -------------------------------
(***************************************************************************)
(* How Echion finds the threads of the program and whose stacks it renders *)
(* for them: thread_info_map and the calls of monkey/threading.py that     *)
(* maintain it, the walk of for_each_thread over copies of the             *)
(* interpreter's thread states, and ThreadInfo::sample / do_where with the *)
(* process-wide accumulators python_stack, current_tasks and               *)
(* current_greenlets.                                                      *)
(*                                                                         *)
(* Two threads walk: the sampler and, when a SIGQUIT asks for a dump, the  *)
(* where listener.  A member of Threads is one incarnation of a Python     *)
(* thread: its PyThreadState, its native id, its asyncio tasks and its     *)
(* greenlets are named after it; its pthread id comes from Ids and may be  *)
(* used again after the thread has exited.  Sessions are those of stealth  *)
(* mode, where stop() waits for the sampler (module Lifecycle).            *)
(***************************************************************************)
EXTENDS Naturals, FiniteSets

CONSTANTS
  Threads,          (* the Python threads of the program                   *)
  MainThread,       (* the one named "MainThread", alive from the start    *)
  EarlyThreads,     (* threads that may start while the hooks are out      *)
  AsyncioThreads,   (* threads that run an asyncio event loop              *)
  GreenletThreads,  (* threads that run greenlets                          *)
  Ids,              (* pthread ids, the keys of thread_info_map            *)
  Walkers,          (* subset of {"sampler", "listener"}                   *)
  Cpu,              (* CPU-time mode                                       *)
  MaxSessions,      (* bound on the number of sessions                     *)
  MaxDumps,         (* bound on the number of SIGQUIT dumps                *)
  nullptr

ASSUME SamplingAssumption ==
  /\ MainThread \in Threads
  /\ EarlyThreads \subseteq Threads
  /\ AsyncioThreads \subseteq Threads
  /\ GreenletThreads \subseteq Threads
  /\ Walkers \subseteq {"sampler", "listener"}
  /\ Cpu \in BOOLEAN
  /\ MaxSessions \in Nat
  /\ MaxDumps \in Nat
  /\ nullptr \notin Threads \cup Ids \cup Walkers
  /\ nullptr \notin [owner : Threads, main : BOOLEAN, loop : BOOLEAN]

VARIABLES
  status,      (* life of every Python thread                              *)
  ident,       (* its pthread id, kept in its thread state                 *)
  tstate_head, (* interpreter: first thread state                          *)
  next, prev,  (* the links inside the thread states                       *)
  hooked,      (* threads running inside thread_bootstrap_inner            *)
  patched,     (* are the threading and asyncio hooks installed?           *)
  phase,       (* the session: "off", "on"; "stopping" and "joining", with *)
               (* stop() holding the GIL; "stopped"                        *)
  sessions,    (* sessions started so far                                  *)
  dumps,       (* SIGQUIT dumps so far                                     *)
  thread_info_map, map_lock,
  greenlet_info_map, greenlet_thread_map, string_table,
  python_stack, current_tasks, current_greenlets,
  walk,        (* control state of the walkers                             *)
  emitted      (* the last sample or dump of a thread                      *)

program   == <<status, ident, tstate_head, next, prev, hooked>>
session   == <<patched, phase, sessions>>
greenlets == <<greenlet_info_map, greenlet_thread_map, string_table>>
stacks    == <<python_stack, current_tasks, current_greenlets>>
vars      == <<status, ident, tstate_head, next, prev, hooked, patched, phase,
               sessions, dumps, thread_info_map, map_lock, greenlet_info_map,
               greenlet_thread_map, string_table, python_stack, current_tasks,
               current_greenlets, walk, emitted>>

(* A ThreadInfo: whose it is, whether it carries the name "MainThread",    *)
(* and whether asyncio_loop is set.                                        *)
ThreadInfo == [owner : Threads, main : BOOLEAN, loop : BOOLEAN]

(* A walker: the thread states still to visit and already seen, the copied *)
(* one and the ThreadInfo its callback refers to.  The last two are        *)
(* history: threads linked since the pass began, and whether a copy failed *)
(* during the pass.                                                        *)
Walk ==
  [pc : {"idle", "pop", "lock", "sample", "unwound"},
   todo : SUBSET (Threads \cup {nullptr}), seen : SUBSET Threads,
   cur : Threads \cup {nullptr}, info : ThreadInfo \cup {nullptr},
   base : SUBSET Threads, blind : BOOLEAN]

TypeOK ==
  /\ status \in [Threads -> {"absent", "started", "running", "ending",
                             "exited"}]
  /\ ident \in [Threads -> Ids \cup {nullptr}]
  /\ tstate_head \in Threads \cup {nullptr}
  /\ next \in [Threads -> Threads \cup {nullptr}]
  /\ prev \in [Threads -> Threads \cup {nullptr}]
  /\ hooked \subseteq Threads
  /\ patched \in BOOLEAN
  /\ phase \in {"off", "on", "stopping", "joining", "stopped"}
  /\ sessions \in 0..MaxSessions
  /\ dumps \in 0..MaxDumps
  /\ thread_info_map \in [Ids -> ThreadInfo \cup {nullptr}]
  /\ map_lock \in Walkers \cup {nullptr}
  /\ greenlet_info_map \subseteq Threads
  /\ greenlet_thread_map \subseteq Threads
  /\ string_table \subseteq {"task", "greenlet"} \X Threads
  /\ python_stack \in Threads \cup {nullptr}
  /\ current_tasks \subseteq Threads
  /\ current_greenlets \subseteq Threads
  /\ walk \in [Walkers -> Walk]
  /\ emitted \in [by : Walkers, of : Threads, label : Threads,
                  stacks : SUBSET Threads] \cup {nullptr}

IdleWalk ==
  [pc |-> "idle", todo |-> {}, seen |-> {}, cur |-> nullptr,
   info |-> nullptr, base |-> {}, blind |-> FALSE]

(* The program runs, Echion has been imported and not started. *)
Init ==
  /\ status = [t \in Threads |-> IF t = MainThread THEN "running" ELSE "absent"]
  /\ \E i \in Ids :
       ident = [t \in Threads |-> IF t = MainThread THEN i ELSE nullptr]
  /\ tstate_head = MainThread
  /\ next = [t \in Threads |-> nullptr]
  /\ prev = [t \in Threads |-> nullptr]
  /\ hooked = {}
  /\ patched = FALSE
  /\ phase = "off"
  /\ sessions = 0
  /\ dumps = 0
  /\ thread_info_map = [i \in Ids |-> nullptr]
  /\ map_lock = nullptr
  /\ greenlet_info_map = {}
  /\ greenlet_thread_map = {}
  /\ string_table = {}
  /\ python_stack = nullptr
  /\ current_tasks = {}
  /\ current_greenlets = {}
  /\ walk = [w \in Walkers |-> IdleWalk]
  /\ emitted = nullptr

-----------------------------------------------------------------------------
(* Python threads (CPython, external) and the hooks they run.              *)

Alive == {t \in Threads : status[t] \notin {"absent", "exited"}}

(* Whatever a Python thread does, it does with the GIL. *)
GilFree == phase \notin {"stopping", "joining"}

(* track_thread: add or replace the entry of an id. *)
Tracked(t) == [owner |-> t, main |-> t = MainThread, loop |-> FALSE]

TrackThread(t) ==
  thread_info_map' = [thread_info_map EXCEPT ![ident[t]] = Tracked(t)]

(* The new thread state goes to the head of the interpreter's list, and    *)
(* the thread enters _bootstrap_inner, patched or not.                     *)
ThreadStart(t, i) ==
  /\ GilFree
  /\ status[t] = "absent"
  /\ patched \/ t \in EarlyThreads
  /\ \A u \in Alive : ident[u] # i
  /\ status' = [status EXCEPT ![t] = "started"]
  /\ ident' = [ident EXCEPT ![t] = i]
  /\ tstate_head' = t
  /\ next' = [next EXCEPT ![t] = tstate_head]
  /\ prev' = [prev EXCEPT ![tstate_head] = t]
  /\ hooked' = IF patched THEN hooked \cup {t} ELSE hooked
  /\ UNCHANGED <<session, dumps, thread_info_map, map_lock, greenlets, stacks,
                 walk, emitted>>

(* thread_set_native_id, or the original when the hooks are out. *)
ThreadSetNativeId(t) ==
  /\ GilFree
  /\ status[t] = "started"
  /\ status' = [status EXCEPT ![t] = "running"]
  /\ IF patched THEN map_lock = nullptr /\ TrackThread(t)
                ELSE UNCHANGED thread_info_map
  /\ UNCHANGED <<ident, tstate_head, next, prev, hooked, session, dumps,
                 map_lock, greenlets, stacks, walk, emitted>>

WithoutLock == TRUE

(* untrack_thread waits for the lock. *)
MapUnlocked == map_lock = nullptr

Forget(t) == UNCHANGED thread_info_map

UntrackThread(t) ==
  thread_info_map' = [thread_info_map EXCEPT ![ident[t]] = nullptr]

(* _bootstrap_inner returns: the finally clause of the hook untracks. *)
ThreadReturns(t) ==
  /\ GilFree
  /\ t # MainThread
  /\ status[t] = "running"
  /\ status' = [status EXCEPT ![t] = "ending"]
  /\ IF t \in hooked THEN MapUnlocked /\ UntrackThread(t)
                     ELSE UNCHANGED thread_info_map
  /\ UNCHANGED <<ident, tstate_head, next, prev, hooked, session, dumps,
                 map_lock, greenlets, stacks, walk, emitted>>

(* The thread state is unlinked and freed; its own links stay as they are  *)
(* in the freed memory.                                                    *)
ThreadExit(t) ==
  /\ GilFree
  /\ status[t] = "ending"
  /\ status' = [status EXCEPT ![t] = "exited"]
  /\ tstate_head' = IF tstate_head = t THEN next[t] ELSE tstate_head
  /\ next' = [u \in Threads |-> IF u = prev[t] THEN next[t] ELSE next[u]]
  /\ prev' = [u \in Threads |-> IF u = next[t] THEN prev[t] ELSE prev[u]]
  /\ walk' = [w \in Walkers |-> [walk[w] EXCEPT !.base = @ \ {t}]]
  /\ UNCHANGED <<ident, hooked, session, dumps, thread_info_map, map_lock,
                 greenlets, stacks, emitted>>

(* set_event_loop of monkey/asyncio.py, with a loop or with None.          *)
TrackAsyncioLoop(t, loop) ==
  /\ GilFree
  /\ t \in AsyncioThreads
  /\ status[t] = "running"
  /\ patched
  /\ map_lock = nullptr
  /\ thread_info_map[ident[t]] # nullptr
  /\ thread_info_map' = [thread_info_map EXCEPT ![ident[t]].loop = loop]
  /\ UNCHANGED <<program, session, dumps, map_lock, greenlets, stacks, walk,
                 emitted>>

(* track_greenlet: the name goes to the string table, the greenlet and its *)
(* thread to the maps.  The gevent hooks stay in once they are in.         *)
TrackGreenlet(t) ==
  /\ GilFree
  /\ t \in GreenletThreads
  /\ status[t] = "running"
  /\ sessions > 0
  /\ t \notin greenlet_info_map
  /\ string_table' = string_table \cup {<<"greenlet", t>>}
  /\ greenlet_info_map' = greenlet_info_map \cup {t}
  /\ greenlet_thread_map' = greenlet_thread_map \cup {t}
  /\ UNCHANGED <<program, session, dumps, thread_info_map, map_lock, stacks,
                 walk, emitted>>

(* untrack_greenlet: greenlet_thread_map is keyed by the thread, so the    *)
(* erase by greenlet leaves it alone.                                      *)
UntrackGreenlet(t) ==
  /\ GilFree
  /\ t \in greenlet_info_map
  /\ status[t] = "running"
  /\ greenlet_info_map' = greenlet_info_map \ {t}
  /\ UNCHANGED <<program, session, dumps, thread_info_map, map_lock,
                 greenlet_thread_map, string_table, stacks, walk, emitted>>

-----------------------------------------------------------------------------
(* Sessions.                                                               *)

(* bootstrap.start: patch, track the threads in _active, start sampling. *)
BootStart ==
  /\ phase = "off"
  /\ sessions < MaxSessions
  /\ map_lock = nullptr
  /\ patched' = TRUE
  /\ phase' = "on"
  /\ sessions' = sessions + 1
  /\ thread_info_map' =
       [i \in Ids |->
          IF \E t \in Threads : status[t] = "running" /\ ident[t] = i
          THEN Tracked(CHOOSE t \in Threads :
                         status[t] = "running" /\ ident[t] = i)
          ELSE thread_info_map[i]]
  /\ UNCHANGED <<program, dumps, map_lock, greenlets, stacks, walk, emitted>>

(* bootstrap.stop: running is cleared and the sampler is joined ... *)
BootStop ==
  /\ phase = "on"
  /\ phase' = "stopping"
  /\ UNCHANGED <<program, patched, sessions, dumps, thread_info_map, map_lock,
                 greenlets, stacks, walk, emitted>>

(* ... which clears the map and the string table when its loop is over ... *)
ClearMaps ==
  /\ phase = "stopping"
  /\ "sampler" \in Walkers => walk["sampler"].pc = "idle"
  /\ map_lock = nullptr
  /\ phase' = "joining"
  /\ thread_info_map' = [i \in Ids |-> nullptr]
  /\ string_table' = {}
  /\ UNCHANGED <<program, patched, sessions, dumps, map_lock,
                 greenlet_info_map, greenlet_thread_map, stacks, walk, emitted>>

(* ... and joins the listener, whereupon stop() returns. *)
ListenerJoined ==
  /\ phase = "joining"
  /\ \A w \in Walkers : walk[w].pc = "idle"
  /\ phase' = "stopped"
  /\ UNCHANGED <<program, patched, sessions, dumps, thread_info_map, map_lock,
                 greenlets, stacks, walk, emitted>>

(* Then bootstrap.stop takes the hooks out. *)
Unpatch ==
  /\ phase = "stopped"
  /\ phase' = "off"
  /\ patched' = FALSE
  /\ UNCHANGED <<program, sessions, dumps, thread_info_map, map_lock,
                 greenlets, stacks, walk, emitted>>

-----------------------------------------------------------------------------
(* for_each_thread.                                                        *)

Goto(w, pc) == walk' = [walk EXCEPT ![w].pc = pc]

(* The sampler starts a pass while it runs, the listener when SIGQUIT asks *)
(* for a dump; the head is read once.                                      *)
PassBegin(w) ==
  /\ walk[w].pc = "idle"
  /\ phase = "on"
  /\ w = "listener" => dumps < MaxDumps
  /\ dumps' = IF w = "listener" THEN dumps + 1 ELSE dumps
  /\ walk' = [walk EXCEPT ![w] =
                [IdleWalk EXCEPT !.pc = "pop", !.todo = {tstate_head},
                                 !.base = Alive]]
  /\ UNCHANGED <<program, session, thread_info_map, map_lock, greenlets,
                 stacks, emitted>>

OnlyPrev(t) == {prev[t]} \ {nullptr}

(* What the copy of a thread state leads to. *)
Reached(t) == {next[t], prev[t]} \ {nullptr}

(* The copy succeeds: the thread state is there, or its freed memory still *)
(* has its last contents.                                                  *)
PopCopied(w, t) ==
  /\ walk[w].pc = "pop"
  /\ t \in walk[w].todo
  /\ LET seen == walk[w].seen \cup {t}
     IN  walk' = [walk EXCEPT
           ![w].pc = "lock", ![w].cur = t, ![w].seen = seen,
           ![w].todo = (@ \ {t}) \cup (Reached(t) \ seen)]
  /\ UNCHANGED <<program, session, dumps, thread_info_map, map_lock,
                 greenlets, stacks, emitted>>

(* The copy fails: the memory of the freed thread state is gone. *)
PopFailed(w, t) ==
  /\ walk[w].pc = "pop"
  /\ t \in walk[w].todo
  /\ status[t] = "exited"
  /\ walk' = [walk EXCEPT ![w].seen = @ \cup {t}, ![w].todo = @ \ {t},
                          ![w].blind = TRUE]
  /\ UNCHANGED <<program, session, dumps, thread_info_map, map_lock,
                 greenlets, stacks, emitted>>

PassEnd(w) ==
  /\ walk[w].pc = "pop"
  /\ walk[w].todo = {}
  /\ walk' = [walk EXCEPT ![w] = IdleWalk]
  /\ UNCHANGED <<program, session, dumps, thread_info_map, map_lock,
                 greenlets, stacks, emitted>>

Entry(w) == thread_info_map[ident[walk[w].cur]]

MainThreadTracked ==
  \E i \in Ids : thread_info_map[i] # nullptr /\ thread_info_map[i].main

NoGuard == TRUE

(* The lock_guard at the top of the block that ends with the callback. *)
GuardFree == map_lock = nullptr

(* Take the lock and call back with the thread's ThreadInfo. *)
Enter(w) ==
  /\ walk[w].pc = "lock"
  /\ GuardFree
  /\ Entry(w) # nullptr
  /\ map_lock' = w
  /\ walk' = [walk EXCEPT ![w].pc = "sample", ![w].info = Entry(w)]
  /\ UNCHANGED <<program, session, dumps, thread_info_map, greenlets, stacks,
                 emitted>>

(* An unknown thread is taken for the main thread when none is tracked ... *)
Adopt(w) ==
  LET t    == walk[w].cur
      info == [owner |-> t, main |-> TRUE, loop |-> FALSE]
  IN  /\ walk[w].pc = "lock"
      /\ GuardFree
      /\ Entry(w) = nullptr
      /\ ~MainThreadTracked
      /\ map_lock' = w
      /\ thread_info_map' = [thread_info_map EXCEPT ![ident[t]] = info]
      /\ walk' = [walk EXCEPT ![w].pc = "sample", ![w].info = info]
      /\ UNCHANGED <<program, session, dumps, greenlets, stacks, emitted>>

(* ... and is skipped when one is, or when ThreadInfo::create fails        *)
(* because the id belongs to no thread any more.                           *)
SkipUnknown(w) ==
  /\ walk[w].pc = "lock"
  /\ GuardFree
  /\ Entry(w) = nullptr
  /\ \/ MainThreadTracked
     \/ \A u \in Alive : ident[u] # ident[walk[w].cur]
  /\ Goto(w, "pop")
  /\ UNCHANGED <<program, session, dumps, thread_info_map, map_lock,
                 greenlets, stacks, emitted>>

-----------------------------------------------------------------------------
(* The callbacks, under the map lock.                                      *)

KeepLock(w) ==
  /\ UNCHANGED map_lock
  /\ walk' = [walk EXCEPT ![w].pc = "pop", ![w].info = nullptr]

(* The end of the callback, where the guard goes out of scope. *)
Release(w) ==
  /\ map_lock' = nullptr
  /\ walk' = [walk EXCEPT ![w].pc = "pop", ![w].info = nullptr]

(* sample in CPU mode: the clock fails or the thread is not running. *)
SampleIdle(w) ==
  /\ Cpu
  /\ w = "sampler"
  /\ walk[w].pc = "sample"
  /\ Release(w)
  /\ UNCHANGED <<program, session, dumps, thread_info_map, greenlets, stacks,
                 emitted>>

(* unwind_tasks: the leaf tasks of the loop, when there are any and they   *)
(* can be read, go to current_tasks, and their names to the string table.  *)
UnwindTasks(info, tasks) ==
  IF info.loop /\ tasks
  THEN /\ current_tasks' = current_tasks \cup {info.owner}
       /\ string_table' = string_table \cup {<<"task", info.owner>>}
  ELSE UNCHANGED <<current_tasks, string_table>>

(* unwind_greenlets: every tracked greenlet goes to current_greenlets when *)
(* the ThreadInfo's thread has run one.                                    *)
UnwindGreenlets(info) ==
  current_greenlets' = IF info.owner \in greenlet_thread_map
                       THEN current_greenlets \cup greenlet_info_map
                       ELSE current_greenlets

(* unwind: the Python stack of the copied thread state comes first. *)
Unwind(w, tasks) ==
  /\ walk[w].pc = "sample"
  /\ python_stack' = walk[w].cur
  /\ UnwindTasks(walk[w].info, tasks)
  /\ UnwindGreenlets(walk[w].info)
  /\ Goto(w, "unwound")
  /\ UNCHANGED <<program, session, dumps, thread_info_map, map_lock,
                 greenlet_info_map, greenlet_thread_map, emitted>>

Emit(w, shown) ==
  emitted' = [by |-> w, of |-> walk[w].cur, label |-> walk[w].info.owner,
              stacks |-> shown]

(* The tasks or greenlets whose names the string table knows. *)
Named(kind) == {t \in Threads : <<kind, t>> \in string_table}

KeepTasks == current_tasks

(* current_tasks once all of them have been rendered. *)
RenderedTasks == {}

(* sample: the tasks, if any ... *)
RenderTasks(w) ==
  /\ walk[w].pc = "unwound"
  /\ w = "sampler"
  /\ current_tasks # {}
  /\ current_tasks \subseteq Named("task")
  /\ Emit(w, current_tasks)
  /\ current_tasks' = RenderedTasks
  /\ Release(w)
  /\ UNCHANGED <<program, session, dumps, thread_info_map, greenlets,
                 python_stack, current_greenlets>>

(* current_greenlets once all of them have been rendered. *)
RenderedGreenlets == {}

(* ... else the greenlets, if any ... *)
RenderGreenlets(w) ==
  /\ walk[w].pc = "unwound"
  /\ w = "sampler"
  /\ current_tasks = {}
  /\ current_greenlets # {}
  /\ current_greenlets \subseteq Named("greenlet")
  /\ Emit(w, current_greenlets)
  /\ current_greenlets' = RenderedGreenlets
  /\ Release(w)
  /\ UNCHANGED <<program, session, dumps, thread_info_map, greenlets,
                 python_stack, current_tasks>>

(* ... up to the first one whose name is not in the string table, where    *)
(* sample returns an error that the sampler ignores ...                    *)
RenderFails(w) ==
  LET kind   == IF current_tasks # {} THEN "task" ELSE "greenlet"
      queued == IF current_tasks # {} THEN current_tasks ELSE current_greenlets
  IN  /\ walk[w].pc = "unwound"
      /\ w = "sampler"
      /\ ~(queued \subseteq Named(kind))
      /\ Release(w)
      /\ \E shown \in SUBSET (queued \cap Named(kind)) :
            IF shown = {} THEN UNCHANGED emitted ELSE Emit(w, shown)
      /\ UNCHANGED <<program, session, dumps, thread_info_map, greenlets,
                     stacks>>

(* ... else the thread's own stack. *)
RenderThread(w) ==
  /\ walk[w].pc = "unwound"
  /\ w = "sampler"
  /\ current_tasks = {}
  /\ current_greenlets = {}
  /\ Emit(w, {python_stack})
  /\ Release(w)
  /\ UNCHANGED <<program, session, dumps, thread_info_map, greenlets, stacks>>

(* do_where: the thread's own stack; the accumulators are left alone. *)
RenderWhere(w) ==
  /\ walk[w].pc = "unwound"
  /\ w = "listener"
  /\ Emit(w, {python_stack})
  /\ Release(w)
  /\ UNCHANGED <<program, session, dumps, thread_info_map, greenlets, stacks>>

-----------------------------------------------------------------------------
ProgramStep ==
  \/ \E t \in Threads, i \in Ids : ThreadStart(t, i)
  \/ \E t \in Threads :
        \/ ThreadSetNativeId(t) \/ ThreadReturns(t) \/ ThreadExit(t)
        \/ TrackGreenlet(t) \/ UntrackGreenlet(t)
        \/ \E loop \in BOOLEAN : TrackAsyncioLoop(t, loop)

WalkStep(w) ==
  \/ PassBegin(w) \/ PassEnd(w)
  \/ \E t \in Threads : PopCopied(w, t) \/ PopFailed(w, t)
  \/ Enter(w) \/ Adopt(w) \/ SkipUnknown(w)
  \/ SampleIdle(w) \/ \E tasks \in BOOLEAN : Unwind(w, tasks)
  \/ RenderTasks(w) \/ RenderGreenlets(w) \/ RenderFails(w)
  \/ RenderThread(w) \/ RenderWhere(w)

Next ==
  \/ ProgramStep
  \/ BootStart \/ BootStop \/ ClearMaps \/ ListenerJoined \/ Unpatch
  \/ \E w \in Walkers : WalkStep(w)

Spec == Init /\ [][Next]_vars

(* The walkers are scheduled, and stop() gets through.  What the program   *)
(* does with its threads is left unfair.                                   *)
Fairness ==
  /\ \A w \in Walkers : WF_vars(WalkStep(w))
  /\ WF_vars(ClearMaps) /\ WF_vars(ListenerJoined) /\ WF_vars(Unpatch)

FairSpec == Spec /\ Fairness

-----------------------------------------------------------------------------
(* Properties.                                                             *)

InCallback(w) == walk[w].pc \in {"sample", "unwound"}

(* The ThreadInfo& that a callback works on is neither erased nor replaced *)
(* under it, by a thread that ends, by a restart or by the other walker.   *)
InfoPinned ==
  \A w \in Walkers : InCallback(w) => walk[w].info = Entry(w)

(* Why: a walker only meets thread states that have been created, whose id *)
(* is set for good, and the callback runs with the lock that everybody who *)
(* changes the map takes.                                                  *)
Born == {t \in Threads : status[t] # "absent"}

BornInv ==
  /\ \A t \in Born : ident[t] \in Ids
  /\ tstate_head \in Born \cup {nullptr}
  /\ \A t \in Threads : {next[t], prev[t]} \subseteq Born \cup {nullptr}
  /\ \A w \in Walkers :
       /\ walk[w].todo \subseteq Born \cup {nullptr}
       /\ walk[w].pc \in {"lock", "sample", "unwound"} => walk[w].cur \in Born

LockInv ==
  \A w \in Walkers :
    InCallback(w) =>
      /\ map_lock = w
      /\ walk[w].info \in ThreadInfo
      /\ walk[w].info = Entry(w)
      /\ walk[w].pc = "unwound" => python_stack = walk[w].cur

PinInv == BornInv /\ LockInv

(* The accumulators have one user at a time. *)
CallbacksExclusive ==
  \A v, w \in Walkers : InCallback(v) /\ InCallback(w) => v = w

(* A pass whose copies all succeed meets every thread that was there from  *)
(* beginning to end, whatever starts and ends meanwhile.                   *)
PassComplete ==
  \A w \in Walkers :
    walk[w].pc = "pop" /\ walk[w].todo = {} /\ ~walk[w].blind
      => walk[w].base \subseteq walk[w].seen

(* A thread that is still there is sampled under its own name: the entry   *)
(* found for the copied thread state is another thread's only when the     *)
(* copied one has exited since and its id has been given away.             *)
OwnLabel ==
  \A w \in Walkers :
    InCallback(w) =>
      walk[w].info.owner = walk[w].cur \/ status[walk[w].cur] = "exited"

(* "Untrack a terminated thread": no entry survives its thread. *)
NoStaleEntry ==
  \A i \in Ids :
    thread_info_map[i] # nullptr => status[thread_info_map[i].owner] # "exited"

(* What is rendered under a thread's name comes from that thread or from   *)
(* the thread state copied for it.                                         *)
StacksOfThread ==
  emitted # nullptr => emitted.stacks \subseteq {emitted.of, emitted.label}

(* A tracked thread that stays, in a session that lasts, is sampled.  Only *)
(* the first session: a restart clears the names of greenlets, and a       *)
(* thread with one of those is not rendered any more.                      *)
Sampled ==
  \A t \in Threads :
    (phase = "on" /\ sessions = 1 /\ status[t] = "running"
       /\ thread_info_map[ident[t]] # nullptr)
    ~> (\/ emitted # nullptr /\ emitted.by = "sampler" /\ emitted.of = t
        \/ phase # "on" \/ status[t] # "running")
=============================================================================
