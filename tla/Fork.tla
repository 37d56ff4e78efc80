---------------------------------- MODULE Fork ----------------------------------
(***************************************************************************)
(* start and stop of echion.bootstrap in a program that forks.  The model  *)
(* follows the child: of its threads only the one that forked is left, but *)
(* all of echion's state is there, also the locks that the others held.    *)
(***************************************************************************)
EXTENDS Naturals, FiniteSets

CONSTANTS
  Strings,       (* what a stream may have to name                         *)
  Samplers,      (* bound: threads that run the sampler, one for a start   *)
  MaxStarts, MaxForks

VARIABLES
  stealth,       (* ECHION_STEALTH: start_async, or a thread for ec.start  *)
  main,          (* the thread that starts, stops and forks                *)
  do_on_fork,
  asked,         (* did the program call start last, rather than stop?     *)
  hooks,         (* callbacks registered with os.register_at_fork          *)
  hooksLeft,     (* those of this fork that have not been run              *)
  starts, forks,
  running,
  sampler_thread,
  pc,            (* of the samplers                                        *)
  thread_info_map_lock,
  string_table,
  defined, used, (* strings of the stream that is open                     *)
  inherited      (* what was in the table when this process was forked     *)

bootstrap == <<stealth, main, do_on_fork, asked, hooks, hooksLeft, starts, forks>>
stream    == <<string_table, defined, used, inherited>>
vars      == <<bootstrap, running, sampler_thread, pc, thread_info_map_lock, stream>>

TypeOK ==
  /\ stealth \in BOOLEAN
  /\ main \in {"run", "at_fork", "restart_stop", "restart", "stop"}
  /\ do_on_fork \in BOOLEAN /\ asked \in BOOLEAN
  /\ hooks \in Nat /\ hooksLeft \in 0..hooks
  /\ starts \in 0..MaxStarts /\ forks \in 0..MaxForks
  /\ running \in BOOLEAN
  /\ sampler_thread \in Samplers \cup {"none"}
  /\ pc \in [Samplers -> {"none", "begin", "start", "idle", "locked"}]
  /\ thread_info_map_lock \in {s \in Samplers : pc[s] = "locked"} \cup {"free", "lost"}
  /\ string_table \subseteq Strings
  /\ defined \subseteq Strings /\ used \subseteq Strings
  /\ inherited \subseteq Strings

Init ==
  /\ stealth \in BOOLEAN
  /\ main = "run" /\ do_on_fork = TRUE /\ asked = FALSE
  /\ hooks = 0 /\ hooksLeft = 0 /\ starts = 0 /\ forks = 0
  /\ running = FALSE /\ sampler_thread = "none"
  /\ pc = [s \in Samplers |-> "none"]
  /\ thread_info_map_lock = "free"
  /\ string_table = {} /\ defined = {} /\ used = {} /\ inherited = {}

-----------------------------------------------------------------------------
(* bootstrap.start and stop.                                               *)

NoLock == thread_info_map_lock = "free"

Live(s) == pc[s] # "none"

Unused == {s \in Samplers : ~Live(s)}

(* start_async, or a thread for ec.start; this thread is tracked before    *)
(* Thread.start returns.                                                   *)
StartSampler ==
  LET s == CHOOSE s \in Unused : TRUE IN
  IF stealth
    THEN IF ~running /\ sampler_thread = "none"
           THEN /\ running' = TRUE
                /\ sampler_thread' = s
                /\ pc' = [pc EXCEPT ![s] = "start"]
           ELSE UNCHANGED <<running, sampler_thread, pc>>
    ELSE /\ NoLock
         /\ pc' = [pc EXCEPT ![s] = "begin"]
         /\ UNCHANGED <<running, sampler_thread>>

(* In a child the module watchdog is there already: hooks are not run again. *)
BootStart ==
  /\ do_on_fork' = TRUE
  /\ hooks' = hooks + 1
  /\ StartSampler

Start ==
  /\ main = "run" /\ starts < MaxStarts /\ Unused # {}
  /\ starts' = starts + 1 /\ asked' = TRUE
  /\ BootStart
  /\ UNCHANGED <<stealth, main, hooksLeft, forks, thread_info_map_lock, stream>>

Stop ==
  /\ main = "run" /\ asked
  /\ running' = FALSE
  /\ main' = "stop"
  /\ UNCHANGED <<stealth, do_on_fork, asked, hooks, hooksLeft, starts, forks, sampler_thread, pc,
                 thread_info_map_lock, stream>>

Always == TRUE

(* join; a thread that was not copied by fork has ended. *)
Joined == \A s \in Samplers : sampler_thread = s => ~Live(s)

StopReturn ==
  /\ main = "stop" /\ Joined
  /\ sampler_thread' = "none"
  /\ do_on_fork' = FALSE /\ asked' = FALSE
  /\ main' = "run"
  /\ UNCHANGED <<stealth, hooks, hooksLeft, starts, forks, running, pc, thread_info_map_lock, stream>>

-----------------------------------------------------------------------------
(* A fork, in the child.                                                   *)

Fork ==
  /\ main = "run" /\ forks < MaxForks /\ hooks > 0
  /\ hooks <= Cardinality(Samplers)
  /\ forks' = forks + 1
  /\ pc' = [s \in Samplers |-> "none"]
  /\ thread_info_map_lock' = IF NoLock THEN "free" ELSE "lost"
  /\ hooksLeft' = hooks
  /\ inherited' = string_table
  /\ main' = "at_fork"
  /\ UNCHANGED <<stealth, do_on_fork, asked, hooks, starts, running, sampler_thread,
                 string_table, defined, used>>

Wanted == do_on_fork

StoppedFlag == FALSE

(* restart_on_fork *)
RestartOnFork ==
  /\ main = "at_fork" /\ hooksLeft > 0 /\ Wanted
  /\ running' = StoppedFlag
  /\ main' = "restart_stop"
  /\ UNCHANGED <<stealth, do_on_fork, asked, hooks, hooksLeft, starts, forks, sampler_thread, pc,
                 thread_info_map_lock, stream>>

NoRestart ==
  /\ main = "at_fork" /\ hooksLeft > 0 /\ ~Wanted
  /\ hooksLeft' = hooksLeft - 1
  /\ UNCHANGED <<stealth, main, do_on_fork, asked, hooks, starts, forks, running, sampler_thread, pc,
                 thread_info_map_lock, stream>>

RestartStopped ==
  /\ main = "restart_stop" /\ Joined
  /\ sampler_thread' = "none"
  /\ main' = "restart"
  /\ UNCHANGED <<stealth, do_on_fork, asked, hooks, hooksLeft, starts, forks, running, pc,
                 thread_info_map_lock, stream>>

RestartStart ==
  /\ main = "restart"
  /\ BootStart
  /\ hooksLeft' = hooksLeft - 1
  /\ main' = "at_fork"
  /\ UNCHANGED <<stealth, asked, starts, forks, thread_info_map_lock, stream>>

ForkReturn ==
  /\ main = "at_fork" /\ hooksLeft = 0
  /\ main' = "run"
  /\ UNCHANGED <<stealth, do_on_fork, asked, hooks, hooksLeft, starts, forks, running, sampler_thread, pc,
                 thread_info_map_lock, stream>>

-----------------------------------------------------------------------------
(* The sampler.                                                            *)

(* ec.start does nothing while a sampler runs. *)
SamplerBegin(s) ==
  /\ pc[s] = "begin"
  /\ running' = TRUE
  /\ pc' = [pc EXCEPT ![s] = IF running THEN "none" ELSE "start"]
  /\ UNCHANGED <<bootstrap, sampler_thread, thread_info_map_lock, stream>>

OpenStream(s) ==
  /\ pc[s] = "start"
  /\ defined' = {} /\ used' = {}
  /\ pc' = [pc EXCEPT ![s] = "idle"]
  /\ UNCHANGED <<bootstrap, running, sampler_thread, thread_info_map_lock, string_table, inherited>>

LockMap(s) ==
  /\ pc[s] = "idle" /\ running /\ NoLock
  /\ thread_info_map_lock' = s
  /\ pc' = [pc EXCEPT ![s] = "locked"]
  /\ UNCHANGED <<bootstrap, running, sampler_thread, stream>>

Held == thread_info_map_lock

Unlocked == "free"

(* A string is written to the stream when the table does not have it. *)
Sample(s) ==
  /\ pc[s] = "locked"
  /\ \E n \in Strings :
       /\ used' = used \cup {n}
       /\ defined' = IF n \in string_table THEN defined ELSE defined \cup {n}
       /\ string_table' = string_table \cup {n}
  /\ thread_info_map_lock' = Unlocked
  /\ pc' = [pc EXCEPT ![s] = "idle"]
  /\ UNCHANGED <<bootstrap, running, sampler_thread, inherited>>

TableKept == string_table

TableCleared == {}

(* _stop, which needs the lock to clear the map and the table. *)
SamplerEnd(s) ==
  /\ pc[s] = "idle" /\ ~running /\ NoLock
  /\ string_table' = TableCleared /\ inherited' = {}
  /\ pc' = [pc EXCEPT ![s] = "none"]
  /\ UNCHANGED <<bootstrap, running, sampler_thread, thread_info_map_lock, defined, used>>

SamplerStep(s) ==
  SamplerBegin(s) \/ OpenStream(s) \/ LockMap(s) \/ Sample(s) \/ SamplerEnd(s)

MainStep ==
  StopReturn \/ RestartOnFork \/ NoRestart \/ RestartStopped \/ RestartStart \/ ForkReturn

Next ==
  \/ Start
  \/ Stop
  \/ Fork
  \/ StopReturn
  \/ RestartOnFork
  \/ NoRestart
  \/ RestartStopped
  \/ RestartStart
  \/ ForkReturn
  \/ \E s \in Samplers : SamplerStep(s)

Spec == Init /\ [][Next]_vars

(* Whoever waits for the map's lock gets it, if it is freed again and again. *)
Fairness == SF_vars(MainStep) /\ \A s \in Samplers : SF_vars(SamplerStep(s))

FairSpec == Spec /\ Fairness

-----------------------------------------------------------------------------
(* Properties.                                                             *)

(* In stealth mode a program that has stopped echion is not sampled, and   *)
(* nor are the children it forks (bootstrap/__init__.py:14).               *)
StoppedMeansStopped ==
  stealth /\ main = "run" /\ ~asked => \A s \in Samplers : ~Live(s)

(* There is one sampler at a time in stealth mode (coremodule.cc:252),     *)
(* also in the child of a child, where several restarts follow each other. *)
SingleSampler ==
  stealth =>
    \A s, t \in Samplers :
      {pc[s], pc[t]} \subseteq {"start", "idle", "locked"} => s = t

(* The stream of a session defines the strings it refers to, but for those *)
(* in the table of a parent that was sampled when it forked: its sampler,  *)
(* which would clear the table, is not there (coremodule.cc:182).          *)
StreamDefined ==
  stealth /\ (\E s \in Samplers : pc[s] \in {"idle", "locked"})
    => used \subseteq defined \cup inherited

Lost == thread_info_map_lock = "lost"

(* stop returns, and so does fork in the child: what a start or a stop     *)
(* waits for there comes (coremodule.cc:292, threads.h:189), unless a      *)
(* thread that is not there had the map's lock.                            *)
MainReturns == main # "run" ~> main = "run" \/ Lost

(* The child of a sampled program is sampled, unless it stops that, and    *)
(* the lock is not lost.                                                   *)
ChildSampled ==
  \A n \in 1..MaxForks :
    (main = "at_fork" /\ do_on_fork /\ forks = n)
      ~> \/ \E s \in Samplers : pc[s] = "locked"
         \/ main = "stop" \/ forks > n \/ Lost
=============================================================================
