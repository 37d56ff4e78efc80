------------------------------ MODULE MCBootstrap ------------------------------
(* What goes on around the sampler, checked side by side: starts that may  *)
(* overlap (Lifecycle in both modes), restarts in forked children (Fork)   *)
(* and the hooks on imports (Hooks).  Each models the state it needs, so a *)
(* behaviour is of one part alone and leaves the others where they start.  *)
EXTENDS LifecycleSession

CONSTANTS
  ForkSamplers, Strings, MaxStarts, MaxForks,
  Modules, Gevent

ASSUME BootstrapAssumption ==
  /\ ForkSamplers # {} /\ "none" \notin ForkSamplers
  /\ MaxStarts \in Nat /\ MaxForks \in Nat

VARIABLES
  part,  (* "overlap", "fork" or "hooks" *)
  stealth, fork_main, do_on_fork, asked, hooks, hooksLeft, starts, forks,
  fork_running, fork_sampler_thread, fork_pc, thread_info_map_lock,
  string_table, defined, used, inherited,
  hooks_main, hooks_starts, instance, hook_map, toRegister, loading, callbacks,
  patched, overtaken

fork_vars ==
  <<stealth, fork_main, do_on_fork, asked, hooks, hooksLeft, starts, forks,
    fork_running, fork_sampler_thread, fork_pc, thread_info_map_lock,
    string_table, defined, used, inherited>>

hooks_vars ==
  <<hooks_main, hooks_starts, instance, hook_map, toRegister, loading,
    callbacks, patched, overtaken>>

F == INSTANCE Fork WITH
       Samplers <- ForkSamplers, main <- fork_main, running <- fork_running,
       sampler_thread <- fork_sampler_thread, pc <- fork_pc

H == INSTANCE Hooks WITH main <- hooks_main, starts <- hooks_starts

MCInit ==
  /\ part \in {"overlap", "fork", "hooks"}
  /\ Init /\ F!Init /\ H!Init
  /\ stealth \/ part = "fork"
  /\ (\A m \in Modules : loading[m] = "absent") \/ part = "hooks"

MCNext ==
  \/ part = "overlap" /\ Next /\ UNCHANGED <<part, fork_vars, hooks_vars>>
  \/ part = "fork" /\ F!Next /\ UNCHANGED <<part, vars, hooks_vars>>
  \/ part = "hooks" /\ H!Next /\ UNCHANGED <<part, vars, fork_vars>>

MCSpec == MCInit /\ [][MCNext]_<<part, vars, fork_vars, hooks_vars>>

(* The types of the part that runs. *)
TypesOK ==
  /\ part = "overlap" => TypeOK
  /\ part = "fork" => F!TypeOK
  /\ part = "hooks" => H!TypeOK

(* Sessions that do not overlap come to their end (see Lifecycle).         *)
FairSessionEnds == Fairness => SessionEnds

(* A program that has stopped echion is not sampled, nor are the children  *)
(* it forks; there is one sampler at a time, and its stream defines the    *)
(* strings it refers to, but for inherited ones (see Fork).                *)
StoppedMeansStopped == F!StoppedMeansStopped
SingleSampler == F!SingleSampler
StreamDefined == F!StreamDefined

(* Start, stop and fork return, and the child of a sampled program is      *)
(* sampled (see Fork).                                                     *)
ForkServed == F!Fairness => F!MainReturns /\ F!ChildSampled

(* Modules are patched exactly while echion is on (see Hooks).             *)
ImportsPatched == H!ImportsPatched
=============================================================================
