---------------------------------- MODULE Hooks ---------------------------------
(***************************************************************************)
(* The module watchdog (module.py) and the patches that start and stop     *)
(* apply through it: a hook for a module runs at once if the module is     *)
(* imported, and otherwise after its import, by any thread.                *)
(***************************************************************************)
EXTENDS Naturals, FiniteSets

CONSTANTS
  Modules, Gevent,   (* those with hooks; Gevent is one that stop forgets  *)
  MaxStarts

VARIABLES
  main,          (* of the thread that starts and stops                    *)
  starts,
  instance,      (* the watchdog installed, of those there have been; or 0 *)
  hook_map,      (* per watchdog, the modules it has hooks for             *)
  toRegister,    (* modules start has left to register                     *)
  loading,       (* of each module                                         *)
  callbacks,     (* the watchdogs that its loader calls back               *)
  patched,
  overtaken      (* imported while a start or stop was under way           *)

imports == <<loading, callbacks>>
vars    == <<main, starts, instance, hook_map, toRegister, imports, patched, overtaken>>

Instances == 1..MaxStarts

TypeOK ==
  /\ main \in {"off", "starting", "hook", "on"}
  /\ starts \in 0..MaxStarts
  /\ instance = IF main = "off" THEN 0 ELSE starts
  /\ hook_map \in [Instances -> SUBSET Modules]
  /\ toRegister \subseteq Modules
  /\ loading \in [Modules -> {"absent", "found", "executing", "loaded"}]
  /\ callbacks \in [Modules -> SUBSET Instances]
  /\ patched \subseteq Modules /\ overtaken \subseteq Modules

Init ==
  /\ main = "off" /\ starts = 0 /\ instance = 0
  /\ hook_map = [i \in Instances |-> {}]
  /\ toRegister = {}
  /\ loading \in [Modules -> {"absent", "loaded"}]
  /\ callbacks = [m \in Modules |-> {}]
  /\ patched = {} /\ overtaken = {}

-----------------------------------------------------------------------------
(* Imports.                                                                *)

Imported == {m \in Modules : loading[m] = "loaded"}

InFlight == {m \in Modules : loading[m] \in {"found", "executing"}}

Overtaken == overtaken' = overtaken \cup InFlight

-----------------------------------------------------------------------------
(* start and stop.                                                         *)

Install ==
  /\ main = "off" /\ starts < MaxStarts
  /\ starts' = starts + 1
  /\ instance' = starts + 1
  /\ toRegister' = Modules
  /\ main' = "starting"
  /\ Overtaken
  /\ UNCHANGED <<hook_map, imports, patched>>

InSysModules(m) == loading[m] \in {"executing", "loaded"}

NeverNow(m) == FALSE

(* The hook is due at once when sys.modules has the module. *)
NowDue(m) == InSysModules(m)

RegisterModuleHook(m) ==
  /\ main = "starting" /\ m \in toRegister
  /\ hook_map' = [hook_map EXCEPT ![instance] = @ \cup {m}]
  /\ IF NowDue(m) THEN main' = "hook" /\ UNCHANGED toRegister
                  ELSE main' = main /\ toRegister' = toRegister \ {m}
  /\ UNCHANGED <<starts, instance, imports, patched, overtaken>>

(* It imports the module, and waits for whoever is doing so. *)
RunHook(m) ==
  /\ main = "hook" /\ m \in toRegister \cap hook_map[instance] /\ m \in Imported
  /\ patched' = patched \cup {m}
  /\ toRegister' = toRegister \ {m}
  /\ main' = "starting"
  /\ UNCHANGED <<starts, instance, hook_map, imports, overtaken>>

Started ==
  /\ main = "starting" /\ toRegister = {}
  /\ main' = "on"
  /\ UNCHANGED <<starts, instance, hook_map, toRegister, imports, patched, overtaken>>

Uninstalled == 0

Unpatched == patched \cap {Gevent}

Stop ==
  /\ main = "on"
  /\ patched' = Unpatched
  /\ instance' = Uninstalled
  /\ main' = "off"
  /\ Overtaken
  /\ UNCHANGED <<starts, hook_map, toRegister, imports>>

-----------------------------------------------------------------------------
(* An import, by any thread of the program.                                *)

(* find_spec wraps the loader, if the watchdog is in sys.meta_path.        *)
FindSpec(m) ==
  /\ loading[m] = "absent"
  /\ loading' = [loading EXCEPT ![m] = "found"]
  /\ callbacks' = [callbacks EXCEPT ![m] = IF instance = 0 THEN {} ELSE {instance}]
  /\ overtaken' = IF main \in {"off", "on"} THEN overtaken ELSE overtaken \cup {m}
  /\ UNCHANGED <<main, starts, instance, hook_map, toRegister, patched>>

CreateModule(m) ==
  /\ loading[m] = "found"
  /\ loading' = [loading EXCEPT ![m] = "executing"]
  /\ UNCHANGED <<main, starts, instance, hook_map, toRegister, callbacks, patched, overtaken>>

AfterImport(m) == \E i \in callbacks[m] : m \in hook_map[i]

(* exec_module, with the callbacks of the loader. *)
ExecModule(m) ==
  /\ loading[m] = "executing"
  /\ loading' = [loading EXCEPT ![m] = "loaded"]
  /\ patched' = IF AfterImport(m) THEN patched \cup {m} ELSE patched
  /\ UNCHANGED <<main, starts, instance, hook_map, toRegister, callbacks, overtaken>>

Import(m) == FindSpec(m) \/ CreateModule(m) \/ ExecModule(m)

Next ==
  \/ Install
  \/ \E m \in Modules :
       \/ RegisterModuleHook(m)
       \/ RunHook(m)
       \/ Import(m)
  \/ Started
  \/ Stop

Spec == Init /\ [][Next]_vars

-----------------------------------------------------------------------------
(* Properties.                                                             *)

(* While echion is on, every imported module is patched: no import slips   *)
(* through between the watchdog's installation and the hook's registration *)
(* (module.py:188-196), unless it was under way then.                      *)
HooksHaveRun == main = "on" => Imported \ patched \subseteq overtaken

(* A stop leaves no patch behind, but that of gevent                       *)
(* (bootstrap/__init__.py:73-78), and those of imports under way.          *)
StoppedUnpatched == main = "off" => patched \ {Gevent} \subseteq overtaken

(* A module that asyncio or gevent support must patch is patched exactly   *)
(* while echion is on, whatever is imported while that changes.            *)
ImportsPatched == HooksHaveRun /\ StoppedUnpatched

(* Why: an import that is under way while echion is on is one that its     *)
(* watchdog will be called back for, or was overtaken by a start or stop;  *)
(* and what a start finds imported, it patches or has yet to register.     *)
HookInv ==
  /\ main # "off" => starts # 0 /\ Modules \ toRegister \subseteq hook_map[instance]
  /\ main = "off" =>
       /\ patched \ {Gevent} \subseteq overtaken
       /\ \A m \in InFlight \ overtaken : callbacks[m] = {}
  /\ main \in {"starting", "hook"} =>
       /\ InFlight \subseteq overtaken
       /\ Imported \subseteq patched \cup overtaken \cup toRegister
  /\ main = "on" =>
       /\ toRegister = {}
       /\ Imported \subseteq patched \cup overtaken
       /\ \A m \in InFlight \ overtaken : instance \in callbacks[m]
=============================================================================
