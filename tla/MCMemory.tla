------------------------------- MODULE MCMemory -------------------------------
(* Memory mode in two settings, fixed at the start: without faults, for    *)
(* what only holds then, with the constants of Memory as they are; and     *)
(* with every fault, any number of sessions and one size of blocks.        *)
EXTENDS Memory

CONSTANTS
  FaultyNames,     (* the NonAscii, the Untracked and the MaxSessions of   *)
  FaultyThreads,   (* the setting with faults                              *)
  FaultySessions

VARIABLE setting  (* "faults" or "accounting" *)

F == INSTANCE Memory WITH
       Sizes <- {1}, NonAscii <- FaultyNames, Untracked <- FaultyThreads,
       ReallocFails <- TRUE, MaxSessions <- FaultySessions

MCInit ==
  \/ setting = "faults" /\ F!Init
  \/ setting = "accounting" /\ Init

MCNext ==
  /\ setting' = setting
  /\ \/ setting = "faults" /\ F!Next
     \/ setting = "accounting" /\ Next

MCSpec ==
  /\ MCInit /\ [][MCNext]_<<setting, vars>>
  /\ \A t \in Threads :
       WF_<<setting, vars>>(setting = "accounting" /\ HookStep(t)
                              /\ setting' = setting)

(* Without faults, what is emitted is what is still there (see Memory).    *)
BalancedWithoutFaults == setting = "accounting" => Balanced

(* Without faults, a hook comes back to the program (see Memory).          *)
AllocationReturnsWithoutFaults ==
  \A t \in Threads :
    setting = "accounting" /\ op[t].pc # "idle" ~> op[t].pc = "idle"
=============================================================================
