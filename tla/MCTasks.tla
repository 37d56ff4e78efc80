-------------------------------- MODULE MCTasks --------------------------------
(* The two kinds of stacks above the frames of a thread, greenlets and     *)
(* asyncio tasks, checked side by side.  They share no state, so a         *)
(* behaviour is of one part alone and leaves the other where it starts.    *)
EXTENDS Greenlets, TLC

CONSTANTS Tasks, Loops, Programs

VARIABLES
  part,   (* "tasks", "greenlets" or "walk", over the links of greenlets *)
  may, loop, waits, children, task_current, task_used, created,
  task_link_map, previous_task_objects, relinked, task_pc, asyncio_loop,
  unread, all_tasks, parent_tasks, waitee_map, leaf_tasks, current_task, stack,
  on_cpu_task_seen, rendered

task_vars ==
  <<may, loop, waits, children, task_current, task_used, created, task_link_map,
    previous_task_objects, relinked, task_pc, asyncio_loop, unread, all_tasks,
    parent_tasks, waitee_map, leaf_tasks, current_task, stack,
    on_cpu_task_seen, rendered>>

ASSUME TasksAssumption ==
  /\ Greenlets # {}
  /\ IsFiniteSet(Tasks) /\ IsFiniteSet(Loops)
  /\ nullptr \notin Tasks \cup Loops
  /\ \A p \in DOMAIN Programs : Programs[p] \in Nat

T == INSTANCE TaskLinks WITH
       current <- task_current, used <- task_used, pc <- task_pc

(* For the walk alone: any links and frames that an undisciplined program  *)
(* can have made of suspended greenlets, circles too.  The walk reads only *)
(* the maps, so the rest of the program is left at its start.              *)
LinkedInit ==
  /\ InitProgram /\ InitPython /\ InitWalk
  /\ ~disciplined
  /\ \E S \in SUBSET Greenlets :
       greenlet_info_map =
         [g \in Greenlets |-> IF g \in S THEN <<g, 0>> ELSE FRAME_NOT_SET]
  /\ greenlet_parent_map \in UNION {[S -> Greenlets] : S \in SUBSET Greenlets}
  /\ \A g \in DOMAIN greenlet_parent_map : greenlet_parent_map[g] # g
  /\ greenlet_thread_map = [t \in Threads |-> CHOOSE g \in Greenlets : TRUE]

LinkedNext == UnwindStep \/ \E t \in Threads : UnwindGreenlets(t)

MCPrograms == {} :> 3 @@ {"leave"} :> 2 @@ {"circle", "leave", "fail"} :> 2

MCInit ==
  \/ part = "tasks" /\ Init /\ disciplined /\ T!Init
  \/ part = "greenlets" /\ Init /\ T!Init /\ may = {}
  \/ part = "walk" /\ LinkedInit /\ T!Init /\ may = {}

MCNext ==
  \/ part = "tasks" /\ T!Next /\ UNCHANGED <<part, vars>>
  \/ part = "greenlets" /\ Next /\ UNCHANGED <<part, task_vars>>
  \/ part = "walk" /\ LinkedNext /\ UNCHANGED <<part, task_vars>>

MCSpec == MCInit /\ [][MCNext]_<<part, vars, task_vars>>

(* The types of the part that runs. *)
TypesOK ==
  /\ part # "tasks" => TypeOK
  /\ part = "tasks" => T!TypeOK

(* No task of a well-formed snapshot is lost (see TaskLinks).              *)
AllRendered == part = "tasks" => T!AllRendered

(* No walk goes round in a circle, over tasks (see TaskLinks) or over      *)
(* greenlets (see Greenlets).                                              *)
WalksEnd == [](part = "tasks" => T!NeverTwice) /\ ClimbsOnce

(* The clean-up keeps the links of living tasks (see TaskLinks).           *)
LinksKept == T!LinksKept
=============================================================================
