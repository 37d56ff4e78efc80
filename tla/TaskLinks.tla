-------------------------------- MODULE TaskLinks --------------------------------
(***************************************************************************)
(* The stacks of asyncio tasks: the links that the hooks on gather, wait   *)
(* and as_completed record (monkey/asyncio.py, link_tasks), the snapshot   *)
(* of the tasks of a loop (tasks.h) and the walk from the leaf tasks to    *)
(* the tasks that wait for them (ThreadInfo::unwind_tasks).                *)
(*                                                                         *)
(* A task is the address of its object, which is used again when the task  *)
(* has gone.  The program moves between any two steps of the sampler; a    *)
(* whole unwind runs under thread_info_map_lock, so there is one sampler.  *)
(***************************************************************************)
EXTENDS Naturals, FiniteSets, Sequences, Functions

CONSTANTS
  Tasks,        (* the addresses task objects can have                     *)
  Loops,        (* event loops, each run by a thread of its own            *)
  Programs,     (* bound: what may happen in the programs considered, and  *)
                (* how many tasks each creates                             *)
  IgnoreIdle,   (* CPU mode with ignore_non_running_threads                *)
  nullptr

VARIABLES
  may,        (* which of these may happen: "circle", tasks wait for each  *)
              (* other in a circle; "leave", a task leaves tasks it has    *)
              (* linked behind; "fail", reading a living task fails        *)
  loop,       (* the loop of the task at an address, nullptr for no task   *)
  waits,      (* task_fut_waiter, when it is a task                        *)
  children,   (* the tasks a gather or wait of this task was made for      *)
  current,    (* the task each loop is running                             *)
  used,       (* the addresses that have been tasks                        *)
  created,    (* how many tasks there have been                            *)
  task_link_map,
  previous_task_objects,
  relinked,   (* the program has linked tasks since the clean-up           *)
  pc,         (* where unwind_tasks is                                     *)
  asyncio_loop,  (* the loop it unwinds                                    *)
  unread,     (* addresses of the task set not yet looked at               *)
  all_tasks,  (* what it has read: waiter and is_on_cpu by origin          *)
  parent_tasks,
  waitee_map,
  leaf_tasks, (* leaves not yet unwound                                    *)
  current_task,
  stack,      (* the tasks in the stack being built                        *)
  on_cpu_task_seen,
  rendered    (* the tasks in the finished stacks of this unwind           *)

program == <<may, loop, waits, children, current, used, created>>
links   == <<task_link_map, previous_task_objects, relinked>>
read    == <<asyncio_loop, unread, all_tasks>>
forest  == <<parent_tasks, waitee_map>>
walk    == <<leaf_tasks, current_task, stack, on_cpu_task_seen, rendered>>
vars    == <<program, links, pc, read, forest, walk>>

Partial(S, T) == UNION {[D -> T] : D \in SUBSET S}
TaskInfo == [waiter : Tasks \cup {nullptr}, is_on_cpu : BOOLEAN]

TypeOK ==
  /\ loop \in [Tasks -> Loops \cup {nullptr}]
  /\ waits \in [Tasks -> Tasks \cup {nullptr}]
  /\ children \in [Tasks -> SUBSET Tasks]
  /\ current \in [Loops -> Tasks \cup {nullptr}]
  /\ may \in DOMAIN Programs
  /\ used \subseteq Tasks
  /\ created \in 0..Programs[may]
  /\ task_link_map \in Partial(Tasks, Tasks)
  /\ previous_task_objects \subseteq Tasks
  /\ relinked \in BOOLEAN
  /\ pc \in {"idle", "read", "leaf", "walk"}
  /\ asyncio_loop \in Loops \cup {nullptr}
  /\ unread \subseteq Tasks
  /\ all_tasks \in Partial(Tasks, TaskInfo)
  /\ parent_tasks \subseteq Tasks
  /\ waitee_map \in Partial(Tasks, Tasks)
  /\ leaf_tasks \subseteq Tasks
  /\ current_task \in Tasks \cup {nullptr}
  /\ Range(stack) \subseteq Tasks
  /\ on_cpu_task_seen \in BOOLEAN
  /\ rendered \subseteq Tasks

Empty == [t \in {} |-> nullptr]

(* The map f once t is mapped to v. *)
With(f, t, v) == [u \in DOMAIN f \cup {t} |-> IF u = t THEN v ELSE f[u]]

Init ==
  /\ loop = [t \in Tasks |-> nullptr]
  /\ waits = [t \in Tasks |-> nullptr]
  /\ children = [t \in Tasks |-> {}]
  /\ current = [l \in Loops |-> nullptr]
  /\ may \in DOMAIN Programs
  /\ used = {}
  /\ created = 0
  /\ task_link_map = Empty
  /\ previous_task_objects = {}
  /\ relinked = FALSE
  /\ pc = "idle"
  /\ asyncio_loop = nullptr
  /\ unread = {}
  /\ all_tasks = Empty
  /\ parent_tasks = {}
  /\ waitee_map = Empty
  /\ leaf_tasks = {}
  /\ current_task = nullptr
  /\ stack = <<>>
  /\ on_cpu_task_seen = FALSE
  /\ rendered = {}

-----------------------------------------------------------------------------
(* The program and asyncio.                                                *)

Exists(t) == loop[t] # nullptr

(* A task that waits keeps what it waits for alive. *)
Held(t) == \E u \in Tasks : Exists(u) /\ (waits[u] = t \/ t \in children[u])

Needs(t) == children[t] \cup ({waits[t]} \ {nullptr})

(* Task s needs t, directly or through others. *)
Reaches(s, t) ==
  \A S \in SUBSET Tasks :
    s \in S /\ (\A u \in S : Needs(u) \subseteq S) => t \in S

Running(t) == Exists(t) /\ current[loop[t]] = t

(* Addresses that have not been used yet are all alike: one stands for them. *)
MayBeAt(t) ==
  /\ ~Exists(t) /\ ~Held(t)
  /\ t \in used \cup {CHOOSE u \in Tasks : u \notin used \/ Tasks = used}

CreateTask(l, t) ==
  /\ MayBeAt(t)
  /\ created < Programs[may]
  /\ loop' = [loop EXCEPT ![t] = l]
  /\ used' = used \cup {t}
  /\ created' = created + 1
  /\ UNCHANGED <<may, waits, children, current, links, pc, read, forest, walk>>

(* The loop steps a task that waits for nothing. *)
RunTask(t) ==
  /\ Exists(t)
  /\ current[loop[t]] = nullptr
  /\ Needs(t) = {}
  /\ current' = [current EXCEPT ![loop[t]] = t]
  /\ UNCHANGED <<may, loop, waits, children, used, created, links, pc, read,
                 forest, walk>>

(* The running task awaits a sleep, a future, or what it has gathered. *)
Suspend(t) ==
  /\ Running(t)
  /\ current' = [current EXCEPT ![loop[t]] = nullptr]
  /\ UNCHANGED <<may, loop, waits, children, used, created, links, pc, read,
                 forest, walk>>

MayNeed(t, u) ==
  /\ t # u /\ loop[t] = loop[u]
  /\ "circle" \in may \/ ~Reaches(u, t)

AwaitTask(t, u) ==
  /\ Running(t)
  /\ children[t] = {}
  /\ MayNeed(t, u)
  /\ waits' = [waits EXCEPT ![t] = u]
  /\ current' = [current EXCEPT ![loop[t]] = nullptr]
  /\ UNCHANGED <<may, loop, children, used, created, links, pc, read, forest,
                 walk>>

(* gather, wait and as_completed link their tasks one by one. *)
LinkTasks(t, u) ==
  /\ Running(t)
  /\ MayNeed(t, u)
  /\ children' = [children EXCEPT ![t] = @ \cup {u}]
  /\ task_link_map' = With(task_link_map, u, t)
  /\ relinked' = (pc \in {"leaf", "walk"})
  /\ UNCHANGED <<may, loop, waits, current, used, created,
                 previous_task_objects, pc, read, forest, walk>>

MayLeave(t) == "leave" \in may \/ \A u \in Needs(t) : ~Exists(u)

(* What the task waits for is done, or a part that is enough for wait().   *)
Wakeup(t) ==
  /\ Exists(t) /\ ~Running(t)
  /\ \E u \in Needs(t) : ~Exists(u)
  /\ MayLeave(t)
  /\ waits' = [waits EXCEPT ![t] = nullptr]
  /\ children' = [children EXCEPT ![t] = {}]
  /\ UNCHANGED <<may, loop, current, used, created, links, pc, read, forest,
                 walk>>

FinishTask(t) ==
  /\ Running(t)
  /\ MayLeave(t)
  /\ loop' = [loop EXCEPT ![t] = nullptr]
  /\ children' = [children EXCEPT ![t] = {}]
  /\ current' = [current EXCEPT ![loop[t]] = nullptr]
  /\ UNCHANGED <<may, waits, used, created, links, pc, read, forest, walk>>

-----------------------------------------------------------------------------
(* get_all_tasks: the set of all tasks in one copy, then task by task.     *)

GetAllTasks(l) ==
  /\ pc = "idle"
  /\ pc' = "read"
  /\ asyncio_loop' = l
  /\ unread' = {t \in Tasks : Exists(t)}
  /\ all_tasks' = Empty
  /\ UNCHANGED <<program, links, forest, walk>>

(* TaskInfo::create: a waiter that cannot be read counts as none. *)
InfoOf(t) ==
  [waiter    |-> IF waits[t] # nullptr /\ Exists(waits[t])
                 THEN waits[t] ELSE nullptr,
   is_on_cpu |-> Running(t)]

CreateTaskInfo(t) ==
  /\ pc = "read" /\ t \in unread
  /\ unread' = unread \ {t}
  /\ all_tasks' = IF loop[t] = asyncio_loop
                  THEN With(all_tasks, t, InfoOf(t)) ELSE all_tasks
  /\ UNCHANGED <<program, links, pc, asyncio_loop, forest, walk>>

(* The task cannot be read, because it has gone or is being changed. *)
CreateFails(t) ==
  /\ pc = "read" /\ t \in unread
  /\ "fail" \in may \/ ~Exists(t)
  /\ unread' = unread \ {t}
  /\ UNCHANGED <<program, links, pc, asyncio_loop, all_tasks, forest, walk>>

(* One of the sets of tasks cannot be read: there are no stacks this time. *)
GetAllTasksFails ==
  /\ pc = "read" /\ "fail" \in may
  /\ pc' = "idle"
  /\ asyncio_loop' = nullptr
  /\ unread' = {}
  /\ all_tasks' = Empty
  /\ UNCHANGED <<program, links, forest, walk>>

-----------------------------------------------------------------------------
(* unwind_tasks.                                                           *)

NotInSnapshot(c) == c \notin DOMAIN all_tasks

(* Only the link of a task that was there before: others may be new. *)
Stale(c) == c \notin DOMAIN all_tasks /\ c \in previous_task_objects

Kept == {c \in DOMAIN task_link_map : ~Stale(c)}

IsWaiting(t) == all_tasks[t].waiter # nullptr

(* Two tasks may wait for the same one: the first the loop meets stays. *)
WaiteeMaps ==
  {f \in [{all_tasks[t].waiter : t \in {u \in DOMAIN all_tasks : IsWaiting(u)}}
            -> DOMAIN all_tasks] :
     \A w \in DOMAIN f : all_tasks[f[w]].waiter = w}

Skipped(t) == IgnoreIdle /\ ~all_tasks[t].is_on_cpu

NoChildren(parents) ==
  {t \in DOMAIN all_tasks : ~IsWaiting(t) /\ t \notin DOMAIN task_link_map}

Leaves(parents) ==
  {t \in DOMAIN all_tasks :
     ~IsWaiting(t) /\ t \notin parents /\ ~Skipped(t)}

(* The clean-up and the parents, under task_link_map_lock, then the maps. *)
CleanLinks ==
  /\ pc = "read" /\ unread = {}
  /\ task_link_map' = Restrict(task_link_map, Kept)
  /\ parent_tasks' = Range(task_link_map')
  /\ previous_task_objects' = DOMAIN all_tasks
  /\ waitee_map' \in WaiteeMaps
  /\ leaf_tasks' = Leaves(parent_tasks')
  /\ pc' = "leaf"
  /\ on_cpu_task_seen' = FALSE
  /\ rendered' = {}
  /\ UNCHANGED <<program, relinked, read, current_task, stack>>

(* The task on the CPU, if a leaf, comes first. *)
First(t) ==
  all_tasks[t].is_on_cpu \/ \A u \in leaf_tasks : ~all_tasks[u].is_on_cpu

UnwindLeaf(t) ==
  /\ pc = "leaf" /\ t \in leaf_tasks
  /\ First(t)
  /\ leaf_tasks' = leaf_tasks \ {t}
  /\ current_task' = t
  /\ stack' = <<t>>
  /\ on_cpu_task_seen' = (on_cpu_task_seen \/ all_tasks[t].is_on_cpu)
  /\ pc' = "walk"
  /\ UNCHANGED <<program, links, read, forest, rendered>>

SameTask(t) ==
  IF t \in DOMAIN waitee_map THEN waitee_map[t]
  ELSE IF t \in DOMAIN task_link_map THEN t ELSE nullptr

(* The task that waits for t, or else the one that has gathered it. *)
Above(t) ==
  IF t \in DOMAIN waitee_map THEN waitee_map[t]
  ELSE IF t \in DOMAIN task_link_map /\ task_link_map[t] \in DOMAIN all_tasks
  THEN task_link_map[t] ELSE nullptr

(* Bound: of a stack that goes round in a circle, one round is followed. *)
OneRound == Len(stack) <= Cardinality(Tasks)

NextTask ==
  /\ pc = "walk" /\ OneRound
  /\ Above(current_task) # nullptr
  /\ current_task' = Above(current_task)
  /\ stack' = Append(stack, Above(current_task))
  /\ UNCHANGED <<program, links, pc, read, forest, leaf_tasks,
                 on_cpu_task_seen, rendered>>

FinishStack ==
  /\ pc = "walk"
  /\ Above(current_task) = nullptr
  /\ rendered' = rendered \cup Range(stack)
  /\ pc' = "leaf"
  /\ current_task' = nullptr
  /\ stack' = <<>>
  /\ UNCHANGED <<program, links, read, forest, leaf_tasks, on_cpu_task_seen>>

UnwindDone ==
  /\ pc = "leaf" /\ leaf_tasks = {}
  /\ pc' = "idle"
  /\ asyncio_loop' = nullptr
  /\ all_tasks' = Empty
  /\ parent_tasks' = {}
  /\ waitee_map' = Empty
  /\ on_cpu_task_seen' = FALSE
  /\ rendered' = {}
  /\ relinked' = FALSE
  /\ UNCHANGED <<program, task_link_map, previous_task_objects, unread,
                 leaf_tasks, current_task, stack>>

-----------------------------------------------------------------------------
ProgramStep ==
  \/ \E l \in Loops, t \in Tasks : CreateTask(l, t)
  \/ \E t \in Tasks : RunTask(t) \/ Suspend(t) \/ Wakeup(t) \/ FinishTask(t)
  \/ \E t, u \in Tasks : AwaitTask(t, u) \/ LinkTasks(t, u)

UnwindStep ==
  \/ \E t \in Tasks : CreateTaskInfo(t) \/ CreateFails(t) \/ UnwindLeaf(t)
  \/ GetAllTasksFails
  \/ CleanLinks \/ NextTask \/ FinishStack \/ UnwindDone

Next == ProgramStep \/ UnwindStep \/ \E l \in Loops : GetAllTasks(l)

Spec == Init /\ [][Next]_vars

-----------------------------------------------------------------------------
(* Properties.                                                             *)

Reused == created > Cardinality(used)

(* Where one loop runs, its tasks can be read and no address has been used *)
(* again, the clean-up never removes the link of a task that still exists, *)
(* whether or not the task was there when the snapshot was taken.          *)
LinksKept ==
  [][Cardinality(Loops) = 1 /\ "fail" \notin may /\ ~Reused =>
       \A c \in DOMAIN task_link_map :
         Exists(c)' => c \in DOMAIN task_link_map']_vars

(* The shape a snapshot normally has: every gathered task that makes       *)
(* somebody a parent is itself there, nobody shares what it waits for, the *)
(* links have not changed since, and nothing waits in a circle.            *)
WellFormed ==
  /\ DOMAIN task_link_map \subseteq DOMAIN all_tasks
  /\ ~relinked
  /\ \A t, u \in DOMAIN all_tasks :
       IsWaiting(t) /\ all_tasks[t].waiter = all_tasks[u].waiter => t = u
  /\ \A t \in DOMAIN all_tasks :
       IsWaiting(t) => /\ all_tasks[t].waiter \in DOMAIN all_tasks
                       /\ all_tasks[t].waiter \notin DOMAIN task_link_map
  /\ \A S \in SUBSET DOMAIN all_tasks :
       S # {} => \E t \in S : Above(t) \notin S

(* No task of the loop is lost: unless idle ones are left out, every task  *)
(* of the snapshot is in one of the stacks, as a leaf or above one.        *)
AllRendered ==
  pc = "leaf" /\ leaf_tasks = {} /\ ~IgnoreIdle /\ WellFormed
    => rendered = DOMAIN all_tasks

(* The walk has no guard of its own against going round for ever, with     *)
(* thread_info_map_lock held: it ends because no task is put into a stack  *)
(* twice.  The tasks have been read one after the other while the program  *)
(* went on; but none waits in a circle, leaves behind what it has linked,  *)
(* or has an address that another task has had.                            *)
NeverTwice == may \subseteq {"fail"} /\ ~Reused => IsInjective(stack)
=============================================================================
