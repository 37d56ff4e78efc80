-------------------------------- MODULE Greenlets --------------------------------
(***************************************************************************)
(* The stacks of greenlets: the tracking, the tracer and the links that    *)
(* monkey/gevent.py keeps in Python, the maps that coremodule.cc keeps of  *)
(* them, and ThreadInfo::unwind_greenlets.                                 *)
(*                                                                         *)
(* Each thread has a main greenlet, where its code starts, and a hub, that *)
(* gevent switches to whenever a greenlet has to wait.  Of the hub and the *)
(* main greenlet only the hub can be tracked.  A frame object is a         *)
(* greenlet and a depth: 0 for the frame it starts in, 1 for a call.       *)
(***************************************************************************)
EXTENDS Naturals, FiniteSets, Functions

CONSTANTS
  Threads,
  Greenlets,    (* the addresses greenlet objects can have                 *)
  MaxSpawns,    (* bound: greenlets spawned                                *)
  MaxJoins,     (* bound: calls to join, joinall, wait and iwait           *)
  IgnoreIdle,   (* CPU mode with ignore_non_running_threads                *)
  MAX_GREENLET_DEPTH,
  FRAME_NOT_SET, Py_None, nullptr

VARIABLES
  disciplined,  (* the program joins unfinished greenlets only, each from  *)
                (* one other, and without time-outs                        *)
  status,   (* "none", "ready", "running", "suspended", "dead" or "done"   *)
  home,     (* the thread a greenlet runs in                               *)
  top,      (* the depth of the frame on top of a greenlet's stack         *)
  joining,  (* what a greenlet is inside a join or wait for                *)
  current,  (* the greenlet each thread runs                               *)
  used,     (* the addresses that have been greenlets                      *)
  spawns,
  joins,
  pc,       (* where greenlet_tracer is in each thread                     *)
  origin,   (* the greenlet that has been switched away from               *)
  _greenlet_frames,
  _greenlet_parent_map,
  _parent_greenlet_count,
  greenlet_info_map,    (* the frame of each tracked greenlet              *)
  greenlet_parent_map,
  greenlet_thread_map,
  unwinding,  (* the thread the sampler unwinds, with the lock of the maps *)
  leaves,     (* greenlets it has yet to start a stack with                *)
  greenlet_id,  (* the greenlet last added to the stack                    *)
  visited     (* those above which it has looked for a parent              *)

program ==
  <<disciplined, status, home, top, joining, current, used, spawns, joins>>
tracer  == <<pc, origin>>
python  == <<_greenlet_frames, _greenlet_parent_map, _parent_greenlet_count>>
maps    == <<greenlet_info_map, greenlet_parent_map, greenlet_thread_map>>
walk    == <<unwinding, leaves, greenlet_id, visited>>
vars    == <<program, tracer, python, maps, walk>>

Hub(t)  == <<"hub", t>>
Main(t) == <<"main", t>>

Hubs  == {Hub(t) : t \in Threads}
Mains == {Main(t) : t \in Threads}
Ids   == Greenlets \cup Hubs \cup Mains
Frames == (Ids \X {0, 1}) \cup {FRAME_NOT_SET, Py_None}

ASSUME GreenletsAssumption ==
  /\ MaxSpawns \in Nat /\ MaxJoins \in Nat
  /\ IsFiniteSet(Greenlets)
  /\ Greenlets \cap (Hubs \cup Mains) = {}
  /\ nullptr \notin Threads \cup Ids
  /\ FRAME_NOT_SET # Py_None
  /\ {FRAME_NOT_SET, Py_None} \cap (Ids \X {0, 1}) = {}

(* A map from some of S to T. *)
IsMap(f, S, T) == DOMAIN f \subseteq S /\ f \in [DOMAIN f -> T]

TypeOK ==
  /\ disciplined \in BOOLEAN
  /\ status \in [Ids -> {"none", "ready", "running", "suspended", "dead", "done"}]
  /\ home \in [Ids -> Threads]
  /\ top \in [Ids -> {0, 1}]
  /\ joining \in [Ids -> SUBSET Greenlets]
  /\ current \in [Threads -> Ids]
  /\ used \subseteq Greenlets
  /\ spawns \in 0..MaxSpawns
  /\ joins \in 0..MaxJoins
  /\ pc \in [Threads -> {"run", "track", "set_origin", "tell_origin",
                         "set_target", "tell_target"}]
  /\ origin \in [Threads -> Ids]
  /\ IsMap(_greenlet_frames, Ids, Frames)
  /\ IsMap(_greenlet_parent_map, Greenlets, Ids)
  /\ IsMap(_parent_greenlet_count, Ids, Nat)
  /\ IsMap(greenlet_info_map, Ids, Frames)
  /\ IsMap(greenlet_parent_map, Greenlets, Ids)
  /\ IsMap(greenlet_thread_map, Threads, Ids)
  /\ unwinding \in Threads \cup {nullptr}
  /\ leaves \subseteq Ids
  /\ greenlet_id \in Ids \cup {nullptr}
  /\ visited \subseteq Ids

Empty == [i \in {} |-> nullptr]

InitProgram ==
  /\ disciplined \in BOOLEAN
  /\ status = [i \in Ids |-> IF i \in Mains THEN "running"
                             ELSE IF i \in Hubs THEN "ready" ELSE "none"]
  /\ home \in [Ids -> Threads]
  /\ \A t \in Threads : home[Hub(t)] = t /\ home[Main(t)] = t
  /\ \A g, h \in Greenlets : home[g] = home[h]
  /\ top = [i \in Ids |-> 0]
  /\ joining = [i \in Ids |-> {}]
  /\ current = [t \in Threads |-> Main(t)]
  /\ used = {}
  /\ spawns = 0
  /\ joins = 0
  /\ pc = [t \in Threads |-> "run"]
  /\ origin = [t \in Threads |-> Main(t)]

InitPython ==
  /\ _greenlet_frames = Empty
  /\ _greenlet_parent_map = Empty
  /\ _parent_greenlet_count = Empty

InitMaps ==
  /\ greenlet_info_map = Empty
  /\ greenlet_parent_map = Empty
  /\ greenlet_thread_map = Empty

InitWalk ==
  /\ unwinding = nullptr
  /\ leaves = {}
  /\ greenlet_id = nullptr
  /\ visited = {}

Init == InitProgram /\ InitPython /\ InitMaps /\ InitWalk

Unlocked == unwinding = nullptr

Without(f, i) == Restrict(f, DOMAIN f \ {i})

(* The map f once everything in S is mapped to v. *)
With(f, S, v) == [i \in DOMAIN f \cup S |-> IF i \in S THEN v ELSE f[i]]

-----------------------------------------------------------------------------
(* What greenlets do, and the hooks on spawn, join and joinall.            *)

(* The thread runs code of its current greenlet, outside tracer and joins. *)
Runs(t) == pc[t] = "run" /\ joining[current[t]] = {}

Alive(g) == status[g] \in {"ready", "running", "suspended"}

(* track_greenlet and track_gevent_greenlet, for the greenlets of S. *)
Track(S) ==
  /\ greenlet_info_map' = With(greenlet_info_map, S, FRAME_NOT_SET)
  /\ _greenlet_frames' = With(_greenlet_frames, S, FRAME_NOT_SET)

(* Addresses that have not been used yet are all alike: one stands for them. *)
MayBeAt(g) ==
  g \in used \cup {CHOOSE h \in Greenlets : h \notin used \/ Greenlets = used}

Spawn(t, g) ==
  /\ Runs(t) /\ Unlocked
  /\ status[g] = "none"
  /\ spawns < MaxSpawns
  /\ MayBeAt(g)
  /\ used' = used \cup {g}
  /\ spawns' = spawns + 1
  /\ status' = [status EXCEPT ![g] = "ready"]
  /\ home' = [home EXCEPT ![g] = t]
  /\ Track({g})
  /\ greenlet_thread_map' = With(greenlet_thread_map, {t}, g)
  /\ UNCHANGED <<disciplined, top, joining, current, joins, tracer,
                 _greenlet_parent_map, _parent_greenlet_count,
                 greenlet_parent_map, walk>>

(* The top frame calls a function, or the function called returns.  The    *)
(* Python code of a hub is the loop that runs all its callbacks.           *)
CallOrReturn(t) ==
  /\ Runs(t)
  /\ current[t] \notin Hubs
  /\ top' = [top EXCEPT ![current[t]] = 1 - @]
  /\ UNCHANGED <<disciplined, status, home, joining, current, used, spawns,
                 joins, tracer, python, maps, walk>>

(* link_greenlets, once for each greenlet of S. *)
Link(S, parent) ==
  /\ greenlet_parent_map' = With(greenlet_parent_map, S, parent)
  /\ _greenlet_parent_map' = With(_greenlet_parent_map, S, parent)
  /\ _parent_greenlet_count' =
       With(_parent_greenlet_count, {parent},
            Cardinality(S) + IF parent \in DOMAIN _parent_greenlet_count
                             THEN _parent_greenlet_count[parent] ELSE 0)

MayJoin(t, S) ==
  /\ Runs(t) /\ Unlocked
  /\ current[t] \notin Hubs
  /\ joins < MaxJoins
  /\ S # {} /\ current[t] \notin S
  /\ \A g \in S : /\ status[g] # "none" /\ home[g] = t
                  /\ disciplined => /\ Alive(g) /\ joining[g] = {}
                                    /\ g \notin DOMAIN _greenlet_parent_map

Joins(t, S) ==
  /\ joins' = joins + 1
  /\ joining' = [joining EXCEPT ![current[t]] = S]
  /\ UNCHANGED <<disciplined, status, home, top, current, used, spawns, tracer,
                 _greenlet_frames, greenlet_info_map, greenlet_thread_map, walk>>

Join(t, g) ==
  /\ MayJoin(t, {g})
  /\ Link({g}, current[t])
  /\ Joins(t, {g})

(* joinall, wait and iwait: getcurrent() is always a greenlet, so the hub. *)
JoinAll(t, S) ==
  /\ MayJoin(t, S)
  /\ Link(S, Hub(t))
  /\ Joins(t, S)

Finished(S) == \A g \in S : ~Alive(g)

(* There was nothing to wait for. *)
JoinReturns(t) ==
  /\ pc[t] = "run" /\ joining[current[t]] # {}
  /\ Finished(joining[current[t]])
  /\ joining' = [joining EXCEPT ![current[t]] = {}]
  /\ UNCHANGED <<disciplined, status, home, top, current, used, spawns, joins,
                 tracer, python, maps, walk>>

Switch(t, target) ==
  /\ current' = [current EXCEPT ![t] = target]
  /\ origin' = [origin EXCEPT ![t] = current[t]]
  /\ pc' = [pc EXCEPT ![t] = "track"]
  /\ UNCHANGED <<disciplined, home, used, spawns, joins, python, maps, walk>>

(* The current greenlet waits: for what it joins, or for anything else.    *)
Suspend(t) ==
  /\ pc[t] = "run" /\ current[t] \notin Hubs
  /\ joining[current[t]] = {} \/ ~Finished(joining[current[t]])
  /\ status' = [status EXCEPT ![current[t]] = "suspended", ![Hub(t)] = "running"]
  /\ Switch(t, Hub(t))
  /\ UNCHANGED <<top, joining>>

(* Finishing, it switches to the hub for the last time. *)
Finish(t) ==
  /\ Runs(t) /\ current[t] \in Greenlets
  /\ status' = [status EXCEPT ![current[t]] = "dead", ![Hub(t)] = "running"]
  /\ top' = [top EXCEPT ![current[t]] = 0]
  /\ Switch(t, Hub(t))
  /\ UNCHANGED joining

(* The hub starts a greenlet, or goes on with one. *)
Resume(t, i) ==
  /\ Runs(t) /\ current[t] = Hub(t)
  /\ i # Hub(t) /\ home[i] = t
  /\ status[i] \in {"ready", "suspended"}
  /\ disciplined => \A g \in joining[i] : status[g] \in {"done", "none"}
  /\ status' = [status EXCEPT ![Hub(t)] = "suspended", ![i] = "running"]
  /\ joining' = [joining EXCEPT ![i] = {}]
  /\ Switch(t, i)
  /\ UNCHANGED top

(* The counts once g is untracked. *)
CountsWithout(g) ==
  LET counts == Without(_parent_greenlet_count, g)
      p      == _greenlet_parent_map[g]
  IN IF g \notin DOMAIN _greenlet_parent_map \/ p \notin DOMAIN counts
     THEN counts
     ELSE IF counts[p] <= 1 THEN Without(counts, p)
     ELSE [counts EXCEPT ![p] = @ - 1]

KeepLink(g) == greenlet_parent_map

ParentsWithout(g) == Without(greenlet_parent_map, g)

(* untrack_greenlet, called by the hub for a greenlet that has finished;   *)
(* a parent that has no count any more is a KeyError, after all the rest.  *)
UntrackGreenlet(t, g) ==
  /\ Runs(t) /\ Unlocked /\ current[t] = Hub(t)
  /\ status[g] = "dead" /\ home[g] = t
  /\ status' = [status EXCEPT ![g] = "done"]
  /\ greenlet_info_map' = Without(greenlet_info_map, g)
  /\ greenlet_parent_map' = ParentsWithout(g)
  /\ greenlet_thread_map' = Without(greenlet_thread_map, g)
  /\ _greenlet_frames' = Without(_greenlet_frames, g)
  /\ _parent_greenlet_count' = CountsWithout(g)
  /\ _greenlet_parent_map' = Without(_greenlet_parent_map, g)
  /\ UNCHANGED <<disciplined, home, top, joining, current, used, spawns, joins,
                 tracer, walk>>

(* The last reference to the greenlet object goes. *)
Collect(g) ==
  /\ status[g] = "done"
  /\ \A i \in Ids : g \notin joining[i]
  /\ status' = [status EXCEPT ![g] = "none"]
  /\ UNCHANGED <<disciplined, home, top, joining, current, used, spawns, joins,
                 tracer, python, maps, walk>>

-----------------------------------------------------------------------------
(* greenlet_tracer, in the context of the greenlet switched to.            *)

Goto(t, next) == pc' = [pc EXCEPT ![t] = next] /\ UNCHANGED origin

(* Whichever of the two is not known and can be tracked. *)
TraceTrack(t) ==
  LET new == {origin[t], current[t]} \ (DOMAIN _greenlet_frames \cup Mains)
  IN /\ pc[t] = "track" /\ Unlocked
     /\ Goto(t, "set_origin")
     /\ Track(new)
     /\ greenlet_thread_map' =
          IF new = {} THEN greenlet_thread_map
          ELSE With(greenlet_thread_map, {t},
                    IF current[t] \in new THEN current[t] ELSE origin[t])
     /\ UNCHANGED <<program, _greenlet_parent_map, _parent_greenlet_count,
                    greenlet_parent_map, walk>>

FrameOrNull(i) ==
  IF status[i] = "suspended" THEN <<i, top[i]>> ELSE nullptr

(* gr_frame of a greenlet, or the sentinel if it has finished. *)
FrameOrSentinel(i) ==
  IF status[i] = "suspended" THEN <<i, top[i]>> ELSE FRAME_NOT_SET

SetOrigin(t) ==
  /\ pc[t] = "set_origin"
  /\ _greenlet_frames' =
       With(_greenlet_frames, {origin[t]}, FrameOrSentinel(origin[t]))
  /\ Goto(t, "tell_origin")
  /\ UNCHANGED <<program, _greenlet_parent_map, _parent_greenlet_count, maps,
                 walk>>

(* update_greenlet_frame *)
Updated(i) ==
  IF i \in DOMAIN greenlet_info_map
  THEN [greenlet_info_map EXCEPT ![i] = _greenlet_frames[i]]
  ELSE greenlet_info_map

TellOrigin(t) ==
  /\ pc[t] = "tell_origin" /\ Unlocked
  /\ greenlet_info_map' = Updated(origin[t])
  /\ Goto(t, "set_target")
  /\ UNCHANGED <<program, python, greenlet_parent_map, greenlet_thread_map, walk>>

IsKnown(i) == i \in DOMAIN _greenlet_frames

IsParent(i) == i \in DOMAIN _parent_greenlet_count

(* The frame of a greenlet that others are linked to is left alone. *)
SetTarget(t) ==
  /\ pc[t] = "set_target"
  /\ IF IsParent(current[t])
     THEN Goto(t, "run") /\ UNCHANGED _greenlet_frames
     ELSE /\ Goto(t, "tell_target")
          /\ _greenlet_frames' = With(_greenlet_frames, {current[t]}, Py_None)
  /\ UNCHANGED <<program, _greenlet_parent_map, _parent_greenlet_count, maps,
                 walk>>

TellTarget(t) ==
  /\ pc[t] = "tell_target" /\ Unlocked
  /\ greenlet_info_map' = Updated(current[t])
  /\ Goto(t, "run")
  /\ UNCHANGED <<program, python, greenlet_parent_map, greenlet_thread_map, walk>>

-----------------------------------------------------------------------------
(* unwind_greenlets, which holds greenlet_info_map_lock.                   *)

IsLeaf(g) ==
  /\ g \notin Range(greenlet_parent_map)
  /\ greenlet_info_map[g] # FRAME_NOT_SET
  /\ IgnoreIdle => greenlet_info_map[g] = Py_None

UnwindGreenlets(t) ==
  /\ Unlocked
  /\ t \in DOMAIN greenlet_thread_map
  /\ unwinding' = t
  /\ leaves' = {g \in DOMAIN greenlet_info_map : IsLeaf(g)}
  /\ UNCHANGED <<program, tracer, python, maps, greenlet_id, visited>>

UnwindLeaf(g) ==
  /\ greenlet_id = nullptr /\ g \in leaves
  /\ leaves' = leaves \ {g}
  /\ greenlet_id' = g
  /\ UNCHANGED <<program, tracer, python, maps, unwinding, visited>>

(* One iteration is made for each greenlet visited. *)
MayClimb(g) == Cardinality(visited) < MAX_GREENLET_DEPTH /\ g \notin visited

(* The greenlet g is linked to, if its stack can be added. *)
HasParent(g) ==
  /\ g \in DOMAIN greenlet_parent_map
  /\ greenlet_parent_map[g] \in DOMAIN greenlet_info_map
  /\ greenlet_info_map[greenlet_parent_map[g]] \notin {FRAME_NOT_SET, Py_None}

Climbs(g) == MayClimb(g) /\ HasParent(g)

UnwindParent ==
  /\ greenlet_id # nullptr
  /\ Climbs(greenlet_id)
  /\ visited' = visited \cup {greenlet_id}
  /\ greenlet_id' = greenlet_parent_map[greenlet_id]
  /\ UNCHANGED <<program, tracer, python, maps, unwinding, leaves>>

FinishStack ==
  /\ greenlet_id # nullptr
  /\ ~Climbs(greenlet_id)
  /\ greenlet_id' = nullptr
  /\ visited' = {}
  /\ UNCHANGED <<program, tracer, python, maps, unwinding, leaves>>

UnwindDone ==
  /\ unwinding # nullptr /\ leaves = {} /\ greenlet_id = nullptr
  /\ unwinding' = nullptr
  /\ UNCHANGED <<program, tracer, python, maps, leaves, greenlet_id, visited>>

-----------------------------------------------------------------------------
ProgramStep(t) ==
  \/ CallOrReturn(t) \/ JoinReturns(t) \/ Suspend(t) \/ Finish(t)
  \/ \E g \in Greenlets : Spawn(t, g) \/ Join(t, g) \/ UntrackGreenlet(t, g)
  \/ \E S \in SUBSET Greenlets : JoinAll(t, S)
  \/ \E i \in Ids : Resume(t, i)

TracerStep(t) ==
  \/ TraceTrack(t) \/ SetOrigin(t) \/ TellOrigin(t)
  \/ SetTarget(t) \/ TellTarget(t)

UnwindStep ==
  \/ \E g \in Ids : UnwindLeaf(g)
  \/ UnwindParent \/ FinishStack \/ UnwindDone

Next ==
  \/ \E t \in Threads : ProgramStep(t) \/ TracerStep(t) \/ UnwindGreenlets(t)
  \/ \E g \in Greenlets : Collect(g)
  \/ UnwindStep

Spec == Init /\ [][Next]_vars

-----------------------------------------------------------------------------
(* Properties.                                                             *)

(* Where joins are disciplined, Python counts for every greenlet the       *)
(* greenlets linked to it: so the hook that untracks one finds the count   *)
(* of its parent (no KeyError), and a greenlet without children is never   *)
(* taken for a parent.                                                     *)
CountsAgree ==
  disciplined =>
    /\ _greenlet_parent_map = greenlet_parent_map
    /\ \A i \in Ids :
         LET linked == {g \in DOMAIN greenlet_parent_map :
                          greenlet_parent_map[g] = i}
         IN IF linked = {} THEN i \notin DOMAIN _parent_greenlet_count
            ELSE /\ i \in DOMAIN _parent_greenlet_count
                 /\ _parent_greenlet_count[i] = Cardinality(linked)

(* Where joins are disciplined, nothing is known of a greenlet once it has *)
(* finished and its completion has been handled.                           *)
Untracked ==
  disciplined =>
    \A g \in Greenlets :
      status[g] \in {"none", "done"} =>
        /\ g \notin DOMAIN greenlet_info_map
        /\ g \notin DOMAIN greenlet_parent_map
        /\ g \notin DOMAIN _parent_greenlet_count

(* Only the greenlet a thread is running has None for its frame. *)
OnlyCurrentIsNone ==
  \A i \in DOMAIN greenlet_info_map :
    greenlet_info_map[i] = Py_None /\ pc[home[i]] = "run"
      => current[home[i]] = i

(* What the maps say of greenlets is true, on both sides: who is linked to *)
(* whom, who is still there, and who is running.                           *)
MapsTrue == CountsAgree /\ Untracked /\ OnlyCurrentIsNone

(* A frame object lives as long as its greenlet is in it, or has it on its *)
(* stack, or the Python map refers to it.                                  *)
Lives(f) ==
  \/ status[f[1]] \in {"running", "suspended"} /\ f[2] <= top[f[1]]
  \/ f \in Range(_greenlet_frames)

(* Where joins are disciplined, the frame objects GreenletInfo::unwind was *)
(* told of, and reads through without checks, are still there.             *)
ReadsLiveFrames ==
  [][disciplined /\ greenlet_id' \notin {greenlet_id, nullptr} =>
       LET f == greenlet_info_map[greenlet_id']
       IN f # Py_None => Lives(f)]_vars

(* However the greenlets are linked, in a circle too, an unwind looks for  *)
(* the parent of a greenlet only once in a stack: so it ends, and gives    *)
(* the lock of the greenlet maps back.                                     *)
ClimbsOnce ==
  [][greenlet_id # nullptr /\ greenlet_id' \notin {greenlet_id, nullptr}
       => greenlet_id \in visited' \ visited]_vars
=============================================================================
