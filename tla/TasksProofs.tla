------------------------------ MODULE TasksProofs ------------------------------
(***************************************************************************)
(* Proofs about TaskLinks and Greenlets, side by side in MCTasks: for any  *)
(* number of tasks, event loops, greenlets, threads and joins.             *)
(***************************************************************************)
EXTENDS MCTasks, Sequences, FiniteSetTheorems, TLAPS

-----------------------------------------------------------------------------
(* What greenlets, hooks and maps keep true.                               *)

(* The greenlet a thread runs is its own and the only one running there;   *)
(* while the tracer runs, the one it has come from is at rest.             *)
HomeInv ==
  /\ \A t \in Threads :
       /\ home[Hub(t)] = t /\ home[Main(t)] = t /\ joining[Hub(t)] = {}
       /\ home[current[t]] = t /\ status[current[t]] = "running"
       /\ pc[t] # "run" => /\ home[origin[t]] = t
                           /\ status[origin[t]] \in {"suspended", "dead"}
                           /\ joining[current[t]] = {}
  /\ \A i \in Ids : status[i] = "running" => current[home[i]] = i
  /\ \A i \in Hubs \cup Mains : status[i] \in {"ready", "running", "suspended"}

(* Who is known to the sampler is known to Python. *)
KnownInv == DOMAIN greenlet_info_map \subseteq DOMAIN _greenlet_frames

(* What the tracer is about to tell the sampler. *)
TellInv ==
  \A t \in Threads :
    /\ pc[t] = "tell_origin" =>
         /\ origin[t] \in DOMAIN _greenlet_frames
         /\ _greenlet_frames[origin[t]] = FrameOrSentinel(origin[t])
    /\ pc[t] = "tell_target" =>
         /\ current[t] \in DOMAIN _greenlet_frames
         /\ _greenlet_frames[current[t]] = Py_None

(* None is the frame of a running greenlet, until the tracer tells that it *)
(* has been switched away from.                                            *)
NoneInv ==
  \A i \in DOMAIN greenlet_info_map :
    greenlet_info_map[i] = Py_None =>
      \/ pc[home[i]] = "run" /\ current[home[i]] = i
      \/ /\ pc[home[i]] \in {"track", "set_origin", "tell_origin"}
         /\ origin[home[i]] = i

(* Where joins are disciplined, a greenlet is linked to a hub or to the    *)
(* greenlet inside a join for it, which goes on once it is not linked.     *)
LinkInv ==
  disciplined =>
    /\ _greenlet_parent_map = greenlet_parent_map
    /\ \A g \in DOMAIN greenlet_parent_map :
         /\ status[g] \notin {"none", "done"}
         /\ \/ greenlet_parent_map[g] \in Hubs
            \/ g \in joining[greenlet_parent_map[g]]
    /\ \A i \in Ids :
         joining[i] # {} => status[i] \in {"running", "suspended"} /\ i \notin Hubs
    /\ \A t \in Threads : \A g \in joining[current[t]] :
         Alive(g) /\ home[g] = t /\ g # current[t]

(* Where joins are disciplined, the frame the sampler knows of a greenlet  *)
(* that has one is the frame on top of its stack.                          *)
FrameInv ==
  disciplined =>
    /\ \A t \in Threads : top[Hub(t)] = 0
    /\ \A i \in DOMAIN greenlet_info_map :
         greenlet_info_map[i] \notin {FRAME_NOT_SET, Py_None} =>
           /\ greenlet_info_map[i] = <<i, top[i]>>
           /\ \/ status[i] = "suspended"
              \/ status[i] = "running" /\ (i \in Hubs \/ pc[home[i]] # "run")

(* The leaves stay what they were: the sampler has the lock of the maps.   *)
LeafInv ==
  /\ leaves # {} => unwinding # nullptr
  /\ \A g \in leaves : g \in DOMAIN greenlet_info_map
                       /\ greenlet_info_map[g] # FRAME_NOT_SET

(* Where joins are disciplined, greenlets that are gone are not known.     *)
GoneInv ==
  disciplined =>
    \A g \in Greenlets :
      status[g] \in {"none", "done"} => g \notin DOMAIN greenlet_info_map

GreenletInv ==
  /\ TypeOK /\ HomeInv /\ KnownInv /\ TellInv /\ NoneInv
  /\ LinkInv /\ CountsAgree /\ FrameInv /\ GoneInv /\ LeafInv

LEMMA HubNames ==
  /\ \A t \in Threads : Hub(t) \in Ids /\ Main(t) \in Ids
  /\ \A t, u \in Threads : Hub(t) # Main(u)
  /\ \A t, u \in Threads : Hub(t) = Hub(u) \/ Main(t) = Main(u) => t = u
BY DEF Ids, Hubs, Mains, Hub, Main

(* What a map with something put in, or something taken out, maps to what. *)
LEMMA MapTypes ==
  ASSUME NEW f, NEW S, NEW V, IsMap(f, S, V)
  PROVE  /\ \A U \in SUBSET S : \A v \in V : IsMap(With(f, U, v), S, V)
         /\ \A i : IsMap(Without(f, i), S, V)
BY DEF IsMap, With, Without, Restrict

LEMMA CountsType ==
  ASSUME TypeOK, NEW g \in Greenlets
  PROVE  IsMap(CountsWithout(g), Ids, Nat)
<1> DEFINE counts == Without(_parent_greenlet_count, g)
           p == _greenlet_parent_map[g]
<1>1. IsMap(counts, Ids, Nat)
  BY MapTypes DEF TypeOK
<1>2. IsMap(Without(counts, p), Ids, Nat)
  BY <1>1, MapTypes
<1>3. ASSUME p \in DOMAIN counts, counts[p] > 1
      PROVE  IsMap([counts EXCEPT ![p] = @ - 1], Ids, Nat)
  <2>1. counts[p] \in Nat
    BY <1>1, <1>3 DEF IsMap
  <2>2. counts[p] - 1 \in Nat
    BY <2>1, <1>3
  <2> QED
    BY <2>2, <1>1 DEF IsMap
<1>4. p \in DOMAIN counts => counts[p] \in Nat
  BY <1>1 DEF IsMap
<1> QED
  BY <1>1, <1>2, <1>3, <1>4 DEF CountsWithout

(* What the tracer tells the sampler of a greenlet is of the right type.   *)
LEMMA UpdatedType ==
  ASSUME TypeOK, KnownInv, NEW i \in Ids
  PROVE  IsMap(Updated(i), Ids, Frames)
BY DEF TypeOK, KnownInv, Updated, IsMap

LEMMA FrameTypes ==
  /\ FRAME_NOT_SET \in Frames /\ Py_None \in Frames
  /\ \A i \in Ids : TypeOK => FrameOrSentinel(i) \in Frames
BY DEF Frames, FrameOrSentinel, TypeOK

LEMMA LinkTypes ==
  ASSUME TypeOK, NEW S \in SUBSET Greenlets, NEW i \in Ids, Link(S, i)
  PROVE  /\ IsMap(greenlet_parent_map', Greenlets, Ids)
         /\ IsMap(_greenlet_parent_map', Greenlets, Ids)
         /\ IsMap(_parent_greenlet_count', Ids, Nat)
<1>1. IsFiniteSet(S)
  BY GreenletsAssumption, FS_Subset
<1>2. Cardinality(S) \in Nat
  BY <1>1, FS_CardinalityType
<1>3. Cardinality(S) + (IF i \in DOMAIN _parent_greenlet_count
                        THEN _parent_greenlet_count[i] ELSE 0) \in Nat
  BY <1>2 DEF TypeOK, IsMap
<1> QED
  BY <1>3, MapTypes DEF Link, TypeOK

(* Nor do the steps of an unwind disturb the types. *)
LEMMA UnwindTyping ==
  ASSUME TypeOK, UnwindStep \/ \E t \in Threads : UnwindGreenlets(t)
  PROVE  TypeOK'
<1> USE DEF program, tracer, python, maps, walk
<1>1. ASSUME NEW t \in Threads, UnwindGreenlets(t) PROVE TypeOK'
  BY <1>1 DEF UnwindGreenlets, TypeOK, IsMap
<1>2. ASSUME UnwindStep PROVE TypeOK'
  <2>1. ASSUME NEW g \in Ids, UnwindLeaf(g) PROVE TypeOK'
    BY <2>1 DEF UnwindLeaf, TypeOK
  <2>2. ASSUME UnwindParent PROVE TypeOK'
    BY <2>2 DEF UnwindParent, Climbs, HasParent, TypeOK, IsMap
  <2>3. ASSUME FinishStack PROVE TypeOK'
    BY <2>3 DEF FinishStack, TypeOK
  <2>4. ASSUME UnwindDone PROVE TypeOK'
    BY <2>4 DEF UnwindDone, TypeOK
  <2> QED
    BY <1>2, <2>1, <2>2, <2>3, <2>4 DEF UnwindStep
<1> QED
  BY <1>1, <1>2

(* Every step of greenlets keeps the state well typed. *)
LEMMA GreenletTyping ==
  ASSUME TypeOK, KnownInv, [Next]_vars
  PROVE  TypeOK'
<1> USE DEF program, tracer, python, maps, walk
<1>1. ASSUME NEW t \in Threads, NEW g \in Greenlets, Spawn(t, g)
      PROVE  TypeOK'
  <2>1. g \in Ids
    BY DEF Ids
  <2>2. /\ IsMap(greenlet_info_map', Ids, Frames)
        /\ IsMap(_greenlet_frames', Ids, Frames)
        /\ IsMap(greenlet_thread_map', Threads, Ids)
    BY <1>1, <2>1, MapTypes, FrameTypes DEF Spawn, Track, TypeOK
  <2> QED
    BY <1>1, <2>1, <2>2, GreenletsAssumption DEF Spawn, TypeOK
<1>2. ASSUME NEW t \in Threads, CallOrReturn(t) PROVE TypeOK'
  BY <1>2 DEF CallOrReturn, TypeOK
<1>3. ASSUME NEW t \in Threads, NEW g \in Greenlets, Join(t, g)
      PROVE  TypeOK'
  <2>1. current[t] \in Ids
    BY DEF TypeOK
  <2>2. /\ IsMap(greenlet_parent_map', Greenlets, Ids)
        /\ IsMap(_greenlet_parent_map', Greenlets, Ids)
        /\ IsMap(_parent_greenlet_count', Ids, Nat)
    BY <1>3, <2>1, LinkTypes DEF Join
  <2>3. joins < MaxJoins
    BY <1>3 DEF Join, MayJoin
  <2> QED
    BY <1>3, <2>2, <2>3, GreenletsAssumption DEF Join, Joins, TypeOK
<1>4. ASSUME NEW t \in Threads, NEW S \in SUBSET Greenlets, JoinAll(t, S)
      PROVE  TypeOK'
  <2>1. /\ IsMap(greenlet_parent_map', Greenlets, Ids)
        /\ IsMap(_greenlet_parent_map', Greenlets, Ids)
        /\ IsMap(_parent_greenlet_count', Ids, Nat)
    BY <1>4, HubNames, LinkTypes DEF JoinAll
  <2>2. joins < MaxJoins
    BY <1>4 DEF JoinAll, MayJoin
  <2> QED
    BY <1>4, <2>1, <2>2, GreenletsAssumption DEF JoinAll, Joins, TypeOK
<1>5. ASSUME NEW t \in Threads, JoinReturns(t) PROVE TypeOK'
  BY <1>5 DEF JoinReturns, TypeOK
<1>6. ASSUME NEW t \in Threads, Suspend(t) PROVE TypeOK'
  BY <1>6, HubNames DEF Suspend, Switch, TypeOK
<1>7. ASSUME NEW t \in Threads, Finish(t) PROVE TypeOK'
  BY <1>7, HubNames DEF Finish, Switch, TypeOK
<1>8. ASSUME NEW t \in Threads, NEW i \in Ids, Resume(t, i) PROVE TypeOK'
  BY <1>8, HubNames DEF Resume, Switch, TypeOK
<1>9. ASSUME NEW t \in Threads, NEW g \in Greenlets, UntrackGreenlet(t, g)
      PROVE  TypeOK'
  <2>1. /\ IsMap(greenlet_info_map', Ids, Frames)
        /\ IsMap(_greenlet_frames', Ids, Frames)
        /\ IsMap(greenlet_parent_map', Greenlets, Ids)
        /\ IsMap(_greenlet_parent_map', Greenlets, Ids)
        /\ IsMap(greenlet_thread_map', Threads, Ids)
    BY <1>9, MapTypes DEF UntrackGreenlet, ParentsWithout, TypeOK
  <2>2. IsMap(_parent_greenlet_count', Ids, Nat)
    BY <1>9, CountsType DEF UntrackGreenlet
  <2> QED
    BY <1>9, <2>1, <2>2 DEF UntrackGreenlet, TypeOK
<1>10. ASSUME NEW g \in Greenlets, Collect(g) PROVE TypeOK'
  BY <1>10 DEF Collect, TypeOK
<1>11. ASSUME NEW t \in Threads, TraceTrack(t) PROVE TypeOK'
  <2>1. origin[t] \in Ids /\ current[t] \in Ids
    BY DEF TypeOK
  <2> DEFINE new == {origin[t], current[t]} \ (DOMAIN _greenlet_frames \cup Mains)
  <2>2. /\ IsMap(greenlet_info_map', Ids, Frames)
        /\ IsMap(_greenlet_frames', Ids, Frames)
    <3>1. new \subseteq Ids
      BY <2>1
    <3>2. Track(new)
      BY <1>11 DEF TraceTrack
    <3> HIDE DEF new
    <3> QED
      BY <3>1, <3>2, MapTypes, FrameTypes DEF Track, TypeOK
  <2>3. IsMap(greenlet_thread_map', Threads, Ids)
    <3>1. \/ greenlet_thread_map' = greenlet_thread_map
          \/ \E i \in Ids : greenlet_thread_map' = With(greenlet_thread_map, {t}, i)
      BY <1>11, <2>1 DEF TraceTrack
    <3> QED
      BY <3>1, MapTypes DEF TypeOK
  <2> QED
    BY <1>11, <2>2, <2>3 DEF TraceTrack, Goto, TypeOK
<1>12. ASSUME NEW t \in Threads, SetOrigin(t) PROVE TypeOK'
  <2>1. origin[t] \in Ids
    BY DEF TypeOK
  <2>2. IsMap(_greenlet_frames', Ids, Frames)
    BY <1>12, <2>1, MapTypes, FrameTypes DEF SetOrigin, TypeOK
  <2> QED
    BY <1>12, <2>2 DEF SetOrigin, Goto, TypeOK
<1>13. ASSUME NEW t \in Threads, TellOrigin(t) PROVE TypeOK'
  <2>1. origin[t] \in Ids
    BY DEF TypeOK
  <2> QED
    BY <1>13, <2>1, UpdatedType DEF TellOrigin, Goto, TypeOK
<1>14. ASSUME NEW t \in Threads, SetTarget(t) PROVE TypeOK'
  <2>1. current[t] \in Ids
    BY DEF TypeOK
  <2>2. IsMap(_greenlet_frames', Ids, Frames)
    BY <1>14, <2>1, MapTypes, FrameTypes DEF SetTarget, TypeOK
  <2> QED
    BY <1>14, <2>2 DEF SetTarget, Goto, TypeOK
<1>15. ASSUME NEW t \in Threads, TellTarget(t) PROVE TypeOK'
  <2>1. current[t] \in Ids
    BY DEF TypeOK
  <2> QED
    BY <1>15, <2>1, UpdatedType DEF TellTarget, Goto, TypeOK
<1>16. ASSUME UnwindStep \/ \E t \in Threads : UnwindGreenlets(t)
       PROVE  TypeOK'
  BY <1>16, UnwindTyping
<1>17. ASSUME UNCHANGED vars PROVE TypeOK'
  BY <1>17 DEF vars, TypeOK
<1> QED
  BY <1>1, <1>2, <1>3, <1>4, <1>5, <1>6, <1>7, <1>8, <1>9, <1>10, <1>11, <1>12,
     <1>13, <1>14, <1>15, <1>16, <1>17 DEF Next, ProgramStep, TracerStep

LEMMA HomeStep ==
  ASSUME GreenletInv, [Next]_vars
  PROVE  HomeInv'
<1> USE HubNames DEF GreenletInv, HomeInv, TypeOK, program, tracer, python,
   maps, walk
<1>1. ASSUME NEW t \in Threads, NEW g \in Greenlets, Spawn(t, g)
      PROVE  HomeInv'
  <2>1. /\ g \in Ids /\ g \notin Hubs \cup Mains
        /\ \A u \in Threads : Hub(u) # g /\ Main(u) # g /\ current[u] # g
    BY <1>1, GreenletsAssumption DEF Spawn, Ids, Hubs, Mains
  <2>2. ASSUME NEW u \in Threads
        PROVE  /\ home'[Hub(u)] = u /\ home'[Main(u)] = u
               /\ joining'[Hub(u)] = {}
               /\ home'[current'[u]] = u /\ status'[current'[u]] = "running"
    <3>1. current[u] \in Ids
      OBVIOUS
    <3> QED
      BY <1>1, <2>1, <3>1 DEF Spawn
  <2>3. ASSUME NEW u \in Threads, pc'[u] # "run"
        PROVE  /\ home'[origin'[u]] = u
               /\ status'[origin'[u]] \in {"suspended", "dead"}
               /\ joining'[current'[u]] = {}
    BY <1>1, <2>1, <2>3 DEF Spawn
  <2>4. ASSUME NEW i \in Ids, status'[i] = "running"
        PROVE  current'[home'[i]] = i
    BY <1>1, <2>1, <2>4 DEF Spawn
  <2>5. ASSUME NEW i \in Hubs \cup Mains
        PROVE  status'[i] \in {"ready", "running", "suspended"}
    BY <1>1, <2>1, <2>5 DEF Spawn, Ids
  <2> QED
    BY <2>2, <2>3, <2>4, <2>5 DEF HomeInv
<1>2. ASSUME NEW t \in Threads, CallOrReturn(t) PROVE HomeInv'
  BY <1>2 DEF CallOrReturn, Goto
<1>3. ASSUME NEW t \in Threads, NEW g \in Greenlets, Join(t, g) PROVE HomeInv'
  BY <1>3 DEF Join, Joins, MayJoin, Runs, Hubs
<1>4. ASSUME NEW t \in Threads, NEW S \in SUBSET Greenlets, JoinAll(t, S)
      PROVE  HomeInv'
  BY <1>4 DEF JoinAll, Joins, MayJoin, Runs, Hubs
<1>5. ASSUME NEW t \in Threads, JoinReturns(t) PROVE HomeInv'
  BY <1>5 DEF JoinReturns, Goto
<1>6. ASSUME NEW t \in Threads, Suspend(t) PROVE HomeInv'
  <2>1. /\ Hub(t) \in Ids /\ current[t] \in Ids /\ current[t] # Hub(t)
        /\ joining[Hub(t)] = {}
    BY <1>6 DEF Suspend, Hubs
  <2>2. ASSUME NEW u \in Threads
        PROVE  /\ home'[Hub(u)] = u /\ home'[Main(u)] = u
               /\ joining'[Hub(u)] = {}
               /\ home'[current'[u]] = u /\ status'[current'[u]] = "running"
    <3>1. current[u] \in Ids
      OBVIOUS
    <3> QED
      BY <1>6, <2>1, <3>1 DEF Suspend, Switch
  <2>3. ASSUME NEW u \in Threads, pc'[u] # "run"
        PROVE  /\ home'[origin'[u]] = u
               /\ status'[origin'[u]] \in {"suspended", "dead"}
               /\ joining'[current'[u]] = {}
    BY <1>6, <2>1, <2>3 DEF Suspend, Switch
  <2>4. ASSUME NEW i \in Ids, status'[i] = "running"
        PROVE  current'[home'[i]] = i
    BY <1>6, <2>1, <2>4 DEF Suspend, Switch
  <2>5. ASSUME NEW i \in Hubs \cup Mains
        PROVE  status'[i] \in {"ready", "running", "suspended"}
    BY <1>6, <2>1, <2>5 DEF Suspend, Switch, Ids
  <2> QED
    BY <2>2, <2>3, <2>4, <2>5 DEF HomeInv
<1>7. ASSUME NEW t \in Threads, Finish(t) PROVE HomeInv'
  <2>1. /\ Hub(t) \in Ids /\ current[t] \in Ids /\ current[t] # Hub(t)
        /\ current[t] \notin Hubs \cup Mains /\ joining[Hub(t)] = {}
    BY <1>7, GreenletsAssumption DEF Finish, Hubs
  <2>2. ASSUME NEW u \in Threads
        PROVE  /\ home'[Hub(u)] = u /\ home'[Main(u)] = u
               /\ joining'[Hub(u)] = {}
               /\ home'[current'[u]] = u /\ status'[current'[u]] = "running"
    <3>1. current[u] \in Ids
      OBVIOUS
    <3> QED
      BY <1>7, <2>1, <3>1 DEF Finish, Switch
  <2>3. ASSUME NEW u \in Threads, pc'[u] # "run"
        PROVE  /\ home'[origin'[u]] = u
               /\ status'[origin'[u]] \in {"suspended", "dead"}
               /\ joining'[current'[u]] = {}
    BY <1>7, <2>1, <2>3 DEF Finish, Switch
  <2>4. ASSUME NEW i \in Ids, status'[i] = "running"
        PROVE  current'[home'[i]] = i
    BY <1>7, <2>1, <2>4 DEF Finish, Switch
  <2>5. ASSUME NEW i \in Hubs \cup Mains
        PROVE  status'[i] \in {"ready", "running", "suspended"}
    BY <1>7, <2>1, <2>5 DEF Finish, Switch, Ids
  <2> QED
    BY <2>2, <2>3, <2>4, <2>5 DEF HomeInv
<1>8. ASSUME NEW t \in Threads, NEW i \in Ids, Resume(t, i) PROVE HomeInv'
  <2>1. Hub(t) \in Ids /\ current[t] = Hub(t) /\ i # Hub(t) /\ home[i] = t
    BY <1>8 DEF Resume
  <2>2. ASSUME NEW u \in Threads
        PROVE  /\ home'[Hub(u)] = u /\ home'[Main(u)] = u
               /\ joining'[Hub(u)] = {}
               /\ home'[current'[u]] = u /\ status'[current'[u]] = "running"
    <3>1. current[u] \in Ids
      OBVIOUS
    <3> QED
      BY <1>8, <2>1, <3>1 DEF Resume, Switch, Runs
  <2>3. ASSUME NEW u \in Threads, pc'[u] # "run"
        PROVE  /\ home'[origin'[u]] = u
               /\ status'[origin'[u]] \in {"suspended", "dead"}
               /\ joining'[current'[u]] = {}
    BY <1>8, <2>1, <2>3 DEF Resume, Switch, Runs
  <2>4. ASSUME NEW j \in Ids, status'[j] = "running"
        PROVE  current'[home'[j]] = j
    BY <1>8, <2>1, <2>4 DEF Resume, Switch, Runs
  <2>5. ASSUME NEW j \in Hubs \cup Mains
        PROVE  status'[j] \in {"ready", "running", "suspended"}
    BY <1>8, <2>1, <2>5 DEF Resume, Switch, Runs, Ids
  <2> QED
    BY <2>2, <2>3, <2>4, <2>5 DEF HomeInv
<1>9. ASSUME NEW t \in Threads, NEW g \in Greenlets, UntrackGreenlet(t, g)
      PROVE  HomeInv'
  <2>1. g \in Ids /\ g \notin Hubs \cup Mains /\ status[g] = "dead"
    BY <1>9, GreenletsAssumption DEF UntrackGreenlet, Ids
  <2>2. ASSUME NEW u \in Threads
        PROVE  /\ home'[Hub(u)] = u /\ home'[Main(u)] = u
               /\ joining'[Hub(u)] = {}
               /\ home'[current'[u]] = u /\ status'[current'[u]] = "running"
    <3>1. current[u] \in Ids
      OBVIOUS
    <3> QED
      BY <1>9, <2>1, <3>1 DEF UntrackGreenlet, Runs
  <2>3. ASSUME NEW u \in Threads, pc'[u] # "run"
        PROVE  /\ home'[origin'[u]] = u
               /\ status'[origin'[u]] \in {"suspended", "dead"}
               /\ joining'[current'[u]] = {}
    BY <1>9, <2>1, <2>3 DEF UntrackGreenlet, Runs
  <2>4. ASSUME NEW i \in Ids, status'[i] = "running"
        PROVE  current'[home'[i]] = i
    BY <1>9, <2>1, <2>4 DEF UntrackGreenlet, Runs
  <2>5. ASSUME NEW i \in Hubs \cup Mains
        PROVE  status'[i] \in {"ready", "running", "suspended"}
    BY <1>9, <2>1, <2>5 DEF UntrackGreenlet, Runs, Ids
  <2> QED
    BY <2>2, <2>3, <2>4, <2>5 DEF HomeInv
<1>10. ASSUME NEW g \in Greenlets, Collect(g) PROVE HomeInv'
  BY <1>10, GreenletsAssumption DEF Collect, Ids
<1>11. ASSUME NEW t \in Threads, TraceTrack(t) PROVE HomeInv'
  BY <1>11 DEF TraceTrack, Goto
<1>12. ASSUME NEW t \in Threads, SetOrigin(t) PROVE HomeInv'
  BY <1>12 DEF SetOrigin, Goto
<1>13. ASSUME NEW t \in Threads, TellOrigin(t) PROVE HomeInv'
  BY <1>13 DEF TellOrigin, Goto
<1>14. ASSUME NEW t \in Threads, SetTarget(t) PROVE HomeInv'
  BY <1>14 DEF SetTarget, Goto
<1>15. ASSUME NEW t \in Threads, TellTarget(t) PROVE HomeInv'
  BY <1>15 DEF TellTarget, Goto
<1>16. ASSUME (\E t \in Threads : UnwindGreenlets(t)) \/ UnwindStep \/ UNCHANGED vars
      PROVE  HomeInv'
  BY <1>16 DEF UnwindGreenlets, UnwindStep, UnwindLeaf, UnwindParent,
     FinishStack, UnwindDone, vars
<1> QED
  BY <1>1, <1>2, <1>3, <1>4, <1>5, <1>6, <1>7, <1>8, <1>9, <1>10, <1>11, <1>12,
     <1>13, <1>14, <1>15, <1>16 DEF Next, ProgramStep, TracerStep

LEMMA KnownStep ==
  ASSUME GreenletInv, [Next]_vars
  PROVE  KnownInv'
<1> USE DEF With, Without, Restrict, GreenletInv, KnownInv, TypeOK, program,
   tracer, python, maps, walk
<1>1. ASSUME NEW t \in Threads, NEW g \in Greenlets, Spawn(t, g)
      PROVE  KnownInv'
  BY <1>1 DEF Spawn, Track
<1>2. ASSUME NEW t \in Threads, CallOrReturn(t) PROVE KnownInv'
  BY <1>2 DEF CallOrReturn
<1>3. ASSUME NEW t \in Threads, NEW g \in Greenlets, Join(t, g)
      PROVE  KnownInv'
  BY <1>3 DEF Join, Joins
<1>4. ASSUME NEW t \in Threads, NEW S \in SUBSET Greenlets, JoinAll(t, S)
      PROVE  KnownInv'
  BY <1>4 DEF JoinAll, Joins
<1>5. ASSUME NEW t \in Threads, JoinReturns(t) PROVE KnownInv'
  BY <1>5 DEF JoinReturns
<1>6. ASSUME NEW t \in Threads, Suspend(t) PROVE KnownInv'
  BY <1>6 DEF Suspend, Switch
<1>7. ASSUME NEW t \in Threads, Finish(t) PROVE KnownInv'
  BY <1>7 DEF Finish, Switch
<1>8. ASSUME NEW t \in Threads, NEW i \in Ids, Resume(t, i) PROVE KnownInv'
  BY <1>8 DEF Resume, Switch
<1>9. ASSUME NEW t \in Threads, NEW g \in Greenlets, UntrackGreenlet(t, g)
      PROVE  KnownInv'
  BY <1>9 DEF UntrackGreenlet
<1>10. ASSUME NEW g \in Greenlets, Collect(g) PROVE KnownInv'
  BY <1>10 DEF Collect
<1>11. ASSUME NEW t \in Threads, TraceTrack(t) PROVE KnownInv'
  BY <1>11 DEF TraceTrack, Track
<1>12. ASSUME NEW t \in Threads, SetOrigin(t) PROVE KnownInv'
  BY <1>12 DEF SetOrigin
<1>13. ASSUME NEW t \in Threads, TellOrigin(t) PROVE KnownInv'
  BY <1>13 DEF TellOrigin, Updated
<1>14. ASSUME NEW t \in Threads, SetTarget(t) PROVE KnownInv'
  BY <1>14 DEF SetTarget
<1>15. ASSUME NEW t \in Threads, TellTarget(t) PROVE KnownInv'
  BY <1>15 DEF TellTarget, Updated
<1>16. ASSUME (\E t \in Threads : UnwindGreenlets(t)) \/ UnwindStep \/ UNCHANGED vars
      PROVE  KnownInv'
  BY <1>16 DEF UnwindGreenlets, UnwindStep, UnwindLeaf, UnwindParent,
     FinishStack, UnwindDone, vars
<1> QED
  BY <1>1, <1>2, <1>3, <1>4, <1>5, <1>6, <1>7, <1>8, <1>9, <1>10, <1>11, <1>12,
     <1>13, <1>14, <1>15, <1>16 DEF Next, ProgramStep, TracerStep

LEMMA TellStep ==
  ASSUME GreenletInv, [Next]_vars
  PROVE  TellInv'
<1> USE HubNames DEF With, Without, Restrict, GreenletInv, HomeInv, TellInv,
   TypeOK, FrameOrSentinel, program, tracer, python, maps, walk
<1>1. ASSUME NEW t \in Threads, NEW g \in Greenlets, Spawn(t, g)
      PROVE  TellInv'
  BY <1>1 DEF Spawn, Track,Ids
<1>2. ASSUME NEW t \in Threads, CallOrReturn(t) PROVE TellInv'
  BY <1>2 DEF CallOrReturn, Runs
<1>3. ASSUME NEW t \in Threads, NEW g \in Greenlets, Join(t, g) PROVE TellInv'
  BY <1>3 DEF Join, Joins
<1>4. ASSUME NEW t \in Threads, NEW S \in SUBSET Greenlets, JoinAll(t, S)
      PROVE  TellInv'
  BY <1>4 DEF JoinAll, Joins
<1>5. ASSUME NEW t \in Threads, JoinReturns(t) PROVE TellInv'
  BY <1>5 DEF JoinReturns
<1>6. ASSUME NEW t \in Threads, Suspend(t) PROVE TellInv'
  BY <1>6 DEF Suspend, Switch
<1>7. ASSUME NEW t \in Threads, Finish(t) PROVE TellInv'
  BY <1>7 DEF Finish, Switch,Runs
<1>8. ASSUME NEW t \in Threads, NEW i \in Ids, Resume(t, i) PROVE TellInv'
  BY <1>8 DEF Resume, Switch,Runs
<1>9. ASSUME NEW t \in Threads, NEW g \in Greenlets, UntrackGreenlet(t, g)
      PROVE  TellInv'
  BY <1>9 DEF UntrackGreenlet, Runs
<1>10. ASSUME NEW g \in Greenlets, Collect(g) PROVE TellInv'
  BY <1>10 DEF Collect
<1>11. ASSUME NEW t \in Threads, TraceTrack(t) PROVE TellInv'
  BY <1>11 DEF TraceTrack, Track,Goto
<1>12. ASSUME NEW t \in Threads, SetOrigin(t) PROVE TellInv'
  <2>1. origin[t] \in Ids /\ home[origin[t]] = t
    BY <1>12 DEF SetOrigin, HomeInv, TypeOK
  <2>2. ASSUME NEW u \in Threads, pc'[u] = "tell_origin"
        PROVE  /\ origin'[u] \in DOMAIN _greenlet_frames'
               /\ _greenlet_frames'[origin'[u]] = FrameOrSentinel(origin[u])'
    <3>1. CASE u = t
      BY <1>12, <3>1 DEF SetOrigin, Goto, With
    <3>2. CASE u # t
      <4>1. pc[u] = "tell_origin" /\ home[origin[u]] = u
        BY <1>12, <2>2, <3>2 DEF SetOrigin, Goto, TypeOK, HomeInv
      <4> QED
        BY <1>12, <2>1, <3>2, <4>1 DEF SetOrigin, Goto, TellInv, With
    <3> QED
      BY <3>1, <3>2
  <2>3. ASSUME NEW u \in Threads, pc'[u] = "tell_target"
        PROVE  /\ current'[u] \in DOMAIN _greenlet_frames'
               /\ _greenlet_frames'[current'[u]] = Py_None
    <3>1. u # t /\ pc[u] = "tell_target" /\ home[current[u]] = u
      BY <1>12, <2>3 DEF SetOrigin, Goto, TypeOK, HomeInv
    <3> QED
      BY <1>12, <2>1, <3>1 DEF SetOrigin, TellInv, With
  <2>4. UNCHANGED current /\ UNCHANGED origin
    BY <1>12 DEF SetOrigin, Goto
  <2> QED
    BY <2>2, <2>3, <2>4 DEF TellInv
<1>13. ASSUME NEW t \in Threads, TellOrigin(t) PROVE TellInv'
  BY <1>13 DEF TellOrigin, Goto
<1>14. ASSUME NEW t \in Threads, SetTarget(t) PROVE TellInv'
  BY <1>14 DEF SetTarget, Goto
<1>15. ASSUME NEW t \in Threads, TellTarget(t) PROVE TellInv'
  BY <1>15 DEF TellTarget, Goto
<1>16. ASSUME (\E t \in Threads : UnwindGreenlets(t)) \/ UnwindStep \/ UNCHANGED vars
      PROVE  TellInv'
  BY <1>16 DEF UnwindGreenlets, UnwindStep, UnwindLeaf, UnwindParent,
     FinishStack, UnwindDone, vars
<1> QED
  BY <1>1, <1>2, <1>3, <1>4, <1>5, <1>6, <1>7, <1>8, <1>9, <1>10, <1>11, <1>12,
     <1>13, <1>14, <1>15, <1>16 DEF Next, ProgramStep, TracerStep

(* The leaves an unwind begins with stay true while it goes on.            *)
LEMMA UnwindLeaves ==
  ASSUME TypeOK, LeafInv, UnwindStep \/ \E t \in Threads : UnwindGreenlets(t)
  PROVE  LeafInv'
<1> USE GreenletsAssumption DEF LeafInv, TypeOK, program, tracer, python, maps,
   walk
<1>1. ASSUME NEW t \in Threads, UnwindGreenlets(t) PROVE LeafInv'
  BY <1>1 DEF UnwindGreenlets, IsLeaf, Unlocked
<1>2. ASSUME UnwindStep PROVE LeafInv'
  <2>1. ASSUME NEW g \in Ids, UnwindLeaf(g) PROVE LeafInv'
    BY <2>1 DEF UnwindLeaf
  <2>2. ASSUME UnwindParent PROVE LeafInv'
    BY <2>2 DEF UnwindParent
  <2>3. ASSUME FinishStack PROVE LeafInv'
    BY <2>3 DEF FinishStack
  <2>4. ASSUME UnwindDone PROVE LeafInv'
    BY <2>4 DEF UnwindDone
  <2> QED
    BY <1>2, <2>1, <2>2, <2>3, <2>4 DEF UnwindStep
<1> QED
  BY <1>1, <1>2

LEMMA LeafStep ==
  ASSUME GreenletInv, [Next]_vars
  PROVE  LeafInv'
<1> USE GreenletsAssumption DEF GreenletInv, LeafInv, TypeOK, program, tracer,
   python, maps, walk
<1>1. ASSUME NEW t \in Threads, NEW g \in Greenlets, Spawn(t, g)
      PROVE  LeafInv'
  BY <1>1 DEF Spawn, Unlocked
<1>2. ASSUME NEW t \in Threads, CallOrReturn(t) PROVE LeafInv'
  BY <1>2 DEF CallOrReturn
<1>3. ASSUME NEW t \in Threads, NEW g \in Greenlets, Join(t, g) PROVE LeafInv'
  BY <1>3 DEF Join, MayJoin, Unlocked, Joins
<1>4. ASSUME NEW t \in Threads, NEW S \in SUBSET Greenlets, JoinAll(t, S)
      PROVE  LeafInv'
  BY <1>4 DEF JoinAll, MayJoin, Unlocked, Joins
<1>5. ASSUME NEW t \in Threads, JoinReturns(t) PROVE LeafInv'
  BY <1>5 DEF JoinReturns
<1>6. ASSUME NEW t \in Threads, Suspend(t) PROVE LeafInv'
  BY <1>6 DEF Suspend, Switch
<1>7. ASSUME NEW t \in Threads, Finish(t) PROVE LeafInv'
  BY <1>7 DEF Finish, Switch
<1>8. ASSUME NEW t \in Threads, NEW i \in Ids, Resume(t, i) PROVE LeafInv'
  BY <1>8 DEF Resume, Switch
<1>9. ASSUME NEW t \in Threads, NEW g \in Greenlets, UntrackGreenlet(t, g)
      PROVE  LeafInv'
  BY <1>9 DEF UntrackGreenlet, Unlocked
<1>10. ASSUME NEW g \in Greenlets, Collect(g) PROVE LeafInv'
  BY <1>10 DEF Collect
<1>11. ASSUME NEW t \in Threads, TraceTrack(t) PROVE LeafInv'
  BY <1>11 DEF TraceTrack, Unlocked
<1>12. ASSUME NEW t \in Threads, SetOrigin(t) PROVE LeafInv'
  BY <1>12 DEF SetOrigin
<1>13. ASSUME NEW t \in Threads, TellOrigin(t) PROVE LeafInv'
  BY <1>13 DEF TellOrigin, Unlocked
<1>14. ASSUME NEW t \in Threads, SetTarget(t) PROVE LeafInv'
  BY <1>14 DEF SetTarget
<1>15. ASSUME NEW t \in Threads, TellTarget(t) PROVE LeafInv'
  BY <1>15 DEF TellTarget, Unlocked
<1>16. ASSUME UnwindStep \/ \E t \in Threads : UnwindGreenlets(t)
       PROVE  LeafInv'
  BY <1>16, UnwindLeaves
<1>17. ASSUME UNCHANGED vars PROVE LeafInv'
  BY <1>17 DEF vars
<1> QED
  BY <1>1, <1>2, <1>3, <1>4, <1>5, <1>6, <1>7, <1>8, <1>9, <1>10, <1>11, <1>12,
     <1>13, <1>14, <1>15, <1>16, <1>17 DEF Next, ProgramStep, TracerStep

LEMMA GoneStep ==
  ASSUME GreenletInv, [Next]_vars
  PROVE  GoneInv'
<1> USE GreenletsAssumption, HubNames DEF GreenletInv, GoneInv, HomeInv,
   TypeOK, program, tracer, python, maps, walk, Ids, With, Without, Restrict
<1>1. ASSUME NEW t \in Threads, NEW g \in Greenlets, Spawn(t, g)
      PROVE  GoneInv'
  BY <1>1 DEF Spawn, Track
<1>2. ASSUME NEW t \in Threads, CallOrReturn(t) PROVE GoneInv'
  BY <1>2 DEF CallOrReturn
<1>3. ASSUME NEW t \in Threads, NEW g \in Greenlets, Join(t, g) PROVE GoneInv'
  BY <1>3 DEF Join, Joins
<1>4. ASSUME NEW t \in Threads, NEW S \in SUBSET Greenlets, JoinAll(t, S)
      PROVE  GoneInv'
  BY <1>4 DEF JoinAll, Joins
<1>5. ASSUME NEW t \in Threads, JoinReturns(t) PROVE GoneInv'
  BY <1>5 DEF JoinReturns
<1>6. ASSUME NEW t \in Threads, Suspend(t) PROVE GoneInv'
  BY <1>6 DEF Suspend, Switch
<1>7. ASSUME NEW t \in Threads, Finish(t) PROVE GoneInv'
  BY <1>7 DEF Finish, Switch
<1>8. ASSUME NEW t \in Threads, NEW i \in Ids, Resume(t, i) PROVE GoneInv'
  BY <1>8 DEF Resume, Switch
<1>9. ASSUME NEW t \in Threads, NEW g \in Greenlets, UntrackGreenlet(t, g)
      PROVE  GoneInv'
  BY <1>9 DEF UntrackGreenlet
<1>10. ASSUME NEW g \in Greenlets, Collect(g) PROVE GoneInv'
  BY <1>10 DEF Collect
<1>11. ASSUME NEW t \in Threads, TraceTrack(t) PROVE GoneInv'
  BY <1>11 DEF TraceTrack, Track
<1>12. ASSUME NEW t \in Threads, SetOrigin(t) PROVE GoneInv'
  BY <1>12 DEF SetOrigin
<1>13. ASSUME NEW t \in Threads, TellOrigin(t) PROVE GoneInv'
  BY <1>13 DEF TellOrigin, Updated
<1>14. ASSUME NEW t \in Threads, SetTarget(t) PROVE GoneInv'
  BY <1>14 DEF SetTarget
<1>15. ASSUME NEW t \in Threads, TellTarget(t) PROVE GoneInv'
  BY <1>15 DEF TellTarget, Updated
<1>16. ASSUME (\E t \in Threads : UnwindGreenlets(t)) \/ UnwindStep \/ UNCHANGED vars
      PROVE  GoneInv'
  BY <1>16 DEF UnwindGreenlets, UnwindStep, UnwindLeaf, UnwindParent,
     FinishStack, UnwindDone, vars, IsLeaf, Unlocked
<1> QED
  BY <1>1, <1>2, <1>3, <1>4, <1>5, <1>6, <1>7, <1>8, <1>9, <1>10, <1>11, <1>12,
     <1>13, <1>14, <1>15, <1>16 DEF Next, ProgramStep, TracerStep

LEMMA NoneStep ==
  ASSUME GreenletInv, [Next]_vars
  PROVE  NoneInv'
<1> USE GreenletsAssumption, HubNames DEF GreenletInv, NoneInv, HomeInv,
   TypeOK, program, tracer, python, maps, walk, Ids, With, Without, Restrict
<1>1. ASSUME NEW t \in Threads, NEW g \in Greenlets, Spawn(t, g)
      PROVE  NoneInv'
  BY <1>1 DEF Spawn, Track
<1>2. ASSUME NEW t \in Threads, CallOrReturn(t) PROVE NoneInv'
  BY <1>2 DEF CallOrReturn, Goto
<1>3. ASSUME NEW t \in Threads, NEW g \in Greenlets, Join(t, g) PROVE NoneInv'
  BY <1>3 DEF Join, Joins
<1>4. ASSUME NEW t \in Threads, NEW S \in SUBSET Greenlets, JoinAll(t, S)
      PROVE  NoneInv'
  BY <1>4 DEF JoinAll, Joins
<1>5. ASSUME NEW t \in Threads, JoinReturns(t) PROVE NoneInv'
  BY <1>5 DEF JoinReturns, Goto
<1>6. ASSUME NEW t \in Threads, Suspend(t) PROVE NoneInv'
  BY <1>6 DEF Suspend, Switch
<1>7. ASSUME NEW t \in Threads, Finish(t) PROVE NoneInv'
  BY <1>7 DEF Finish, Switch, Runs
<1>8. ASSUME NEW t \in Threads, NEW i \in Ids, Resume(t, i) PROVE NoneInv'
  BY <1>8 DEF Resume, Switch, Runs
<1>9. ASSUME NEW t \in Threads, NEW g \in Greenlets, UntrackGreenlet(t, g)
      PROVE  NoneInv'
  BY <1>9 DEF UntrackGreenlet, Goto
<1>10. ASSUME NEW g \in Greenlets, Collect(g) PROVE NoneInv'
  BY <1>10 DEF Collect, Goto
<1>11. ASSUME NEW t \in Threads, TraceTrack(t) PROVE NoneInv'
  BY <1>11 DEF TraceTrack, Track, Goto
<1>12. ASSUME NEW t \in Threads, SetOrigin(t) PROVE NoneInv'
  BY <1>12 DEF SetOrigin, Goto
<1>13. ASSUME NEW t \in Threads, TellOrigin(t) PROVE NoneInv'
  <2> SUFFICES ASSUME NEW i \in DOMAIN greenlet_info_map', greenlet_info_map'[i] = Py_None
               PROVE  \/ pc'[home'[i]] = "run" /\ current'[home'[i]] = i
                      \/ /\ pc'[home'[i]] \in {"track", "set_origin", "tell_origin"}
                         /\ origin'[home'[i]] = i
    BY DEF NoneInv
  <2>1. origin[t] \in Ids /\ home[origin[t]] = t
    BY <1>13 DEF TellOrigin
  <2>2. FrameOrSentinel(origin[t]) # Py_None
    BY <2>1 DEF FrameOrSentinel
  <2>3. i # origin[t]
    BY <1>13, <2>1, <2>2 DEF TellOrigin, Updated, TellInv
  <2>4. /\ i \in DOMAIN greenlet_info_map
        /\ greenlet_info_map[i] = Py_None
        /\ i \in Ids
    BY <1>13, <2>3 DEF TellOrigin, Updated, IsMap
  <2>5. home[i] # t
    BY <1>13, <2>3, <2>4 DEF TellOrigin
  <2> QED
    BY <1>13, <2>4, <2>5 DEF TellOrigin, Goto
<1>14. ASSUME NEW t \in Threads, SetTarget(t) PROVE NoneInv'
  <2>1. ASSUME NEW i \in DOMAIN greenlet_info_map, greenlet_info_map[i] = Py_None
        PROVE  home[i] # t /\ home[i] \in Threads
    BY <1>14, <2>1 DEF SetTarget, IsMap
  <2>2. pc' = [pc EXCEPT ![t] = "run"] \/ pc' = [pc EXCEPT ![t] = "tell_target"]
    BY <1>14 DEF SetTarget, Goto
  <2> QED
    BY <1>14, <2>1, <2>2 DEF SetTarget, Goto
<1>15. ASSUME NEW t \in Threads, TellTarget(t) PROVE NoneInv'
  BY <1>15 DEF TellTarget, Updated, Goto
<1>16. ASSUME (\E t \in Threads : UnwindGreenlets(t)) \/ UnwindStep \/ UNCHANGED vars
      PROVE  NoneInv'
  BY <1>16 DEF UnwindGreenlets, UnwindStep, UnwindLeaf, UnwindParent,
     FinishStack, UnwindDone, vars
<1> QED
  BY <1>1, <1>2, <1>3, <1>4, <1>5, <1>6, <1>7, <1>8, <1>9, <1>10, <1>11, <1>12,
     <1>13, <1>14, <1>15, <1>16 DEF Next, ProgramStep, TracerStep

LEMMA LinkStep ==
  ASSUME GreenletInv, [Next]_vars
  PROVE  LinkInv'
<1> USE GreenletsAssumption, HubNames DEF GreenletInv, LinkInv, HomeInv,
   TypeOK, IsMap, program, tracer, python, maps, walk, Ids, Alive
<1>1. ASSUME NEW t \in Threads, NEW g \in Greenlets, Spawn(t, g)
      PROVE  LinkInv'
  BY <1>1 DEF Spawn
<1>2. ASSUME NEW t \in Threads, CallOrReturn(t) PROVE LinkInv'
  BY <1>2 DEF CallOrReturn, Goto
<1>3. ASSUME NEW t \in Threads, NEW g \in Greenlets, Join(t, g) PROVE LinkInv'
  BY <1>3 DEF Join, Joins, MayJoin, Runs, Link, With
<1>4. ASSUME NEW t \in Threads, NEW S \in SUBSET Greenlets, JoinAll(t, S)
      PROVE  LinkInv'
  <2> SUFFICES ASSUME disciplined' PROVE LinkInv'
    BY DEF LinkInv
  <2>0. disciplined
    BY <1>4 DEF JoinAll, Joins, MayJoin, Runs, Link, With, Hubs
  <2>1. /\ current[t] \in Ids /\ current[t] \notin Hubs
        /\ \A u \in Threads : u # t => current[u] # current[t]
    BY <1>4 DEF JoinAll, MayJoin
  <2>2. _greenlet_parent_map' = greenlet_parent_map'
    BY <1>4, <2>0 DEF JoinAll, Joins, MayJoin, Runs, Link, With, Hubs
  <2>3. ASSUME NEW h \in DOMAIN greenlet_parent_map'
        PROVE  /\ status'[h] \notin {"none", "done"}
               /\ \/ greenlet_parent_map'[h] \in Hubs
                  \/ h \in joining'[greenlet_parent_map'[h]]
    BY <1>4, <2>0, <2>1 DEF JoinAll, Joins, MayJoin, Runs, Link, With, Hubs
  <2>4. ASSUME NEW j \in Ids, joining'[j] # {}
        PROVE  status'[j] \in {"running", "suspended"} /\ j \notin Hubs
    BY <1>4, <2>0, <2>1, <2>4 DEF JoinAll, Joins, MayJoin, Runs, Link, With,
       Hubs
  <2>5. ASSUME NEW u \in Threads, NEW h \in joining'[current'[u]]
        PROVE  Alive(h)' /\ home'[h] = u /\ h # current'[u]
    BY <1>4, <2>0, <2>1 DEF JoinAll, Joins, MayJoin, Runs, Link, With, Hubs
  <2> QED
    BY <2>2, <2>3, <2>4, <2>5 DEF LinkInv
<1>5. ASSUME NEW t \in Threads, JoinReturns(t) PROVE LinkInv'
  BY <1>5 DEF JoinReturns, Finished
<1>6. ASSUME NEW t \in Threads, Suspend(t) PROVE LinkInv'
  <2> SUFFICES ASSUME disciplined' PROVE LinkInv'
    BY DEF LinkInv
  <2>0. disciplined
    BY <1>6 DEF Suspend, Switch
  <2>1. /\ Hub(t) \in Ids /\ Hub(t) \in Hubs /\ Hub(t) \notin Greenlets
        /\ current[t] \in Ids /\ current[t] \notin Hubs
    BY <1>6 DEF Suspend, Hubs
  <2>2. _greenlet_parent_map' = greenlet_parent_map'
    BY <1>6, <2>0 DEF Suspend, Switch
  <2>3. ASSUME NEW h \in DOMAIN greenlet_parent_map'
        PROVE  /\ status'[h] \notin {"none", "done"}
               /\ \/ greenlet_parent_map'[h] \in Hubs
                  \/ h \in joining'[greenlet_parent_map'[h]]
    BY <1>6, <2>0, <2>1 DEF Suspend, Switch
  <2>4. ASSUME NEW j \in Ids, joining'[j] # {}
        PROVE  status'[j] \in {"running", "suspended"} /\ j \notin Hubs
    BY <1>6, <2>0, <2>1, <2>4 DEF Suspend, Switch
  <2>5. ASSUME NEW u \in Threads, NEW h \in joining'[current'[u]]
        PROVE  Alive(h)' /\ home'[h] = u /\ h # current'[u]
    BY <1>6, <2>0, <2>1 DEF Suspend, Switch
  <2> QED
    BY <2>2, <2>3, <2>4, <2>5 DEF LinkInv
<1>7. ASSUME NEW t \in Threads, Finish(t) PROVE LinkInv'
  <2> SUFFICES ASSUME disciplined' PROVE LinkInv'
    BY DEF LinkInv
  <2>0. disciplined
    BY <1>7 DEF Finish, Switch
  <2>1. /\ Hub(t) \in Ids /\ Hub(t) \in Hubs /\ Hub(t) \notin Greenlets
        /\ current[t] \in Ids /\ current[t] \notin Hubs
        /\ joining[current[t]] = {}
        /\ \A u \in Threads : u # t => current[t] \notin joining[current[u]]
    BY <1>7, <2>0 DEF Finish, Runs, Hubs
  <2>2. _greenlet_parent_map' = greenlet_parent_map'
    BY <1>7, <2>0 DEF Finish, Switch
  <2>3. ASSUME NEW h \in DOMAIN greenlet_parent_map'
        PROVE  /\ status'[h] \notin {"none", "done"}
               /\ \/ greenlet_parent_map'[h] \in Hubs
                  \/ h \in joining'[greenlet_parent_map'[h]]
    BY <1>7, <2>0, <2>1 DEF Finish, Switch
  <2>4. ASSUME NEW j \in Ids, joining'[j] # {}
        PROVE  status'[j] \in {"running", "suspended"} /\ j \notin Hubs
    BY <1>7, <2>0, <2>1, <2>4 DEF Finish, Switch
  <2>5. ASSUME NEW u \in Threads, NEW h \in joining'[current'[u]]
        PROVE  Alive(h)' /\ home'[h] = u /\ h # current'[u]
    BY <1>7, <2>0, <2>1 DEF Finish, Switch
  <2> QED
    BY <2>2, <2>3, <2>4, <2>5 DEF LinkInv
<1>8. ASSUME NEW t \in Threads, NEW i \in Ids, Resume(t, i) PROVE LinkInv'
  <2> SUFFICES ASSUME disciplined' PROVE LinkInv'
    BY DEF LinkInv
  <2>0. disciplined
    BY <1>8 DEF Resume, Switch
  <2>1. /\ current[t] = Hub(t) /\ joining[Hub(t)] = {} /\ i # Hub(t)
        /\ Hub(t) \in Ids /\ Hub(t) \in Hubs /\ Hub(t) \notin Greenlets
        /\ \A g \in joining[i] : g \notin DOMAIN greenlet_parent_map
    BY <1>8, <2>0 DEF Resume, Hubs
  <2>2. _greenlet_parent_map' = greenlet_parent_map'
    BY <1>8, <2>0 DEF Resume, Switch
  <2>3. ASSUME NEW h \in DOMAIN greenlet_parent_map'
        PROVE  /\ status'[h] \notin {"none", "done"}
               /\ \/ greenlet_parent_map'[h] \in Hubs
                  \/ h \in joining'[greenlet_parent_map'[h]]
    BY <1>8, <2>0, <2>1 DEF Resume, Switch
  <2>4. ASSUME NEW j \in Ids, joining'[j] # {}
        PROVE  status'[j] \in {"running", "suspended"} /\ j \notin Hubs
    BY <1>8, <2>0, <2>1, <2>4 DEF Resume, Switch
  <2>5. ASSUME NEW u \in Threads, NEW h \in joining'[current'[u]]
        PROVE  Alive(h)' /\ home'[h] = u /\ h # current'[u]
    BY <1>8, <2>0, <2>1 DEF Resume, Switch
  <2> QED
    BY <2>2, <2>3, <2>4, <2>5 DEF LinkInv
<1>9. ASSUME NEW t \in Threads, NEW g \in Greenlets, UntrackGreenlet(t, g)
      PROVE  LinkInv'
  BY <1>9 DEF UntrackGreenlet, Without, Restrict, ParentsWithout
<1>10. ASSUME NEW g \in Greenlets, Collect(g) PROVE LinkInv'
  BY <1>10 DEF Collect, Goto
<1>11. ASSUME NEW t \in Threads, TraceTrack(t) PROVE LinkInv'
  BY <1>11 DEF TraceTrack, Goto
<1>12. ASSUME NEW t \in Threads, SetOrigin(t) PROVE LinkInv'
  BY <1>12 DEF SetOrigin, Goto
<1>13. ASSUME NEW t \in Threads, TellOrigin(t) PROVE LinkInv'
  BY <1>13 DEF TellOrigin, Goto
<1>14. ASSUME NEW t \in Threads, SetTarget(t) PROVE LinkInv'
  BY <1>14 DEF SetTarget, Goto
<1>15. ASSUME NEW t \in Threads, TellTarget(t) PROVE LinkInv'
  BY <1>15 DEF TellTarget, Goto
<1>16. ASSUME NEW t \in Threads, UnwindGreenlets(t) PROVE LinkInv'
  BY <1>16 DEF UnwindGreenlets, IsLeaf, Unlocked
<1>17. ASSUME UnwindStep PROVE LinkInv'
  <2>1. ASSUME NEW g \in Ids, UnwindLeaf(g) PROVE LinkInv'
    BY <2>1 DEF UnwindLeaf
  <2>2. ASSUME UnwindParent PROVE LinkInv'
    BY <2>2 DEF UnwindParent
  <2>3. ASSUME FinishStack PROVE LinkInv'
    BY <2>3 DEF FinishStack
  <2>4. ASSUME UnwindDone PROVE LinkInv'
    BY <2>4 DEF UnwindDone
  <2> QED
    BY <1>17, <2>1, <2>2, <2>3, <2>4 DEF UnwindStep
<1>18. ASSUME UNCHANGED vars PROVE LinkInv'
  BY <1>18 DEF vars
<1> QED
  BY <1>1, <1>2, <1>3, <1>4, <1>5, <1>6, <1>7, <1>8, <1>9, <1>10, <1>11, <1>12,
     <1>13, <1>14, <1>15, <1>16, <1>17, <1>18 DEF Next, ProgramStep, TracerStep

(* The greenlets linked to one, as both maps have them.                    *)
LinkedTo(i) == {g \in DOMAIN greenlet_parent_map : greenlet_parent_map[g] = i}

(* The counts are those of the greenlets linked. *)
Counted(i) ==
  IF LinkedTo(i) = {} THEN i \notin DOMAIN _parent_greenlet_count
  ELSE /\ i \in DOMAIN _parent_greenlet_count
       /\ _parent_greenlet_count[i] = Cardinality(LinkedTo(i))

LEMMA Counting ==
  CountsAgree <=> (disciplined => /\ _greenlet_parent_map = greenlet_parent_map
                                  /\ \A i \in Ids : Counted(i))
BY DEF CountsAgree, Counted, LinkedTo

LEMMA LinkCounts ==
  ASSUME TypeOK, disciplined, CountsAgree, UNCHANGED disciplined,
         NEW S \in SUBSET Greenlets, S # {}, NEW p \in Ids, Link(S, p),
         S \cap DOMAIN greenlet_parent_map = {}
  PROVE  CountsAgree'
<1>1. ASSUME NEW i \in Ids, i # p PROVE Counted(i)'
  <2>1. LinkedTo(i)' = LinkedTo(i)
    BY <1>1 DEF LinkedTo, Link, With
  <2>2. /\ i \in DOMAIN _parent_greenlet_count' <=> i \in DOMAIN _parent_greenlet_count
        /\ i \in DOMAIN _parent_greenlet_count =>
             _parent_greenlet_count'[i] = _parent_greenlet_count[i]
    BY <1>1 DEF Link, With
  <2>3. Counted(i)
    BY Counting
  <2> QED
    BY <2>1, <2>2, <2>3 DEF Counted
<1>2. Counted(p)'
  <2>1. LinkedTo(p)' = LinkedTo(p) \cup S
    BY DEF LinkedTo, Link, With
  <2>2. LinkedTo(p) \cap S = {} /\ LinkedTo(p) \subseteq Greenlets
    BY DEF LinkedTo, TypeOK, IsMap
  <2>3. /\ IsFiniteSet(S) /\ IsFiniteSet(LinkedTo(p))
        /\ IsFiniteSet(LinkedTo(p) \cap S)
    BY <2>2, GreenletsAssumption, FS_Subset, FS_EmptySet
  <2>4. Cardinality(LinkedTo(p) \cup S) = Cardinality(LinkedTo(p)) + Cardinality(S)
    <3>1. Cardinality(LinkedTo(p) \cap S) = 0
      BY <2>2, FS_EmptySet
    <3>2. Cardinality(S) \in Nat /\ Cardinality(LinkedTo(p)) \in Nat
      BY <2>3, FS_CardinalityType
    <3>3. Cardinality(LinkedTo(p) \cup S) =
            Cardinality(LinkedTo(p)) + Cardinality(S) - Cardinality(LinkedTo(p) \cap S)
      BY <2>3, FS_Union
    <3> QED
      BY <3>1, <3>2, <3>3
  <2>5. p \in DOMAIN _parent_greenlet_count'
        /\ _parent_greenlet_count'[p] =
             Cardinality(S) + IF p \in DOMAIN _parent_greenlet_count
                              THEN _parent_greenlet_count[p] ELSE 0
    BY DEF Link, With
  <2>6. _parent_greenlet_count'[p] = Cardinality(LinkedTo(p) \cup S)
    <3>1. Counted(p)
      BY Counting
    <3>2. Cardinality(S) \in Nat /\ Cardinality(LinkedTo(p)) \in Nat
      BY <2>3, FS_CardinalityType
    <3>3. CASE LinkedTo(p) = {}
      <4>1. Cardinality(LinkedTo(p)) = 0
        BY <3>3, FS_EmptySet
      <4> QED
        BY <2>4, <2>5, <3>1, <3>2, <3>3, <4>1 DEF Counted
    <3>4. CASE LinkedTo(p) # {}
      BY <2>4, <2>5, <3>1, <3>2, <3>4 DEF Counted
    <3> QED
      BY <3>3, <3>4
  <2>7. LinkedTo(p) \cup S # {}
    OBVIOUS
  <2>8. Cardinality(LinkedTo(p))' = Cardinality(LinkedTo(p) \cup S)
    BY <2>1
  <2> QED
    BY <2>1, <2>5, <2>6, <2>7, <2>8 DEF Counted
<1>3. _greenlet_parent_map' = greenlet_parent_map'
  BY Counting DEF Link
<1> QED
  BY <1>1, <1>2, <1>3 DEF CountsAgree, Counted, LinkedTo

(* The greenlet that is untracked has no greenlet linked to it any more.   *)
LEMMA NoneLinked ==
  ASSUME TypeOK, LinkInv, disciplined, NEW g \in Greenlets,
         status[g] \in {"none", "dead", "done"}
  PROVE  LinkedTo(g) = {}
<1>1. g \in Ids /\ g \notin Hubs
  BY GreenletsAssumption DEF Ids
<1> QED
  BY <1>1 DEF LinkedTo, LinkInv

LEMMA UntrackCounts ==
  ASSUME TypeOK, LinkInv, disciplined, CountsAgree,
         NEW t \in Threads, NEW g \in Greenlets, UntrackGreenlet(t, g)
  PROVE  CountsAgree'
<1> DEFINE counts == Without(_parent_greenlet_count, g)
<1>1. LinkedTo(g) = {}
  BY NoneLinked DEF UntrackGreenlet
<1>2. /\ disciplined' = disciplined
      /\ _greenlet_parent_map' = greenlet_parent_map'
  BY Counting DEF UntrackGreenlet, ParentsWithout
<1>3. \A i \in Ids : Counted(i)
  BY Counting
<1>4. g \in Ids /\ g \notin DOMAIN _parent_greenlet_count
  BY <1>1, <1>3 DEF Counted, Ids
<1>5. counts = _parent_greenlet_count
  BY <1>4 DEF Without, Restrict, TypeOK, IsMap
<1>6. ASSUME NEW i \in Ids PROVE LinkedTo(i)' = LinkedTo(i) \ {g}
  BY DEF LinkedTo, UntrackGreenlet, ParentsWithout, Without, Restrict
<1>7. CASE g \notin DOMAIN greenlet_parent_map
  <2>1. _parent_greenlet_count' = _parent_greenlet_count
    BY <1>5, <1>7, Counting DEF UntrackGreenlet, CountsWithout
  <2>2. ASSUME NEW i \in Ids PROVE LinkedTo(i)' = LinkedTo(i)
    BY <1>6, <1>7 DEF LinkedTo
  <2>3. ASSUME NEW i \in Ids PROVE Counted(i)'
    BY <2>1, <2>2, <1>3 DEF Counted
  <2> QED
    BY <1>2, <2>3 DEF CountsAgree, Counted, LinkedTo
<1>8. CASE g \in DOMAIN greenlet_parent_map
  <2>0. PICK p \in Ids : p = greenlet_parent_map[g]
    BY <1>8 DEF TypeOK, IsMap
  <2>1. p = _greenlet_parent_map[g] /\ g \in LinkedTo(p)
    BY <1>8, <2>0, Counting DEF LinkedTo
  <2>2. IsFiniteSet(LinkedTo(p))
    <3>1. LinkedTo(p) \subseteq Greenlets
      BY DEF LinkedTo, TypeOK, IsMap
    <3> QED
      BY <3>1, GreenletsAssumption, FS_Subset
  <2>3. Cardinality(LinkedTo(p) \ {g}) = Cardinality(LinkedTo(p)) - 1
        /\ Cardinality(LinkedTo(p)) \in Nat
        /\ Cardinality(LinkedTo(p) \ {g}) \in Nat
    BY <2>1, <2>2, FS_RemoveElement, FS_CardinalityType
  <2>4. /\ p \in DOMAIN _parent_greenlet_count
        /\ _parent_greenlet_count[p] = Cardinality(LinkedTo(p))
    BY <2>1, <1>3 DEF Counted
  <2>5. _parent_greenlet_count' =
          IF _parent_greenlet_count[p] <= 1 THEN Without(_parent_greenlet_count, p)
          ELSE [_parent_greenlet_count EXCEPT ![p] = @ - 1]
    <3>1. g \in DOMAIN _greenlet_parent_map
      BY <1>8, Counting
    <3> QED
      BY <1>5, <2>1, <2>4, <3>1 DEF UntrackGreenlet, CountsWithout
  <2>6. ASSUME NEW i \in Ids, i # p PROVE Counted(i)'
    <3>1. LinkedTo(i)' = LinkedTo(i)
      BY <1>6, <2>1, <2>6 DEF LinkedTo
    <3>2. /\ i \in DOMAIN _parent_greenlet_count' <=> i \in DOMAIN _parent_greenlet_count
          /\ i \in DOMAIN _parent_greenlet_count =>
               _parent_greenlet_count'[i] = _parent_greenlet_count[i]
      BY <2>5, <2>6 DEF Without, Restrict, TypeOK, IsMap
    <3> QED
      BY <3>1, <3>2, <1>3 DEF Counted
  <2>7. Counted(p)'
    <3>0. LinkedTo(p)' = LinkedTo(p) \ {g}
      BY <1>6, <2>1
    <3>1. Cardinality(LinkedTo(p))' = Cardinality(LinkedTo(p)) - 1
      BY <2>3, <3>0
    <3>2. IsFiniteSet(LinkedTo(p) \ {g})
      BY <2>2, FS_Subset
    <3>3. CASE Cardinality(LinkedTo(p)) <= 1
      <4>1. Cardinality(LinkedTo(p) \ {g}) = 0
        BY <3>3, <2>3
      <4>2. LinkedTo(p) \ {g} = {}
        BY <4>1, <3>2, FS_EmptySet
      <4>3. p \notin DOMAIN _parent_greenlet_count'
        BY <2>4, <2>5, <3>3 DEF Without, Restrict
      <4> QED
        BY <4>2, <4>3, <3>0 DEF Counted
    <3>4. CASE ~(Cardinality(LinkedTo(p)) <= 1)
      <4>1. Cardinality(LinkedTo(p) \ {g}) # 0
        BY <3>4, <2>3
      <4>2. LinkedTo(p) \ {g} # {}
        BY <4>1, FS_EmptySet
      <4>3. /\ p \in DOMAIN _parent_greenlet_count'
            /\ _parent_greenlet_count'[p] = _parent_greenlet_count[p] - 1
        BY <2>4, <2>5, <3>4 DEF TypeOK, IsMap
      <4> QED
        BY <4>2, <4>3, <2>4, <3>0, <3>1 DEF Counted
    <3> QED
      BY <3>3, <3>4
  <2> QED
    BY <1>2, <2>6, <2>7 DEF CountsAgree, Counted, LinkedTo
<1> QED
  BY <1>7, <1>8

LEMMA CountsStep ==
  ASSUME GreenletInv, [Next]_vars
  PROVE  CountsAgree'
<1> USE DEF GreenletInv, CountsAgree, program, tracer, python, maps, walk
<1>1. ASSUME NEW t \in Threads, NEW g \in Greenlets, Spawn(t, g)
      PROVE  CountsAgree'
  BY <1>1 DEF Spawn, CountsAgree
<1>2. ASSUME NEW t \in Threads, CallOrReturn(t) PROVE CountsAgree'
  BY <1>2 DEF CallOrReturn, CountsAgree
<1>3. ASSUME NEW t \in Threads, NEW g \in Greenlets, Join(t, g)
      PROVE  CountsAgree'
  <2>1. CASE disciplined
    <3>1. /\ {g} # {} /\ {g} \in SUBSET Greenlets /\ current[t] \in Ids
          /\ {g} \cap DOMAIN greenlet_parent_map = {}
          /\ Link({g}, current[t]) /\ UNCHANGED disciplined
      BY <1>3, <2>1 DEF Join, MayJoin, Joins, LinkInv, TypeOK
    <3> QED
      BY <2>1, <3>1, LinkCounts
  <2>2. CASE ~disciplined
    BY <1>3, <2>2 DEF Join, Joins, CountsAgree
  <2> QED
    BY <2>1, <2>2
<1>4. ASSUME NEW t \in Threads, NEW S \in SUBSET Greenlets, JoinAll(t, S)
      PROVE  CountsAgree'
  <2>1. CASE disciplined
    <3>1. /\ S # {} /\ Hub(t) \in Ids /\ S \cap DOMAIN greenlet_parent_map = {}
          /\ Link(S, Hub(t)) /\ UNCHANGED disciplined
      BY <1>4, <2>1, HubNames DEF JoinAll, MayJoin, Joins, LinkInv
    <3> QED
      BY <2>1, <3>1, LinkCounts
  <2>2. CASE ~disciplined
    BY <1>4, <2>2 DEF JoinAll, Joins, CountsAgree
  <2> QED
    BY <2>1, <2>2
<1>5. ASSUME NEW t \in Threads, JoinReturns(t) PROVE CountsAgree'
  BY <1>5 DEF JoinReturns, CountsAgree
<1>6. ASSUME NEW t \in Threads, Suspend(t) PROVE CountsAgree'
  BY <1>6 DEF Suspend, Switch, CountsAgree
<1>7. ASSUME NEW t \in Threads, Finish(t) PROVE CountsAgree'
  BY <1>7 DEF Finish, Switch, CountsAgree
<1>8. ASSUME NEW t \in Threads, NEW i \in Ids, Resume(t, i) PROVE CountsAgree'
  BY <1>8 DEF Resume, Switch, CountsAgree
<1>9. ASSUME NEW t \in Threads, NEW g \in Greenlets, UntrackGreenlet(t, g)
      PROVE  CountsAgree'
  <2>1. CASE disciplined
    BY <1>9, <2>1, UntrackCounts
  <2>2. CASE ~disciplined
    BY <1>9, <2>2 DEF UntrackGreenlet, CountsAgree
  <2> QED
    BY <2>1, <2>2
<1>10. ASSUME NEW g \in Greenlets, Collect(g) PROVE CountsAgree'
  BY <1>10 DEF Collect, CountsAgree
<1>11. ASSUME NEW t \in Threads, TraceTrack(t) PROVE CountsAgree'
  BY <1>11 DEF TraceTrack, CountsAgree
<1>12. ASSUME NEW t \in Threads, SetOrigin(t) PROVE CountsAgree'
  BY <1>12 DEF SetOrigin, CountsAgree
<1>13. ASSUME NEW t \in Threads, TellOrigin(t) PROVE CountsAgree'
  BY <1>13 DEF TellOrigin, CountsAgree
<1>14. ASSUME NEW t \in Threads, SetTarget(t) PROVE CountsAgree'
  BY <1>14 DEF SetTarget, CountsAgree
<1>15. ASSUME NEW t \in Threads, TellTarget(t) PROVE CountsAgree'
  BY <1>15 DEF TellTarget, CountsAgree
<1>16. ASSUME NEW t \in Threads, UnwindGreenlets(t) PROVE CountsAgree'
  BY <1>16 DEF UnwindGreenlets, IsLeaf, Unlocked
<1>17. ASSUME UnwindStep PROVE CountsAgree'
  <2>1. ASSUME NEW g \in Ids, UnwindLeaf(g) PROVE CountsAgree'
    BY <2>1 DEF UnwindLeaf
  <2>2. ASSUME UnwindParent PROVE CountsAgree'
    BY <2>2 DEF UnwindParent
  <2>3. ASSUME FinishStack PROVE CountsAgree'
    BY <2>3 DEF FinishStack
  <2>4. ASSUME UnwindDone PROVE CountsAgree'
    BY <2>4 DEF UnwindDone
  <2> QED
    BY <1>17, <2>1, <2>2, <2>3, <2>4 DEF UnwindStep
<1>18. ASSUME UNCHANGED vars PROVE CountsAgree'
  BY <1>18 DEF vars
<1> QED
  BY <1>1, <1>2, <1>3, <1>4, <1>5, <1>6, <1>7, <1>8, <1>9, <1>10, <1>11, <1>12,
     <1>13, <1>14, <1>15, <1>16, <1>17, <1>18 DEF Next, ProgramStep, TracerStep

LEMMA FrameStep ==
  ASSUME GreenletInv, [Next]_vars
  PROVE  FrameInv'
<1> SUFFICES ASSUME disciplined' PROVE FrameInv'
  BY DEF FrameInv
<1> USE GreenletsAssumption, HubNames DEF GreenletInv, FrameInv, HomeInv,
   TypeOK, IsMap, program, tracer, python, maps, walk
<1>1. ASSUME NEW t \in Threads, NEW g \in Greenlets, Spawn(t, g)
      PROVE  FrameInv'
  BY <1>1 DEF Spawn, Track, With, Ids
<1>2. ASSUME NEW t \in Threads, CallOrReturn(t) PROVE FrameInv'
  BY <1>2 DEF CallOrReturn, Runs, Hubs, Ids
<1>3. ASSUME NEW t \in Threads, NEW g \in Greenlets, Join(t, g)
      PROVE  FrameInv'
  BY <1>3 DEF Join, Joins
<1>4. ASSUME NEW t \in Threads, NEW S \in SUBSET Greenlets, JoinAll(t, S)
      PROVE  FrameInv'
  BY <1>4 DEF JoinAll, Joins
<1>5. ASSUME NEW t \in Threads, JoinReturns(t) PROVE FrameInv'
  BY <1>5 DEF JoinReturns, Goto
<1>6. ASSUME NEW t \in Threads, Suspend(t) PROVE FrameInv'
  BY <1>6 DEF Suspend, Switch
<1>7. ASSUME NEW t \in Threads, Finish(t) PROVE FrameInv'
  BY <1>7 DEF Finish, Switch, Runs, Ids
<1>8. ASSUME NEW t \in Threads, NEW i \in Ids, Resume(t, i) PROVE FrameInv'
  BY <1>8 DEF Resume, Switch, Runs
<1>9. ASSUME NEW t \in Threads, NEW g \in Greenlets, UntrackGreenlet(t, g)
      PROVE  FrameInv'
  BY <1>9 DEF UntrackGreenlet, Without, Restrict, Ids
<1>10. ASSUME NEW g \in Greenlets, Collect(g) PROVE FrameInv'
  BY <1>10 DEF Collect, Ids
<1>11. ASSUME NEW t \in Threads, TraceTrack(t) PROVE FrameInv'
  BY <1>11 DEF TraceTrack, Track, With, Goto
<1>12. ASSUME NEW t \in Threads, SetOrigin(t) PROVE FrameInv'
  BY <1>12 DEF SetOrigin, Goto
<1>13. ASSUME NEW t \in Threads, TellOrigin(t) PROVE FrameInv'
  <2>1. origin[t] \in DOMAIN _greenlet_frames
        /\ _greenlet_frames[origin[t]] = FrameOrSentinel(origin[t])
    BY <1>13 DEF TellOrigin, TellInv
  <2>2. ASSUME NEW i \in DOMAIN greenlet_info_map',
               greenlet_info_map'[i] \notin {FRAME_NOT_SET, Py_None}
        PROVE  /\ greenlet_info_map'[i] = <<i, top[i]>>
               /\ \/ status[i] = "suspended"
                  \/ status[i] = "running" /\ (i \in Hubs \/ pc'[home[i]] # "run")
    <3>1. CASE i = origin[t]
      BY <1>13, <2>1, <2>2, <3>1 DEF TellOrigin, Updated, FrameOrSentinel
    <3>2. CASE i # origin[t]
      <4>1. /\ i \in DOMAIN greenlet_info_map
            /\ greenlet_info_map'[i] = greenlet_info_map[i]
        BY <1>13, <3>2 DEF TellOrigin, Updated
      <4> QED
        BY <1>13, <2>2, <4>1 DEF TellOrigin, Goto
    <3> QED
      BY <3>1, <3>2
  <2> QED
    BY <1>13, <2>2 DEF TellOrigin
<1>14. ASSUME NEW t \in Threads, SetTarget(t) PROVE FrameInv'
  <2>1. CASE IsParent(current[t])
    <3>1. current[t] \in Ids /\ pc[t] = "set_target" /\ disciplined
      BY <1>14 DEF SetTarget
    <3>2. LinkedTo(current[t]) # {}
      BY <2>1, <3>1, Counting DEF IsParent, Counted
    <3>3. PICK h \in DOMAIN greenlet_parent_map : greenlet_parent_map[h] = current[t]
      BY <3>2 DEF LinkedTo
    <3>4. current[t] \in Hubs
      BY <3>1, <3>3 DEF LinkInv
    <3>5. pc' = [pc EXCEPT ![t] = "run"]
      BY <1>14, <2>1 DEF SetTarget, Goto
    <3> QED
      BY <1>14, <3>1, <3>4, <3>5 DEF SetTarget
  <2>2. CASE ~IsParent(current[t])
    <3>1. pc' = [pc EXCEPT ![t] = "tell_target"]
      BY <1>14, <2>2 DEF SetTarget, Goto
    <3> QED
      BY <1>14, <3>1 DEF SetTarget
  <2> QED
    BY <2>1, <2>2
<1>15. ASSUME NEW t \in Threads, TellTarget(t) PROVE FrameInv'
  BY <1>15 DEF TellTarget, Updated, Goto, TellInv
<1>16. ASSUME NEW t \in Threads, UnwindGreenlets(t) PROVE FrameInv'
  BY <1>16 DEF UnwindGreenlets, IsLeaf, Unlocked
<1>17. ASSUME UnwindStep PROVE FrameInv'
  <2>1. ASSUME NEW g \in Ids, UnwindLeaf(g) PROVE FrameInv'
    BY <2>1 DEF UnwindLeaf
  <2>2. ASSUME UnwindParent PROVE FrameInv'
    BY <2>2 DEF UnwindParent
  <2>3. ASSUME FinishStack PROVE FrameInv'
    BY <2>3 DEF FinishStack
  <2>4. ASSUME UnwindDone PROVE FrameInv'
    BY <2>4 DEF UnwindDone
  <2> QED
    BY <1>17, <2>1, <2>2, <2>3, <2>4 DEF UnwindStep
<1>18. ASSUME UNCHANGED vars PROVE FrameInv'
  BY <1>18 DEF vars
<1> QED
  BY <1>1, <1>2, <1>3, <1>4, <1>5, <1>6, <1>7, <1>8, <1>9, <1>10, <1>11, <1>12,
     <1>13, <1>14, <1>15, <1>16, <1>17, <1>18 DEF Next, ProgramStep, TracerStep

LEMMA GreenletStart == Init => GreenletInv
<1> SUFFICES ASSUME Init PROVE GreenletInv
  OBVIOUS
<1> USE GreenletsAssumption, HubNames
    DEF Init, InitProgram, InitPython, InitMaps, InitWalk, Empty
<1>1. TypeOK
  BY DEF TypeOK, IsMap, Ids
<1>2. HomeInv
  BY DEF HomeInv, Ids, Hubs, Mains
<1>3. KnownInv /\ TellInv /\ NoneInv /\ LeafInv
  BY DEF KnownInv, TellInv, NoneInv, LeafInv
<1>4. LinkInv /\ FrameInv /\ GoneInv
  BY DEF LinkInv, FrameInv, GoneInv
<1>5. CountsAgree
  BY DEF CountsAgree
<1> QED
  BY <1>1, <1>2, <1>3, <1>4, <1>5 DEF GreenletInv

LEMMA GreenletStep ==
  ASSUME GreenletInv, [Next]_vars
  PROVE  GreenletInv'
<1>1. TypeOK'
  BY GreenletTyping DEF GreenletInv
<1> QED
  BY <1>1, HomeStep, KnownStep, TellStep, NoneStep, LinkStep, CountsStep,
     FrameStep, GoneStep, LeafStep DEF GreenletInv

(* The walk over any links leaves the maps alone, which have no running    *)
(* greenlet.                                                               *)
WalkInv ==
  /\ TypeOK /\ LeafInv
  /\ ~disciplined
  /\ \A i \in DOMAIN greenlet_info_map : greenlet_info_map[i] # Py_None

LEMMA WalkStart == LinkedInit => WalkInv
<1> SUFFICES ASSUME LinkedInit PROVE WalkInv
  OBVIOUS
<1> USE GreenletsAssumption, TasksAssumption, HubNames
    DEF LinkedInit, InitProgram, InitPython, InitWalk, Empty
<1>1. PICK S \in SUBSET Greenlets :
        greenlet_info_map =
          [g \in Greenlets |-> IF g \in S THEN <<g, 0>> ELSE FRAME_NOT_SET]
  OBVIOUS
<1>2. Greenlets \subseteq Ids
  BY DEF Ids
<1>3. IsMap(greenlet_info_map, Ids, Frames)
  BY <1>1, <1>2 DEF IsMap, Frames
<1>4. \A i \in DOMAIN greenlet_info_map : greenlet_info_map[i] # Py_None
  BY <1>1, <1>2
<1>5. IsMap(greenlet_parent_map, Greenlets, Ids)
  BY <1>2 DEF IsMap
<1>6. IsMap(greenlet_thread_map, Threads, Ids)
  BY <1>2 DEF IsMap
<1>7. TypeOK
  BY <1>3, <1>5, <1>6 DEF TypeOK, IsMap, Ids
<1>8. LeafInv /\ ~disciplined
  BY DEF LeafInv
<1> QED
  BY <1>4, <1>7, <1>8 DEF WalkInv

LEMMA WalkStep ==
  ASSUME WalkInv, [LinkedNext]_vars
  PROVE  WalkInv'
<1>1. ASSUME LinkedNext PROVE WalkInv'
  <2>1. TypeOK' /\ LeafInv'
    BY <1>1, UnwindTyping, UnwindLeaves DEF LinkedNext, WalkInv
  <2>2. UNCHANGED <<program, maps>>
    BY <1>1 DEF LinkedNext, UnwindStep, UnwindGreenlets, UnwindLeaf,
                UnwindParent, FinishStack, UnwindDone
  <2> QED
    BY <2>1, <2>2 DEF WalkInv, program, maps
<1>2. ASSUME UNCHANGED vars PROVE WalkInv'
  BY <1>2 DEF vars, program, tracer, python, maps, walk, WalkInv, TypeOK,
     LeafInv
<1> QED
  BY <1>1, <1>2

LEMMA TrueMaps == GreenletInv => MapsTrue
<1> SUFFICES ASSUME GreenletInv PROVE MapsTrue
  OBVIOUS
<1>1. Untracked
  <2> SUFFICES ASSUME disciplined, NEW g \in Greenlets, status[g] \in {"none", "done"}
               PROVE  /\ g \notin DOMAIN greenlet_info_map
                      /\ g \notin DOMAIN greenlet_parent_map
                      /\ g \notin DOMAIN _parent_greenlet_count
    BY DEF Untracked
  <2>1. g \notin DOMAIN greenlet_info_map /\ g \notin DOMAIN greenlet_parent_map
    BY DEF GreenletInv, GoneInv, LinkInv
  <2>2. LinkedTo(g) = {} /\ g \in Ids
    <3>1. TypeOK /\ LinkInv /\ status[g] \in {"none", "dead", "done"}
      BY DEF GreenletInv
    <3>2. LinkedTo(g) = {}
      BY <3>1, NoneLinked
    <3> QED
      BY <3>2 DEF Ids
  <2> QED
    BY <2>1, <2>2, Counting DEF GreenletInv, Counted
<1>2. OnlyCurrentIsNone
  BY DEF GreenletInv, NoneInv, OnlyCurrentIsNone
<1> QED
  BY <1>1, <1>2 DEF MapsTrue, GreenletInv

(* The frame of a greenlet that has one is alive. *)
LEMMA FramesAlive ==
  ASSUME GreenletInv, disciplined, NEW g \in DOMAIN greenlet_info_map,
         greenlet_info_map[g] \notin {FRAME_NOT_SET, Py_None}
  PROVE  Lives(greenlet_info_map[g])
<1>1. /\ greenlet_info_map[g] = <<g, top[g]>>
      /\ status[g] \in {"running", "suspended"}
  BY DEF GreenletInv, FrameInv
<1>2. top[g] \in {0, 1}
  BY DEF GreenletInv, TypeOK, IsMap
<1> QED
  BY <1>1, <1>2 DEF Lives

LEMMA LiveStep ==
  ASSUME GreenletInv, [Next]_vars,
         disciplined, greenlet_id' \notin {greenlet_id, nullptr},
         greenlet_info_map[greenlet_id'] # Py_None
  PROVE  Lives(greenlet_info_map[greenlet_id'])
<1>1. UnwindStep
  BY DEF Next, vars, ProgramStep, TracerStep, Spawn, CallOrReturn, Join,
     JoinAll, Joins, JoinReturns, Suspend, Finish, Resume, Switch,
     UntrackGreenlet, Collect, TraceTrack, SetOrigin, TellOrigin, SetTarget,
     TellTarget, UnwindGreenlets, walk
<1>2. ASSUME NEW g \in Ids, UnwindLeaf(g)
      PROVE  Lives(greenlet_info_map[greenlet_id'])
  BY <1>2, FramesAlive DEF UnwindLeaf, GreenletInv, LeafInv
<1>3. ASSUME UnwindParent PROVE Lives(greenlet_info_map[greenlet_id'])
  BY <1>3, FramesAlive DEF UnwindParent, Climbs, HasParent
<1> QED
  BY <1>1, <1>2, <1>3 DEF UnwindStep, FinishStack, UnwindDone

LEMMA ClimbStep ==
  ASSUME [Next]_vars, greenlet_id # nullptr,
         greenlet_id' \notin {greenlet_id, nullptr}
  PROVE  greenlet_id \in visited' \ visited
<1>1. UnwindStep
  BY DEF Next, vars, ProgramStep, TracerStep, Spawn, CallOrReturn, Join,
     JoinAll, Joins, JoinReturns, Suspend, Finish, Resume, Switch,
     UntrackGreenlet, Collect, TraceTrack, SetOrigin, TellOrigin, SetTarget,
     TellTarget, UnwindGreenlets, walk
<1> QED
  BY <1>1 DEF UnwindStep, UnwindLeaf, UnwindParent, Climbs, MayClimb,
     FinishStack, UnwindDone

-----------------------------------------------------------------------------
(* What asyncio and the stacks of its tasks keep true.                     *)

(* What the sampler keeps to while it builds stacks. *)
StackInv ==
  /\ stack \in Seq(Tasks)
  /\ task_pc = "walk" => /\ Len(stack) > 0 /\ stack[Len(stack)] = current_task
                    /\ current_task \in DOMAIN all_tasks
  /\ task_pc # "walk" => stack = <<>>
  /\ task_pc \in {"leaf", "walk"} =>
       /\ waitee_map \in T!WaiteeMaps
       /\ leaf_tasks \subseteq DOMAIN all_tasks
       /\ rendered \subseteq DOMAIN all_tasks
       /\ T!Range(stack) \subseteq DOMAIN all_tasks
  /\ task_pc = "read" => asyncio_loop \in Loops

(* The addresses of tasks there are, or have been, have been used.         *)
UsedInv ==
  /\ \A t \in Tasks : T!Exists(t) => t \in task_used
  /\ \A t \in Tasks : T!Running(t) => waits[t] = nullptr
  /\ \A l \in Loops : task_current[l] # nullptr => loop[task_current[l]] = l
  /\ Cardinality(task_used) <= created
  /\ unread \subseteq task_used /\ DOMAIN all_tasks \subseteq task_used
  /\ previous_task_objects \subseteq task_used

(* A task above another, as the program, the snapshot, the links or the    *)
(* stack have it.                                                          *)
IsWaiter(s, t) == s \in DOMAIN all_tasks /\ all_tasks[s].waiter = t

IsLinked(s, t) == t \in DOMAIN task_link_map /\ task_link_map[t] = s

IsNext(s, t) == \E i \in 1..(Len(stack) - 1) : stack[i] = t /\ stack[i + 1] = s

IsAbove(s, t) ==
  t \in T!Needs(s) \/ IsWaiter(s, t) \/ IsLinked(s, t) \/ IsNext(s, t)

Orderly == may \subseteq {"fail"} /\ ~T!Reused

(* In an orderly program whoever has been above a task waits for it as     *)
(* long as it exists, and there is no circle.                              *)
WaitInv ==
  Orderly => \A s, t \in Tasks :
    IsAbove(s, t) => /\ t \in task_used
                     /\ T!Exists(t) => T!Exists(s) /\ t \in T!Needs(s)

CircleInv ==
  Orderly => \A S \in SUBSET Tasks :
    S # {} => \E t \in S : \A s \in S : ~IsAbove(s, t)

(* No task that was in the last snapshot and still exists is missed.       *)
SeenInv ==
  /\ Cardinality(Loops) = 1 /\ "fail" \notin may /\ ~T!Reused
  /\ task_pc = "read"
  => \A t \in previous_task_objects : T!Exists(t) => t \in unread \cup DOMAIN all_tasks

(* Stacks are complete to the top, and none of the leaves is forgotten.    *)
RenderInv ==
  task_pc \in {"leaf", "walk"} /\ ~relinked =>
    /\ parent_tasks = T!Range(task_link_map)
    /\ \A t \in rendered : T!Above(t) \in rendered \cup {nullptr}
    /\ \A i \in 1..(Len(stack) - 1) : T!Above(stack[i]) = stack[i + 1]
    /\ T!Leaves(parent_tasks) \subseteq rendered \cup leaf_tasks \cup T!Range(stack)

TaskInv ==
  /\ T!TypeOK /\ StackInv /\ UsedInv /\ WaitInv /\ CircleInv
  /\ SeenInv /\ RenderInv

LEMMA Partials ==
  \A S, V, f : f \in T!Partial(S, V) <=> DOMAIN f \subseteq S /\ f \in [DOMAIN f -> V]
<1> SUFFICES ASSUME NEW S, NEW V, NEW f
             PROVE  f \in T!Partial(S, V) <=> DOMAIN f \subseteq S /\ f \in [DOMAIN f -> V]
  OBVIOUS
<1>1. ASSUME f \in T!Partial(S, V)
      PROVE  DOMAIN f \subseteq S /\ f \in [DOMAIN f -> V]
  BY <1>1 DEF T!Partial
<1>2. ASSUME DOMAIN f \subseteq S, f \in [DOMAIN f -> V]
      PROVE  f \in T!Partial(S, V)
  BY <1>2 DEF T!Partial
<1> QED
  BY <1>1, <1>2

LEMMA PartialWith ==
  ASSUME NEW S, NEW V, NEW f \in T!Partial(S, V), NEW t \in S, NEW v \in V
  PROVE  T!With(f, t, v) \in T!Partial(S, V)
BY Partials DEF T!With

LEMMA PartialRestrict ==
  ASSUME NEW S, NEW V, NEW f \in T!Partial(S, V), NEW U \in SUBSET DOMAIN f
  PROVE  T!Restrict(f, U) \in T!Partial(S, V)
<1>1. DOMAIN f \subseteq S /\ f \in [DOMAIN f -> V]
  BY Partials
<1>2. DOMAIN T!Restrict(f, U) = U /\ T!Restrict(f, U) \in [U -> V]
  BY <1>1 DEF T!Restrict
<1> QED
  BY <1>1, <1>2, Partials

LEMMA Infos ==
  ASSUME T!TypeOK, NEW t \in DOMAIN all_tasks
  PROVE  /\ t \in Tasks
         /\ all_tasks[t].waiter \in Tasks \cup {nullptr}
         /\ all_tasks[t].is_on_cpu \in BOOLEAN
<1>1. DOMAIN all_tasks \subseteq Tasks /\ all_tasks[t] \in T!TaskInfo
  BY Partials DEF T!TypeOK
<1> QED
  BY <1>1 DEF T!TaskInfo

LEMMA InfoType ==
  ASSUME T!TypeOK, NEW t \in Tasks
  PROVE  T!InfoOf(t) \in T!TaskInfo
BY DEF T!TypeOK, T!InfoOf, T!TaskInfo, T!Running

LEMMA Waitees ==
  ASSUME T!TypeOK, NEW f \in T!WaiteeMaps
  PROVE  /\ f \in T!Partial(Tasks, Tasks)
         /\ DOMAIN f = {all_tasks[t].waiter : t \in {u \in DOMAIN all_tasks : T!IsWaiting(u)}}
         /\ \A w \in DOMAIN f : f[w] \in DOMAIN all_tasks /\ all_tasks[f[w]].waiter = w
<1> DEFINE D ==
             {all_tasks[t].waiter : t \in {u \in DOMAIN all_tasks : T!IsWaiting(u)}}
<1>1. D \subseteq Tasks
  BY Infos DEF T!IsWaiting
<1>2. /\ f \in [D -> DOMAIN all_tasks]
      /\ \A w \in DOMAIN f : all_tasks[f[w]].waiter = w
  BY DEF T!WaiteeMaps
<1>3. DOMAIN all_tasks \subseteq Tasks
  BY Partials DEF T!TypeOK
<1> HIDE DEF D
<1>4. DOMAIN f = D /\ f \in [DOMAIN f -> Tasks]
  BY <1>2, <1>3
<1>5. f \in T!Partial(Tasks, Tasks)
  BY <1>1, <1>4, Partials
<1> QED
  BY <1>2, <1>4, <1>5 DEF D

(* What is above a task of the snapshot, as the walk has it.               *)
LEMMA Aboves ==
  ASSUME T!TypeOK, StackInv, task_pc \in {"leaf", "walk"}, NEW t \in Tasks,
         T!Above(t) # nullptr
  PROVE  /\ T!Above(t) \in DOMAIN all_tasks
         /\ T!Above(t) \in Tasks
         /\ \/ all_tasks[T!Above(t)].waiter = t
            \/ t \in DOMAIN task_link_map /\ task_link_map[t] = T!Above(t)
<1>1. waitee_map \in T!WaiteeMaps
  BY DEF StackInv
<1>2. \A w \in DOMAIN waitee_map :
        waitee_map[w] \in DOMAIN all_tasks /\ all_tasks[waitee_map[w]].waiter = w
  BY <1>1, Waitees
<1>3. T!Above(t) \in DOMAIN all_tasks
  BY <1>2 DEF T!Above
<1> QED
  BY <1>2, <1>3, Infos DEF T!Above

LEMMA EmptyTypes ==
  /\ T!Empty \in T!Partial(Tasks, Tasks) /\ T!Empty \in T!Partial(Tasks, T!TaskInfo)
  /\ DOMAIN T!Empty = {}
BY Partials DEF T!Empty

LEMMA TypeStep ==
  ASSUME T!TypeOK, StackInv, [T!Next]_T!vars
  PROVE  T!TypeOK'
<1> USE TasksAssumption DEF T!program, T!links, T!read, T!forest, T!walk
<1>1. ASSUME NEW l \in Loops, NEW t \in Tasks, T!CreateTask(l, t)
      PROVE  T!TypeOK'
  BY <1>1 DEF T!CreateTask, T!TypeOK
<1>2. ASSUME NEW t \in Tasks, T!RunTask(t) PROVE T!TypeOK'
  BY <1>2 DEF T!RunTask, T!TypeOK
<1>3. ASSUME NEW t \in Tasks, T!Suspend(t) PROVE T!TypeOK'
  BY <1>3 DEF T!Suspend, T!TypeOK
<1>4. ASSUME NEW t \in Tasks, NEW u \in Tasks, T!AwaitTask(t, u) PROVE T!TypeOK'
  BY <1>4 DEF T!AwaitTask, T!TypeOK
<1>5. ASSUME NEW t \in Tasks, NEW u \in Tasks, T!LinkTasks(t, u) PROVE T!TypeOK'
  <2>1. task_link_map' \in T!Partial(Tasks, Tasks)
    BY <1>5, PartialWith DEF T!LinkTasks, T!TypeOK
  <2> QED
    BY <1>5, <2>1 DEF T!LinkTasks, T!TypeOK
<1>6. ASSUME NEW t \in Tasks, T!Wakeup(t) PROVE T!TypeOK'
  BY <1>6 DEF T!Wakeup, T!TypeOK
<1>7. ASSUME NEW t \in Tasks, T!FinishTask(t) PROVE T!TypeOK'
  BY <1>7 DEF T!FinishTask, T!TypeOK
<1>8. ASSUME NEW l \in Loops, T!GetAllTasks(l) PROVE T!TypeOK'
  BY <1>8, EmptyTypes DEF T!GetAllTasks, T!TypeOK
<1>9. ASSUME NEW t \in Tasks, T!CreateTaskInfo(t) PROVE T!TypeOK'
  <2>1. all_tasks' \in T!Partial(Tasks, T!TaskInfo)
    BY <1>9, InfoType, PartialWith DEF T!CreateTaskInfo, T!TypeOK
  <2> QED
    BY <1>9, <2>1 DEF T!CreateTaskInfo, T!TypeOK
<1>10. ASSUME NEW t \in Tasks, T!CreateFails(t) PROVE T!TypeOK'
  BY <1>10 DEF T!CreateFails, T!TypeOK
<1>11. ASSUME T!GetAllTasksFails PROVE T!TypeOK'
  BY <1>11, EmptyTypes DEF T!GetAllTasksFails, T!TypeOK
<1>12. ASSUME T!CleanLinks PROVE T!TypeOK'
  <2>1. task_link_map' \in T!Partial(Tasks, Tasks)
    <3>1. T!Kept \in SUBSET DOMAIN task_link_map
      BY DEF T!Kept
    <3> QED
      BY <1>12, <3>1, PartialRestrict DEF T!CleanLinks, T!TypeOK
  <2>2. parent_tasks' \subseteq Tasks
    <3>1. /\ DOMAIN task_link_map' \subseteq Tasks
          /\ task_link_map' \in [DOMAIN task_link_map' -> Tasks]
      BY <2>1, Partials
    <3> QED
      BY <1>12, <3>1 DEF T!CleanLinks, T!Range
  <2>3. waitee_map' \in T!Partial(Tasks, Tasks)
    BY <1>12, Waitees DEF T!CleanLinks
  <2>4. DOMAIN all_tasks \subseteq Tasks
    BY Partials DEF T!TypeOK
  <2>5. leaf_tasks' \subseteq Tasks /\ previous_task_objects' \subseteq Tasks
    BY <1>12, <2>4 DEF T!CleanLinks, T!Leaves
  <2> QED
    BY <1>12, <2>1, <2>2, <2>3, <2>5 DEF T!CleanLinks, T!TypeOK
<1>13. ASSUME NEW t \in Tasks, T!UnwindLeaf(t) PROVE T!TypeOK'
  <2>1. all_tasks[t].is_on_cpu \in BOOLEAN
    BY <1>13, Infos DEF T!UnwindLeaf, StackInv
  <2>2. T!Range(stack') \subseteq Tasks
    BY <1>13 DEF T!UnwindLeaf, T!Range
  <2>3. on_cpu_task_seen' \in BOOLEAN
    BY <1>13, <2>1 DEF T!UnwindLeaf, T!TypeOK
  <2> QED
    BY <1>13, <2>2, <2>3 DEF T!UnwindLeaf, T!TypeOK
<1>14. ASSUME T!NextTask PROVE T!TypeOK'
  <2>1. current_task \in Tasks
    BY <1>14, Infos DEF T!NextTask, StackInv
  <2>2. T!Above(current_task) \in Tasks
    BY <1>14, <2>1, Aboves DEF T!NextTask
  <2>3. T!Range(stack') \subseteq Tasks
    BY <1>14, <2>2 DEF T!NextTask, T!Range, StackInv
  <2> QED
    BY <1>14, <2>2, <2>3 DEF T!NextTask, T!TypeOK
<1>15. ASSUME T!FinishStack PROVE T!TypeOK'
  <2>1. T!Range(stack') = {}
    BY <1>15 DEF T!FinishStack, T!Range
  <2> QED
    BY <1>15, <2>1 DEF T!FinishStack, T!TypeOK
<1>16. ASSUME T!UnwindDone PROVE T!TypeOK'
  BY <1>16, EmptyTypes DEF T!UnwindDone, T!TypeOK, T!Range
<1>17. ASSUME UNCHANGED T!vars PROVE T!TypeOK'
  BY <1>17 DEF T!vars, T!TypeOK
<1> QED
  BY <1>1, <1>2, <1>3, <1>4, <1>5, <1>6, <1>7, <1>8, <1>9, <1>10, <1>11, <1>12,
     <1>13, <1>14, <1>15, <1>16, <1>17 DEF T!Next, T!ProgramStep, T!UnwindStep

LEMMA StackStep ==
  ASSUME T!TypeOK, StackInv, [T!Next]_T!vars
  PROVE  StackInv'
<1> USE TasksAssumption DEF T!program, T!links, T!read, T!forest, T!walk,
   StackInv
<1>1. ASSUME NEW l \in Loops, NEW t \in Tasks, T!CreateTask(l, t)
      PROVE  StackInv'
  BY <1>1 DEF T!CreateTask, T!WaiteeMaps, T!IsWaiting
<1>2. ASSUME NEW t \in Tasks, T!RunTask(t) PROVE StackInv'
  BY <1>2 DEF T!RunTask, T!WaiteeMaps, T!IsWaiting
<1>3. ASSUME NEW t \in Tasks, T!Suspend(t) PROVE StackInv'
  BY <1>3 DEF T!Suspend, T!WaiteeMaps, T!IsWaiting
<1>4. ASSUME NEW t \in Tasks, NEW u \in Tasks, T!AwaitTask(t, u) PROVE StackInv'
  BY <1>4 DEF T!AwaitTask, T!WaiteeMaps, T!IsWaiting
<1>5. ASSUME NEW t \in Tasks, NEW u \in Tasks, T!LinkTasks(t, u) PROVE StackInv'
  BY <1>5 DEF T!LinkTasks, T!WaiteeMaps, T!IsWaiting
<1>6. ASSUME NEW t \in Tasks, T!Wakeup(t) PROVE StackInv'
  BY <1>6 DEF T!Wakeup, T!WaiteeMaps, T!IsWaiting
<1>7. ASSUME NEW t \in Tasks, T!FinishTask(t) PROVE StackInv'
  BY <1>7 DEF T!FinishTask, T!WaiteeMaps, T!IsWaiting
<1>8. ASSUME NEW l \in Loops, T!GetAllTasks(l) PROVE StackInv'
  BY <1>8 DEF T!GetAllTasks
<1>9. ASSUME NEW t \in Tasks, T!CreateTaskInfo(t) PROVE StackInv'
  BY <1>9 DEF T!CreateTaskInfo
<1>10. ASSUME NEW t \in Tasks, T!CreateFails(t) PROVE StackInv'
  BY <1>10 DEF T!CreateFails
<1>11. ASSUME T!GetAllTasksFails PROVE StackInv'
  BY <1>11 DEF T!GetAllTasksFails
<1>12. ASSUME T!CleanLinks PROVE StackInv'
  <2>1. waitee_map' \in T!WaiteeMaps'
    BY <1>12 DEF T!CleanLinks, T!WaiteeMaps, T!IsWaiting
  <2>2. leaf_tasks' \subseteq DOMAIN all_tasks'
    BY <1>12 DEF T!CleanLinks, T!Leaves
  <2>3. stack = <<>> /\ T!Range(stack) = {}
    BY <1>12 DEF T!CleanLinks, T!Range
  <2> QED
    BY <1>12, <2>1, <2>2, <2>3 DEF T!CleanLinks
<1>13. ASSUME NEW t \in Tasks, T!UnwindLeaf(t) PROVE StackInv'
  <2>1. waitee_map' \in T!WaiteeMaps'
    BY <1>13 DEF T!UnwindLeaf, T!WaiteeMaps, T!IsWaiting
  <2>2. /\ stack' = <<t>> /\ Len(stack') = 1 /\ stack'[1] = t
        /\ T!Range(stack') = {t} /\ stack' \in Seq(Tasks)
    BY <1>13 DEF T!UnwindLeaf, T!Range
  <2> QED
    BY <1>13, <2>1, <2>2 DEF T!UnwindLeaf
<1>14. ASSUME T!NextTask PROVE StackInv'
  <2>1. waitee_map' \in T!WaiteeMaps'
    BY <1>14 DEF T!NextTask, T!WaiteeMaps, T!IsWaiting
  <2> DEFINE a == T!Above(current_task)
  <2>2. current_task \in Tasks
    BY <1>14, Infos DEF T!NextTask
  <2>3. a \in DOMAIN all_tasks /\ a \in Tasks
    BY <1>14, <2>2, Aboves DEF T!NextTask
  <2>4. stack' = Append(stack, a) /\ stack \in Seq(Tasks)
    BY <1>14 DEF T!NextTask
  <2> HIDE DEF a
  <2>5. /\ stack' \in Seq(Tasks) /\ Len(stack') = Len(stack) + 1
        /\ stack'[Len(stack')] = a
    BY <2>3, <2>4
  <2>6. T!Range(stack') \subseteq T!Range(stack) \cup {a}
    BY <2>3, <2>4 DEF T!Range
  <2> QED
    BY <1>14, <2>1, <2>3, <2>5, <2>6 DEF T!NextTask, a
<1>15. ASSUME T!FinishStack PROVE StackInv'
  <2>1. waitee_map' \in T!WaiteeMaps'
    BY <1>15 DEF T!FinishStack, T!WaiteeMaps, T!IsWaiting
  <2>2. T!Range(stack') = {} /\ stack' \in Seq(Tasks)
    BY <1>15 DEF T!FinishStack, T!Range
  <2> QED
    BY <1>15, <2>1, <2>2 DEF T!FinishStack
<1>16. ASSUME T!UnwindDone PROVE StackInv'
  BY <1>16 DEF T!UnwindDone
<1>17. ASSUME UNCHANGED T!vars PROVE StackInv'
  BY <1>17 DEF T!vars, T!WaiteeMaps, T!IsWaiting
<1> QED
  BY <1>1, <1>2, <1>3, <1>4, <1>5, <1>6, <1>7, <1>8, <1>9, <1>10, <1>11, <1>12,
     <1>13, <1>14, <1>15, <1>16, <1>17 DEF T!Next, T!ProgramStep, T!UnwindStep

LEMMA UsedStep ==
  ASSUME T!TypeOK, UsedInv, [T!Next]_T!vars
  PROVE  UsedInv'
<1> USE TasksAssumption DEF T!program, T!links, T!read, T!forest, T!walk,
   UsedInv, T!Exists, T!Running, T!TypeOK
<1>1. ASSUME NEW l \in Loops, NEW t \in Tasks, T!CreateTask(l, t) PROVE UsedInv'
  <2>1. /\ IsFiniteSet(task_used)
        /\ Cardinality(task_used) \in Nat
        /\ created \in Nat
    BY FS_Subset, FS_CardinalityType
  <2>2. Cardinality(task_used') <= created'
    <3>0. created' = created + 1 /\ Cardinality(task_used) <= created
      BY <1>1 DEF T!CreateTask
    <3>1. CASE t \in task_used
      <4>1. task_used' = task_used
        BY <1>1, <3>1 DEF T!CreateTask
      <4>2. Cardinality(task_used') = Cardinality(task_used)
        BY <4>1
      <4> QED
        BY <2>1, <3>0, <4>2
    <3>2. CASE t \notin task_used
      <4>1. Cardinality(task_used \cup {t}) = Cardinality(task_used) + 1
        BY <2>1, <3>2, FS_AddElement
      <4>2. Cardinality(task_used') = Cardinality(task_used) + 1
        BY <1>1, <4>1 DEF T!CreateTask
      <4> QED
        BY <2>1, <3>0, <4>2
    <3> QED
      BY <3>1, <3>2
  <2>3. ASSUME NEW u \in Tasks, T!Running(u)' PROVE waits'[u] = nullptr
    <3>1. u # t
      BY <1>1, <2>3 DEF T!CreateTask, T!MayBeAt
    <3> QED
      BY <1>1, <2>3, <3>1 DEF T!CreateTask
  <2>4. ASSUME NEW u \in Tasks, T!Exists(u)' PROVE u \in task_used'
    BY <1>1, <2>4 DEF T!CreateTask
  <2>5. ASSUME NEW k \in Loops, task_current'[k] # nullptr
        PROVE  loop'[task_current'[k]] = k
    BY <1>1, <2>5 DEF T!CreateTask, T!MayBeAt
  <2> QED
    BY <1>1, <2>2, <2>3, <2>4, <2>5 DEF T!CreateTask
<1>2. ASSUME NEW t \in Tasks, T!RunTask(t) PROVE UsedInv'
  BY <1>2 DEF T!RunTask, T!Needs
<1>3. ASSUME NEW t \in Tasks, T!Suspend(t) PROVE UsedInv'
  BY <1>3 DEF T!Suspend
<1>4. ASSUME NEW t \in Tasks, NEW u \in Tasks, T!AwaitTask(t, u) PROVE UsedInv'
  BY <1>4 DEF T!AwaitTask
<1>5. ASSUME NEW t \in Tasks, NEW u \in Tasks, T!LinkTasks(t, u) PROVE UsedInv'
  BY <1>5 DEF T!LinkTasks
<1>6. ASSUME NEW t \in Tasks, T!Wakeup(t) PROVE UsedInv'
  BY <1>6 DEF T!Wakeup
<1>7. ASSUME NEW t \in Tasks, T!FinishTask(t) PROVE UsedInv'
  BY <1>7 DEF T!FinishTask
<1>8. ASSUME NEW l \in Loops, T!GetAllTasks(l) PROVE UsedInv'
  BY <1>8, EmptyTypes DEF T!GetAllTasks
<1>9. ASSUME NEW t \in Tasks, T!CreateTaskInfo(t) PROVE UsedInv'
  <2>1. DOMAIN all_tasks' \subseteq DOMAIN all_tasks \cup {t}
    BY <1>9 DEF T!CreateTaskInfo, T!With
  <2> QED
    BY <1>9, <2>1 DEF T!CreateTaskInfo
<1>10. ASSUME NEW t \in Tasks, T!CreateFails(t) PROVE UsedInv'
  BY <1>10 DEF T!CreateFails
<1>11. ASSUME T!GetAllTasksFails PROVE UsedInv'
  BY <1>11, EmptyTypes DEF T!GetAllTasksFails
<1>12. ASSUME T!CleanLinks PROVE UsedInv'
  BY <1>12 DEF T!CleanLinks
<1>13. ASSUME NEW t \in Tasks, T!UnwindLeaf(t) PROVE UsedInv'
  BY <1>13 DEF T!UnwindLeaf
<1>14. ASSUME T!NextTask PROVE UsedInv'
  BY <1>14 DEF T!NextTask
<1>15. ASSUME T!FinishStack PROVE UsedInv'
  BY <1>15 DEF T!FinishStack
<1>16. ASSUME T!UnwindDone PROVE UsedInv'
  BY <1>16, EmptyTypes DEF T!UnwindDone
<1>17. ASSUME UNCHANGED T!vars PROVE UsedInv'
  BY <1>17 DEF T!vars
<1> QED
  BY <1>1, <1>2, <1>3, <1>4, <1>5, <1>6, <1>7, <1>8, <1>9, <1>10, <1>11, <1>12,
     <1>13, <1>14, <1>15, <1>16, <1>17 DEF T!Next, T!ProgramStep, T!UnwindStep

LEMMA SameCardinality == \A S : T!Cardinality(S) = Cardinality(S)
BY DEF T!Cardinality, Cardinality

(* An address that has been used again stays one that has been.            *)
LEMMA ReusedStays ==
  ASSUME T!TypeOK, UsedInv, [T!Next]_T!vars, ~T!Reused'
  PROVE  /\ ~T!Reused
         /\ \A l \in Loops, t \in Tasks : T!CreateTask(l, t) => t \notin task_used
<1>1. /\ IsFiniteSet(task_used)
      /\ Cardinality(task_used) \in Nat
      /\ created \in Nat
  BY TasksAssumption, FS_Subset, FS_CardinalityType DEF T!TypeOK
<1>2. ASSUME NEW l \in Loops, NEW t \in Tasks, T!CreateTask(l, t)
      PROVE  t \notin task_used /\ ~T!Reused
  <2>1. task_used' = task_used \cup {t} /\ created' = created + 1
    BY <1>2 DEF T!CreateTask
  <2>2. ASSUME t \in task_used PROVE FALSE
    <3>1. Cardinality(task_used') = Cardinality(task_used)
      BY <2>1, <2>2
    <3>2. Cardinality(task_used) <= created
      BY DEF UsedInv
    <3>3. ~(created' > Cardinality(task_used'))
      BY SameCardinality DEF T!Reused
    <3> QED
      BY <1>1, <2>1, <3>1, <3>2, <3>3
  <2>3. Cardinality(task_used') = Cardinality(task_used) + 1
    BY <1>1, <2>1, <2>2, FS_AddElement
  <2>4. ~(created' > Cardinality(task_used'))
    BY SameCardinality DEF T!Reused
  <2> QED
    BY <1>1, <2>1, <2>2, <2>3, <2>4, SameCardinality DEF T!Reused
<1>3. \/ \E l \in Loops, t \in Tasks : T!CreateTask(l, t)
      \/ UNCHANGED <<task_used, created>>
  BY DEF T!Next, T!ProgramStep, T!UnwindStep, T!vars, T!program, T!RunTask,
     T!Suspend, T!AwaitTask, T!LinkTasks, T!Wakeup, T!FinishTask,
     T!GetAllTasks, T!CreateTaskInfo, T!CreateFails, T!GetAllTasksFails,
     T!CleanLinks, T!UnwindLeaf, T!NextTask, T!FinishStack, T!UnwindDone
<1> QED
  BY <1>2, <1>3 DEF T!Reused

LEMMA MayStays == [T!Next]_T!vars => may' = may
BY DEF T!Next, T!ProgramStep, T!UnwindStep, T!vars, T!program, T!CreateTask,
   T!RunTask, T!Suspend, T!AwaitTask, T!LinkTasks, T!Wakeup, T!FinishTask,
   T!GetAllTasks, T!CreateTaskInfo, T!CreateFails, T!GetAllTasksFails,
   T!CleanLinks, T!UnwindLeaf, T!NextTask, T!FinishStack, T!UnwindDone

(* Only a task that awaits or links another gets above it.                 *)
NewAbove(s, t) == T!AwaitTask(s, t) \/ T!LinkTasks(s, t)

LEMMA AboveNew ==
  ASSUME NEW a \in Tasks, NEW b \in Tasks, NewAbove(a, b), T!TypeOK,
         NEW s \in Tasks, NEW t \in Tasks, IsAbove(s, t)'
  PROVE  IsAbove(s, t) \/ (s = a /\ t = b)
<1>1. UNCHANGED <<all_tasks, stack>>
  BY DEF NewAbove, T!AwaitTask, T!LinkTasks, T!read, T!walk
<1>2. (t \in T!Needs(s))' => t \in T!Needs(s) \/ (s = a /\ t = b)
  <2>1. CASE T!AwaitTask(a, b)
    <3>1. /\ children'[s] = children[s]
          /\ waits'[s] = IF s = a THEN b ELSE waits[s]
      BY <2>1 DEF T!AwaitTask, T!TypeOK
    <3> QED
      BY <3>1 DEF T!Needs
  <2>2. CASE T!LinkTasks(a, b)
    <3>1. /\ waits'[s] = waits[s]
          /\ children'[s] = IF s = a THEN children[s] \cup {b} ELSE children[s]
      BY <2>2 DEF T!LinkTasks, T!TypeOK
    <3> QED
      BY <3>1 DEF T!Needs
  <2> QED
    BY <2>1, <2>2 DEF NewAbove
<1>3. IsLinked(s, t)' => IsLinked(s, t) \/ (s = a /\ t = b)
  <2>1. CASE T!AwaitTask(a, b)
    BY <2>1 DEF T!AwaitTask, IsLinked, T!links
  <2>2. CASE T!LinkTasks(a, b)
    BY <2>2 DEF T!LinkTasks, IsLinked, T!With
  <2> QED
    BY <2>1, <2>2 DEF NewAbove
<1>4. IsWaiter(s, t)' => IsWaiter(s, t)
  BY <1>1 DEF IsWaiter
<1>5. IsNext(s, t)' => IsNext(s, t)
  BY <1>1 DEF IsNext
<1>6. \/ (t \in T!Needs(s))' \/ IsWaiter(s, t)'
      \/ IsLinked(s, t)' \/ IsNext(s, t)'
  BY DEF IsAbove
<1> QED
  BY <1>2, <1>3, <1>4, <1>5, <1>6 DEF IsAbove

LEMMA AboveOld ==
  ASSUME T!TypeOK, StackInv, [T!Next]_T!vars, NEW s \in Tasks, NEW t \in Tasks,
         \A a, b \in Tasks : ~NewAbove(a, b), IsAbove(s, t)'
  PROVE  IsAbove(s, t)
<1>1. (t \in T!Needs(s))' => t \in T!Needs(s)
  <2>1. /\ waits'[s] \in {waits[s], nullptr}
        /\ children'[s] \in {children[s], {}}
    BY DEF NewAbove, T!TypeOK, T!links, T!read, T!forest, T!walk, T!Next,
       T!ProgramStep, T!UnwindStep, T!vars, T!program, T!CreateTask, T!RunTask,
       T!Suspend, T!AwaitTask, T!LinkTasks, T!Wakeup, T!FinishTask,
       T!GetAllTasks, T!CreateTaskInfo, T!CreateFails, T!GetAllTasksFails,
       T!CleanLinks, T!UnwindLeaf, T!NextTask, T!FinishStack, T!UnwindDone
  <2> QED
    BY <2>1 DEF T!Needs
<1>2. IsLinked(s, t)' => IsLinked(s, t)
  <2>1. UNCHANGED task_link_map \/ T!CleanLinks
    BY DEF NewAbove, T!links, T!read, T!forest, T!walk, T!Next, T!ProgramStep,
       T!UnwindStep, T!vars, T!program, T!CreateTask, T!RunTask, T!Suspend,
       T!AwaitTask, T!LinkTasks, T!Wakeup, T!FinishTask, T!GetAllTasks,
       T!CreateTaskInfo, T!CreateFails, T!GetAllTasksFails, T!CleanLinks,
       T!UnwindLeaf, T!NextTask, T!FinishStack, T!UnwindDone
  <2> QED
    BY <2>1 DEF IsLinked, T!CleanLinks, T!Kept, T!Restrict
<1>3. IsWaiter(s, t)' => IsWaiter(s, t) \/ t \in T!Needs(s)
  <2>1. \/ UNCHANGED all_tasks
        \/ all_tasks' = T!Empty
        \/ \E u \in Tasks : all_tasks' = T!With(all_tasks, u, T!InfoOf(u))
    BY DEF NewAbove, T!links, T!read, T!forest, T!walk, T!Next, T!ProgramStep,
       T!UnwindStep, T!vars, T!program, T!CreateTask, T!RunTask, T!Suspend,
       T!AwaitTask, T!LinkTasks, T!Wakeup, T!FinishTask, T!GetAllTasks,
       T!CreateTaskInfo, T!CreateFails, T!GetAllTasksFails, T!CleanLinks,
       T!UnwindLeaf, T!NextTask, T!FinishStack, T!UnwindDone
  <2>2. ASSUME NEW u \in Tasks, all_tasks' = T!With(all_tasks, u, T!InfoOf(u)),
               IsWaiter(s, t)'
        PROVE  IsWaiter(s, t) \/ t \in T!Needs(s)
    BY <2>2, TasksAssumption DEF IsWaiter, T!With, T!InfoOf, T!Needs
  <2> QED
    BY <2>1, <2>2, EmptyTypes DEF IsWaiter
<1>4. IsNext(s, t)' => IsAbove(s, t)
  <2>1. \/ UNCHANGED stack
        \/ Len(stack') \in {0, 1}
        \/ T!NextTask
    BY DEF NewAbove, T!links, T!read, T!forest, T!walk, T!Next, T!ProgramStep,
       T!UnwindStep, T!vars, T!program, T!CreateTask, T!RunTask, T!Suspend,
       T!AwaitTask, T!LinkTasks, T!Wakeup, T!FinishTask, T!GetAllTasks,
       T!CreateTaskInfo, T!CreateFails, T!GetAllTasksFails, T!CleanLinks,
       T!UnwindLeaf, T!NextTask, T!FinishStack, T!UnwindDone
  <2>2. ASSUME T!NextTask, IsNext(s, t)' PROVE IsAbove(s, t)
    <3> DEFINE x == T!Above(current_task)
    <3>1. /\ current_task \in Tasks
          /\ stack \in Seq(Tasks)
          /\ stack[Len(stack)] = current_task
      BY <2>2, Infos DEF T!NextTask, StackInv
    <3>2. /\ x \in DOMAIN all_tasks /\ x \in Tasks
          /\ IsWaiter(x, current_task) \/ IsLinked(x, current_task)
      BY <2>2, <3>1, Aboves DEF T!NextTask, IsWaiter, IsLinked
    <3>3. stack' = Append(stack, x)
      BY <2>2 DEF T!NextTask
    <3> HIDE DEF x
    <3>4. PICK i \in 1..(Len(stack') - 1) : stack'[i] = t /\ stack'[i + 1] = s
      BY <2>2 DEF IsNext
    <3>5. CASE i = Len(stack)
      BY <3>1, <3>2, <3>3, <3>4, <3>5 DEF IsAbove
    <3>6. CASE i # Len(stack)
      <4>1. i \in 1..(Len(stack) - 1)
        BY <3>1, <3>2, <3>3, <3>4, <3>6
      <4>2. stack[i] = t /\ stack[i + 1] = s
        BY <3>1, <3>2, <3>3, <3>4, <4>1
      <4> QED
        BY <4>1, <4>2 DEF IsAbove, IsNext
    <3> QED
      BY <3>5, <3>6
  <2>3. ASSUME Len(stack') \in {0, 1} PROVE ~IsNext(s, t)'
    BY <2>3 DEF IsNext
  <2>4. UNCHANGED stack /\ IsNext(s, t)' => IsNext(s, t)
    BY DEF IsNext
  <2> QED
    BY <2>1, <2>2, <2>3, <2>4 DEF IsAbove
<1> QED
  BY <1>1, <1>2, <1>3, <1>4 DEF IsAbove

LEMMA WaitStep ==
  ASSUME T!TypeOK, StackInv, UsedInv, WaitInv, [T!Next]_T!vars
  PROVE  WaitInv'
<1> SUFFICES ASSUME Orderly', NEW s \in Tasks, NEW t \in Tasks, IsAbove(s, t)'
             PROVE  /\ t \in task_used'
                    /\ T!Exists(t)' => T!Exists(s)' /\ (t \in T!Needs(s))'
  BY DEF WaitInv
<1>1. /\ Orderly
      /\ \A l \in Loops, u \in Tasks :
           T!CreateTask(l, u) => u \notin task_used
  BY ReusedStays, MayStays DEF Orderly
<1>2. task_used \subseteq task_used'
  BY DEF T!Next, T!ProgramStep, T!UnwindStep, T!vars, T!program, T!CreateTask,
     T!RunTask, T!Suspend, T!AwaitTask, T!LinkTasks, T!Wakeup, T!FinishTask,
     T!GetAllTasks, T!CreateTaskInfo, T!CreateFails, T!GetAllTasksFails,
     T!CleanLinks, T!UnwindLeaf, T!NextTask, T!FinishStack, T!UnwindDone
<1>3. ASSUME NEW a \in Tasks, NEW b \in Tasks, NewAbove(a, b), s = a, t = b
      PROVE  /\ t \in task_used'
             /\ T!Exists(t)' => T!Exists(s)' /\ (t \in T!Needs(s))'
  <2>1. T!Exists(s) /\ T!Exists(t) /\ t \in task_used
    BY <1>3 DEF NewAbove, T!AwaitTask, T!LinkTasks, T!MayNeed, T!Running,
       T!Exists, UsedInv
  <2>2. T!Exists(s)' /\ (t \in T!Needs(s))'
    BY <1>3, <2>1, TasksAssumption DEF NewAbove, T!AwaitTask, T!LinkTasks,
       T!Exists, T!Needs, T!TypeOK
  <2> QED
    BY <1>2, <2>1, <2>2
<1>4. ASSUME IsAbove(s, t)
      PROVE  /\ t \in task_used'
             /\ T!Exists(t)' => T!Exists(s)' /\ (t \in T!Needs(s))'
  <2>1. t \in task_used
    BY <1>1, <1>4 DEF WaitInv
  <2> SUFFICES ASSUME T!Exists(t)' PROVE T!Exists(s)' /\ (t \in T!Needs(s))'
    BY <1>2, <2>1
  <2>2. T!Exists(t)
    BY <1>1, <2>1 DEF T!Next, T!ProgramStep, T!UnwindStep, T!vars, T!program,
       T!CreateTask, T!RunTask, T!Suspend, T!AwaitTask, T!LinkTasks, T!Wakeup,
       T!FinishTask, T!GetAllTasks, T!CreateTaskInfo, T!CreateFails,
       T!GetAllTasksFails, T!CleanLinks, T!UnwindLeaf, T!NextTask,
       T!FinishStack, T!UnwindDone, T!Exists, T!TypeOK
  <2>3. T!Exists(s) /\ t \in T!Needs(s)
    BY <1>1, <1>4, <2>2 DEF WaitInv
  <2>4. ~T!MayLeave(s)
    BY <1>1, <2>2, <2>3 DEF T!MayLeave, Orderly
  <2>5. \A u \in Tasks : ~T!AwaitTask(s, u)
    BY <2>3, TasksAssumption DEF T!AwaitTask, T!Needs, UsedInv
  <2>6. T!Exists(s)'
    <3>1. ~T!FinishTask(s)
      BY <2>4 DEF T!FinishTask
    <3>2. \/ UNCHANGED loop
          \/ \E l \in Loops, u \in Tasks : loop' = [loop EXCEPT ![u] = l]
          \/ \E u \in Tasks \ {s} : loop' = [loop EXCEPT ![u] = nullptr]
      BY <3>1 DEF T!Next, T!ProgramStep, T!UnwindStep, T!vars, T!program,
         T!CreateTask, T!RunTask, T!Suspend, T!AwaitTask, T!LinkTasks,
         T!Wakeup, T!FinishTask, T!GetAllTasks, T!CreateTaskInfo,
         T!CreateFails, T!GetAllTasksFails, T!CleanLinks, T!UnwindLeaf,
         T!NextTask, T!FinishStack, T!UnwindDone
    <3> QED
      BY <2>3, <3>2, TasksAssumption DEF T!Exists, T!TypeOK
  <2>7. waits'[s] = waits[s] /\ children[s] \subseteq children'[s]
    <3>1. ~T!FinishTask(s) /\ ~T!Wakeup(s) /\ T!Needs(s) # {}
      BY <2>3, <2>4 DEF T!FinishTask, T!Wakeup
    <3> QED
      BY <3>1, <2>5 DEF T!links, T!read, T!forest, T!walk, T!Next,
         T!ProgramStep, T!UnwindStep, T!vars, T!program, T!CreateTask,
         T!RunTask, T!Suspend, T!AwaitTask, T!LinkTasks, T!Wakeup,
         T!FinishTask, T!GetAllTasks, T!CreateTaskInfo, T!CreateFails,
         T!GetAllTasksFails, T!CleanLinks, T!UnwindLeaf, T!NextTask,
         T!FinishStack, T!UnwindDone, T!TypeOK
  <2> QED
    BY <2>3, <2>6, <2>7 DEF T!Needs
<1>5. CASE \E a, b \in Tasks : NewAbove(a, b)
  BY <1>3, <1>4, <1>5, AboveNew
<1>6. CASE \A a, b \in Tasks : ~NewAbove(a, b)
  BY <1>4, <1>6, AboveOld
<1> QED
  BY <1>5, <1>6

(* A new edge from a to b closes no circle when b does not need a.         *)
LEMMA NoCircle ==
  ASSUME WaitInv, CircleInv, Orderly, NEW a \in Tasks, NEW b \in Tasks,
         T!Exists(a), ~T!Reaches(b, a), NEW S \in SUBSET Tasks, S # {},
         \A t \in S : \E s \in S : IsAbove(s, t) \/ (s = a /\ t = b)
  PROVE  FALSE
<1>1. PICK R \in SUBSET Tasks :
        b \in R /\ (\A u \in R : T!Needs(u) \subseteq R) /\ a \notin R
  BY DEF T!Reaches
<1>2. a \in S
  BY DEF CircleInv
<1> DEFINE U == {v \in S : T!Exists(v) /\ v \notin R}
<1>3. a \in U /\ U \in SUBSET Tasks
  BY <1>1, <1>2
<1>4. ASSUME NEW v \in U PROVE \E s \in U : IsAbove(s, v)
  <2>1. PICK s \in S : IsAbove(s, v)
    BY <1>1
  <2>2. T!Exists(s) /\ v \in T!Needs(s)
    BY <2>1 DEF WaitInv
  <2>3. s \notin R
    BY <1>1, <2>2
  <2> QED
    BY <2>1, <2>2, <2>3
<1> HIDE DEF U
<1> QED
  BY <1>3, <1>4 DEF CircleInv

LEMMA CircleStep ==
  ASSUME T!TypeOK, StackInv, UsedInv, WaitInv, CircleInv, [T!Next]_T!vars
  PROVE  CircleInv'
<1> SUFFICES ASSUME Orderly', NEW S \in SUBSET Tasks, S # {},
                    \A t \in S : \E s \in S : IsAbove(s, t)'
             PROVE  FALSE
  BY DEF CircleInv
<1>1. Orderly
  BY ReusedStays, MayStays DEF Orderly
<1>2. ASSUME NEW a \in Tasks, NEW b \in Tasks, NewAbove(a, b) PROVE FALSE
  <2>1. T!Exists(a) /\ T!MayNeed(a, b)
    BY <1>2 DEF NewAbove, T!AwaitTask, T!LinkTasks, T!Running
  <2>2. ~T!Reaches(b, a)
    BY <1>1, <2>1 DEF T!MayNeed, Orderly
  <2>3. \A t \in S : \E s \in S : IsAbove(s, t) \/ (s = a /\ t = b)
    BY <1>2, AboveNew
  <2> QED
    BY <1>1, <2>1, <2>2, <2>3, NoCircle
<1>3. CASE \A a, b \in Tasks : ~NewAbove(a, b)
  <2>1. \A t \in S : \E s \in S : IsAbove(s, t)
    BY <1>3, AboveOld
  <2> QED
    BY <1>1, <2>1 DEF CircleInv
<1> QED
  BY <1>2, <1>3

LEMMA NotTwice ==
  ASSUME T!TypeOK, StackInv, CircleInv
  PROVE  T!NeverTwice
<1> SUFFICES ASSUME Orderly, NEW i \in DOMAIN stack, NEW j \in DOMAIN stack,
                    i < j, stack[i] = stack[j]
             PROVE  FALSE
  <2>1. DOMAIN stack = 1..Len(stack) /\ Len(stack) \in Nat
    BY DEF StackInv
  <2> QED
    BY <2>1 DEF T!NeverTwice, Orderly, T!IsInjective
<1>1. /\ DOMAIN stack = 1..Len(stack)
      /\ Len(stack) \in Nat
      /\ i \in Nat
      /\ j \in Nat
      /\ i >= 1 /\ j <= Len(stack) /\ stack \in [1..Len(stack) -> Tasks]
  BY DEF StackInv
<1> DEFINE S == {stack[k] : k \in i..j}
<1>2. S \in SUBSET Tasks /\ stack[i] \in S
  BY <1>1
<1>3. ASSUME NEW k \in i..(j - 1)
      PROVE  IsAbove(stack[k + 1], stack[k]) /\ stack[k + 1] \in S
  BY <1>1 DEF IsAbove, IsNext
<1>4. ASSUME NEW t \in S PROVE \E s \in S : IsAbove(s, t)
  <2>1. PICK k \in i..j : t = stack[k]
    OBVIOUS
  <2>2. CASE k = j
    <3>1. i \in i..(j - 1)
      BY <1>1
    <3> QED
      BY <1>3, <2>1, <2>2, <3>1
  <2>3. CASE k # j
    <3>1. k \in i..(j - 1)
      BY <1>1, <2>3
    <3> QED
      BY <1>3, <2>1, <3>1
  <2> QED
    BY <2>2, <2>3
<1> HIDE DEF S
<1> QED
  BY <1>2, <1>4 DEF CircleInv

LEMMA OneLoop ==
  ASSUME Cardinality(Loops) = 1, NEW k \in Loops, NEW l \in Loops
  PROVE  k = l
BY TasksAssumption, FS_Singleton

LEMMA SeenStep ==
  ASSUME T!TypeOK, StackInv, UsedInv, SeenInv, [T!Next]_T!vars
  PROVE  SeenInv'
<1> SUFFICES ASSUME Cardinality(Loops) = 1, "fail" \notin may', ~T!Reused',
                    task_pc' = "read",
                    NEW t \in previous_task_objects', T!Exists(t)'
             PROVE  t \in unread' \cup DOMAIN all_tasks'
  BY DEF SeenInv
<1>1. /\ may' = may /\ ~T!Reused
      /\ \A l \in Loops, u \in Tasks :
           T!CreateTask(l, u) => u \notin task_used
  BY ReusedStays, MayStays
<1>2. previous_task_objects' = previous_task_objects
  BY DEF T!Next, T!ProgramStep, T!UnwindStep, T!vars, T!program, T!CreateTask,
     T!RunTask, T!Suspend, T!AwaitTask, T!LinkTasks, T!Wakeup, T!FinishTask,
     T!GetAllTasks, T!CreateTaskInfo, T!CreateFails, T!GetAllTasksFails,
     T!CleanLinks, T!UnwindLeaf, T!NextTask, T!FinishStack, T!UnwindDone,
     T!links, T!read, T!forest, T!walk
<1>3. t \in Tasks /\ t \in task_used
  BY <1>2 DEF T!TypeOK, UsedInv
<1>4. CASE \E l \in Loops : T!GetAllTasks(l)
  BY <1>3, <1>4 DEF T!GetAllTasks, T!program, T!Exists
<1>5. CASE task_pc = "read"
  <2>1. T!Exists(t)
    <3>1. \/ UNCHANGED loop
          \/ \E l \in Loops, u \in Tasks : T!CreateTask(l, u)
          \/ \E u \in Tasks : loop' = [loop EXCEPT ![u] = nullptr]
      BY DEF T!Next, T!ProgramStep, T!UnwindStep, T!vars, T!program,
         T!CreateTask, T!RunTask, T!Suspend, T!AwaitTask, T!LinkTasks,
         T!Wakeup, T!FinishTask, T!GetAllTasks, T!CreateTaskInfo,
         T!CreateFails, T!GetAllTasksFails, T!CleanLinks, T!UnwindLeaf,
         T!NextTask, T!FinishStack, T!UnwindDone, T!links, T!read, T!forest,
         T!walk
    <3>2. ASSUME NEW l \in Loops, NEW u \in Tasks, T!CreateTask(l, u)
          PROVE  T!Exists(t)
      <4>1. u # t
        BY <1>1, <1>3, <3>2
      <4> QED
        BY <3>2, <4>1 DEF T!CreateTask, T!Exists, T!TypeOK
    <3> QED
      BY <1>3, <3>1, <3>2 DEF T!Exists, T!TypeOK
  <2>2. t \in unread \cup DOMAIN all_tasks
    BY <1>1, <1>2, <1>5, <2>1 DEF SeenInv
  <2>3. ASSUME NEW u \in Tasks, T!CreateTaskInfo(u)
        PROVE  t \in unread' \cup DOMAIN all_tasks'
    <3>1. asyncio_loop \in Loops
      BY <1>5 DEF StackInv
    <3>2. loop[t] \in Loops
      BY <1>3, <2>1 DEF T!Exists, T!TypeOK
    <3>3. loop[t] = asyncio_loop
      BY <3>1, <3>2, OneLoop
    <3> QED
      BY <2>2, <2>3, <3>3 DEF T!CreateTaskInfo, T!With
  <2>4. ASSUME NEW u \in Tasks, T!CreateFails(u)
        PROVE  t \in unread' \cup DOMAIN all_tasks'
    BY <1>1, <2>1, <2>2, <2>4 DEF T!CreateFails
  <2>5. \/ \E u \in Tasks : T!CreateTaskInfo(u) \/ T!CreateFails(u)
        \/ UNCHANGED <<unread, all_tasks>>
    BY <1>5 DEF T!Next, T!ProgramStep, T!UnwindStep, T!vars, T!program,
       T!CreateTask, T!RunTask, T!Suspend, T!AwaitTask, T!LinkTasks, T!Wakeup,
       T!FinishTask, T!GetAllTasks, T!CreateTaskInfo, T!CreateFails,
       T!GetAllTasksFails, T!CleanLinks, T!UnwindLeaf, T!NextTask,
       T!FinishStack, T!UnwindDone, T!links, T!read, T!forest, T!walk
  <2> QED
    BY <2>2, <2>3, <2>4, <2>5
<1>6. (\E l \in Loops : T!GetAllTasks(l)) \/ task_pc = "read"
  BY DEF T!Next, T!ProgramStep, T!UnwindStep, T!vars, T!program, T!CreateTask,
     T!RunTask, T!Suspend, T!AwaitTask, T!LinkTasks, T!Wakeup, T!FinishTask,
     T!GetAllTasks, T!CreateTaskInfo, T!CreateFails, T!GetAllTasksFails,
     T!CleanLinks, T!UnwindLeaf, T!NextTask, T!FinishStack, T!UnwindDone,
     T!links, T!read, T!forest, T!walk
<1> QED
  BY <1>4, <1>5, <1>6

LEMMA RenderStep ==
  ASSUME T!TypeOK, StackInv, RenderInv, [T!Next]_T!vars
  PROVE  RenderInv'
<1> USE DEF T!IsWaiting, T!Skipped
<1> SUFFICES ASSUME task_pc' \in {"leaf", "walk"}, ~relinked'
             PROVE  RenderInv'
  BY DEF RenderInv
<1>1. ASSUME UNCHANGED <<task_link_map, T!forest, all_tasks, task_pc,
                         leaf_tasks, stack, rendered>>,
             relinked' = relinked
      PROVE  RenderInv'
  BY <1>1 DEF RenderInv, T!forest, T!Above, T!Leaves
<1>2. CASE T!CleanLinks
  <2>1. stack' = <<>> /\ Len(stack') = 0 /\ rendered' = {}
    BY <1>2 DEF T!CleanLinks, StackInv
  <2>2. /\ leaf_tasks' = T!Leaves(parent_tasks)'
        /\ parent_tasks' = T!Range(task_link_map)'
    BY <1>2 DEF T!CleanLinks, T!Leaves, T!read, T!Range
  <2> QED
    BY <2>1, <2>2 DEF RenderInv
<1>3. ASSUME NEW t \in Tasks, T!UnwindLeaf(t) PROVE RenderInv'
  <2>1. /\ stack = <<>> /\ T!Range(stack) = {}
        /\ stack' = <<t>> /\ Len(stack') = 1 /\ T!Range(stack') = {t}
    BY <1>3 DEF T!UnwindLeaf, StackInv, T!Range
  <2>2. /\ task_pc = "leaf"
        /\ ~relinked
        /\ UNCHANGED <<task_link_map, all_tasks, T!forest, rendered>>
    BY <1>3 DEF T!UnwindLeaf, T!links, T!read
  <2>3. leaf_tasks' = leaf_tasks \ {t}
    BY <1>3 DEF T!UnwindLeaf
  <2> QED
    BY <2>1, <2>2, <2>3 DEF RenderInv, T!forest, T!Above, T!Leaves
<1>4. CASE T!NextTask
  <2> DEFINE x == T!Above(current_task)
  <2>1. /\ stack \in Seq(Tasks) /\ Len(stack) > 0 /\ stack[Len(stack)] = current_task
        /\ x \in Tasks /\ Len(stack) \in Nat
    BY <1>4, Infos, Aboves DEF T!NextTask, StackInv
  <2>2. /\ task_pc = "walk" /\ ~relinked
        /\ UNCHANGED <<task_link_map, all_tasks, T!forest, rendered, leaf_tasks>>
    BY <1>4 DEF T!NextTask, T!links, T!read
  <2>3. stack' = Append(stack, x)
    BY <1>4 DEF T!NextTask
  <2>4. \A u : T!Above(u)' = T!Above(u)
    BY <2>2 DEF T!Above, T!forest
  <2>5. T!Leaves(parent_tasks)' = T!Leaves(parent_tasks)
    BY <2>2 DEF T!Leaves, T!forest
  <2>6. ASSUME NEW i \in 1..(Len(stack') - 1)
        PROVE  T!Above(stack'[i]) = stack'[i + 1]
    <3>1. CASE i = Len(stack)
      <4>1. stack'[i] = current_task /\ stack'[i + 1] = x
        BY <2>1, <2>3, <3>1
      <4> QED
        BY <4>1
    <3>2. CASE i # Len(stack)
      <4>1. i \in 1..(Len(stack) - 1)
        BY <2>1, <2>3, <3>2
      <4>2. stack'[i] = stack[i] /\ stack'[i + 1] = stack[i + 1]
        BY <2>1, <2>3, <4>1
      <4> QED
        BY <2>2, <4>1, <4>2 DEF RenderInv
    <3> QED
      BY <3>1, <3>2
  <2>7. T!Range(stack) \subseteq T!Range(stack')
    <3> HIDE DEF x
    <3> QED
      BY <2>1, <2>3 DEF T!Range
  <2> QED
    BY <2>2, <2>4, <2>5, <2>6, <2>7 DEF RenderInv, T!forest
<1>5. CASE T!FinishStack
  <2>1. /\ stack \in Seq(Tasks) /\ Len(stack) > 0 /\ stack[Len(stack)] = current_task
        /\ Len(stack) \in Nat /\ T!Above(current_task) = nullptr
    BY <1>5 DEF T!FinishStack, StackInv
  <2>2. /\ task_pc = "walk" /\ ~relinked
        /\ UNCHANGED <<task_link_map, all_tasks, T!forest, leaf_tasks>>
        /\ rendered' = rendered \cup T!Range(stack)
        /\ stack' = <<>> /\ Len(stack') = 0
    BY <1>5 DEF T!FinishStack, T!links, T!read
  <2>3. \A u : T!Above(u)' = T!Above(u)
    BY <2>2 DEF T!Above, T!forest
  <2>4. T!Leaves(parent_tasks)' = T!Leaves(parent_tasks)
    BY <2>2 DEF T!Leaves, T!forest
  <2>5. ASSUME NEW t \in T!Range(stack)
        PROVE  T!Above(t) \in T!Range(stack) \cup {nullptr}
    <3>1. PICK i \in 1..Len(stack) : t = stack[i]
      BY <2>1 DEF T!Range
    <3>2. CASE i = Len(stack)
      BY <2>1, <3>1, <3>2
    <3>3. CASE i # Len(stack)
      <4>1. i \in 1..(Len(stack) - 1) /\ i + 1 \in 1..Len(stack)
        BY <2>1, <3>3
      <4>2. T!Above(t) = stack[i + 1]
        BY <2>2, <3>1, <4>1 DEF RenderInv
      <4> QED
        BY <2>1, <4>1, <4>2 DEF T!Range
    <3> QED
      BY <3>2, <3>3
  <2>6. /\ parent_tasks = T!Range(task_link_map)
        /\ \A t \in rendered : T!Above(t) \in rendered \cup {nullptr}
        /\ T!Leaves(parent_tasks) \subseteq rendered \cup leaf_tasks \cup T!Range(stack)
    BY <2>2 DEF RenderInv
  <2>7. \A t \in rendered' : T!Above(t)' \in rendered' \cup {nullptr}
    BY <2>2, <2>3, <2>5, <2>6
  <2>8. parent_tasks' = T!Range(task_link_map)'
    BY <2>2, <2>6 DEF T!forest, T!Range
  <2>9. T!Leaves(parent_tasks)' \subseteq rendered' \cup leaf_tasks'
    BY <2>2, <2>4, <2>6
  <2> QED
    BY <2>2, <2>7, <2>8, <2>9 DEF RenderInv
<1>6. \/ T!CleanLinks \/ T!NextTask \/ T!FinishStack \/ \E t \in Tasks : T!UnwindLeaf(t)
      \/ UNCHANGED <<task_link_map, T!forest, all_tasks, task_pc, leaf_tasks,
                     stack, rendered, relinked>>
  BY DEF T!Next, T!ProgramStep, T!UnwindStep, T!vars, T!program, T!CreateTask,
     T!RunTask, T!Suspend, T!AwaitTask, T!LinkTasks, T!Wakeup, T!FinishTask,
     T!GetAllTasks, T!CreateTaskInfo, T!CreateFails, T!GetAllTasksFails,
     T!CleanLinks, T!UnwindLeaf, T!NextTask, T!FinishStack, T!UnwindDone,
     T!links, T!read, T!forest, T!walk
<1> QED
  BY <1>1, <1>2, <1>3, <1>4, <1>5, <1>6

LEMMA TaskStart == T!Init => TaskInv
<1> SUFFICES ASSUME T!Init PROVE TaskInv
  OBVIOUS
<1> USE TasksAssumption DEF T!Init
<1>1. /\ T!Range(stack) = {} /\ stack = <<>> /\ stack \in Seq(Tasks) /\ Len(stack) = 0
      /\ DOMAIN task_link_map = {} /\ DOMAIN all_tasks = {}
  BY EmptyTypes DEF T!Range
<1>2. T!TypeOK
  <2>1. /\ task_link_map \in T!Partial(Tasks, Tasks) /\ waitee_map \in T!Partial(Tasks, Tasks)
        /\ all_tasks \in T!Partial(Tasks, T!TaskInfo)
    BY EmptyTypes
  <2>2. /\ loop \in [Tasks -> Loops \cup {nullptr}]
        /\ waits \in [Tasks -> Tasks \cup {nullptr}]
        /\ children \in [Tasks -> SUBSET Tasks]
        /\ task_current \in [Loops -> Tasks \cup {nullptr}]
        /\ may \in DOMAIN Programs /\ created \in 0..Programs[may]
    OBVIOUS
  <2> HIDE DEF T!Init
  <2>3. /\ task_used \subseteq Tasks /\ previous_task_objects \subseteq Tasks
        /\ relinked \in BOOLEAN /\ task_pc \in {"idle", "read", "leaf", "walk"}
        /\ asyncio_loop \in Loops \cup {nullptr}
        /\ unread \subseteq Tasks /\ parent_tasks \subseteq Tasks
        /\ leaf_tasks \subseteq Tasks /\ current_task \in Tasks \cup {nullptr}
        /\ on_cpu_task_seen \in BOOLEAN /\ rendered \subseteq Tasks
    BY DEF T!Init
  <2> QED
    BY <1>1, <2>1, <2>2, <2>3 DEF T!TypeOK
<1>3. StackInv /\ SeenInv /\ RenderInv
  BY <1>1 DEF StackInv, SeenInv, RenderInv
<1>4. UsedInv
  <2>1. Cardinality(task_used) = 0
    BY FS_EmptySet
  <2> QED
    BY <1>1, <2>1 DEF UsedInv, T!Exists, T!Running
<1>5. \A s, t \in Tasks : ~IsAbove(s, t)
  BY <1>1 DEF IsAbove, T!Needs, IsWaiter, IsLinked, IsNext
<1>6. WaitInv /\ CircleInv
  BY <1>5 DEF WaitInv, CircleInv
<1> QED
  BY <1>2, <1>3, <1>4, <1>6 DEF TaskInv

LEMMA TaskStep == TaskInv /\ [T!Next]_T!vars => TaskInv'
BY TypeStep, StackStep, UsedStep, WaitStep, CircleStep, SeenStep, RenderStep
   DEF TaskInv

LEMMA KeptStep ==
  ASSUME T!TypeOK, StackInv, SeenInv, [T!Next]_T!vars, Cardinality(Loops) = 1,
         "fail" \notin may, ~T!Reused, NEW c \in DOMAIN task_link_map, T!Exists(c)'
  PROVE  c \in DOMAIN task_link_map'
<1>1. CASE T!CleanLinks
  <2>1. c \in T!Kept
    BY <1>1 DEF T!CleanLinks, SeenInv, T!Stale, T!Kept, T!Exists, T!program
  <2> QED
    BY <1>1, <2>1 DEF T!CleanLinks, T!Restrict
<1>2. CASE \E t, u \in Tasks : T!LinkTasks(t, u)
  BY <1>2 DEF T!LinkTasks, T!With
<1>3. \/ T!CleanLinks \/ UNCHANGED task_link_map
      \/ \E t, u \in Tasks : T!LinkTasks(t, u)
  BY DEF T!Next, T!ProgramStep, T!UnwindStep, T!vars, T!program, T!CreateTask,
     T!RunTask, T!Suspend, T!AwaitTask, T!LinkTasks, T!Wakeup, T!FinishTask,
     T!GetAllTasks, T!CreateTaskInfo, T!CreateFails, T!GetAllTasksFails,
     T!CleanLinks, T!UnwindLeaf, T!NextTask, T!FinishStack, T!UnwindDone,
     T!links, T!read, T!forest, T!walk
<1> QED
  BY <1>1, <1>2, <1>3

(* A function of a finite set that reaches all of it leads nowhere else.   *)
LEMMA Onto ==
  ASSUME NEW S, IsFiniteSet(S), NEW f, \A t \in S : \E w \in S : f[w] = t
  PROVE  \A w \in S : f[w] \in S
<1> SUFFICES ASSUME NEW v \in S, f[v] \notin S
             PROVE  FALSE
  OBVIOUS
<1> DEFINE W == {w \in S : f[w] \in S}
           g == [w \in W |-> f[w]]
<1>1. g \in Surjection(W, S)
  BY DEF Surjection
<1>2. W \in SUBSET S /\ W # S
  OBVIOUS
<1> HIDE DEF W, g
<1>3. /\ IsFiniteSet(W)
      /\ Cardinality(W) <= Cardinality(S)
      /\ Cardinality(W) # Cardinality(S)
  BY <1>2, FS_Subset
<1>4. Cardinality(S) <= Cardinality(W)
  BY <1>1, <1>3, FS_Surjection
<1>5. Cardinality(S) \in Nat /\ Cardinality(W) \in Nat
  BY <1>3, FS_CardinalityType
<1> QED
  BY <1>3, <1>4, <1>5

LEMMA Rendered ==
  ASSUME T!TypeOK, StackInv, RenderInv
  PROVE  T!AllRendered
<1> SUFFICES ASSUME task_pc = "leaf", leaf_tasks = {}, ~IgnoreIdle, T!WellFormed
             PROVE  rendered = DOMAIN all_tasks
  BY DEF T!AllRendered
<1> DEFINE S == DOMAIN all_tasks \ rendered
           f == [w \in S |-> T!Above(w)]
<1>1. DOMAIN all_tasks \subseteq Tasks /\ nullptr \notin Tasks
  BY TasksAssumption, Partials DEF T!TypeOK
<1>2. /\ parent_tasks = T!Range(task_link_map)
      /\ \A t \in rendered : T!Above(t) \in rendered \cup {nullptr}
      /\ T!Leaves(parent_tasks) \subseteq rendered
  <2>1. T!Range(stack) = {}
    BY DEF StackInv, T!Range
  <2> QED
    BY <2>1 DEF RenderInv, T!WellFormed
<1>3. /\ DOMAIN waitee_map =
           {all_tasks[t].waiter : t \in {u \in DOMAIN all_tasks : T!IsWaiting(u)}}
      /\ \A w \in DOMAIN waitee_map :
           waitee_map[w] \in DOMAIN all_tasks /\ all_tasks[waitee_map[w]].waiter = w
  BY Waitees DEF StackInv
<1>4. ASSUME NEW t \in S PROVE \E w \in S : T!Above(w) = t
  <2>1. T!IsWaiting(t) \/ t \in parent_tasks
    BY <1>2 DEF T!Leaves, T!Skipped
  <2>2. ASSUME NEW w \in DOMAIN all_tasks, T!Above(w) = t PROVE w \in S
    BY <1>1, <1>2, <2>2
  <2>3. CASE T!IsWaiting(t)
    <3> DEFINE w == all_tasks[t].waiter
    <3>1. w \in DOMAIN all_tasks /\ w \in DOMAIN waitee_map
      BY <1>3, <2>3 DEF T!WellFormed
    <3>2. /\ waitee_map[w] \in DOMAIN all_tasks
          /\ all_tasks[waitee_map[w]].waiter = w
      BY <1>3, <3>1
    <3>3. waitee_map[w] = t
      BY <2>3, <3>2 DEF T!WellFormed
    <3>4. T!Above(w) = t
      BY <3>1, <3>3 DEF T!Above
    <3> QED
      BY <2>2, <3>1, <3>4
  <2>4. CASE t \in parent_tasks
    <3>1. PICK w \in DOMAIN task_link_map : task_link_map[w] = t
      BY <1>2, <2>4 DEF T!Range
    <3>2. w \in DOMAIN all_tasks
      BY DEF T!WellFormed
    <3>3. w \notin DOMAIN waitee_map
      BY <1>3 DEF T!WellFormed
    <3>4. T!Above(w) = t
      BY <3>1, <3>3 DEF T!Above
    <3> QED
      BY <2>2, <3>2, <3>4
  <2> QED
    BY <2>1, <2>3, <2>4
<1>5. IsFiniteSet(S)
  BY <1>1, TasksAssumption, FS_Subset
<1>6. \A t \in S : \E w \in S : f[w] = t
  BY <1>4
<1>7. \A w \in S : f[w] \in S
  <2> HIDE DEF S, f
  <2> QED
    BY <1>5, <1>6, Onto
<1>8. S = {}
  BY <1>7 DEF T!WellFormed
<1> QED
  BY <1>8 DEF StackInv

-----------------------------------------------------------------------------
(* Both, and the walks over any links of greenlets.                        *)

MCInv ==
  /\ part \in {"tasks", "greenlets", "walk"}
  /\ part # "walk" => GreenletInv
  /\ part = "walk" => WalkInv
  /\ part = "tasks" => TaskInv

LEMMA MCStep ==
  ASSUME MCInv, [MCNext]_<<part, vars, task_vars>>
  PROVE  /\ MCInv' /\ part' = part
         /\ [Next]_vars
         /\ part = "tasks" => [T!Next]_T!vars
         /\ part # "tasks" => UNCHANGED T!vars
<1> USE DEF MCInv
<1>1. UNCHANGED task_vars => UNCHANGED T!vars
  BY DEF task_vars, T!vars, T!program, T!links, T!read, T!forest, T!walk
<1>2. UNCHANGED T!vars /\ TaskInv => TaskInv'
  BY TaskStep
<1>3. UNCHANGED vars /\ GreenletInv => GreenletInv'
  BY GreenletStep
<1>4. UNCHANGED vars /\ WalkInv => WalkInv'
  BY WalkStep
<1>5. CASE part = "tasks" /\ T!Next /\ UNCHANGED <<part, vars>>
  BY <1>3, <1>5, TaskStep
<1>6. CASE part = "greenlets" /\ Next /\ UNCHANGED <<part, task_vars>>
  BY <1>1, <1>6, GreenletStep
<1>7. CASE part = "walk" /\ LinkedNext /\ UNCHANGED <<part, task_vars>>
  <2>1. Next
    BY <1>7 DEF LinkedNext, Next
  <2> QED
    BY <1>1, <1>7, <2>1, WalkStep
<1>8. CASE UNCHANGED <<part, vars, task_vars>>
  BY <1>1, <1>2, <1>3, <1>4, <1>8
<1> QED
  BY <1>5, <1>6, <1>7, <1>8 DEF MCNext

THEOREM TasksInvariant == MCSpec => []MCInv
<1>1. MCInit => MCInv
  BY GreenletStart, WalkStart, TaskStart DEF MCInit, MCInv
<1>2. MCInv /\ [MCNext]_<<part, vars, task_vars>> => MCInv'
  BY MCStep
<1> QED
  BY <1>1, <1>2, PTL DEF MCSpec

(* The greenlets the hooks have told of, the tasks and the snapshot keep   *)
(* to the types that the maps of echion give them.                         *)
THEOREM TasksTyped == MCSpec => []TypesOK
<1>1. MCInv => TypesOK
  BY DEF MCInv, GreenletInv, WalkInv, TaskInv, TypesOK
<1> QED
  BY <1>1, TasksInvariant, PTL

(* Where joins are disciplined, what the maps of the gevent hooks and of   *)
(* echion say of greenlets agrees, and is true of the program: for any     *)
(* number of threads, greenlets, spawns and joins.                         *)
THEOREM MapsAreTrue == MCSpec => []MapsTrue
<1>1. WalkInv => MapsTrue
  BY DEF WalkInv, MapsTrue, CountsAgree, Untracked, OnlyCurrentIsNone
<1>2. MCInv => MapsTrue
  BY <1>1, TrueMaps DEF MCInv
<1> QED
  BY <1>2, TasksInvariant, PTL

(* unwind_tasks loses no task of a well-formed snapshot: every one is in a *)
(* stack, as a leaf or above one, whatever the program does meanwhile.     *)
THEOREM AllAreRendered == MCSpec => []AllRendered
<1>1. MCInv => AllRendered
  BY Rendered DEF MCInv, TaskInv, AllRendered
<1> QED
  BY <1>1, TasksInvariant, PTL

(* The clean-up of task_link_map removes no link of a task that exists,    *)
(* where one loop runs and no address has been used again.                 *)
THEOREM LinksStay == MCSpec => LinksKept
<1>1. MCInv /\ [MCNext]_<<part, vars, task_vars>> =>
      [T!Cardinality(Loops) = 1 /\ "fail" \notin may /\ ~T!Reused =>
         \A c \in DOMAIN task_link_map :
           T!Exists(c)' => c \in DOMAIN task_link_map']_T!vars
  BY MCStep, KeptStep, SameCardinality DEF MCInv, TaskInv
<1> QED
  BY <1>1, TasksInvariant, PTL DEF MCSpec, LinksKept, T!LinksKept

(* GreenletInfo::unwind reads, unchecked, only frame objects that are      *)
(* still there, where joins are disciplined.                               *)
THEOREM FramesLive == MCSpec => ReadsLiveFrames
<1>1. MCInv /\ [MCNext]_<<part, vars, task_vars>> =>
      [disciplined /\ greenlet_id' \notin {greenlet_id, nullptr} =>
         LET f == greenlet_info_map[greenlet_id']
         IN f # Py_None => Lives(f)]_vars
  <2> SUFFICES ASSUME MCInv, [MCNext]_<<part, vars, task_vars>>,
                      disciplined, greenlet_id' \notin {greenlet_id, nullptr},
                      greenlet_info_map[greenlet_id'] # Py_None
               PROVE  Lives(greenlet_info_map[greenlet_id'])
    OBVIOUS
  <2> QED
    BY MCStep, LiveStep DEF MCInv, WalkInv
<1> QED
  BY <1>1, TasksInvariant, PTL DEF MCSpec, ReadsLiveFrames

(* No walk goes round in a circle: no task is put twice into a stack while *)
(* the program is orderly, and no greenlet is climbed from twice, however  *)
(* the greenlets are linked.                                               *)
THEOREM WalksDoEnd == MCSpec => WalksEnd
<1>1. MCInv => (part = "tasks" => T!NeverTwice)
  BY NotTwice DEF MCInv, TaskInv
<1>2. MCInv /\ [MCNext]_<<part, vars, task_vars>> =>
      [greenlet_id # nullptr /\ greenlet_id' \notin {greenlet_id, nullptr}
         => greenlet_id \in visited' \ visited]_vars
  BY MCStep, ClimbStep
<1> QED
  BY <1>1, <1>2, TasksInvariant, PTL DEF MCSpec, WalksEnd, ClimbsOnce
=============================================================================
