-------------------------------- MODULE Frames --------------------------------
(***************************************************************************)
(* What Echion writes into its output file, and the two caches that decide *)
(* when something is written once and only referred to afterwards: the     *)
(* string table (strings.h) and the LRU cache of frames (cache.h,          *)
(* frame.cc), together with the stacks of references into that cache that  *)
(* ThreadInfo::sample and do_where fill and render (stacks.h, tasks.h,     *)
(* greenlets.h, render.h).                                                 *)
(*                                                                         *)
(* The sampler and the where listener unwind under thread_info_map_lock,   *)
(* so `who` is both the callback in progress and the holder of the lock.   *)
(* Python threads track greenlets, and so fill the string table, at any    *)
(* time.  Sessions follow each other (module Lifecycle); the modes that    *)
(* unwind from the program's own threads (native, memory) are left out.    *)
(*                                                                         *)
(* A frame's key is its code location, or the string table key of the name *)
(* when it is the frame of a task or a greenlet; nullptr is the cache key  *)
(* 0 of INVALID_FRAME.  The reserved strings 0, 1 and 2 are left out.      *)
(***************************************************************************)
EXTENDS Naturals, Sequences

CONSTANTS
  Locations,      (* Frame::key(code, lasti): where a thread can be        *)
  CodeStrings,    (* file and function names                               *)
  StringsOf,      (* the file and the function name of every location      *)
  TaskNames,      (* names of asyncio tasks                                *)
  GreenletNames,  (* names of greenlets                                    *)
  Capacity,       (* CACHE_MAX_ENTRIES                                     *)
  MaxFrames,      (* max_frames                                            *)
  MaxExtra,       (* bound on the frames of all task and greenlet stacks   *)
  MaxSessions,    (* bound on the number of sessions                       *)
  MaxDumps,       (* bound on the number of SIGQUIT dumps                  *)
  nullptr

Labels  == TaskNames \cup GreenletNames
Keys    == Locations \cup Labels
Strings == CodeStrings \cup Labels

ASSUME FramesAssumption ==
  /\ StringsOf \in [Locations -> SUBSET CodeStrings]
  /\ Locations \cap Labels = {}
  /\ Capacity \in Nat \ {0}
  /\ MaxFrames \in Nat
  /\ MaxExtra \in Nat
  /\ MaxSessions \in Nat
  /\ MaxDumps \in Nat
  /\ nullptr \notin Keys \cup {"sampler", "listener"}

VARIABLES
  phase,         (* where _start, _sampler, _stop are                      *)
  where_thread,  (* is the where listener there?                           *)
  dumping,       (* is it inside do_where?                                 *)
  who, pc,       (* whose callback holds the map lock, and how far it is   *)
  string_table,  (* keys of the strings in the table                       *)
  greenlets,     (* names in greenlet_info_map                             *)
  frame_cache,   (* has the cache been allocated?                          *)
  items,         (* its list of keys, most recently used first             *)
  index,         (* the keys its hash map finds                            *)
  python_stack,  (* references to frames                                   *)
  current_tasks,     (* those of the stacks of the tasks, one after another *)
  current_greenlets, (* and of the greenlets                                *)
  file,          (* the output file of the session                         *)
  sessions, dumps

session == <<phase, where_thread, sessions>>
control == <<who, pc, dumping, dumps>>
cache   == <<frame_cache, items, index>>
stacks  == <<python_stack, current_tasks, current_greenlets>>
vars    == <<phase, where_thread, dumping, who, pc, string_table, greenlets,
             frame_cache, items, index, python_stack, current_tasks,
             current_greenlets, file, sessions, dumps>>

(* A Frame::Ref: the key of the frame, and whether the frame still exists. *)
Ref == [key : Keys \cup {nullptr}, live : BOOLEAN]

(* The stream: the strings and frames it has defined, the frames it has    *)
(* referred to.  `wild` records that a destroyed frame was rendered, whose *)
(* key can be anything; `clean` that no string was known before the file.  *)
File == [open : BOOLEAN, clean : BOOLEAN, wild : BOOLEAN,
         strings : SUBSET Strings, frames : SUBSET Keys, refs : SUBSET Keys]

TypeOK ==
  /\ phase \in {"off", "cache", "opened", "listening", "on", "cleared",
                "joined", "closed"}
  /\ where_thread \in BOOLEAN
  /\ dumping \in BOOLEAN
  /\ who \in {"sampler", "listener", nullptr}
  /\ pc \in {"idle", "unwinding", "unwound", "task", "tasks", "greenlet",
             "greenlets"}
  /\ string_table \subseteq Strings
  /\ greenlets \subseteq GreenletNames
  /\ frame_cache \in BOOLEAN
  /\ items \in Seq(Keys)
  /\ index \subseteq Keys
  /\ python_stack \in Seq(Ref)
  /\ current_tasks \in Seq(Ref)
  /\ current_greenlets \in Seq(Ref)
  /\ file \in File
  /\ sessions \in Nat
  /\ dumps \in Nat

(* Echion has been imported and not started. *)
Init ==
  /\ phase = "off" /\ where_thread = FALSE /\ sessions = 0
  /\ who = nullptr /\ pc = "idle" /\ dumping = FALSE /\ dumps = 0
  /\ string_table = {} /\ greenlets = {}
  /\ frame_cache = FALSE /\ items = <<>> /\ index = {}
  /\ python_stack = <<>> /\ current_tasks = <<>> /\ current_greenlets = <<>>
  /\ file = [open |-> FALSE, clean |-> FALSE, wild |-> FALSE,
             strings |-> {}, frames |-> {}, refs |-> {}]

-----------------------------------------------------------------------------
(* The stream.  An ofstream that is not open drops what it is given.       *)

WriteAfterHeader(f) ==
  file' = IF file.open /\ phase = "on" THEN f ELSE file

Write(f) == file' = IF file.open THEN f ELSE file

(* StringTable::key for each of some strings: the unknown ones enter the   *)
(* table and the stream, under the table's lock.                           *)
WithStrings(S) ==
  [file EXCEPT !.strings = @ \cup (S \ string_table)]

(* Renderer::frame, after the strings it names. *)
WithFrame(k, S) ==
  [WithStrings(S) EXCEPT !.frames = @ \cup {k}]

(* FrameStack::render refers to every frame of a stack; frame_ref writes   *)
(* FRAME_INVALID for the key 0 and FRAME_REF for any other.                *)
RefsTo(s) ==
  {s[i].key : i \in {j \in DOMAIN s : s[j].live}} \ {nullptr}

WithRefs(s) ==
  [file EXCEPT !.refs = @ \cup RefsTo(s),
               !.wild = @ \/ \E i \in DOMAIN s : ~s[i].live]

-----------------------------------------------------------------------------
(* The frame cache.                                                        *)

Unspliced(i) == [j \in 1..Len(items) |-> items[j]]

(* LRUCache::lookup: splice the i-th item to the front of the list. *)
Promoted(i) ==
  [j \in 1..Len(items) |->
     IF j = 1 THEN items[i] ELSE IF j <= i THEN items[j - 1] ELSE items[j]]

(* LRUCache::store: the last item leaves a full cache. *)
Full      == Len(items) >= Capacity
Evicted   == IF Full THEN {items[Len(items)]} ELSE {}
Stored(k) ==
  [j \in 1..(IF Full THEN Len(items) ELSE Len(items) + 1) |->
     IF j = 1 THEN k ELSE items[j - 1]]

Indexed(k) == (index \ Evicted) \cup {k}

(* References to destroyed frames dangle. *)
Without(s, dead) ==
  [i \in DOMAIN s |->
     [s[i] EXCEPT !.live = s[i].live /\ s[i].key \notin dead]]

(* The names a new frame needs: Frame::create asks the string table for    *)
(* those of the code; the name of a task or a greenlet is given.           *)
NamesOf(k) == IF k \in Locations THEN StringsOf[k] ELSE {}

(* Frame::get, for a key in the cache and for one that is not; ps, ts and  *)
(* gs are the stacks with the reference it returns.                        *)
Hit(k, ps, ts, gs) ==
  /\ k \in index
  /\ \E i \in DOMAIN items : items[i] = k /\ items' = Promoted(i)
  /\ python_stack' = ps
  /\ current_tasks' = ts
  /\ current_greenlets' = gs
  /\ UNCHANGED <<frame_cache, index, string_table, file>>

Miss(k, ps, ts, gs) ==
  /\ k \notin index
  /\ string_table' = string_table \cup NamesOf(k)
  /\ Write(WithFrame(k, NamesOf(k)))
  /\ items' = Stored(k)
  /\ index' = Indexed(k)
  /\ python_stack' = Without(ps, Evicted)
  /\ current_tasks' = Without(ts, Evicted)
  /\ current_greenlets' = Without(gs, Evicted)
  /\ UNCHANGED frame_cache

GetFrame(k, ps, ts, gs) == Hit(k, ps, ts, gs) \/ Miss(k, ps, ts, gs)

(* A code object that cannot be read or decoded, possibly after some of    *)
(* its strings were read: Frame::get returns INVALID_FRAME.                *)
ReadBefore(k) == SUBSET NamesOf(k)

GetInvalid(k, ps, ts, gs) ==
  /\ k \notin index
  /\ \E S \in ReadBefore(k) :
       /\ string_table' = string_table \cup S
       /\ Write(WithStrings(S))
  /\ python_stack' = ps
  /\ current_tasks' = ts
  /\ current_greenlets' = gs
  /\ UNCHANGED cache

RefTo(k) == [key |-> k, live |-> TRUE]
Invalid  == RefTo(nullptr)

-----------------------------------------------------------------------------
(* A callback of for_each_thread: unwind a thread, then render it.         *)

(* The listener answers a SIGQUIT: do_where begins, and ends when it has   *)
(* been through the threads.                                               *)
BeginDump ==
  /\ where_thread
  /\ phase \in {"listening", "on"}
  /\ ~dumping
  /\ dumps < MaxDumps
  /\ dumping' = TRUE
  /\ dumps' = dumps + 1
  /\ UNCHANGED <<session, who, pc, string_table, greenlets, cache, stacks,
                 file>>

EndDump ==
  /\ dumping
  /\ who # "listener"
  /\ dumping' = FALSE
  /\ UNCHANGED <<session, who, pc, dumps, string_table, greenlets, cache,
                 stacks, file>>

(* Take the map lock for a thread and enter unwind_python_stack. *)
Callback(w) ==
  /\ who = nullptr
  /\ w = "sampler" => phase = "on"
  /\ w = "listener" => dumping
  /\ who' = w
  /\ pc' = "unwinding"
  /\ python_stack' = <<>>
  /\ UNCHANGED <<session, dumping, dumps, string_table, greenlets, cache,
                 current_tasks, current_greenlets, file>>

(* unwind_frame: one more frame of the thread; INVALID_FRAME is the last. *)
ReadFrame(k) ==
  /\ pc = "unwinding"
  /\ Len(python_stack) < MaxFrames
  /\ GetFrame(k, Append(python_stack, RefTo(k)), current_tasks,
              current_greenlets)
  /\ UNCHANGED <<session, control, greenlets>>

ReadInvalid(k) ==
  /\ pc = "unwinding"
  /\ Len(python_stack) < MaxFrames
  /\ GetInvalid(k, Append(python_stack, Invalid), current_tasks,
                current_greenlets)
  /\ pc' = "unwound"
  /\ UNCHANGED <<session, who, dumping, dumps, greenlets>>

(* The end of the stack, a frame that cannot be copied, or a cycle. *)
StackEnds ==
  /\ pc = "unwinding"
  /\ pc' = "unwound"
  /\ UNCHANGED <<session, who, dumping, dumps, string_table, greenlets,
                 cache, stacks, file>>

(* TaskInfo::create, for the tasks of the thread's loop. *)
TaskKey(n) ==
  /\ pc = "unwound"
  /\ string_table' = string_table \cup {n}
  /\ Write(WithStrings({n}))
  /\ UNCHANGED <<session, control, greenlets, cache, stacks>>

(* unwind_tasks.  There is room for a frame and for the name that follows. *)
Extra == Len(current_tasks) + Len(current_greenlets)
Room  == Extra + 1 < MaxExtra

(* A frame of a coroutine.  TaskInfo::unwind drops again the frames below  *)
(* the outermost coroutine.                                                *)
TaskFrame(k) ==
  /\ pc \in {"unwound", "task", "tasks"}
  /\ Room
  /\ \/ GetFrame(k, python_stack, Append(current_tasks, RefTo(k)),
                 current_greenlets)
     \/ GetFrame(k, python_stack, current_tasks, current_greenlets)
     \/ GetInvalid(k, python_stack, Append(current_tasks, Invalid),
                   current_greenlets)
  /\ pc' = "task"
  /\ UNCHANGED <<session, who, dumping, dumps, greenlets>>

(* A frame of the thread's stack: below the name of a task that runs, and  *)
(* after the last name.                                                    *)
CopyFrame(i) ==
  /\ pc \in {"unwound", "task", "tasks"}
  /\ Room
  /\ current_tasks' = Append(current_tasks, python_stack[i])
  /\ pc' = IF pc = "tasks" THEN "tasks" ELSE "task"
  /\ UNCHANGED <<session, who, dumping, dumps, string_table, greenlets,
                 cache, python_stack, current_greenlets, file>>

(* Frame::get(task.name) *)
TaskName(n) ==
  /\ pc \in {"unwound", "task", "tasks"}
  /\ Extra < MaxExtra
  /\ n \in string_table
  /\ GetFrame(n, python_stack, Append(current_tasks, RefTo(n)),
              current_greenlets)
  /\ pc' = "tasks"
  /\ UNCHANGED <<session, who, dumping, dumps, greenlets>>

(* unwind_greenlets: the frames of a greenlet, then Frame::get(name). *)
GreenletFrame(k) ==
  /\ pc \in {"unwound", "tasks", "greenlet", "greenlets"}
  /\ Room
  /\ \/ GetFrame(k, python_stack, current_tasks,
                 Append(current_greenlets, RefTo(k)))
     \/ GetInvalid(k, python_stack, current_tasks,
                   Append(current_greenlets, Invalid))
  /\ pc' = "greenlet"
  /\ UNCHANGED <<session, who, dumping, dumps, greenlets>>

GreenletName(n) ==
  /\ pc \in {"unwound", "tasks", "greenlet", "greenlets"}
  /\ Extra < MaxExtra
  /\ n \in greenlets
  /\ GetFrame(n, python_stack, current_tasks,
              Append(current_greenlets, RefTo(n)))
  /\ pc' = "greenlets"
  /\ UNCHANGED <<session, who, dumping, dumps, greenlets>>

Release ==
  /\ who' = nullptr
  /\ pc' = "idle"

Unwound == pc \in {"unwound", "tasks", "greenlets"}

(* ThreadInfo::sample renders the stacks of the tasks, or else those of    *)
(* the greenlets, or else the one of the thread.  The first name in some   *)
(* stacks is that of the first stack.                                      *)
NamesIn(s) == {i \in DOMAIN s : s[i].key \in Labels}

Renderable(s) ==
  \E i \in NamesIn(s) :
    s[i].key \in string_table /\ \A j \in NamesIn(s) : i <= j

RenderTasks ==
  /\ who = "sampler" /\ Unwound
  /\ current_tasks # <<>>
  /\ Renderable(current_tasks)
  /\ Write(WithRefs(current_tasks))
  /\ current_tasks' = <<>>
  /\ Release
  /\ UNCHANGED <<session, dumping, dumps, string_table, greenlets, cache,
                 python_stack, current_greenlets>>

RenderGreenlets ==
  /\ who = "sampler" /\ Unwound
  /\ current_tasks = <<>>
  /\ current_greenlets # <<>>
  /\ Renderable(current_greenlets)
  /\ Write(WithRefs(current_greenlets))
  /\ current_greenlets' = <<>>
  /\ Release
  /\ UNCHANGED <<session, dumping, dumps, string_table, greenlets, cache,
                 python_stack, current_tasks>>

RenderThread ==
  /\ who = "sampler" /\ Unwound
  /\ current_tasks = <<>>
  /\ current_greenlets = <<>>
  /\ Write(WithRefs(python_stack))
  /\ Release
  /\ UNCHANGED <<session, dumping, dumps, string_table, greenlets, cache,
                 stacks>>

(* A stack whose name is not in the string table ends the sample early:    *)
(* stacks before it have been rendered, none is cleared.                   *)
RenderFails ==
  /\ who = "sampler" /\ Unwound
  /\ LET s == IF current_tasks # <<>> THEN current_tasks
              ELSE current_greenlets
     IN  \E i \in NamesIn(s) :
           /\ s[i].key \notin string_table
           /\ \E n \in 0..(i - 1) : Write(WithRefs(SubSeq(s, 1, n)))
  /\ Release
  /\ UNCHANGED <<session, dumping, dumps, string_table, greenlets, cache,
                 stacks>>

(* A dump prints the thread's stack on stderr and leaves the others. *)
RenderWhere ==
  /\ who = "listener" /\ Unwound
  /\ Release
  /\ UNCHANGED <<session, dumping, dumps, string_table, greenlets, cache,
                 stacks, file>>

-----------------------------------------------------------------------------
(* Python threads: the hooks of monkey/gevent.py.  track_greenlet is one   *)
(* step: no session can start before the thread that runs it gives up the  *)
(* GIL.  Greenlets may share a name.                                       *)

EmplaceName(n) ==
  /\ string_table' = string_table \cup {n}
  /\ greenlets' = greenlets \cup {n}
  /\ UNCHANGED <<session, control, cache, stacks, file>>

TrackGreenlet(n) ==
  /\ string_table' = string_table \cup {n}
  /\ Write(WithStrings({n}))
  /\ greenlets' = greenlets \cup {n}
  /\ UNCHANGED <<session, control, cache, stacks>>

UntrackGreenlet(n) ==
  /\ n \in greenlets
  /\ greenlets' = greenlets \ {n}
  /\ UNCHANGED <<session, control, string_table, cache, stacks, file>>

-----------------------------------------------------------------------------
(* The session.                                                            *)

InitFrameCache ==
  /\ phase = "off"
  /\ sessions < MaxSessions
  /\ phase' = "cache"
  /\ sessions' = sessions + 1
  /\ frame_cache' = TRUE /\ items' = <<>> /\ index' = {}
  /\ UNCHANGED <<where_thread, control, string_table, greenlets, stacks, file>>

OpenFile ==
  /\ phase = "cache"
  /\ phase' = "opened"
  /\ file' = [open |-> TRUE, wild |-> FALSE,
              clean |-> string_table = {} /\ greenlets = {},
              strings |-> {}, frames |-> {}, refs |-> {}]
  /\ UNCHANGED <<where_thread, sessions, control, string_table, greenlets,
                 cache, stacks>>

(* _start returns when the file cannot be opened; the sampler goes on. *)
OpenFails ==
  /\ phase = "cache"
  /\ phase' = "on"
  /\ UNCHANGED <<where_thread, sessions, control, string_table, greenlets,
                 cache, stacks, file>>

SetupWhere ==
  /\ phase = "opened"
  /\ phase' = "listening"
  /\ where_thread' = TRUE
  /\ UNCHANGED <<sessions, control, string_table, greenlets, cache, stacks,
                 file>>

(* Header, metadata and the reserved strings; then the sampler runs. *)
Header ==
  /\ phase = "listening"
  /\ phase' = "on"
  /\ UNCHANGED <<where_thread, sessions, control, string_table, greenlets,
                 cache, stacks, file>>

(* _stop, by the sampler between two passes: it waits for the map lock. *)
ClearMaps ==
  /\ phase = "on"
  /\ who = nullptr
  /\ phase' = "cleared"
  /\ string_table' = {}
  /\ UNCHANGED <<where_thread, sessions, control, greenlets, cache, stacks,
                 file>>

(* teardown_where waits for the dump in progress. *)
TeardownWhere ==
  /\ phase = "cleared"
  /\ ~dumping
  /\ phase' = "joined"
  /\ where_thread' = FALSE
  /\ UNCHANGED <<sessions, control, string_table, greenlets, cache, stacks,
                 file>>

CloseFile ==
  /\ phase = "joined"
  /\ phase' = "closed"
  /\ file' = [file EXCEPT !.open = FALSE]
  /\ UNCHANGED <<where_thread, sessions, control, string_table, greenlets,
                 cache, stacks>>

ResetFrameCache ==
  /\ phase = "closed"
  /\ phase' = "off"
  /\ frame_cache' = FALSE /\ items' = <<>> /\ index' = {}
  /\ python_stack' = Without(python_stack, index)
  /\ current_tasks' = Without(current_tasks, index)
  /\ current_greenlets' = Without(current_greenlets, index)
  /\ UNCHANGED <<where_thread, sessions, control, string_table, greenlets,
                 file>>

-----------------------------------------------------------------------------
Unwind ==
  \/ \E k \in Locations :
       ReadFrame(k) \/ ReadInvalid(k) \/ TaskFrame(k) \/ GreenletFrame(k)
  \/ StackEnds
  \/ \E n \in TaskNames : TaskKey(n) \/ TaskName(n)
  \/ \E i \in DOMAIN python_stack : CopyFrame(i)
  \/ \E n \in GreenletNames : GreenletName(n)

Render ==
  RenderTasks \/ RenderGreenlets \/ RenderThread \/ RenderFails \/ RenderWhere

Session ==
  \/ InitFrameCache \/ OpenFile \/ OpenFails \/ SetupWhere \/ Header
  \/ ClearMaps \/ TeardownWhere \/ CloseFile \/ ResetFrameCache

Next ==
  \/ BeginDump \/ EndDump
  \/ \E w \in {"sampler", "listener"} : Callback(w)
  \/ Unwind
  \/ Render
  \/ \E n \in GreenletNames : TrackGreenlet(n) \/ UntrackGreenlet(n)
  \/ Session

Spec == Init /\ [][Next]_vars

-----------------------------------------------------------------------------
(* The hash map and the list of the LRU cache agree: lookup finds exactly  *)
(* the frames in the list, each is there once, and no more than Capacity   *)
(* of them, however lookups and stores of the two threads follow.          *)
CacheCoherent ==
  /\ index = {items[i] : i \in DOMAIN items}
  /\ \A i, j \in DOMAIN items : items[i] = items[j] => i = j
  /\ Len(items) <= Capacity

(* The sampler and the dump only unwind while the cache exists:            *)
(* reset_frame_cache comes after the listener has been joined.             *)
CacheAlive == who # nullptr \/ dumping => frame_cache

(* While a thread is unwound, and until the first task or greenlet is,     *)
(* every frame on python_stack exists: unwinding may evict frames, but     *)
(* never one of the stack at hand, because lookup makes a frame the most   *)
(* recently used and a stack has no more frames than the cache.            *)
StackLive ==
  MaxFrames <= Capacity /\ pc \in {"unwinding", "unwound"} =>
    \A i \in DOMAIN python_stack : python_stack[i].live

(* Every FRAME_REF in the file, short of those read from a destroyed       *)
(* frame, names a frame that the same file has defined: the cache starts   *)
(* empty with the file and outlives every reference to its frames.         *)
RefsDefined == ~file.wild => file.refs \subseteq file.frames

(* The strings a FRAME event names. *)
Mentioned(k) == IF k \in Locations THEN StringsOf[k] ELSE {k}

(* In a file opened when no string was known, every FRAME names strings    *)
(* the file has defined, whoever put them into the table and although      *)
(* _stop empties it while a dump may go on.                                *)
StringsDefined ==
  file.clean => \A k \in file.frames : Mentioned(k) \subseteq file.strings

(* Why.  The steps of a session come in this order, and a callback falls   *)
(* between the start of the listener and its end ...                       *)
OrderInv ==
  /\ (who = nullptr) <=> (pc = "idle")
  /\ who = "listener" => dumping
  /\ who = "sampler" => phase = "on"
  /\ dumping => phase \in {"listening", "on", "cleared"}
  /\ frame_cache <=> phase # "off"
  /\ phase \in {"off", "cache"} => index = {} /\ items = <<>>
  /\ file.open =>
       phase \in {"opened", "listening", "on", "cleared", "joined"}

(* ... a frame that still exists is in the cache, what is in the cache is  *)
(* in the open file, and so is what is in the string table ...             *)
Covered(s, K) == \A i \in DOMAIN s : s[i].live => s[i].key \in K

LiveInv ==
  /\ Covered(python_stack, index \cup {nullptr})
  /\ Covered(current_tasks, index \cup {nullptr})
  /\ Covered(current_greenlets, index \cup {nullptr})

FileInv ==
  /\ file.open => index \subseteq file.frames
  /\ file.refs \subseteq file.frames

StringInv ==
  /\ file.clean /\ file.open =>
       string_table \cup greenlets \subseteq file.strings
  /\ StringsDefined

(* ... and the frames of the stack at hand are the most recently used.     *)
RecentInv ==
  MaxFrames <= Capacity /\ pc = "unwinding" =>
    \A i \in DOMAIN python_stack :
      \/ python_stack[i].key = nullptr
      \/ \E p \in DOMAIN items : /\ p <= Len(python_stack)
                                /\ items[p] = python_stack[i].key

FramesInv ==
  /\ CacheCoherent /\ OrderInv /\ LiveInv /\ FileInv /\ StringInv
  /\ RecentInv /\ StackLive

=============================================================================
