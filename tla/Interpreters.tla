------------------------------ MODULE Interpreters ------------------------------
(***************************************************************************)
(* for_each_interp (interp.h): the walk over the list of interpreters,     *)
(* with no lock, while the program makes and ends subinterpreters.  Each   *)
(* field is copied on its own; when a copy fails the loop goes on with     *)
(* the next pointer of an earlier round.                                   *)
(***************************************************************************)
EXTENDS Naturals, Sequences, SequencesExt

CONSTANTS
  Addresses,    (* where interpreter states can be                         *)
  MaxBorn, MaxWalks

VARIABLES
  list,         (* the interpreters' addresses, the youngest first         *)
  memory,       (* per address: who is or was there, and its next pointer  *)
  mapped,       (* addresses that can be read                              *)
  born,         (* how many interpreters there have been                   *)
  pc, interp_addr, info,
  visited,      (* whom callback was called with, in this walk             *)
  atStart,      (* the interpreters when it began                          *)
  ended,        (* has an interpreter ended since?                         *)
  walks

program == <<list, memory, mapped, born>>
walk    == <<pc, interp_addr, info, visited, atStart, ended, walks>>
vars    == <<program, walk>>

Ids     == 1..MaxBorn
NULL    == "NULL"
Pointer == Addresses \cup {NULL}
State   == [id : 0..MaxBorn, next : Pointer]

TypeOK ==
  /\ ToSet(list) \subseteq mapped
  /\ IsInjective(list)
  /\ memory \in [Addresses -> State]
  /\ mapped \subseteq Addresses
  /\ born \in 0..MaxBorn
  /\ pc \in {"off", "id", "tstate_head", "next", "callback"}
  /\ interp_addr \in Pointer
  /\ info \in [id : 0..MaxBorn, tstate_head : 0..MaxBorn, next : Pointer]
  /\ \A n \in 1..Len(visited) : visited[n] \in Ids
  /\ atStart \subseteq Ids
  /\ ended \in BOOLEAN
  /\ walks \in 0..MaxWalks

(* The main interpreter is there; interpreter_info starts as {0}. *)
Init ==
  /\ \E a \in Addresses :
       /\ list = <<a>> /\ mapped = {a}
       /\ memory = [b \in Addresses |-> [id |-> IF b = a THEN 1 ELSE 0, next |-> NULL]]
  /\ born = 1
  /\ pc = "off" /\ interp_addr = NULL
  /\ info = [id |-> 0, tstate_head |-> 0, next |-> NULL]
  /\ visited = <<>> /\ atStart = {} /\ ended = FALSE /\ walks = 0

-----------------------------------------------------------------------------
(* The program.                                                            *)

Head0 == IF list = <<>> THEN NULL ELSE list[1]

NewInterpreter(a) ==
  /\ born < MaxBorn /\ a \notin ToSet(list)
  /\ born' = born + 1
  /\ mapped' = mapped \cup {a}
  /\ memory' = [memory EXCEPT ![a] = [id |-> born + 1, next |-> Head0]]
  /\ list' = <<a>> \o list
  /\ UNCHANGED walk

(* It leaves the list; its memory may stay readable, with what was there. *)
EndInterpreter(i) ==
  /\ i < Len(list)
  /\ list' = RemoveAt(list, i)
  /\ memory' = IF i = 1 THEN memory
               ELSE [memory EXCEPT ![list[i - 1]].next = list[i + 1]]
  /\ mapped' \in {mapped, mapped \ {list[i]}}
  /\ ended' = TRUE
  /\ UNCHANGED <<born, pc, interp_addr, info, visited, atStart, walks>>

-----------------------------------------------------------------------------
(* The walk.                                                               *)

Begin ==
  /\ pc = "off" /\ walks < MaxWalks
  /\ walks' = walks + 1
  /\ info' = [id |-> 0, tstate_head |-> 0, next |-> NULL]
  /\ interp_addr' = Head0
  /\ visited' = <<>>
  /\ atStart' = {memory[list[n]].id : n \in 1..Len(list)}
  /\ ended' = FALSE
  /\ pc' = "id"
  /\ UNCHANGED program

Ended == interp_addr = NULL

End ==
  /\ pc = "id" /\ Ended
  /\ pc' = "off"
  /\ UNCHANGED <<program, interp_addr, info, visited, atStart, ended, walks>>

Copied(field) ==
  CASE field = "next" -> memory[interp_addr].next
    [] OTHER          -> memory[interp_addr].id

AfterAny(field) == IF field = "id" THEN "next" ELSE "callback"

After(field) ==
  CASE field = "id"          -> "tstate_head"
    [] field = "tstate_head" -> "next"
    [] field = "next"        -> "callback"

CopyField(field) ==
  /\ pc = field /\ ~Ended /\ interp_addr \in mapped
  /\ info' = [info EXCEPT ![field] = Copied(field)]
  /\ pc' = After(field)
  /\ UNCHANGED <<program, interp_addr, visited, atStart, ended, walks>>

(* What the loop goes on with. *)
NextRound == info.next

Continue == "id"

(* A copy may fail in the kernel too; the loop continues. *)
CopyFails ==
  /\ pc \in {"id", "tstate_head", "next"} /\ ~Ended
  /\ interp_addr' = NextRound
  /\ pc' = Continue
  /\ UNCHANGED <<program, info, visited, atStart, ended, walks>>

Callback ==
  /\ pc = "callback"
  /\ visited' = Append(visited, info.id)
  /\ interp_addr' = info.next
  /\ pc' = "id"
  /\ UNCHANGED <<program, info, atStart, ended, walks>>

WalkStep ==
  \/ End
  \/ \E field \in {"id", "tstate_head", "next"} : CopyField(field)
  \/ Callback

Next ==
  \/ \E a \in Addresses : NewInterpreter(a)
  \/ \E i \in 1..Len(list) : EndInterpreter(i)
  \/ Begin
  \/ WalkStep
  \/ CopyFails

Spec == Init /\ [][Next]_vars

(* A copy that is tried again and again succeeds in the end, if it can.    *)
Fairness ==
  /\ WF_vars(WalkStep \/ CopyFails)
  /\ \A field \in {"id", "tstate_head", "next"} : SF_vars(CopyField(field))

FairSpec == Spec /\ Fairness

-----------------------------------------------------------------------------
(* Properties.                                                             *)

(* As long as none ends, no interpreter is called back twice in one walk   *)
(* (interp.h:36-54).                                                       *)
Once ==
  ended \/ \A m, n \in 1..Len(visited) : visited[m] = visited[n] => m = n

(* What is called back is one interpreter, not the id of one with the      *)
(* threads of another (interp.h:39-54), as long as none ends.              *)
OneInterpreter == pc = "callback" => ended \/ info.id = info.tstate_head

(* A walk that called anybody back called back everyone who was there when *)
(* it began: a failing copy ends it at the first, and is repeated later.   *)
AllOrNone ==
  (pc = "id" /\ Ended) =>
    ended \/ visited = <<>> \/ atStart \subseteq ToSet(visited)

(* A walk ends (interp.h:36), unless an interpreter ends before it.        *)
WalkEnds == pc # "off" ~> pc = "off" \/ ended

(* A walk calls back with interpreters: each of them at most once, never   *)
(* with a mixture of two, and with all of them if with any.                *)
CallsBackAll == Once /\ OneInterpreter /\ AllOrNone
=============================================================================
