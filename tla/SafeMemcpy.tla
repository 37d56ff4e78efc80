------------------------------- MODULE SafeMemcpy -------------------------------
(***************************************************************************)
(* The copy by memcpy (danger.cc): a handler for SIGSEGV, installed once   *)
(* for the process, that jumps back into the copy a thread has armed it    *)
(* for.  Python's faulthandler installs and removes a handler of its own;  *)
(* a signal may interrupt a copy with a handler that copies too.           *)
(***************************************************************************)
EXTENDS Naturals, Sequences

CONSTANTS
  Threads,
  Pages           (* pages copies are made of                              *)

VARIABLES
  disposition,  (* who has the signal: "default", "faulthandler", "echion" *)
  g_old_segv,   (* who had it before echion                                *)
  enabled, previous,  (* faulthandler: is it enabled, and over whom        *)
  readable,     (* pages that can be read                                  *)
  copies,       (* per thread, its copies: the innermost comes last        *)
  t_handler_armed,
  t_jmpenv,     (* which of its copies a thread jumps back into            *)
  nested,       (* has a copy been begun within another one?               *)
  killed        (* has a fault ended the process?                          *)

handlers == <<disposition, g_old_segv, enabled, previous>>
local    == <<copies, t_handler_armed, t_jmpenv, nested>>
vars     == <<handlers, readable, local, killed>>

Handlers == {"none", "default", "faulthandler", "echion"}
Copy     == [pc : {"begun", "copying", "faulted"}, rem : SUBSET Pages]

(* A signal handler copies within a copy: SIGPROF's, for a dump in native  *)
(* mode, while a hook of memory mode copies.  It is not interrupted again. *)
MaxDepth == 2

TypeOK ==
  /\ disposition \in Handlers /\ g_old_segv \in Handlers /\ previous \in Handlers
  /\ enabled \in BOOLEAN
  /\ readable \subseteq Pages
  /\ copies \in [Threads -> Seq(Copy)]
  /\ \A t \in Threads : Len(copies[t]) <= MaxDepth
  /\ t_handler_armed \in [Threads -> BOOLEAN]
  /\ t_jmpenv \in [Threads -> 0..MaxDepth]
  /\ nested \in BOOLEAN /\ killed \in BOOLEAN

(* faulthandler may have been enabled before echion is loaded. *)
Init ==
  /\ enabled \in BOOLEAN
  /\ disposition = IF enabled THEN "faulthandler" ELSE "default"
  /\ previous = IF enabled THEN "default" ELSE "none"
  /\ g_old_segv = "none"
  /\ readable = Pages
  /\ copies = [t \in Threads |-> <<>>]
  /\ t_handler_armed = [t \in Threads |-> FALSE]
  /\ t_jmpenv = [t \in Threads |-> 0]
  /\ nested = FALSE
  /\ killed = FALSE

-----------------------------------------------------------------------------
(* The handlers, and what the program does.                                *)

Installed == g_old_segv # "none"

InitSegvCatcher ==
  /\ ~Installed
  /\ g_old_segv' = disposition
  /\ disposition' = "echion"
  /\ UNCHANGED <<enabled, previous, readable, local, killed>>

(* faulthandler.enable() by the program. *)
Enable ==
  /\ ~enabled
  /\ enabled' = TRUE
  /\ previous' = disposition
  /\ disposition' = "faulthandler"
  /\ UNCHANGED <<g_old_segv, readable, local, killed>>

(* Disabling puts back whoever was there, as a fault does. *)
Disabled ==
  /\ enabled' = FALSE
  /\ disposition' = previous
  /\ previous' = "none"

Disable ==
  /\ enabled
  /\ Disabled
  /\ UNCHANGED <<g_old_segv, readable, local, killed>>

Change(p) ==
  /\ readable' = IF p \in readable THEN readable \ {p} ELSE readable \cup {p}
  /\ UNCHANGED <<handlers, local, killed>>

-----------------------------------------------------------------------------
(* safe_memcpy.                                                            *)

Depth(t) == Len(copies[t])

Within(t, step) == Depth(t) > 0 /\ copies[t][Depth(t)].pc = step

Innermost(t) == copies[t][Depth(t)]

Return(t) == copies' = [copies EXCEPT ![t] = SubSeq(@, 1, Depth(t) - 1)]

(* The alternative stack is there, or can be installed; else it returns -1.*)
BeginCopy(t, S) ==
  /\ Installed
  /\ Depth(t) < MaxDepth
  /\ copies' = [copies EXCEPT ![t] = Append(@, [pc |-> "begun", rem |-> S])]
  /\ nested' = (nested \/ Depth(t) > 0)
  /\ UNCHANGED <<handlers, readable, t_handler_armed, t_jmpenv, killed>>

Armed(t) == [t_handler_armed EXCEPT ![t] = TRUE]

(* arm_fault_handler and sigsetjmp *)
Arm(t) ==
  /\ Within(t, "begun")
  /\ copies' = [copies EXCEPT ![t][Depth(t)].pc = "copying"]
  /\ t_handler_armed' = Armed(t)
  /\ t_jmpenv' = [t_jmpenv EXCEPT ![t] = Depth(t)]
  /\ UNCHANGED <<handlers, readable, nested, killed>>

CopyChunk(t) ==
  /\ Within(t, "copying")
  /\ \E p \in Innermost(t).rem \cap readable :
       copies' = [copies EXCEPT ![t][Depth(t)].rem = @ \ {p}]
  /\ UNCHANGED <<handlers, readable, t_handler_armed, t_jmpenv, nested, killed>>

Faults(t) == Within(t, "copying") /\ Innermost(t).rem \ readable # {}

(* siglongjmp: back in the copy saved, the ones within it are gone. *)
JumpBack(t) ==
  /\ Faults(t)
  /\ disposition = "echion" /\ t_handler_armed[t]
  /\ copies' = [copies EXCEPT ![t] =
                  [SubSeq(@, 1, t_jmpenv[t]) EXCEPT ![t_jmpenv[t]].pc = "faulted"]]
  /\ UNCHANGED <<handlers, readable, t_handler_armed, t_jmpenv, nested, killed>>

(* Not armed: the handler before echion's is put back, and asked again. *)
HandBack(t) ==
  /\ Faults(t)
  /\ disposition = "echion" /\ ~t_handler_armed[t]
  /\ disposition' = g_old_segv
  /\ UNCHANGED <<g_old_segv, enabled, previous, readable, local, killed>>

(* faulthandler reports the fault, disables itself and raises it again. *)
Report(t) ==
  /\ Faults(t)
  /\ disposition = "faulthandler" /\ enabled
  /\ Disabled
  /\ UNCHANGED <<g_old_segv, readable, local, killed>>

Kill(t) ==
  /\ Faults(t)
  /\ disposition = "default" \/ (disposition = "faulthandler" /\ ~enabled)
  /\ killed' = TRUE
  /\ UNCHANGED <<handlers, readable, local>>

Disarm(t) == [t_handler_armed EXCEPT ![t] = FALSE]

(* landing: with everything copied, or after a fault *)
Land(t) ==
  /\ Within(t, "faulted") \/ (Within(t, "copying") /\ Innermost(t).rem = {})
  /\ t_handler_armed' = Disarm(t)
  /\ Return(t)
  /\ UNCHANGED <<handlers, readable, t_jmpenv, nested, killed>>

CopyStep(t) ==
  \/ \E S \in SUBSET Pages : BeginCopy(t, S)
  \/ Arm(t)
  \/ CopyChunk(t)
  \/ Land(t)
  \/ JumpBack(t)
  \/ HandBack(t)
  \/ Report(t)
  \/ Kill(t)

Next ==
  /\ ~killed
  /\ \/ InitSegvCatcher \/ Enable \/ Disable
     \/ \E p \in Pages : Change(p)
     \/ \E t \in Threads : CopyStep(t)

Spec == Init /\ [][Next]_vars

-----------------------------------------------------------------------------
(* Properties.                                                             *)

(* A fault in a copy fails the copy, never the process (danger.cc:36-77),  *)
(* whatever the program does with faulthandler: as long as echion came     *)
(* before it, and no copy interrupts another.                              *)
Survives == killed => nested \/ g_old_segv = "faulthandler"

(* The handler jumps only into a copy that has not returned                *)
(* (danger.cc:46-53, 94-141).                                              *)
JumpsIntoCopy ==
  \A t \in Threads : t_handler_armed[t] => t_jmpenv[t] \in 1..Depth(t)
=============================================================================
