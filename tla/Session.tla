-------------------------------- MODULE Session --------------------------------
(***************************************************************************)
(* What start and stop promise a program that starts echion in stealth     *)
(* mode, without saying how threads, locks and flags bring it about.       *)
(*                                                                         *)
(* There is one session at a time.  It takes its resources in a fixed      *)
(* order and gives them back in the opposite one, so that a resource never *)
(* outlives one it relies on; a pass over the threads, or a dump, never    *)
(* runs while resources are given back; and a stop that returns has seen   *)
(* the session through to its end.                                         *)
(***************************************************************************)
EXTENDS Naturals, Sequences

CONSTANTS
  Sessions,      (* the sessions the program may start *)
  NoSession

VARIABLES
  session,   (* the session that has been started and not been waited for *)
  phase,     (* "none", "up", "down" or "over"                            *)
  wanted,    (* has the session not been asked to end?                    *)
  held,      (* its resources                                             *)
  busy,      (* what is using them: "pass", "dump"                        *)
  caller     (* "free", or "waiting" inside stop                          *)

vars == <<session, phase, wanted, held, busy, caller>>

(* In the order in which a session takes them. *)
Resources == <<"frame_cache", "output", "signals", "listener">>

First(n) == {Resources[i] : i \in 1..n}

Init ==
  /\ session = NoSession
  /\ phase = "none"
  /\ wanted = FALSE
  /\ held = {}
  /\ busy = {}
  /\ caller = "free"

(* A start is ignored while a session has not been waited for. *)
Begin(s) ==
  /\ session = NoSession
  /\ caller = "free"
  /\ session' = s
  /\ phase' = "up"
  /\ wanted' = TRUE
  /\ UNCHANGED <<held, busy, caller>>

(* The next resource, also when the session is no longer wanted. *)
Acquire ==
  /\ phase = "up"
  /\ busy = {}
  /\ \E n \in 0..3 : held = First(n) /\ held' = First(n + 1)
  /\ UNCHANGED <<session, phase, wanted, busy, caller>>

(* A pass needs the frame cache; a dump, which defines frames in the       *)
(* output too and is asked for by a signal, needs everything.              *)
BeginPass ==
  /\ phase = "up"
  /\ wanted
  /\ "frame_cache" \in held
  /\ busy' = busy \cup {"pass"}
  /\ UNCHANGED <<session, phase, wanted, held, caller>>

BeginDump ==
  /\ phase = "up"
  /\ wanted
  /\ held = First(4)
  /\ "dump" \notin busy
  /\ busy' = busy \cup {"dump"}
  /\ UNCHANGED <<session, phase, wanted, held, caller>>

EndUse ==
  /\ \E u \in busy : busy' = busy \ {u}
  /\ UNCHANGED <<session, phase, wanted, held, caller>>

(* In where mode the session retires by itself. *)
Retire ==
  /\ phase = "up"
  /\ wanted' = FALSE
  /\ UNCHANGED <<session, phase, held, busy, caller>>

TurnDown ==
  /\ phase = "up"
  /\ ~wanted
  /\ "pass" \notin busy
  /\ phase' = "down"
  /\ UNCHANGED <<session, wanted, held, busy, caller>>

(* The session is over with its last resource. *)
Release ==
  /\ phase = "down"
  /\ busy = {}
  /\ \E n \in 1..4 : held = First(n) /\ held' = First(n - 1)
  /\ phase' = IF held' = {} THEN "over" ELSE "down"
  /\ UNCHANGED <<session, wanted, busy, caller>>

Stop ==
  /\ caller = "free"
  /\ wanted' = FALSE
  /\ caller' = IF session = NoSession THEN "free" ELSE "waiting"
  /\ UNCHANGED <<session, phase, held, busy>>

StopReturns ==
  /\ caller = "waiting"
  /\ phase = "over"
  /\ session' = NoSession
  /\ phase' = "none"
  /\ caller' = "free"
  /\ UNCHANGED <<wanted, held, busy>>

Next ==
  \/ \E s \in Sessions : Begin(s)
  \/ Acquire \/ BeginPass \/ BeginDump \/ EndUse
  \/ Retire \/ TurnDown \/ Release
  \/ Stop \/ StopReturns

Spec == Init /\ [][Next]_vars
=============================================================================
