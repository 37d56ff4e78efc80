---------------------------- MODULE LifecycleSession ----------------------------
(***************************************************************************)
(* Lifecycle implements Session when every start is a stealth start: the   *)
(* mapping of the process-wide state of echion to the state of a session.  *)
(***************************************************************************)
EXTENDS Lifecycle

(* A program that only starts echion in stealth mode. *)
StealthSpec == Init /\ [][StealthNext]_vars /\ Fairness

(* The thread of start_async is the session, from its start to its join.   *)
PhaseOf(s) ==
  CASE s = nullptr -> "none"
    [] s # nullptr /\ pc[s] = "gone" -> "over"
    [] s # nullptr /\ pc[s] \in {"clear", "teardown", "join", "restore",
                                 "close", "reset"} -> "down"
    [] OTHER -> "up"

Held ==
  {r \in {"frame_cache", "output", "signals", "listener"} :
     \/ r = "frame_cache" /\ frame_cache = "live"
     \/ r = "output" /\ output = "open"
     \/ r = "signals" /\ sigquit
     \/ r = "listener" /\ where_thread # nullptr}

Busy ==
  {u \in {"pass", "dump"} :
     \/ u = "pass" /\ \E s \in Samplers : pc[s] = "pass"
     \/ u = "dump" /\ \E s \in Samplers : listener[s] = "dumping"}

S == INSTANCE Session WITH
       Sessions  <- Samplers,
       NoSession <- nullptr,
       session   <- sampler_thread,
       phase     <- PhaseOf(sampler_thread),
       wanted    <- running = 1,
       held      <- Held,
       busy      <- Busy,
       caller    <- IF main = "joining" THEN "waiting" ELSE "free"

(* Whatever start_async, stop, the sampler thread, the listener and the    *)
(* signal handler do, in any order and as long as they like, is a          *)
(* behaviour of Session: one session at a time, with resources that are    *)
(* given back last in, first out, while nobody uses them.                  *)
ImplementsSession == S!Spec

(* Why: what a sampler thread holds follows from where it is, except that  *)
(* behind _start's early return it has the frame cache alone, and nothing  *)
(* is held when there is no session.                                       *)
ResourceInv(s) ==
  /\ pc[s] \in {"init", "reset", "gone"} \/ frame_cache = "live"
  /\ pc[s] \in {"init", "gone"} => frame_cache = "null"
  /\ pc[s] \in {"signals", "where", "setup", "header"} => output = "open"
  /\ pc[s] \in {"init", "open", "reset", "gone"} => output = "closed"
  /\ pc[s] = "reset" => frame_cache = "live"
  /\ pc[s] \in {"where", "setup", "header"} => sigquit
  /\ pc[s] \in {"init", "open", "signals", "close", "reset", "gone"}
       => ~sigquit
  /\ pc[s] = "header" => where_thread # nullptr
  /\ pc[s] \in {"init", "open", "signals", "where", "setup", "restore",
                "close", "reset", "gone"} => where_thread = nullptr
  /\ sigquit => output = "open"
  /\ where_thread # nullptr => sigquit
  /\ pc[s] = "join" => where_thread # nullptr
  /\ pc[s] \in {"clear", "teardown", "join", "restore", "close", "reset",
                "gone"} => running = 0

SessionInv ==
  /\ IF sampler_thread = nullptr
     THEN /\ running = 0
          /\ frame_cache = "null"
          /\ output = "closed"
          /\ ~sigquit
          /\ where_thread = nullptr
     ELSE pc[sampler_thread] # "absent" /\ ResourceInv(sampler_thread)
  /\ main = "joining" => sampler_thread # nullptr /\ running = 0
=============================================================================
