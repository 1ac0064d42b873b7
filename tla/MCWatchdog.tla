----------------------------- MODULE MCWatchdog -----------------------------
(* One node, its workers and its supervisor, for TLC. *)
EXTENDS Watchdog

(* Nothing more is asked of a node that is settled once the supervisor rests. *)
UntilSettled == ~(settled(tracked) /\ dog = Resting(NoPark))
=============================================================================
