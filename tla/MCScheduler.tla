---------------------------- MODULE MCScheduler ----------------------------
(* A small instance of Scheduler for TLC. *)
EXTENDS Scheduler

CONSTANTS serve, repl, daily, weekly

TwoWriters == {serve, repl}
TwoNames   == {daily, weekly}
DailyName  == {daily}
TwoValues  == {"configured", "asked"}
OneValue   == {"asked"}
TwoSlots   == {1, 2}
DailyIsSet == [n \in TwoNames |-> IF n = daily THEN "configured" ELSE None]
=============================================================================
