------------------------------ MODULE MCWatchMode ------------------------------
(* An instance of WatchMode for TLC. *)
EXTENDS WatchMode, TLC

CONSTANTS app, lib, flawed, clean

\* Fixing a flawed file makes it clean.
MCFix == [c \in Contents |-> clean]
===============================================================================
