----------------------------- MODULE MCLustrate -----------------------------
(* Instances of Lustrate: a directory with two files, and a file beside it. *)
EXTENDS Lustrate

CONSTANTS etc, log,               \* entries: log is a file
          passwd, hosts, logFile  \* files: the first two in etc

InEtc       == [p \in Paths |-> IF p = logFile THEN log ELSE etc]
SomeKeepers == {{}, {etc}, {passwd}, {etc, hosts, logFile}}
OnlyEtc     == {{etc}}
=============================================================================
