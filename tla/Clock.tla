-------------------------------- MODULE Clock --------------------------------
(***************************************************************************)
(* How the store writes times (internal/store/sqlite/identifier.go).  The  *)
(* modules count time in half seconds.                                     *)
(***************************************************************************)
EXTENDS Integers

\* SQL compares times as text.  formatTime writes no fraction for a whole second,
\* and "Z" comes after ".5Z": the place of a time among the texts.
Text(t) == IF t % 2 = 0 THEN t + 1 ELSE t - 1
Second(t) == t \div 2
================================================================================
