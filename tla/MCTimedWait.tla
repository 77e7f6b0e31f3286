------------------------------ MODULE MCTimedWait ------------------------------
(***************************************************************************)
(* A finite instance of TimedWait: every kind of object, and a wall clock  *)
(* that is set back.                                                       *)
(***************************************************************************)
EXTENDS TimedWait

AllObjects == [system : {"posix", "zephyr"}, kind : {"semaphore", "mutex"}]
SetBack    == {-1}
===============================================================================
