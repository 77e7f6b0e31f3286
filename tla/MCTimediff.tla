------------------------------ MODULE MCTimediff ------------------------------
(***************************************************************************)
(* Every call of posix_timediff_resolve on a small width.                  *)
(***************************************************************************)
EXTENDS Timediff

FewClocks == [sec : 0 .. 2, nsec : 0 .. NsPerSec - 1]
===============================================================================
