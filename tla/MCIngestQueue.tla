--------------------------- MODULE MCIngestQueue ---------------------------
(* Small instances of IngestQueue for TLC.                                 *)
EXTENDS IngestQueue, TLC

CONSTANTS ts, hh, third, solo, b1, b2

(* A bundle with a TS/HH pair and a third file, and one with a single      *)
(* file.  The third file is another hand history of the summary, so that   *)
(* two files of a bundle run at once, or it waits for the hand history, so *)
(* that drops are transitive.                                              *)
TwoBundleOf == (ts :> b1) @@ (hh :> b1) @@ (third :> b1) @@ (solo :> b2)
ForkDependsOn == (ts :> None) @@ (hh :> ts) @@ (third :> ts) @@ (solo :> None)
ChainDependsOn == (ts :> None) @@ (hh :> ts) @@ (third :> hh) @@ (solo :> None)
MemberOrder == (ts :> 0) @@ (hh :> 1) @@ (third :> 2) @@ (solo :> 0)
=============================================================================
