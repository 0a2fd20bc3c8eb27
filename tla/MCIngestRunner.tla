--------------------------- MODULE MCIngestRunner ---------------------------
(* Small instances of IngestRunner for TLC: one bundle with a TS/HH pair   *)
(* and an independent file.                                                *)
EXTENDS IngestRunner, TLC

CONSTANTS ts, hh, solo, b1

OneBundleOf == (ts :> b1) @@ (hh :> b1) @@ (solo :> b1)
PairDependsOn == (ts :> None) @@ (hh :> ts) @@ (solo :> None)
OneFileOrder == (ts :> 0) @@ (hh :> 1) @@ (solo :> 2)
OneBundleOrder == (b1 :> 1)

(* Nothing tells one worker from another. *)
WorkerSymmetry == Permutations(Workers)
=============================================================================
