---------------------------- MODULE BundleImport ----------------------------
(***************************************************************************)
(* What the import pipeline promises about bundles, without jobs, workers, *)
(* attempts or transactions: every file is imported once or dropped once,  *)
(* a file only after the file it depends on, a file whose dependency is    *)
(* dropped is dropped with it, and the derived data of a bundle are        *)
(* refreshed at most once, after the fate of its last file is known, from  *)
(* exactly the files that were imported.                                   *)
(***************************************************************************)
CONSTANTS Files, Bundles, None, BundleOf, DependsOn

VARIABLES
  outcome,  \* what became of every file
  refresh,  \* what became of the refresh of every bundle
  covered   \* the files the refresh of a bundle covered

vars == <<outcome, refresh, covered>>

FilesOf(b) == {f \in Files : BundleOf[f] = b}
Decided(b) == \A f \in FilesOf(b) : outcome[f] # "pending"
Imported(b) == {f \in FilesOf(b) : outcome[f] = "imported"}

TypeOK ==
  /\ outcome \in [Files -> {"pending", "imported", "dropped"}]
  /\ refresh \in [Bundles -> {"pending", "done", "abandoned"}]
  /\ covered \in [Bundles -> SUBSET Files]

Init ==
  /\ outcome = [f \in Files |-> "pending"]
  /\ refresh = [b \in Bundles |-> "pending"]
  /\ covered = [b \in Bundles |-> {}]

Import(f) ==
  /\ outcome[f] = "pending"
  /\ DependsOn[f] # None => outcome[DependsOn[f]] = "imported"
  /\ outcome' = [outcome EXCEPT ![f] = "imported"]
  /\ UNCHANGED <<refresh, covered>>

(* Files that wait for a dropped file, directly or not, go with it.        *)
Drop(S) ==
  /\ S # {}
  /\ \A f \in S : outcome[f] = "pending"
  /\ \A f \in Files : DependsOn[f] \in S => f \in S
  /\ outcome' = [f \in Files |-> IF f \in S THEN "dropped" ELSE outcome[f]]
  /\ UNCHANGED <<refresh, covered>>

RefreshDue(b) == refresh[b] = "pending" /\ Decided(b) /\ Imported(b) # {}

Refresh(b) ==
  /\ RefreshDue(b)
  /\ refresh' = [refresh EXCEPT ![b] = "done"]
  /\ covered' = [covered EXCEPT ![b] = Imported(b)]
  /\ UNCHANGED outcome

GiveUp(b) ==
  /\ RefreshDue(b)
  /\ refresh' = [refresh EXCEPT ![b] = "abandoned"]
  /\ UNCHANGED <<outcome, covered>>

Next ==
  \/ \E f \in Files : Import(f)
  \/ \E S \in SUBSET Files : Drop(S)
  \/ \E b \in Bundles : Refresh(b) \/ GiveUp(b)

Spec == Init /\ [][Next]_vars
=============================================================================
