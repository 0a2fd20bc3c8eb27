---------------------------- MODULE HandHistory -----------------------------
(***************************************************************************)
(* Any hand history, made by the rules or not: the parser accepts every    *)
(* sequence of lines, with the streets in any order, and the three replays *)
(* of the core read it.  What must hold of the money here holds of every   *)
(* file a player can upload.                                               *)
(***************************************************************************)
EXTENDS ActionLegality, HandReplay

CONSTANTS
  Deals,         \* the starting stacks of the hands
  HistoryLines,  \* the lines a history may contain
  LineBound      \* bound: lines of a history

ASSUME HistoryAssumption ==
  /\ Deals \subseteq [Seats -> Nat]
  /\ HistoryLines \subseteq Lines
  /\ LineBound \in Nat

VARIABLES
  dealt,     \* starting stacks
  read,      \* lines read
  marking,   \* annotate_action_all_in_metadata
  legality,  \* LegalityEngine
  ledger     \* ReplayState

historyVars == <<dealt, read, marking, legality, ledger>>

HistoryInit ==
  /\ dealt \in Deals
  /\ read = 0
  /\ marking = AnnotationInit(dealt)
  /\ legality = EngineInit(dealt)
  /\ ledger = ReplayInit(dealt)

ReadLine ==
  /\ read < LineBound
  /\ \E line \in HistoryLines :
       LET marked == Annotated(marking, line)
       IN /\ marking' = AnnotationAfter(marking, line)
          /\ legality' = EngineAfter(legality, marked)
          /\ ledger' = ReplayAfter(ledger, marked)
  /\ read' = read + 1
  /\ UNCHANGED dealt

HistoryNext == ReadLine

HistorySpec == HistoryInit /\ [][HistoryNext]_historyVars

-----------------------------------------------------------------------------
(* Properties.                                                             *)

(* No history makes or loses chips, or takes more from a player than he    *)
(* has: what is not in front of him is committed, what is in the round is  *)
(* part of it, and the streets he committed it on add up.                  *)
MoneyKept ==
  \A s \in Seats :
    /\ 0 <= ledger.stack[s] /\ ledger.stack[s] + ledger.committed[s] = dealt[s]
    /\ 0 <= ledger.contrib[s] /\ ledger.contrib[s] <= ledger.committed[s]
    /\ ledger.committed[s] =
         ledger.byStreet[s]["preflop"] + ledger.byStreet[s]["flop"]
         + ledger.byStreet[s]["turn"] + ledger.byStreet[s]["river"]

(* The legality engine and the normalizer, written twice, move the same    *)
(* chips and the same statuses whatever they read: a refund or a debit     *)
(* that one refuses the other refuses too.                                 *)
SameMoney ==
  /\ legality.street = ledger.street
  /\ legality.stack = ledger.stack
  /\ legality.contrib = ledger.contrib
  /\ legality.status = ledger.status

(* And they agree on whether the hand may be settled: the replay is        *)
(* invalid exactly when the engine has reported one of the issues that     *)
(* issue_triggers_fail_safe looks for.                                     *)
SameVerdict == ledger.invalid <=> legality.issues \cap FailSafeIssues # {}
=============================================================================
