------------------------ MODULE MCPortfolioService ------------------------
(***************************************************************************)
(* Instance of PortfolioService for TLC.  Two keys, so that a device can   *)
(* be paired again under a new key.  The budgets are scenarios: each lets  *)
(* a few of the operations happen, once or twice, in every order and with  *)
(* every overlap; TLC explores them in one run.                            *)
(***************************************************************************)
EXTENDS PortfolioService, TLC

CONSTANTS k1, k2
MCKeys == {k1, k2}
MCSymmetry == Permutations(MCKeys)

Budget(once, twice) ==
  [op \in Operations |-> IF op \in twice THEN 2 ELSE IF op \in once THEN 1 ELSE 0]

MCBudgets ==
  {Budget({"syncs", "settings", "unpairs", "alarms"}, {}),
   Budget({"syncs", "unpairs", "pairs", "activations"}, {}),
   Budget({"syncs", "unpairs", "activations", "failures", "pairs"}, {}),
   Budget({"syncs", "settings", "unpairs", "pairs", "stops"}, {}),
   Budget({"syncs", "settings", "unpairs", "stops", "failures"}, {}),
   Budget({"settings", "activations", "stops"}, {"syncs"}),
   Budget({"alarms"}, {"settings", "syncs"}),
   Budget({"settings", "alarms", "credentials"}, {"syncs"}),
   Budget({"unpairs", "credentials", "failures"}, {"syncs"}),
   Budget({"syncs", "settings", "pairs", "activations"}, {"failures"})}
\* For the liveness run, which is without symmetry.
MCLivenessBudgets ==
  {Budget({"syncs", "unpairs", "pairs", "writes"}, {}),
   Budget({"syncs", "unpairs", "alarms", "failures"}, {})}
\* For the runs that show where the code departs from what it says.
MCOptOut == {Budget({"syncs", "settings"}, {})}
MCRestart == {Budget({"syncs", "settings", "writes", "stops"}, {})}
MCRevoked == {Budget({"alarms", "credentials"}, {"syncs"})}
=============================================================================
