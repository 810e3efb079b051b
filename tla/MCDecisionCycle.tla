--------------------------- MODULE MCDecisionCycle ---------------------------
(* All configurations.                                                      *)
EXTENDS DecisionJournal

AllSettings == SUBSET SettingNames
=============================================================================
