------------------------- MODULE AccountGovernance -------------------------
(***************************************************************************)
(* What QuantBridge's account states promise: each operation on an account *)
(* changes the stored entry of that account, that entry only, and only in  *)
(* the fields the operation is about.  It says nothing of files, and it is *)
(* atomic: AccountStates shows when the JSON file implements it.           *)
(***************************************************************************)
EXTENDS AccountEntries

VARIABLE entries

Init == entries = [a \in Accounts |-> NoEntry]

Perform(o) ==
    entries' = [entries EXCEPT ![o.account] = After(o, GetState(entries, o.account))]

Next == \E o \in Operations : Perform(o)

Spec == Init /\ [][Next]_entries
=============================================================================
