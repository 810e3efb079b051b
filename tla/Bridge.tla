------------------------------- MODULE Bridge -------------------------------
(***************************************************************************)
(* The runtime loop and the order script of QuantBridge on one account, as *)
(* the deployment runs them: two processes that share the broker, the      *)
(* marker and the account's status, and nothing else.                      *)
(***************************************************************************)
EXTENDS RuntimeControl, OrderLifecycle

vars == <<accountVars, loopVars, orderVars>>

TypeOK == AccountTypeOK /\ LoopTypeOK /\ OrderTypeOK

Init == AccountInit /\ LoopInit /\ OrderInit

\* The steps of the other parties, with the history the loop keeps of them.
Untouched == UNCHANGED <<loopPc, snap, registry, streak, changes>> /\ NoteChange

Next ==
    \/ LoopNext /\ UNCHANGED orderVars
    \/ OrderNext /\ Untouched
    \/ AccountEnvironment /\ UNCHANGED orderVars /\ Untouched

Spec == Init /\ [][Next]_vars

-----------------------------------------------------------------------------
\* The loop's failsafe is earned: every difference it counted in a row comes
\* from a change at the broker before that very poll.  Rests on the registry
\* being rewritten at every poll, and on listings that tell the truth.
StreakIsEarned == loopPc # "reconcile" => streak <= changes

\* An order is over only once its position is either gone or what was asked
\* for: in full and, when that was requested, protected.  Needs closes that
\* succeed, truthful listings and no fill after the script stopped waiting
\* (place_and_validate calls the failsafe on every other outcome).
NoNakedOrder ==
    orderPc = "done" /\ result # "none" /\ mine \in open
        => /\ result \in {"filled", "validated"}
           /\ result = "filled" => ~protect
           /\ mine \in fullSize
           /\ protect => mine \in guarded

\* Between two polls the registry holds what the broker would list, unless
\* that has changed since, whatever the polls before went through: lost
\* connections, deaths in the middle of a poll, failsafes of either process.
RegistryIsCurrent == loopPc # "reconcile" /\ ~changed => registry = RowOf(open)
=============================================================================
