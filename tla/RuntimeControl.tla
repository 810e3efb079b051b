--------------------------- MODULE RuntimeControl ---------------------------
(***************************************************************************)
(* QuantBridge's runtime loop (RuntimeControlLoop.run_forever, started by  *)
(* scripts/run_runtime_control.py): every poll it reads the account's      *)
(* status, lists the broker's positions, brings the registry               *)
(* state/positions.json in line with them, and after MismatchStreak polls  *)
(* in a row that found a difference runs the failsafe.  A paused loop ends *)
(* and systemd starts it again.                                            *)
(*                                                                         *)
(* The registry has one row per symbol and the loop lists one symbol, so   *)
(* it holds the last position of the listing.                              *)
(***************************************************************************)
EXTENDS BridgeAccount

CONSTANT MismatchStreak   \* mismatch_streak_failsafe

ASSUME StreakAssumption == MismatchStreak \in Nat \ {0}

VARIABLES
    loopPc,     \* where the loop is
    snap,       \* the row the listing of this poll asks for
    registry,   \* the row in state/positions.json
    streak,     \* _mismatch_streak, which the failsafe ends at MismatchStreak
    changed,    \* history: the row the broker would list has changed since
                \* the last listing
    changes     \* history: polls in a row before which it had changed

loopVars == <<loopPc, snap, registry, streak, changed, changes>>

NoRow == <<0, 0>>

\* The row that stands for a listing: broker_map keeps the last position.
RowOf(listing) ==
    IF listing = {} THEN NoRow
    ELSE <<CHOOSE t \in listing : \A u \in listing : u <= t, ver>>

LoopTypeOK ==
    /\ loopPc \in {"off", "check", "sync", "reconcile", "failsafe", "sleep"}
    /\ snap \in (0..MaxTrade) \X {0, 1} /\ registry \in (0..MaxTrade) \X {0, 1}
    /\ streak \in 0..MismatchStreak
    /\ changed \in BOOLEAN /\ changes \in 0..MismatchStreak

LoopInit ==
    /\ loopPc = "off"
    /\ snap = NoRow /\ registry = NoRow
    /\ streak = 0 /\ changed = FALSE /\ changes = 0

\* History: conjoined to every step that changes positions.
NoteChange == changed' = (changed \/ RowOf(open)' # RowOf(open))

\* systemd starts the service, after RestartSec when it has ended.
LoopStart ==
    /\ loopPc = "off"
    /\ loopPc' = "check"
    /\ streak' = 0 /\ snap' = NoRow
    /\ ForgetFailsafe("loop")
    /\ UNCHANGED <<positionVars, status, marker, registry, changed, changes>>

\* get_pause_reason: a blocked account ends the loop; the marker is not read.
LoopCheck ==
    /\ loopPc = "check"
    /\ loopPc' = IF status = "blocked" THEN "off" ELSE "sync"
    /\ UNCHANGED <<accountVars, snap, registry, streak, changed, changes>>

\* _ensure_connected, and then the listing.
LoopSync ==
    /\ loopPc = "sync"
    /\ \E listing \in Listings : snap' = RowOf(listing)
    /\ changed' = FALSE
    /\ changes' = IF ~changed THEN 0
                  ELSE IF changes < MismatchStreak THEN changes + 1 ELSE changes
    /\ loopPc' = "reconcile"
    /\ UNCHANGED <<accountVars, registry, streak>>

LoopDisconnected ==
    /\ loopPc = "sync"
    /\ "disconnect" \in Faults
    /\ loopPc' = "sleep"
    /\ UNCHANGED <<accountVars, snap, registry, streak, changed, changes>>

\* (A mutant: a poll without a difference leaves the streak alone.)
StreakAfterKept == IF snap # registry THEN streak + 1 ELSE streak

\* _mismatch_streak after comparing the listing with the registry.
StreakAfter == IF snap # registry THEN streak + 1 ELSE 0

\* (A mutant: a listing without positions is not applied.)
RegistryAfterNonEmpty == IF snap = NoRow THEN registry ELSE snap

\* apply_reconciliation rewrites the registry from the listing alone.
RegistryAfter == snap

\* (A mutant: the failsafe comes one poll later.)
LoopReconcileLate ==
    /\ loopPc = "reconcile"
    /\ streak' = StreakAfter
    /\ registry' = RegistryAfter
    /\ \/ /\ streak' > MismatchStreak
          /\ TriggerFailsafe("loop")
          /\ loopPc' = "failsafe"
       \/ /\ streak' <= MismatchStreak
          /\ loopPc' = "sleep"
          /\ UNCHANGED fsPc
    /\ UNCHANGED <<positionVars, status, marker, fsLeft, paused, snap, changed, changes>>

\* One difference more or none, and the failsafe when there were enough.
LoopReconcile ==
    /\ loopPc = "reconcile"
    /\ streak' = StreakAfter
    /\ registry' = RegistryAfter
    /\ \/ /\ streak' >= MismatchStreak
          /\ TriggerFailsafe("loop")
          /\ loopPc' = "failsafe"
       \/ /\ streak' < MismatchStreak
          /\ loopPc' = "sleep"
          /\ UNCHANGED fsPc
    /\ UNCHANGED <<positionVars, status, marker, fsLeft, paused, snap, changed, changes>>

\* _trigger_failsafe runs inside the iteration.
LoopFailsafe ==
    /\ loopPc = "failsafe"
    /\ Failsafe("loop")
    /\ NoteChange
    /\ UNCHANGED <<loopPc, snap, registry, streak, changes>>

\* run_forever breaks when paused and otherwise sleeps until the next poll.
LoopPaused ==
    /\ loopPc = "failsafe"
    /\ fsPc["loop"] = "none"
    /\ loopPc' = "off"
    /\ UNCHANGED <<accountVars, snap, registry, streak, changed, changes>>

LoopSleep ==
    /\ loopPc = "sleep"
    /\ loopPc' = "check"
    /\ UNCHANGED <<accountVars, snap, registry, streak, changed, changes>>

\* A poll whose listing is lost with the process may have hidden a change.
LoopCrash ==
    /\ "crash" \in Faults
    /\ loopPc # "off"
    /\ loopPc' = "off"
    /\ ForgetFailsafe("loop")
    /\ streak' = 0 /\ snap' = NoRow
    /\ changed' = (changed \/ (loopPc = "reconcile" /\ snap # registry))
    /\ UNCHANGED <<positionVars, status, marker, registry, changes>>

LoopRun ==
    \/ LoopStart \/ LoopCheck \/ LoopSync \/ LoopDisconnected \/ LoopReconcile
    \/ LoopFailsafe \/ LoopPaused \/ LoopSleep

LoopNext == LoopRun \/ LoopCrash
=============================================================================
