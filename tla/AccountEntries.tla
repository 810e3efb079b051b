--------------------------- MODULE AccountEntries ---------------------------
(***************************************************************************)
(* The entries of QuantBridge's account_states.json and what each          *)
(* operation of AccountStateMachine does to one (quantbridge/src/          *)
(* quantbridge/accounts/account_state_machine.py).                         *)
(***************************************************************************)
CONSTANTS
    Accounts,    \* account ids
    Modes,       \* statuses an account trades under
    Notes,       \* values of the free-text fields
    NoNote,      \* the empty string
    NoEntry      \* the account has no entry in the file

Blocked == {"paused", "breached", "disabled"}
Statuses == Modes \cup Blocked

\* Reason, paused_by and updated_at are text that no decision reads.
Entry == [status : Statuses, breachType : Notes, health : Notes, riskBlock : Notes]

ASSUME ModesAssumption == "demo" \in Modes /\ Modes \cap Blocked = {}
ASSUME NotesAssumption == NoNote \in Notes
ASSUME NoEntryAssumption == NoEntry \notin Entry

Blank(status) == [status |-> status, breachType |-> NoNote, health |-> NoNote,
                  riskBlock |-> NoNote]

Contents == [Accounts -> Entry \cup {NoEntry}]

\* get_state with its default status "demo".
GetState(content, a) == IF content[a] = NoEntry THEN Blank("demo") ELSE content[a]

Operations ==
    [kind : {"pause"}, account : Accounts]
        \cup [kind : {"breach", "set_health", "risk_block"}, account : Accounts, note : Notes]
        \cup [kind : {"resume"}, account : Accounts, status : Modes]
        \cup [kind : {"set_state"}, account : Accounts, status : Statuses]

\* The entry an operation writes, from the one it read; set_state, which
\* --account-status calls, reads none and forgets every other field.
After(o, previous) ==
    CASE o.kind = "pause" -> [previous EXCEPT !.status = "paused"]
      [] o.kind = "breach" -> [previous EXCEPT !.status = "breached", !.breachType = o.note]
      [] o.kind = "resume" -> [previous EXCEPT !.status = o.status]
      [] o.kind = "set_health" -> [previous EXCEPT !.health = o.note]
      [] o.kind = "risk_block" -> [previous EXCEPT !.riskBlock = o.note]
      [] o.kind = "set_state" -> Blank(o.status)

\* is_eligible_for_trading; the default is the mode of the account's policy.
Eligible(content, a) == content[a] = NoEntry \/ content[a].status \in Modes

=============================================================================
