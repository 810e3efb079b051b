--------------------------- MODULE AccountStates ---------------------------
(***************************************************************************)
(* QuantBridge's AccountStateMachine and AccountStateStore (quantbridge/   *)
(* src/quantbridge/accounts): one JSON file of account entries, which the  *)
(* runtime loop, the order scripts and the operator's account_control      *)
(* change without a lock.  Every operation loads the file in get_state,    *)
(* loads it again in set_state, writes the whole of it to <file>.tmp, a    *)
(* name all processes share, and renames that over the file.               *)
(***************************************************************************)
EXTENDS AccountEntries

CONSTANTS
    Processes,       \* the processes that may be inside an operation
    NoFile,          \* there is no file of that name
    Empty, Garbage   \* contents json.loads rejects

VARIABLES
    file,    \* what state/account_states.json holds
    tmp,     \* what state/account_states.json.tmp holds
    pc,      \* where each process is in its operation
    op,      \* the operation of each process
    prev,    \* the entry its get_state read
    raw,     \* the dictionary set_state is about to save
    fd       \* the name its open file has by now: other processes rename it

vars == <<file, tmp, pc, op, prev, raw, fd>>

ASSUME FilesAssumption ==
    /\ NoFile \notin Contents \cup {Empty, Garbage}
    /\ Empty \notin Contents /\ Garbage \notin Contents

NoEntries == [a \in Accounts |-> NoEntry]
NoOp == [kind |-> "none", account |-> NoEntry]

TypeOK ==
    /\ file \in Contents \cup {Empty, Garbage}
    /\ tmp \in Contents \cup {Empty, Garbage, NoFile}
    /\ pc \in [Processes -> {"idle", "get", "load", "open", "write", "replace"}]
    /\ op \in [Processes -> Operations \cup {NoOp}]
    /\ prev \in [Processes -> Entry]
    /\ raw \in [Processes -> Contents]
    /\ fd \in [Processes -> {"none", "tmp", "file", "gone"}]

\* A missing file and an empty dictionary load alike.
Init ==
    /\ file = NoEntries /\ tmp = NoFile
    /\ pc = [p \in Processes |-> "idle"]
    /\ op = [p \in Processes |-> NoOp]
    /\ prev = [p \in Processes |-> Blank("demo")]
    /\ raw = [p \in Processes |-> NoEntries]
    /\ fd = [p \in Processes |-> "none"]

\* load: whatever json.loads rejects is an empty dictionary.
Load == IF file \in {Empty, Garbage} THEN NoEntries ELSE file

\* Back to idle; the locals are reset, because nothing reads them again.
Return(p) ==
    /\ pc' = [pc EXCEPT ![p] = "idle"]
    /\ op' = [op EXCEPT ![p] = NoOp]
    /\ prev' = [prev EXCEPT ![p] = Blank("demo")]
    /\ raw' = [raw EXCEPT ![p] = NoEntries]

\* A process calls an operation: every one but set_state begins with get_state.
Call(p, o) ==
    /\ pc[p] = "idle"
    /\ op' = [op EXCEPT ![p] = o]
    /\ pc' = [pc EXCEPT ![p] = IF o.kind = "set_state" THEN "load" ELSE "get"]
    /\ UNCHANGED <<file, tmp, prev, raw, fd>>

ReadEntry(p) ==
    /\ pc[p] = "get"
    /\ prev' = [prev EXCEPT ![p] = GetState(Load, op[p].account)]
    /\ pc' = [pc EXCEPT ![p] = "load"]
    /\ UNCHANGED <<file, tmp, op, raw, fd>>

\* (A mutant: what set_state loads is dropped.)
UpdatedAlone(p) == [NoEntries EXCEPT ![op[p].account] = After(op[p], prev[p])]

\* The dictionary just loaded, with the new entry of this account.
Updated(p) == [Load EXCEPT ![op[p].account] = After(op[p], prev[p])]

\* (A mutant: the entry takes the place of the dictionary.)
SetStateEntryOnly(p) ==
    /\ pc[p] = "load"
    /\ raw' = [raw EXCEPT ![p] = After(op[p], prev[p])]
    /\ pc' = [pc EXCEPT ![p] = "open"]
    /\ UNCHANGED <<file, tmp, op, prev, fd>>

\* set_state loads the file again and replaces one entry.
SetState(p) ==
    /\ pc[p] = "load"
    /\ raw' = [raw EXCEPT ![p] = Updated(p)]
    /\ pc' = [pc EXCEPT ![p] = "open"]
    /\ UNCHANGED <<file, tmp, op, prev, fd>>

\* (A mutant: the file itself is opened, as order_manager.save_state does.)
OpenInPlace(p) ==
    /\ pc[p] = "open"
    /\ file' = Empty
    /\ fd' = [fd EXCEPT ![p] = "file"]
    /\ pc' = [pc EXCEPT ![p] = "write"]
    /\ UNCHANGED <<tmp, op, prev, raw>>

\* write_text opens the temporary file, which truncates it.
OpenTmp(p) ==
    /\ pc[p] = "open"
    /\ tmp' = Empty
    /\ fd' = [fd EXCEPT ![p] = "tmp"]
    /\ pc' = [pc EXCEPT ![p] = "write"]
    /\ UNCHANGED <<file, op, prev, raw>>

\* Written over what another process put there, the longer text keeps its tail
\* (reason and updated_at, which the model leaves out, vary in length).
Overwritten(old, new) == {new} \cup IF old = Empty THEN {} ELSE {Garbage}

\* write_text writes and closes: through the name its file has by now.
WriteTmp(p) ==
    /\ pc[p] = "write"
    /\ \/ fd[p] = "tmp" /\ tmp' \in Overwritten(tmp, raw[p]) /\ file' = file
       \/ fd[p] = "file" /\ file' \in Overwritten(file, raw[p]) /\ tmp' = tmp
       \/ fd[p] = "gone" /\ UNCHANGED <<file, tmp>>
    /\ fd' = [fd EXCEPT ![p] = "none"]
    /\ pc' = [pc EXCEPT ![p] = "replace"]
    /\ UNCHANGED <<op, prev, raw>>

\* The rename publishes whatever the temporary file holds; when another
\* process has renamed it first, FileNotFoundError ends the operation.
ReplaceTmp(p) ==
    /\ pc[p] = "replace"
    /\ \/ /\ tmp # NoFile
          /\ file' = tmp
          /\ tmp' = NoFile
          /\ fd' = [q \in Processes |-> CASE fd[q] = "tmp" -> "file"
                                          [] fd[q] = "file" -> "gone"
                                          [] OTHER -> fd[q]]
       \/ tmp = NoFile /\ UNCHANGED <<file, tmp, fd>>
    /\ Return(p)

\* The process dies inside an operation; what it wrote to the temporary file
\* stays there, which only matters while another process is about to rename it.
Crash(p) ==
    /\ pc[p] # "idle"
    /\ Return(p)
    /\ fd' = [fd EXCEPT ![p] = "none"]
    /\ tmp' = IF \A q \in Processes \ {p} : pc[q] \notin {"write", "replace"}
                THEN NoFile ELSE tmp
    /\ file' = file

-----------------------------------------------------------------------------
Next ==
    \E p \in Processes :
        \/ \E o \in Operations : Call(p, o)
        \/ ReadEntry(p) \/ SetState(p) \/ OpenTmp(p) \/ WriteTmp(p) \/ ReplaceTmp(p)
        \/ Crash(p)

Spec == Init /\ [][Next]_vars

-----------------------------------------------------------------------------
(* Properties.  They hold for operations that run one after another, each   *)
(* of which may die anywhere; the race of two is a run of its own.          *)

\* The file goes from one operation's result to the next one's, and a process
\* that dies leaves the one or the other: what load returns implements
\* AccountGovernance (the temporary file and the rename of save).
Governance == INSTANCE AccountGovernance WITH entries <- Load

ImplementsGovernance == Governance!Spec

\* A blocked account trades again only when an operation on that very account
\* that is meant to change its status completes: never by a health report, an
\* operation on another account, or a file that cannot be read.
OnlyResumeUnblocks ==
    [][\A a \in Accounts :
          ~Eligible(Load, a) /\ Eligible(Load', a)
              => \E p \in Processes : /\ pc[p] = "replace"
                                      /\ op[p].kind \in {"resume", "set_state"}
                                      /\ op[p].account = a]_vars
=============================================================================
