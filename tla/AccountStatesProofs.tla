------------------------ MODULE AccountStatesProofs ------------------------
(***************************************************************************)
(* What holds of the account states file for any accounts, modes and       *)
(* notes.  Types hold for any number of processes; the rest holds for      *)
(* operations that run one after another, the condition OneWriter, and     *)
(* rests on FileInv: the file is always whole, and what the process is     *)
(* about to publish is what the operation makes of the file as it is.      *)
(***************************************************************************)
EXTENDS AccountStates, TLAPS

LEMMA BlankType == ASSUME NEW s \in Statuses PROVE Blank(s) \in Entry
BY NotesAssumption DEF Blank, Entry

LEMMA DemoBlank == Blank("demo") \in Entry
BY BlankType, ModesAssumption DEF Statuses

LEMMA GetStateType ==
    ASSUME NEW c \in Contents, NEW a \in Accounts
    PROVE  GetState(c, a) \in Entry
BY DemoBlank DEF GetState, Contents

\* Every operation writes an entry.
LEMMA AfterType ==
    ASSUME NEW o \in Operations, NEW e \in Entry
    PROVE  After(o, e) \in Entry
<1>1. CASE o \in [kind : {"pause"}, account : Accounts]
  BY <1>1 DEF After, Entry, Statuses, Blocked
<1>2. CASE o \in [kind : {"breach", "set_health", "risk_block"}, account : Accounts, note : Notes]
  <2>1. o.kind \in {"breach", "set_health", "risk_block"} /\ o.note \in Notes
    BY <1>2
  <2>2. CASE o.kind = "breach"
    BY <2>1, <2>2 DEF After, Entry, Statuses, Blocked
  <2>3. CASE o.kind = "set_health"
    BY <2>1, <2>3 DEF After, Entry
  <2>4. CASE o.kind = "risk_block"
    BY <2>1, <2>4 DEF After, Entry
  <2> QED
    BY <2>1, <2>2, <2>3, <2>4
<1>3. CASE o \in [kind : {"resume"}, account : Accounts, status : Modes]
  BY <1>3 DEF After, Entry, Statuses
<1>4. CASE o \in [kind : {"set_state"}, account : Accounts, status : Statuses]
  BY <1>4, BlankType DEF After
<1> QED
  BY <1>1, <1>2, <1>3, <1>4 DEF Operations

LEMMA OperationAccount == ASSUME NEW o \in Operations PROVE o.account \in Accounts
BY DEF Operations

LEMMA LoadType == TypeOK => Load \in Contents
BY DEF TypeOK, Load, NoEntries, Contents

\* A process inside an operation has one.
Busy == \A p \in Processes : pc[p] # "idle" => op[p] \in Operations

\* Every variable keeps its type, whatever processes run and crash: the
\* dictionaries and entries the operations pass on are well formed.
THEOREM TypeCorrect == Spec => [](TypeOK /\ Busy)
<1>1. Init => TypeOK /\ Busy
  BY DemoBlank DEF Init, TypeOK, Busy, NoEntries, Contents
<1>2. TypeOK /\ Busy /\ [Next]_vars => TypeOK' /\ Busy'
  <2> SUFFICES ASSUME TypeOK, Busy, [Next]_vars
               PROVE  TypeOK' /\ Busy'
    OBVIOUS
  <2>1. ASSUME NEW p \in Processes, NEW o \in Operations, Call(p, o)
        PROVE  TypeOK' /\ Busy'
    BY <2>1 DEF Call, TypeOK, Busy
  <2>2. ASSUME NEW p \in Processes, ReadEntry(p)
        PROVE  TypeOK' /\ Busy'
    <3>1. GetState(Load, op[p].account) \in Entry
      BY <2>2, LoadType, GetStateType, OperationAccount DEF ReadEntry, Busy
    <3> QED
      BY <2>2, <3>1 DEF ReadEntry, TypeOK, Busy
  <2>3. ASSUME NEW p \in Processes, SetState(p)
        PROVE  TypeOK' /\ Busy'
    <3>1. op[p] \in Operations /\ After(op[p], prev[p]) \in Entry
      BY <2>3, AfterType DEF SetState, Busy, TypeOK
    <3>2. Updated(p) \in Contents
      BY <3>1, LoadType DEF Updated, Contents
    <3> QED
      BY <2>3, <3>2 DEF SetState, TypeOK, Busy
  <2>4. ASSUME NEW p \in Processes, OpenTmp(p)
        PROVE  TypeOK' /\ Busy'
    BY <2>4 DEF OpenTmp, TypeOK, Busy
  <2>5. ASSUME NEW p \in Processes, WriteTmp(p)
        PROVE  TypeOK' /\ Busy'
    <3>1. raw[p] \in Contents
      BY DEF TypeOK
    <3> QED
      BY <2>5, <3>1 DEF WriteTmp, TypeOK, Busy, Overwritten
  <2>6. ASSUME NEW p \in Processes, ReplaceTmp(p)
        PROVE  TypeOK' /\ Busy'
    <3>1. file' \in Contents \cup {Empty, Garbage} /\ tmp' \in Contents \cup {Empty, Garbage, NoFile}
      BY <2>6 DEF ReplaceTmp, TypeOK
    <3>2. fd' \in [Processes -> {"none", "tmp", "file", "gone"}]
      BY <2>6 DEF ReplaceTmp, TypeOK
    <3> QED
      BY <2>6, <3>1, <3>2, DemoBlank DEF ReplaceTmp, Return, TypeOK, Busy, NoEntries, Contents
  <2>7. ASSUME NEW p \in Processes, Crash(p)
        PROVE  TypeOK' /\ Busy'
    BY <2>7, DemoBlank DEF Crash, Return, TypeOK, Busy, NoEntries, Contents
  <2>8. CASE UNCHANGED vars
    BY <2>8 DEF vars, TypeOK, Busy
  <2> QED
    BY <2>1, <2>2, <2>3, <2>4, <2>5, <2>6, <2>7, <2>8 DEF Next
<1> QED
  BY <1>1, <1>2, PTL DEF Spec

-----------------------------------------------------------------------------
\* Operations run one after another.
OneWriter == \A p, q \in Processes : p = q

\* What the operation of a process makes of the file as it is now.
Result(p) ==
    [file EXCEPT ![op[p].account] = After(op[p], GetState(file, op[p].account))]

FileInv ==
    /\ file \in Contents
    /\ \A p \in Processes :
          /\ pc[p] = "load" /\ op[p].kind # "set_state"
                => prev[p] = GetState(file, op[p].account)
          /\ pc[p] \in {"open", "write", "replace"} => raw[p] = Result(p)
          /\ pc[p] = "write" => tmp = Empty /\ fd[p] = "tmp"
          /\ pc[p] = "replace" => tmp = raw[p]

LEMMA LoadWhole == file \in Contents => Load = file
BY FilesAssumption DEF Load

\* set_state does not look at the entry it replaces.
LEMMA AfterSetState ==
    ASSUME NEW o \in Operations, o.kind = "set_state", NEW e1 \in Entry, NEW e2 \in Entry
    PROVE  After(o, e1) = After(o, e2)
BY DEF After

LEMMA FileInvInvariant ==
    ASSUME OneWriter
    PROVE  Spec => []FileInv
<1>1. Init => FileInv
  BY DEF Init, FileInv, NoEntries, Contents
<1>2. TypeOK /\ Busy /\ FileInv /\ [Next]_vars => FileInv'
  <2> SUFFICES ASSUME TypeOK, Busy, FileInv, [Next]_vars
               PROVE  FileInv'
    OBVIOUS
  <2>0. Load = file
    BY LoadWhole DEF FileInv
  <2>1. ASSUME NEW p \in Processes, NEW o \in Operations, Call(p, o)
        PROVE  FileInv'
    BY <2>1, OneWriter DEF OneWriter, Call, TypeOK, FileInv, Result
  <2>2. ASSUME NEW p \in Processes, ReadEntry(p)
        PROVE  FileInv'
    BY <2>0, <2>2, OneWriter DEF OneWriter, ReadEntry, TypeOK, FileInv, Result
  <2>3. ASSUME NEW p \in Processes, SetState(p)
        PROVE  FileInv'
    <3>1. op[p] \in Operations /\ GetState(file, op[p].account) \in Entry /\ prev[p] \in Entry
      BY <2>3, GetStateType, OperationAccount DEF SetState, Busy, FileInv, TypeOK
    <3>2. After(op[p], prev[p]) = After(op[p], GetState(file, op[p].account))
      BY <2>3, <3>1, AfterSetState DEF SetState, FileInv
    <3>3. Updated(p) = Result(p)
      BY <2>0, <3>2 DEF Updated, Result
    <3> QED
      BY <2>3, <3>3, OneWriter DEF OneWriter, SetState, TypeOK, FileInv, Result
  <2>4. ASSUME NEW p \in Processes, OpenTmp(p)
        PROVE  FileInv'
    BY <2>4, OneWriter DEF OneWriter, OpenTmp, TypeOK, FileInv, Result
  <2>5. ASSUME NEW p \in Processes, WriteTmp(p)
        PROVE  FileInv'
    <3>1. tmp = Empty /\ fd[p] = "tmp" /\ pc[p] = "write"
      BY <2>5 DEF WriteTmp, FileInv
    <3>2. tmp' = raw[p] /\ file' = file
      BY <2>5, <3>1 DEF WriteTmp, Overwritten
    <3> QED
      BY <2>5, <3>1, <3>2, OneWriter DEF OneWriter, WriteTmp, TypeOK, FileInv, Result
  <2>6. ASSUME NEW p \in Processes, ReplaceTmp(p)
        PROVE  FileInv'
    <3>1. pc' = [q \in Processes |-> "idle"]
      BY <2>6, OneWriter DEF OneWriter, ReplaceTmp, Return, TypeOK
    <3>2. file' \in Contents
      <4>1. tmp = raw[p] /\ raw[p] \in Contents
        BY <2>6 DEF ReplaceTmp, FileInv, TypeOK
      <4> QED
        BY <2>6, <4>1, FilesAssumption DEF ReplaceTmp
    <3> QED
      BY <3>1, <3>2 DEF FileInv
  <2>7. ASSUME NEW p \in Processes, Crash(p)
        PROVE  FileInv'
    <3>1. pc' = [q \in Processes |-> "idle"]
      BY <2>7, OneWriter DEF OneWriter, Crash, Return, TypeOK
    <3> QED
      BY <2>7, <3>1 DEF FileInv, Crash
  <2>8. CASE UNCHANGED vars
    BY <2>8 DEF vars, FileInv, Result
  <2> QED
    BY <2>1, <2>2, <2>3, <2>4, <2>5, <2>6, <2>7, <2>8 DEF Next
<1> QED
  BY <1>1, <1>2, TypeCorrect, PTL DEF Spec

\* A step either leaves the file alone or is the rename, which performs the
\* operation of its process on the file as it was.
LEMMA FileStep ==
    ASSUME OneWriter, TypeOK, Busy, FileInv, [Next]_vars
    PROVE  \/ file' = file
           \/ \E p \in Processes : pc[p] = "replace" /\ op[p] \in Operations /\ file' = Result(p)
<1>1. ASSUME NEW p \in Processes, WriteTmp(p)
      PROVE  file' = file
  BY <1>1 DEF WriteTmp, FileInv
<1>2. ASSUME NEW p \in Processes, ReplaceTmp(p)
      PROVE  pc[p] = "replace" /\ op[p] \in Operations /\ file' = Result(p)
  <2>1. pc[p] = "replace" /\ op[p] \in Operations
    BY <1>2 DEF ReplaceTmp, Busy
  <2>2. tmp = Result(p) /\ raw[p] = tmp /\ raw[p] \in Contents
    BY <2>1 DEF FileInv, TypeOK
  <2> QED
    BY <1>2, <2>1, <2>2, FilesAssumption DEF ReplaceTmp
<1> QED
  BY <1>1, <1>2 DEF Next, vars, Call, ReadEntry, SetState, OpenTmp, Crash

\* What load returns goes from one operation's result to the next one's: the
\* file implements AccountGovernance, wherever the process dies.
THEOREM ImplementsGovernanceCorrect ==
    ASSUME OneWriter
    PROVE  Spec => ImplementsGovernance
<1>1. Init => Governance!Init
  BY FilesAssumption DEF Init, Governance!Init, Load, NoEntries
<1>2. TypeOK /\ Busy /\ FileInv /\ FileInv' /\ [Next]_vars => [Governance!Next]_Load
  <2> SUFFICES ASSUME TypeOK, Busy, FileInv, FileInv', [Next]_vars
               PROVE  Governance!Next \/ Load' = Load
    OBVIOUS
  <2>1. Load = file /\ Load' = file'
    <3>1. Load = file
      BY LoadWhole DEF FileInv
    <3>2. file' \notin {Empty, Garbage}
      BY FilesAssumption DEF FileInv
    <3> QED
      BY <3>1, <3>2 DEF Load
  <2>2. ASSUME NEW p \in Processes, op[p] \in Operations, file' = Result(p)
        PROVE  Governance!Next
    <3> DEFINE o == op[p]
    <3>1. o \in Governance!Operations
      BY <2>2 DEF Operations, Governance!Operations, Statuses, Governance!Statuses,
                  Blocked, Governance!Blocked
    <3>2. GetState(file, o.account) = Governance!GetState(file, o.account)
      BY DEF GetState, Governance!GetState, Blank, Governance!Blank
    <3>3. ASSUME NEW e PROVE After(o, e) = Governance!After(o, e)
      BY DEF After, Governance!After, Blank, Governance!Blank
    <3>4. Governance!Perform(o)
      BY <2>1, <2>2, <3>2, <3>3 DEF Result, Governance!Perform
    <3> QED
      BY <3>1, <3>4 DEF Governance!Next
  <2> QED
    BY <2>1, <2>2, FileStep, OneWriter
<1> QED
  BY <1>1, <1>2, TypeCorrect, FileInvInvariant, OneWriter, PTL
  DEF Spec, ImplementsGovernance, Governance!Spec

\* A blocked account trades again only through a resume or a set_state on it.
THEOREM OnlyResumeUnblocksCorrect ==
    ASSUME OneWriter
    PROVE  Spec => OnlyResumeUnblocks
<1>1. ASSUME TypeOK, Busy, FileInv, FileInv', [Next]_vars, NEW a \in Accounts,
             ~Eligible(Load, a), Eligible(Load', a)
      PROVE  \E p \in Processes : /\ pc[p] = "replace"
                                  /\ op[p].kind \in {"resume", "set_state"}
                                  /\ op[p].account = a
  <2>1. Load = file /\ Load' = file'
    <3>1. Load = file
      BY <1>1, LoadWhole DEF FileInv
    <3>2. file' \notin {Empty, Garbage}
      BY <1>1, FilesAssumption DEF FileInv
    <3> QED
      BY <3>1, <3>2 DEF Load
  <2>2. PICK p \in Processes : pc[p] = "replace" /\ op[p] \in Operations /\ file' = Result(p)
    BY <1>1, <2>1, FileStep, OneWriter
  <2>3. op[p].account = a
    BY <1>1, <2>1, <2>2 DEF Result, FileInv, Contents, Eligible
  <2>4. file[a] \in Entry /\ file[a].status \notin Modes /\ GetState(file, a) = file[a]
    BY <1>1, <2>1 DEF FileInv, Contents, Eligible, GetState
  <2>5. After(op[p], file[a]).status \in Modes
    <3>1. file'[a] = After(op[p], file[a])
      BY <1>1, <2>2, <2>3, <2>4 DEF Result, FileInv, Contents
    <3>2. file'[a] # NoEntry
      BY <3>1, <2>2, <2>4, AfterType, NoEntryAssumption
    <3> QED
      BY <1>1, <2>1, <3>1, <3>2 DEF Eligible
  <2>6. op[p].kind \in {"resume", "set_state"}
    <3>1. CASE op[p].kind \in {"pause", "breach"}
      BY <2>4, <2>5, <3>1, ModesAssumption DEF After, Entry, Blocked
    <3>2. CASE op[p].kind \in {"set_health", "risk_block"}
      BY <2>4, <2>5, <3>2 DEF After, Entry
    <3> QED
      BY <2>2, <3>1, <3>2 DEF Operations
  <2> QED
    BY <2>2, <2>3, <2>6
<1>2. TypeOK /\ Busy /\ FileInv /\ FileInv' /\ [Next]_vars
        => [\A a \in Accounts :
              ~Eligible(Load, a) /\ Eligible(Load', a)
                  => \E p \in Processes : /\ pc[p] = "replace"
                                          /\ op[p].kind \in {"resume", "set_state"}
                                          /\ op[p].account = a]_vars
  BY <1>1
<1> QED
  BY <1>2, TypeCorrect, FileInvInvariant, OneWriter, PTL DEF Spec, OnlyResumeUnblocks
=============================================================================
