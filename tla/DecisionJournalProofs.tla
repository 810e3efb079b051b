------------------------ MODULE DecisionJournalProofs ------------------------
(***************************************************************************)
(* That the journal of the live runner is what its readers take it for:    *)
(* the chain of every cycle is accepted, every signal has its outcome, the *)
(* events of a trade correlate, the funnel adds up and a block is never    *)
(* charged with a trade somebody held.  For any number of polls and        *)
(* processes, any limit on open trades and any set of settings.            *)
(*                                                                         *)
(* An event is decided by one step and written by a later one, so what     *)
(* holds of the journal alone is not inductive.  The invariants are about  *)
(* the story instead: the rows written followed by those the agenda will   *)
(* write.  Writing an event leaves the story as it is, a crash cuts it     *)
(* back to the journal, and only a poll, the decision on a signal and what *)
(* the other handlers log put rows on it (lemma Steps).                    *)
(***************************************************************************)
EXTENDS DecisionJournal, FiniteSetTheorems, WellFoundedInduction, TLAPS

EventTypes == ChainEventTypes \cup {"signal_filtered", "trade_executed", "trade_closed",
                                    "market_data_stale_warning"}
Marks == Directions \cup {"cycle", "synthetic", "stale"}
Names == Nat \X Marks
CloseTraces == Nat \X Directions \X {"close"} \X Nat
EventRecords ==
    [source : {"quantbuild"}, type : EventTypes, trace : Names \cup CloseTraces,
     cycle : Nat \cup {NoId}, signal : Names \cup {NoId}, trade : Names \cup {NoId},
     orderRef : Names \cup {NoId}, decision : {"none", "BLOCK", "NO_ACTION", "ENTER"},
     reason : NoActionReasonsAllowed \cup {"none", "slippage_flatten"},
     run : {NoId}, session : {NoId}, seq : {0}]
Items == [do : {"emit"}, event : EventRecords] \cup [do : {"execute"}, dir : Directions]

IdsOf(n) == (1 .. n) \X Directions
Ids == IdsOf(polls)

TypeInv ==
    /\ pc \in {"down", "sync", "signals", "stale", "monitor"}
    /\ pc = "stale" => polls > 0
    /\ pc = "down" => agenda = <<>>
    /\ process \in Nat /\ (pc # "down" => process > 0)
    /\ sourceSeq \in Nat /\ polls \in Nat /\ (process = 0 => polls = 0)
    /\ agenda \in Seq(Items) /\ (agenda # <<>> => polls > 0)
    /\ \E S : journal \in Seq(S)
    /\ open \subseteq Ids /\ tracked \subseteq Ids /\ meta \subseteq Ids
    /\ invalid \subseteq tracked

-----------------------------------------------------------------------------
(* Events and items *)

LEMMA CanonicalAllowed ==
    ASSUME NEW reason
    PROVE  CanonicalNoActionReason(reason) \in NoActionReasonsAllowed
BY DEF CanonicalNoActionReason, Canonical, NoActionReasonsAllowed

LEMMA IdName ==
    ASSUME NEW n \in Nat, NEW x \in Marks
    PROVE  Of(n, x) \in Names /\ Of(n, x)[1] = n /\ Of(n, x)[2] = x /\ Of(n, x) # NoId
BY NoIdAssumption DEF Of, Names, Marks

LEMMA CloseTraceType ==
    ASSUME TypeInv, NEW n \in Nat, NEW d \in Directions
    PROVE  CloseTrace(Of(n, d)) \in CloseTraces
<1>1. Len(journal) \in Nat
  BY DEF TypeInv
<1> QED
  BY <1>1 DEF CloseTrace, CloseTraces, Of

\* The trace of a close of its own is that of no poll.
LEMMA CloseTraceIsNew ==
    ASSUME NEW trace \in CloseTraces
    PROVE  trace # NoId /\ trace \notin Names
BY NoIdAssumption DEF CloseTraces, Names

\* Flattening one or two sequences.
LEMMA FlattenOne ==
    ASSUME NEW s
    PROVE  FlattenSeq(<<s>>) = s
<1> DEFINE one == [i \in 1 .. 1 |-> s]
           Flat(f) == f = [i \in 1 .. Len(<<s>>) |-> IF i = 1 THEN <<s>>[i] ELSE f[i - 1] \o <<s>>[i]]
<1>1. Flat(one)
  OBVIOUS
<1>2. ASSUME NEW f, Flat(f) PROVE f[1] = s
  BY <1>2
<1>3. FlattenSeq(<<s>>) = (CHOOSE f : Flat(f))[1]
  BY DEF FlattenSeq
<1> QED
  BY <1>1, <1>2, <1>3

LEMMA FlattenTwo ==
    ASSUME NEW s, NEW t
    PROVE  FlattenSeq(<<s, t>>) = s \o t
<1> DEFINE two == [i \in 1 .. 2 |-> IF i = 1 THEN s ELSE s \o t]
           Flat(f) == f = [i \in 1 .. Len(<<s, t>>) |->
                              IF i = 1 THEN <<s, t>>[i] ELSE f[i - 1] \o <<s, t>>[i]]
<1>1. Flat(two)
  OBVIOUS
<1>2. ASSUME NEW f, Flat(f) PROVE f[2] = s \o t
  <2>1. f[1] = s
    BY <1>2
  <2>2. f[2] = f[2 - 1] \o <<s, t>>[2] /\ 2 - 1 = 1
    <3>1. 2 \in 1 .. Len(<<s, t>>) /\ 2 # 1 /\ 2 - 1 = 1
      OBVIOUS
    <3> HIDE DEF two
    <3> QED
      BY <1>2, <3>1, Zenon
  <2> QED
    BY <2>1, <2>2
<1>3. FlattenSeq(<<s, t>>) = (CHOOSE f : Flat(f))[2]
  BY DEF FlattenSeq
<1> QED
  BY <1>1, <1>2, <1>3

\* What every event says; a name is the Of of a poll and a mark.
LEMMA SignalDetectedIs ==
    ASSUME NEW trace \in Names, NEW cycle \in Nat, NEW signal \in Names
    PROVE  LET e == SignalDetected(trace, cycle, signal)
           IN  /\ e \in EventRecords /\ e.type = "signal_detected"
               /\ e.trace = trace /\ e.cycle = cycle /\ e.signal = signal
               /\ e.trade = NoId /\ e.orderRef = NoId /\ e.decision = "none" /\ e.reason = "none"
BY DEF SignalDetected, Event, EventRecords, EventTypes, ChainEventTypes, ChainRank

LEMMA SignalEvaluatedIs ==
    ASSUME NEW trace \in Names, NEW cycle \in Nat
    PROVE  LET e == SignalEvaluated(trace, cycle)
           IN  /\ e \in EventRecords /\ e.type = "signal_evaluated"
               /\ e.trace = trace /\ e.cycle = cycle /\ e.signal = NoId
               /\ e.trade = NoId /\ e.orderRef = NoId /\ e.decision = "none" /\ e.reason = "none"
BY DEF SignalEvaluated, Event, EventRecords, EventTypes, ChainEventTypes, ChainRank

LEMMA GuardDecisionIs ==
    ASSUME NEW trace \in Names, NEW cycle \in Nat, NEW reason
    PROVE  LET e == GuardDecision(trace, cycle, reason)
           IN  /\ e \in EventRecords /\ e.type = "risk_guard_decision"
               /\ e.trace = trace /\ e.cycle = cycle /\ e.signal = NoId
               /\ e.trade = NoId /\ e.orderRef = NoId /\ e.decision = "BLOCK"
BY CanonicalAllowed DEF GuardDecision, Event, EventRecords, EventTypes, ChainEventTypes, ChainRank

LEMMA NoActionIs ==
    ASSUME NEW trace \in Names, NEW cycle \in Nat, NEW reason
    PROVE  LET e == NoAction(trace, cycle, reason)
           IN  /\ e \in EventRecords /\ e.type = "trade_action"
               /\ e.trace = trace /\ e.cycle = cycle /\ e.signal = NoId
               /\ e.trade = NoId /\ e.orderRef = NoId /\ e.decision = "NO_ACTION"
               /\ e.reason \in NoActionReasonsAllowed
BY CanonicalAllowed DEF NoAction, Event, EventRecords, EventTypes, ChainEventTypes, ChainRank

LEMMA EnterActionIs ==
    ASSUME NEW trace \in Names, NEW cycle \in Nat, NEW trade \in Names
    PROVE  LET e == EnterAction(trace, cycle, trade)
           IN  /\ e \in EventRecords /\ e.type = "trade_action"
               /\ e.trace = trace /\ e.cycle = cycle /\ e.signal = NoId
               /\ e.trade = trade /\ e.orderRef = NoId /\ e.decision = "ENTER"
BY DEF EnterAction, Event, EventRecords, EventTypes, ChainEventTypes, ChainRank

LEMMA SignalFilteredIs ==
    ASSUME NEW trace \in Names, NEW signal \in Names, NEW reason
    PROVE  LET e == SignalFiltered(trace, signal, reason)
           IN  /\ e \in EventRecords /\ e.type = "signal_filtered"
               /\ e.trace = trace /\ e.cycle = NoId /\ e.signal = signal
               /\ e.trade = NoId /\ e.orderRef = NoId /\ e.decision = "none"
               /\ e.reason \in NoActionReasonsAllowed
BY CanonicalAllowed DEF SignalFiltered, Event, EventRecords, EventTypes

LEMMA TradeExecutedIs ==
    ASSUME NEW trace \in Names, NEW cycle \in Nat, NEW signal \in Names, NEW trade \in Names
    PROVE  LET e == TradeExecuted(trace, cycle, signal, trade)
           IN  /\ e \in EventRecords /\ e.type = "trade_executed"
               /\ e.trace = trace /\ e.cycle = cycle /\ e.signal = signal
               /\ e.trade = trade /\ e.orderRef = trade /\ e.decision = "none"
BY DEF TradeExecuted, Event, EventRecords, EventTypes

LEMMA StaleWarningIs ==
    ASSUME NEW n \in Nat
    PROVE  LET e == MarketDataStaleWarning(n)
           IN  /\ e \in EventRecords /\ e.type = "market_data_stale_warning"
               /\ e.trace = Of(n, "stale") /\ e.cycle = NoId /\ e.signal = NoId
               /\ e.trade = NoId /\ e.orderRef = NoId /\ e.decision = "none" /\ e.reason = "none"
BY IdName DEF MarketDataStaleWarning, Event, EventRecords, EventTypes, Marks

LEMMA TradeClosedIs ==
    ASSUME TypeInv, NEW n \in Nat, NEW d \in Directions, NEW known \in BOOLEAN,
           NEW reason \in {"none", "slippage_flatten"}
    PROVE  LET t == Of(n, d)
               e == [TradeClosed(t, known) EXCEPT !.reason = reason]
           IN  /\ e \in EventRecords /\ e.type = "trade_closed"
               /\ known => e.trace = t /\ e.cycle = n
               /\ ~known => e.trace \in CloseTraces /\ e.cycle = NoId
               /\ e.signal = NoId /\ e.trade = t /\ e.orderRef = t
               /\ e.decision = "none" /\ e.reason = reason
               /\ TradeClosed(t, known) \in EventRecords
               /\ reason = "none" => e = TradeClosed(t, known)
<1> DEFINE t == Of(n, d)
           trace == IF known THEN t ELSE CloseTrace(t)
           cycle == IF known THEN t[1] ELSE NoId
<1>1. /\ t \in Names /\ t[1] = n /\ trace \in Names \cup CloseTraces /\ cycle \in Nat \cup {NoId}
      /\ known => trace = t /\ cycle = n
      /\ ~known => trace \in CloseTraces /\ cycle = NoId
  BY IdName, CloseTraceType DEF Marks
<1>2. TradeClosed(t, known)
        = [Event("trade_closed", trace, cycle) EXCEPT !.trade = t, !.orderRef = t]
  BY DEF TradeClosed
<1> HIDE DEF t, trace, cycle
<1>3. /\ TradeClosed(t, known) \in EventRecords /\ TradeClosed(t, known).reason = "none"
      /\ LET e == [TradeClosed(t, known) EXCEPT !.reason = reason]
         IN  /\ e \in EventRecords /\ e.type = "trade_closed" /\ e.trace = trace
             /\ e.cycle = cycle /\ e.signal = NoId /\ e.trade = t /\ e.orderRef = t
             /\ e.decision = "none" /\ e.reason = reason
  BY <1>1, <1>2 DEF Event, EventRecords, EventTypes
<1>4. reason = "none" => [TradeClosed(t, known) EXCEPT !.reason = reason] = TradeClosed(t, known)
  BY <1>3 DEF EventRecords
<1> QED
  BY <1>1, <1>3, <1>4 DEF t

-----------------------------------------------------------------------------
(* The story: the rows of the journal and those still to be written *)

\* What a row of the journal tells, but for its number.
Tell(event, session) ==
    [source |-> event.source, type |-> event.type, trace |-> event.trace,
     cycle |-> event.cycle, signal |-> event.signal, trade |-> event.trade,
     orderRef |-> event.orderRef, decision |-> event.decision, reason |-> event.reason,
     session |-> session]

\* An item of the agenda as the row it will be; a direction that is still to
\* be executed is a row of a type of its own.
Planned(item) ==
    IF item.do = "emit"
      THEN Tell(item.event, process)
      ELSE [Tell(Event("execute", Of(polls, item.dir), polls), process)
              EXCEPT !.signal = Of(polls, item.dir)]

End == Len(journal) + Len(agenda)
Told == 1 .. End
Story ==
    [i \in Told |-> IF i <= Len(journal) THEN Tell(journal[i], journal[i].session)
                                         ELSE Planned(agenda[i - Len(journal)])]

LEMMA EmitIs ==
    ASSUME NEW e \in EventRecords
    PROVE  Emit(e) \in Items /\ Emit(e).do = "emit" /\ Emit(e).event = e
           /\ Planned(Emit(e)) = Tell(e, process)
BY DEF Emit, Items, Planned

LEMMA ExecuteIs ==
    ASSUME NEW d \in Directions
    PROVE  /\ Execute(d) \in Items /\ Execute(d).do = "execute" /\ Execute(d).dir = d
           /\ LET r == Planned(Execute(d))
              IN  /\ r.source = "quantbuild" /\ r.type = "execute" /\ r.trace = Of(polls, d)
                  /\ r.cycle = polls /\ r.signal = Of(polls, d) /\ r.trade = NoId
                  /\ r.orderRef = NoId /\ r.decision = "none" /\ r.session = process
BY DEF Execute, Items, Planned, Tell, Event

LEMMA LengthsType ==
    ASSUME TypeInv
    PROVE  Len(journal) \in Nat /\ Len(agenda) \in Nat /\ End \in Nat
           /\ (agenda = <<>> <=> Len(agenda) = 0)
BY DEF TypeInv, End

\* Writing an event is a step along the story.
LEMMA WriteKeepsStory ==
    ASSUME TypeInv, WriteEvent
    PROVE  /\ Told' = Told /\ Story' = Story /\ End' = End
           /\ \E e \in EventRecords :
                 /\ agenda[1] = Emit(e)
                 /\ journal' = Append(journal, [e EXCEPT !.run = process, !.session = process,
                                                         !.seq = sourceSeq + 1])
                 /\ Len(journal') = Len(journal) + 1
                 /\ \A i \in Rows : journal'[i] = journal[i]
<1>1. PICK S : journal \in Seq(S)
  BY DEF TypeInv
<1>2. /\ agenda \in Seq(Items) /\ agenda # <<>> /\ agenda' = Tail(agenda)
      /\ agenda[1].do = "emit" /\ agenda[1] \in Items
  BY DEF TypeInv, WriteEvent
<1> DEFINE e == agenda[1].event
           row == [e EXCEPT !.run = process, !.session = process, !.seq = sourceSeq + 1]
<1>3. e \in EventRecords /\ agenda[1] = Emit(e)
  BY <1>2 DEF Items, Emit
<1>4. journal' = Append(journal, row) /\ UNCHANGED <<process, polls>>
  <2>1. Head(agenda) = agenda[1]
    BY <1>2
  <2> QED
    BY <2>1 DEF WriteEvent
<1>5. Tell(row, row.session) = Tell(e, process)
  BY <1>3 DEF EventRecords, Tell
<1> HIDE DEF e, row
<1>6. /\ Len(journal') = Len(journal) + 1 /\ journal'[Len(journal) + 1] = row
      /\ \A i \in Rows : journal'[i] = journal[i]
      /\ Len(journal) \in Nat
  BY <1>1, <1>4 DEF Rows
<1>7. /\ Len(agenda') = Len(agenda) - 1 /\ Len(agenda) \in Nat \ {0}
      /\ \A k \in 1 .. Len(agenda) - 1 : agenda'[k] = agenda[k + 1]
  BY <1>2
<1>8. End' = End /\ Told' = Told
  BY <1>6, <1>7 DEF End, Told
<1>9. ASSUME NEW i \in Told PROVE Story'[i] = Story[i]
  <2>1. CASE i <= Len(journal)
    BY <1>6, <1>8, <2>1 DEF Story, Told, Rows
  <2>2. CASE i = Len(journal) + 1
    <3>1. Story'[i] = Tell(row, row.session)
      BY <1>6, <1>8, <2>2 DEF Story
    <3>2. Story[i] = Planned(agenda[1])
      BY <1>6, <2>2 DEF Story
    <3> QED
      BY <1>3, <1>5, <3>1, <3>2, EmitIs
  <2>3. CASE i > Len(journal) + 1
    <3>1. /\ i - Len(journal') \in 1 .. Len(agenda) - 1
          /\ (i - Len(journal')) + 1 = i - Len(journal)
          /\ ~(i <= Len(journal)) /\ ~(i <= Len(journal'))
      BY <1>6, <1>7, <2>3 DEF Told, End
    <3>2. agenda'[i - Len(journal')] = agenda[i - Len(journal)]
      BY <1>7, <3>1
    <3>3. Planned(agenda[i - Len(journal)])' = Planned(agenda[i - Len(journal)])
      BY <1>4, <3>2 DEF Planned
    <3> QED
      BY <1>4, <1>8, <3>1, <3>2 DEF Story, Planned
  <2> QED
    BY <1>6, <2>1, <2>2, <2>3 DEF Told, End
<1>10. Story' = Story
  BY <1>8, <1>9 DEF Story
<1> QED
  BY <1>3, <1>4, <1>6, <1>8, <1>10 DEF row

\* What leaves journal and agenda alone leaves the story alone.
LEMMA StoryUnmoved ==
    ASSUME TypeInv, UNCHANGED <<journal, agenda>>,
           agenda = <<>> \/ UNCHANGED <<process, polls>>
    PROVE  End' = End /\ Told' = Told /\ Story' = Story
<1>1. End' = End /\ Told' = Told
  BY DEF End, Told
<1>2. ASSUME NEW i \in Told PROVE Story'[i] = Story[i]
  BY <1>1, <1>2, LengthsType DEF Story, Planned, Told, End
<1> QED
  BY <1>1, <1>2 DEF Story

\* A death cuts the story off where it is written.
LEMMA StoryCut ==
    ASSUME TypeInv, journal' = journal, agenda' = <<>>
    PROVE  /\ End' = Len(journal) /\ Told' = Rows /\ Told' \subseteq Told
           /\ \A i \in Told' : Story'[i] = Story[i]
<1>1. End' = Len(journal) /\ Told' = Rows /\ Rows \subseteq Told
  BY LengthsType DEF End, Told, Rows
<1>2. ASSUME NEW i \in Rows PROVE Story'[i] = Story[i]
  BY <1>1, LengthsType DEF Story, Rows
<1> QED
  BY <1>1, <1>2

\* A handler that begins continues the story.
LEMMA StoryContinued ==
    ASSUME TypeInv, agenda = <<>>, journal' = journal, agenda' \in Seq(Items)
    PROVE  /\ End = Len(journal) /\ End' = End + Len(agenda')
           /\ Told \subseteq Told' /\ \A i \in Told : Story'[i] = Story[i]
           /\ Told' \ Told = End + 1 .. End'
           /\ \A k \in 1 .. Len(agenda') :
                 End + k \in Told' \ Told /\ Story'[End + k] = Planned(agenda[k])'
           /\ \A i \in Told' \ Told : i - End \in 1 .. Len(agenda')
<1>1. /\ End = Len(journal) /\ Len(journal) \in Nat /\ Len(agenda') \in Nat
      /\ End' = End + Len(agenda')
  BY LengthsType DEF End
<1>2. Told = 1 .. End /\ Told' = 1 .. End'
  BY DEF Told
<1>3. ASSUME NEW i \in Told PROVE Story'[i] = Story[i]
  BY <1>1, <1>2 DEF Story
<1>4. ASSUME NEW k \in 1 .. Len(agenda')
      PROVE  End + k \in Told' \ Told /\ Story'[End + k] = Planned(agenda[k])'
  <2>1. End + k \in Told' /\ ~(End + k <= End) /\ (End + k) - End = k
    BY <1>1, <1>2
  <2> QED
    BY <1>1, <1>2, <2>1 DEF Story
<1> QED
  BY <1>1, <1>2, <1>3, <1>4

\* The map from a story in which the row x became the rows from x on to the
\* story before.
Unfolds(from, new, x) ==
    /\ x \in Told /\ new \subseteq Told'
    /\ from \in [Told' -> Told]
    /\ \A i \in new : from[i] = x
    /\ \A i \in Told' \ new : Story'[i] = Story[from[i]] /\ from[i] # x
    /\ \A j \in Told \ {x} : \E i \in Told' \ new : from[i] = j
    /\ \A i, j \in Told' : i < j => /\ from[i] <= from[j]
                                    /\ from[i] = from[j] => i \in new /\ j \in new

\* The guards of a signal put what they write in the place of its execution.
LEMMA StoryUnfolded ==
    ASSUME TypeInv, NEW d \in Directions, Executing(d),
           NEW events \in Seq(EventRecords), events # <<>>, Continue(events),
           UNCHANGED <<journal, process, polls>>
    PROVE  LET b == Len(journal)
               m == Len(events)
           IN  /\ agenda' \in Seq(Items) /\ b + 1 \in Told
               /\ Story[b + 1] = Planned(Execute(d))
               /\ End' = End + m - 1
               /\ \A k \in 1 .. m : Story'[b + k] = Tell(events[k], process)
               /\ \E from : Unfolds(from, b + 1 .. b + m, b + 1)
<1> DEFINE b == Len(journal)
           m == Len(events)
           n == Len(agenda)
           emits == [i \in DOMAIN events |-> Emit(events[i])]
<1>1. /\ agenda \in Seq(Items) /\ agenda # <<>> /\ n \in Nat \ {0} /\ b \in Nat
      /\ agenda[1] = Execute(d)
  BY LengthsType DEF TypeInv, Executing
<1>2. m \in Nat \ {0} /\ \A k \in 1 .. m : events[k] \in EventRecords
  OBVIOUS
<1>3. emits \in Seq(Items) /\ Len(emits) = m /\ \A k \in 1 .. m : emits[k] = Emit(events[k])
  BY EmitIs
<1>4. agenda' = emits \o Tail(agenda)
  BY DEF Continue
<1> HIDE DEF emits
<1>5. Tail(agenda) \in Seq(Items) /\ Len(Tail(agenda)) = n - 1
      /\ \A k \in 1 .. n - 1 : Tail(agenda)[k] = agenda[k + 1]
  BY <1>1
<1>6. /\ agenda' \in Seq(Items) /\ Len(agenda') = m + n - 1
      /\ \A k \in 1 .. m : agenda'[k] = Emit(events[k])
      /\ \A k \in m + 1 .. m + n - 1 : agenda'[k] = agenda[k - m + 1]
  <2>1. agenda' \in Seq(Items) /\ Len(agenda') = m + (n - 1)
    <3> DEFINE rest == Tail(agenda)
    <3>1. emits \in Seq(Items) /\ rest \in Seq(Items) /\ Len(emits) = m /\ Len(rest) = n - 1
          /\ m \in Nat /\ n \in Nat
      BY <1>1, <1>2, <1>3, <1>5
    <3>2. agenda' = emits \o rest
      BY <1>4
    <3> HIDE DEF rest, m, n
    <3>3. emits \o rest \in Seq(Items)
      BY <3>1
    <3>4. Len(emits \o rest) = Len(emits) + Len(rest)
      BY <3>1
    <3>5. Len(emits \o rest) = m + (n - 1)
      BY <3>1, <3>4
    <3> QED
      BY <3>2, <3>3, <3>5
  <2>2. ASSUME NEW k \in 1 .. m PROVE agenda'[k] = Emit(events[k])
    BY <1>1, <1>2, <1>3, <1>4, <1>5
  <2>3. ASSUME NEW k \in m + 1 .. m + n - 1 PROVE agenda'[k] = agenda[k - m + 1]
    <3>1. k - m \in 1 .. n - 1
      BY <1>1, <1>2
    <3>2. agenda'[k] = Tail(agenda)[k - m]
      BY <1>1, <1>2, <1>3, <1>4, <1>5, <3>1
    <3> QED
      BY <1>5, <3>1, <3>2
  <2> QED
    BY <1>1, <1>2, <2>1, <2>2, <2>3
<1>7. /\ End = b + n /\ End' = b + (m + n - 1) /\ Told = 1 .. b + n
      /\ Told' = 1 .. b + (m + n - 1) /\ Len(journal') = b
  BY <1>6 DEF End, Told
<1>8. b + 1 \in Told /\ Story[b + 1] = Planned(Execute(d))
  BY <1>1, <1>7 DEF Story
<1>9. ASSUME NEW k \in 1 .. m PROVE Story'[b + k] = Tell(events[k], process)
  <2>1. b + k \in Told' /\ ~(b + k <= b) /\ (b + k) - b = k
    BY <1>1, <1>2, <1>7
  <2>2. Story'[b + k] = Planned(agenda[k])'
    BY <1>7, <2>1 DEF Story
  <2>3. Planned(agenda[k])' = Planned(Emit(events[k]))
    BY <1>6 DEF Planned
  <2> QED
    BY <1>2, <2>2, <2>3, EmitIs
<1> DEFINE new == b + 1 .. b + m
           place(i) == IF i <= b THEN i ELSE IF i <= b + m THEN b + 1 ELSE i - m + 1
           from == [i \in Told' |-> place(i)]
<1>10. \A i \in Told' : place(i) \in Told
  BY <1>1, <1>2, <1>7
<1>11. ASSUME NEW i \in Told', i \notin new
       PROVE  Story'[i] = Story[place(i)] /\ place(i) # b + 1
  <2>1. CASE i <= b
    <3>1. i \in Told
      BY <1>1, <1>7, <2>1
    <3> QED
      BY <1>1, <1>7, <2>1, <3>1 DEF Story
  <2>2. CASE i > b + m
    <3>1. /\ place(i) = i - m + 1 /\ place(i) # b + 1 /\ place(i) \in Told
          /\ ~(place(i) <= b) /\ ~(i <= b)
          /\ i - b \in m + 1 .. m + n - 1 /\ place(i) - b = (i - b) - m + 1
      BY <1>1, <1>2, <1>7, <2>2
    <3>2. Story'[i] = Planned(agenda[i - b])'
      BY <1>7, <3>1 DEF Story
    <3>3. Story[place(i)] = Planned(agenda[place(i) - b])
      BY <3>1 DEF Story
    <3>4. agenda'[i - b] = agenda[place(i) - b]
      BY <1>6, <3>1
    <3> HIDE DEF place
    <3>5. Planned(agenda[i - b])' = Planned(agenda[place(i) - b])
      BY <3>4 DEF Planned
    <3> QED
      BY <3>1, <3>2, <3>3, <3>5
  <2> QED
    BY <1>1, <1>2, <1>7, <1>11, <2>1, <2>2
<1>12. ASSUME NEW j \in Told, j # b + 1
       PROVE  \E i \in Told' : i \notin new /\ place(i) = j
  <2>1. CASE j <= b
    <3>1. j \in Told' /\ j \notin new /\ place(j) = j
      BY <1>1, <1>2, <1>7, <2>1
    <3> QED
      BY <3>1
  <2>2. CASE j > b
    <3>1. j + m - 1 \in Told' /\ j + m - 1 \notin new /\ place(j + m - 1) = j
      BY <1>1, <1>2, <1>7, <1>12, <2>2
    <3> QED
      BY <3>1
  <2> QED
    BY <1>1, <1>7, <2>1, <2>2
<1>13. ASSUME NEW i \in Told', NEW j \in Told', i < j
       PROVE  place(i) <= place(j) /\ (place(i) = place(j) => i \in new /\ j \in new)
  BY <1>1, <1>2, <1>7, <1>13, SMTT(30)
<1>14. \A i \in new : i \in Told' /\ place(i) = b + 1
  BY <1>1, <1>2, <1>7
<1>15. from \in [Told' -> Told] /\ \A i \in Told' : from[i] = place(i)
  BY <1>10
<1> HIDE DEF place, from, new
<1>16. Unfolds(from, new, b + 1)
  BY <1>8, <1>11, <1>12, <1>13, <1>14, <1>15 DEF Unfolds
<1>17. End' = End + m - 1
  BY <1>1, <1>2, <1>7
<1> QED
  BY <1>6, <1>8, <1>9, <1>16, <1>17 DEF new

-----------------------------------------------------------------------------
(* What a poll puts on the agenda *)

OneWay == "both_sides" \notin setting

Detects(n, d) == Emit(SignalDetected(Of(n, d), n, Of(n, d)))
Evaluates(n, d) == Emit(SignalEvaluated(Of(n, d), n))
Filters(n, d, reason) == Emit(SignalFiltered(Of(n, d), Of(n, d), reason))
Declines(n, reason) == Emit(NoAction(CycleTrace(n), n, reason))

\* A gate closes before a signal is looked for.
GateAgenda(n) ==
    /\ Len(agenda') = 3
    /\ agenda'[1] = Emit(PipelineGateSignalDetected(n)) /\ agenda'[2] = Evaluates(n, "cycle")
    /\ \E reason : agenda'[3] = Declines(n, reason)

\* One direction is signalled, and handed to the guards.
SignalAgenda(n, d) ==
    /\ Len(agenda') = 3
    /\ agenda'[1] = Detects(n, d) /\ agenda'[2] = Evaluates(n, d) /\ agenda'[3] = Execute(d)

\* One direction is signalled, and a gate of the research path closes.
FilterAgenda(n, d) ==
    /\ Len(agenda') = 4
    /\ agenda'[1] = Detects(n, d) /\ agenda'[3] = Evaluates(n, "cycle")
    /\ \E reason : agenda'[2] = Filters(n, d, reason) /\ agenda'[4] = Declines(n, reason)

\* The same for two directions.
BothAgenda(n, d, e) ==
    /\ Len(agenda') = 6
    /\ agenda'[1] = Detects(n, d) /\ agenda'[2] = Evaluates(n, d) /\ agenda'[3] = Execute(d)
    /\ agenda'[4] = Detects(n, e) /\ agenda'[5] = Evaluates(n, e) /\ agenda'[6] = Execute(e)
BothResearchAgenda(n, d, e) ==
    /\ Len(agenda') = 6
    /\ agenda'[1] = Detects(n, d) /\ agenda'[2] = Detects(n, e)
    /\ agenda'[3] = Evaluates(n, d) /\ agenda'[4] = Execute(d)
    /\ agenda'[5] = Evaluates(n, e) /\ agenda'[6] = Execute(e)
BothFilterAgenda(n, d, e) ==
    /\ Len(agenda') = 6
    /\ agenda'[1] = Detects(n, d) /\ agenda'[2] = Detects(n, e)
    /\ agenda'[5] = Evaluates(n, "cycle")
    /\ \E reason : /\ agenda'[3] = Filters(n, d, reason) /\ agenda'[4] = Filters(n, e, reason)
                   /\ agenda'[6] = Declines(n, reason)

LEMMA ItemsOfPoll ==
    ASSUME NEW n \in Nat
    PROVE  /\ \A d \in Directions : Of(n, d) \in Names
           /\ \A d \in Directions : Detects(n, d) \in Items /\ Execute(d) \in Items
           /\ \A x \in Marks : Evaluates(n, x) \in Items
           /\ \A d \in Directions : \A reason : Filters(n, d, reason) \in Items
           /\ \A reason : Declines(n, reason) \in Items
           /\ Emit(PipelineGateSignalDetected(n)) \in Items
<1>1. \A x \in Marks : Of(n, x) \in Names
  BY IdName
<1>2. "cycle" \in Marks /\ "synthetic" \in Marks /\ Directions \subseteq Marks
  BY DEF Marks
<1>3. \A x \in Marks : SignalDetected(Of(n, x), n, Of(n, x)) \in EventRecords
  BY <1>1, SignalDetectedIs
<1>4. \A x \in Marks : SignalEvaluated(Of(n, x), n) \in EventRecords
  BY <1>1, SignalEvaluatedIs
<1>5. \A x \in Marks : \A reason : SignalFiltered(Of(n, x), Of(n, x), reason) \in EventRecords
  BY <1>1, SignalFilteredIs
<1>6. \A reason : NoAction(CycleTrace(n), n, reason) \in EventRecords
  BY <1>1, <1>2, NoActionIs DEF CycleTrace
<1>7. PipelineGateSignalDetected(n) \in EventRecords
  BY <1>1, <1>2, SignalDetectedIs DEF PipelineGateSignalDetected, CycleTrace
<1>8. \A d \in Directions : Execute(d) \in Items
  BY ExecuteIs
<1> QED
  BY <1>1, <1>2, <1>3, <1>4, <1>5, <1>6, <1>7, <1>8, EmitIs
  DEF Detects, Evaluates, Filters, Declines

LEMMA OneAndTwo ==
    ASSUME NEW S, NEW a \in S, NEW b \in S, NEW c \in S
    PROVE  LET x == <<a>> \o <<b, c>>
           IN  x \in Seq(S) /\ Len(x) = 3 /\ x[1] = a /\ x[2] = b /\ x[3] = c
OBVIOUS
LEMMA ThreeAndThree ==
    ASSUME NEW S, NEW a \in S, NEW b \in S, NEW c \in S, NEW d \in S, NEW e \in S, NEW f \in S
    PROVE  LET x == <<a, b, c>> \o <<d, e, f>>
           IN  x \in Seq(S) /\ Len(x) = 6 /\ x[1] = a /\ x[2] = b /\ x[3] = c
                 /\ x[4] = d /\ x[5] = e /\ x[6] = f
OBVIOUS
LEMMA TwoAndFour ==
    ASSUME NEW S, NEW a \in S, NEW b \in S, NEW c \in S, NEW d \in S, NEW e \in S, NEW f \in S
    PROVE  LET x == <<a, b>> \o (<<c, d>> \o <<e, f>>)
           IN  x \in Seq(S) /\ Len(x) = 6 /\ x[1] = a /\ x[2] = b /\ x[3] = c
                 /\ x[4] = d /\ x[5] = e /\ x[6] = f
OBVIOUS
LEMMA TwoAndTwoAndTwo ==
    ASSUME NEW S, NEW a \in S, NEW b \in S, NEW c \in S, NEW d \in S, NEW e \in S, NEW f \in S
    PROVE  LET x == <<a, b>> \o <<c, d>> \o <<e, f>>
           IN  x \in Seq(S) /\ Len(x) = 6 /\ x[1] = a /\ x[2] = b /\ x[3] = c
                 /\ x[4] = d /\ x[5] = e /\ x[6] = f
OBVIOUS
LEMMA OneAndOneAndTwo ==
    ASSUME NEW S, NEW a \in S, NEW b \in S, NEW c \in S, NEW d \in S
    PROVE  LET x == <<a>> \o <<b>> \o <<c, d>>
           IN  x \in Seq(S) /\ Len(x) = 4 /\ x[1] = a /\ x[2] = b /\ x[3] = c /\ x[4] = d
OBVIOUS

LEMMA StandardOne ==
    ASSUME TypeInv, NEW d \in Directions, StandardSignals(<<d>>)
    PROVE  agenda' \in Seq(Items) /\ SignalAgenda(polls + 1, d)
<1> DEFINE n == polls + 1
           steps(e) == << Detects(n, e), Evaluates(n, e), Execute(e) >>
<1>1. agenda' = FlattenSeq([i \in DOMAIN <<d>> |-> steps(<<d>>[i])])
  BY DEF StandardSignals, Detects, Evaluates
<1>2. [i \in DOMAIN <<d>> |-> steps(<<d>>[i])] = << steps(d) >>
  OBVIOUS
<1>3. agenda' = steps(d)
  BY <1>1, <1>2, FlattenOne
<1>4. Detects(n, d) \in Items /\ Evaluates(n, d) \in Items /\ Execute(d) \in Items
  BY ItemsOfPoll DEF TypeInv, Marks
<1> QED
  BY <1>3, <1>4 DEF SignalAgenda

LEMMA StandardTwo ==
    ASSUME TypeInv, NEW d \in Directions, NEW e \in Directions, StandardSignals(<<d, e>>)
    PROVE  agenda' \in Seq(Items) /\ BothAgenda(polls + 1, d, e)
<1> DEFINE n == polls + 1
           steps(x) == << Detects(n, x), Evaluates(n, x), Execute(x) >>
<1>1. agenda' = FlattenSeq([i \in DOMAIN <<d, e>> |-> steps(<<d, e>>[i])])
  BY DEF StandardSignals, Detects, Evaluates
<1>2. [i \in DOMAIN <<d, e>> |-> steps(<<d, e>>[i])] = << steps(d), steps(e) >>
  OBVIOUS
<1>3. agenda' = steps(d) \o steps(e)
  BY <1>1, <1>2, FlattenTwo
<1>4. /\ Detects(n, d) \in Items /\ Evaluates(n, d) \in Items /\ Execute(d) \in Items
      /\ Detects(n, e) \in Items /\ Evaluates(n, e) \in Items /\ Execute(e) \in Items
  BY ItemsOfPoll DEF TypeInv, Marks
<1> QED
  BY <1>3, <1>4, ThreeAndThree DEF BothAgenda

\* The directions of the research path, as they are detected.
LEMMA DetectedOne ==
    ASSUME NEW n, NEW d
    PROVE  PendingDetected(n, <<d>>) = << Detects(n, d) >>
BY DEF PendingDetected, Detects

LEMMA DetectedTwo ==
    ASSUME NEW n, NEW d, NEW e
    PROVE  PendingDetected(n, <<d, e>>) = << Detects(n, d), Detects(n, e) >>
BY DEF PendingDetected, Detects

LEMMA ResearchGateOne ==
    ASSUME TypeInv, NEW d \in Directions, NEW reason, ResearchGate(<<d>>, reason)
    PROVE  agenda' \in Seq(Items) /\ FilterAgenda(polls + 1, d)
<1> DEFINE n == polls + 1
           filtered == [i \in DOMAIN <<d>> |-> Filters(n, <<d>>[i], reason)]
           tail == << Evaluates(n, "cycle"), Declines(n, reason) >>
<1>0. n \in Nat
  BY DEF TypeInv
<1>1. agenda' = PendingDetected(n, <<d>>) \o filtered \o tail
  BY DEF ResearchGate, Filters, Evaluates, Declines, CycleTrace
<1>2. filtered = << Filters(n, d, reason) >> /\ PendingDetected(n, <<d>>) = << Detects(n, d) >>
  BY DetectedOne
<1>3. /\ Detects(n, d) \in Items /\ Filters(n, d, reason) \in Items
      /\ Evaluates(n, "cycle") \in Items /\ Declines(n, reason) \in Items
  BY <1>0, ItemsOfPoll DEF Marks
<1>4. agenda' = << Detects(n, d) >> \o << Filters(n, d, reason) >> \o tail
  BY <1>1, <1>2
<1> HIDE DEF n
<1> QED
  BY <1>3, <1>4, OneAndOneAndTwo DEF FilterAgenda, n

LEMMA ResearchGateTwo ==
    ASSUME TypeInv, NEW d \in Directions, NEW e \in Directions, NEW reason,
           ResearchGate(<<d, e>>, reason)
    PROVE  agenda' \in Seq(Items) /\ BothFilterAgenda(polls + 1, d, e)
<1> DEFINE n == polls + 1
           filtered == [i \in DOMAIN <<d, e>> |-> Filters(n, <<d, e>>[i], reason)]
           tail == << Evaluates(n, "cycle"), Declines(n, reason) >>
<1>0. n \in Nat
  BY DEF TypeInv
<1>1. agenda' = PendingDetected(n, <<d, e>>) \o filtered \o tail
  BY DEF ResearchGate, Filters, Evaluates, Declines, CycleTrace
<1>2. filtered = << Filters(n, d, reason), Filters(n, e, reason) >>
  OBVIOUS
<1>3. /\ Detects(n, d) \in Items /\ Filters(n, d, reason) \in Items
      /\ Detects(n, e) \in Items /\ Filters(n, e, reason) \in Items
      /\ Evaluates(n, "cycle") \in Items /\ Declines(n, reason) \in Items
  BY <1>0, ItemsOfPoll DEF Marks
<1>4. agenda' = << Detects(n, d), Detects(n, e) >>
                  \o << Filters(n, d, reason), Filters(n, e, reason) >> \o tail
  BY <1>1, <1>2, DetectedTwo
<1> HIDE DEF n
<1> QED
  BY <1>3, <1>4, TwoAndTwoAndTwo DEF BothFilterAgenda, n

LEMMA ResearchOne ==
    ASSUME TypeInv, NEW d \in Directions, ResearchSignals(<<d>>)
    PROVE  agenda' \in Seq(Items) /\ SignalAgenda(polls + 1, d)
<1> DEFINE n == polls + 1
           steps(x) == << Evaluates(n, x), Execute(x) >>
<1>0. n \in Nat
  BY DEF TypeInv
<1>1. agenda' = PendingDetected(n, <<d>>) \o FlattenSeq([i \in DOMAIN <<d>> |-> steps(<<d>>[i])])
  BY DEF ResearchSignals, Evaluates
<1>2. [i \in DOMAIN <<d>> |-> steps(<<d>>[i])] = << steps(d) >>
  OBVIOUS
<1>3. agenda' = << Detects(n, d) >> \o steps(d)
  BY <1>1, <1>2, FlattenOne, DetectedOne
<1>4. Detects(n, d) \in Items /\ Evaluates(n, d) \in Items /\ Execute(d) \in Items
  BY <1>0, ItemsOfPoll DEF Marks
<1> HIDE DEF n
<1> QED
  BY <1>3, <1>4, OneAndTwo DEF SignalAgenda, n

LEMMA ResearchTwo ==
    ASSUME TypeInv, NEW d \in Directions, NEW e \in Directions, ResearchSignals(<<d, e>>)
    PROVE  agenda' \in Seq(Items) /\ BothResearchAgenda(polls + 1, d, e)
<1> DEFINE n == polls + 1
           steps(x) == << Evaluates(n, x), Execute(x) >>
<1>0. n \in Nat
  BY DEF TypeInv
<1>1. agenda' = PendingDetected(n, <<d, e>>)
                  \o FlattenSeq([i \in DOMAIN <<d, e>> |-> steps(<<d, e>>[i])])
  BY DEF ResearchSignals, Evaluates
<1>2. [i \in DOMAIN <<d, e>> |-> steps(<<d, e>>[i])] = << steps(d), steps(e) >>
  OBVIOUS
<1>3. agenda' = << Detects(n, d), Detects(n, e) >> \o (steps(d) \o steps(e))
  BY <1>1, <1>2, FlattenTwo, DetectedTwo
<1>4. /\ Detects(n, d) \in Items /\ Evaluates(n, d) \in Items /\ Execute(d) \in Items
      /\ Detects(n, e) \in Items /\ Evaluates(n, e) \in Items /\ Execute(e) \in Items
  BY <1>0, ItemsOfPoll DEF Marks
<1> HIDE DEF n
<1> QED
  BY <1>3, <1>4, TwoAndFour DEF BothResearchAgenda, n

LEMMA GateOnly ==
    ASSUME TypeInv, NEW reason, GateBlocks(reason)
    PROVE  agenda' \in Seq(Items) /\ GateAgenda(polls + 1)
<1> DEFINE n == polls + 1
<1>0. n \in Nat
  BY DEF TypeInv
<1>1. agenda' = << Emit(PipelineGateSignalDetected(n)), Evaluates(n, "cycle"), Declines(n, reason) >>
  BY DEF GateBlocks, Evaluates, Declines, CycleTrace
<1>2. /\ Emit(PipelineGateSignalDetected(n)) \in Items
      /\ Evaluates(n, "cycle") \in Items /\ Declines(n, reason) \in Items
  BY <1>0, ItemsOfPoll DEF Marks
<1> HIDE DEF n
<1> QED
  BY <1>1, <1>2 DEF GateAgenda, n

\* Everything a poll may do.
PollAgenda(n) ==
    \/ GateAgenda(n)
    \/ \E d \in Directions : SignalAgenda(n, d)
    \/ setting # {} /\ \E d \in Directions : FilterAgenda(n, d)
    \/ /\ ~OneWay
       /\ \/ BothAgenda(n, "LONG", "SHORT")
          \/ BothResearchAgenda(n, "LONG", "SHORT")
          \/ BothFilterAgenda(n, "LONG", "SHORT")

LEMMA PollPlans ==
    ASSUME TypeInv, CheckSignals
    PROVE  agenda' \in Seq(Items) /\ PollAgenda(polls + 1)
<1>1. ASSUME NEW reason, GateBlocks(reason)
      PROVE  agenda' \in Seq(Items) /\ PollAgenda(polls + 1)
  BY <1>1, GateOnly DEF PollAgenda
<1>2. ASSUME NEW dirs \in Signals \ {<<>>}
      PROVE  \/ \E d \in Directions : dirs = <<d>>
             \/ ~OneWay /\ dirs = <<"LONG", "SHORT">>
  BY <1>2, DecisionAssumption DEF Signals, OneWay
<1>3. ASSUME NEW dirs \in Signals \ {<<>>}, StandardSignals(dirs)
      PROVE  agenda' \in Seq(Items) /\ PollAgenda(polls + 1)
  BY <1>2, <1>3, StandardOne, StandardTwo DEF PollAgenda, Directions
<1>4. ASSUME NEW dirs \in Signals \ {<<>>}, ResearchSignals(dirs)
      PROVE  agenda' \in Seq(Items) /\ PollAgenda(polls + 1)
  BY <1>2, <1>4, ResearchOne, ResearchTwo DEF PollAgenda, Directions
<1>5. ASSUME NEW dirs \in Signals \ {<<>>}, NEW reason, ResearchGate(dirs, reason)
      PROVE  agenda' \in Seq(Items) /\ PollAgenda(polls + 1)
  <2>1. setting # {}
    BY <1>5 DEF ResearchGate, ResearchRawFirst
  <2> QED
    BY <1>2, <1>5, <2>1, ResearchGateOne, ResearchGateTwo DEF PollAgenda, Directions
<1>6. CASE \/ RegimeSkip \/ OutsideKillzone \/ TimeFilter
           \/ PositionLimit \/ DailyLoss \/ BarsMissing \/ SameBar \/ NoEntrySignal
  BY <1>1, <1>6
  DEF RegimeSkip, OutsideKillzone, TimeFilter, PositionLimit, DailyLoss, BarsMissing, SameBar,
      NoEntrySignal
<1>7. ASSUME NEW dirs \in Signals \ {<<>>},
             \/ StandardSignals(dirs)
             \/ ResearchRegimeSkip(dirs) \/ ResearchOutsideKillzone(dirs)
             \/ ResearchTimeFilter(dirs) \/ ResearchSignals(dirs)
      PROVE  agenda' \in Seq(Items) /\ PollAgenda(polls + 1)
  BY <1>3, <1>4, <1>5, <1>7
  DEF ResearchRegimeSkip, ResearchOutsideKillzone, ResearchTimeFilter
<1> QED
  BY <1>6, <1>7 DEF CheckSignals

-----------------------------------------------------------------------------
(* What the other handlers put on the agenda *)

LEMMA IdsFinite == ASSUME TypeInv PROVE IsFiniteSet(Ids)
<1>1. IsFiniteSet(1 .. polls)
  BY FS_Interval DEF TypeInv
<1>2. IsFiniteSet(Directions)
  <2>1. IsFiniteSet({"LONG"}) /\ IsFiniteSet({"SHORT"}) /\ Directions = {"LONG"} \cup {"SHORT"}
    BY FS_Singleton DEF Directions
  <2> QED
    BY <2>1, FS_Union
<1> QED
  BY <1>1, <1>2, FS_Product DEF Ids, IdsOf

LEMMA ClosesPlanned ==
    ASSUME TypeInv, NEW gone \in SUBSET tracked, LogClosed(gone)
    PROVE  /\ agenda' \in Seq(Items)
           /\ \A k \in 1 .. Len(agenda') :
                 \E t \in gone : agenda'[k] = Emit(TradeClosed(t, t \in meta))
           /\ \A t \in gone :
                 \E k \in 1 .. Len(agenda') : agenda'[k] = Emit(TradeClosed(t, t \in meta))
<1> DEFINE n == Cardinality(gone)
           item(t) == Emit(TradeClosed(t, t \in meta))
           f == SetToSeq(gone)
<1>1. IsFiniteSet(gone) /\ gone \subseteq Ids
  BY IdsFinite, FS_Subset DEF TypeInv
<1>2. n \in Nat /\ \E g \in [1 .. n -> gone] : IsInjective(g)
  <2>1. n \in Nat /\ ExistsBijection(1 .. n, gone)
    BY <1>1, FS_CardinalityType
  <2>2. PICK g \in Bijection(1 .. n, gone) : TRUE
    BY <2>1 DEF ExistsBijection
  <2>3. g \in [1 .. n -> gone] /\ IsInjective(g)
    BY <2>2 DEF Bijection, Injection, IsInjective
  <2> QED
    BY <2>1, <2>3
<1>3. f \in [1 .. n -> gone] /\ IsInjective(f)
  BY <1>2 DEF SetToSeq
<1>4. agenda' = [i \in 1 .. n |-> item(f[i])]
  BY DEF LogClosed
<1>5. ASSUME NEW t \in gone PROVE item(t) \in Items
  <2>1. PICK m \in Nat, d \in Directions : t = Of(m, d)
    BY <1>1 DEF Ids, IdsOf, Of
  <2>2. (t \in meta) \in BOOLEAN
    OBVIOUS
  <2>3. TradeClosed(t, t \in meta) \in EventRecords
    BY <2>1, <2>2, TradeClosedIs
  <2> QED
    BY <2>3, EmitIs
<1>6. \A i \in 1 .. n : f[i] \in gone
  BY <1>3
<1>7. \A t \in gone : \E i \in 1 .. n : f[i] = t
  <2>1. IsFiniteSet(1 .. n) /\ Cardinality(1 .. n) = n
    BY <1>2, FS_Interval
  <2>2. f \in Injection(1 .. n, gone)
    BY <1>3 DEF Injection, IsInjective
  <2>3. f \in Surjection(1 .. n, gone)
    BY <1>1, <2>1, <2>2, FS_Injection
  <2> QED
    BY <2>3 DEF Surjection
<1> HIDE DEF n, item, f
<1>8. /\ agenda' \in Seq(Items) /\ Len(agenda') = n
      /\ \A k \in 1 .. n : agenda'[k] = item(f[k])
  BY <1>2, <1>4, <1>5, <1>6
<1>9. ASSUME NEW t \in gone PROVE \E k \in 1 .. n : agenda'[k] = item(t)
  BY <1>7, <1>8
<1> QED
  BY <1>6, <1>8, <1>9 DEF item

-----------------------------------------------------------------------------
(* What the guards of a signal write *)

IsGuard(r, n, d) ==
    /\ r.source = "quantbuild" /\ r.type = "risk_guard_decision" /\ r.trace = Of(n, d)
    /\ r.cycle = n /\ r.signal = NoId /\ r.trade = NoId /\ r.orderRef = NoId /\ r.decision = "BLOCK"
    /\ r.session = process
IsNoAction(r, n, trace) ==
    /\ r.source = "quantbuild" /\ r.type = "trade_action" /\ r.trace = trace
    /\ r.cycle = n /\ r.signal = NoId /\ r.trade = NoId /\ r.orderRef = NoId
    /\ r.decision = "NO_ACTION" /\ r.reason \in NoActionReasonsAllowed
    /\ r.session = process
IsFiltered(r, n, d) ==
    /\ r.source = "quantbuild" /\ r.type = "signal_filtered" /\ r.trace = Of(n, d)
    /\ r.cycle = NoId /\ r.signal = Of(n, d) /\ r.trade = NoId /\ r.orderRef = NoId
    /\ r.decision = "none" /\ r.reason \in NoActionReasonsAllowed
    /\ r.session = process
IsEnter(r, n, d) ==
    /\ r.source = "quantbuild" /\ r.type = "trade_action" /\ r.trace = Of(n, d)
    /\ r.cycle = n /\ r.signal = NoId /\ r.trade = Of(n, d) /\ r.orderRef = NoId
    /\ r.decision = "ENTER" /\ r.session = process
IsExecuted(r, n, d) ==
    /\ r.source = "quantbuild" /\ r.type = "trade_executed" /\ r.trace = Of(n, d)
    /\ r.cycle = n /\ r.signal = Of(n, d) /\ r.trade = Of(n, d) /\ r.orderRef = Of(n, d)
    /\ r.decision = "none" /\ r.session = process
\* The close of a trade, whose trace and cycle are known or not.
IsClosed(r, t, known) ==
    /\ r.source = "quantbuild" /\ r.type = "trade_closed"
    /\ known => r.trace = t /\ r.cycle = t[1]
    /\ ~known => r.trace \in CloseTraces /\ r.cycle = NoId
    /\ r.signal = NoId /\ r.trade = t /\ r.orderRef = t
    /\ r.decision = "none" /\ r.session = process
\* The warning of stale data.
IsStale(r) ==
    /\ r.source = "quantbuild" /\ r.type = "market_data_stale_warning" /\ r.trace # NoId
    /\ r.cycle = NoId /\ r.signal = NoId /\ r.trade = NoId /\ r.orderRef = NoId
    /\ r.decision = "none" /\ r.session = process

IsExecute(r, n, d) ==
    /\ r.source = "quantbuild" /\ r.type = "execute" /\ r.trace = Of(n, d)
    /\ r.cycle = n /\ r.signal = Of(n, d) /\ r.trade = NoId /\ r.orderRef = NoId
    /\ r.decision = "none" /\ r.session = process

\* A signal is refused by a guard or by the broker, is given up for slippage,
\* or is entered; x is the row it was, new the rows it becomes.
Refused(new, x, n, d) ==
    /\ new = x .. x + 2
    /\ IsGuard(Story'[x], n, d) /\ IsNoAction(Story'[x + 1], n, Of(n, d))
    /\ IsFiltered(Story'[x + 2], n, d)
    /\ open' \in {open, open \cup {Of(n, d)}} /\ UNCHANGED <<tracked, invalid, meta>>
GivenUp(new, x, n, d) ==
    /\ new = x .. x + 3
    /\ IsClosed(Story'[x], Of(n, d), TRUE) /\ Story'[x].reason = "slippage_flatten"
    /\ IsGuard(Story'[x + 1], n, d) /\ IsNoAction(Story'[x + 2], n, Of(n, d))
    /\ IsFiltered(Story'[x + 3], n, d)
    /\ open' \in {open, open \cup {Of(n, d)}} /\ UNCHANGED <<tracked, invalid, meta>>
Bought(new, x, n, d) ==
    /\ new = x .. x + 1
    /\ IsEnter(Story'[x], n, d) /\ IsExecuted(Story'[x + 1], n, d)
    /\ open' = open \cup {Of(n, d)} /\ tracked' = tracked \cup {Of(n, d)}
    /\ meta' = meta \cup {Of(n, d)} /\ invalid' = invalid

LEMMA BlockEventsAre ==
    ASSUME TypeInv, NEW d \in Directions, NEW reason
    PROVE  LET b == BlockEvents(d, reason)
           IN  /\ b \in Seq(EventRecords) /\ Len(b) = 3 /\ b = <<b[1], b[2], b[3]>>
               /\ b[1] \in EventRecords /\ b[2] \in EventRecords /\ b[3] \in EventRecords
               /\ IsGuard(Tell(b[1], process), polls, d)
               /\ IsNoAction(Tell(b[2], process), polls, Of(polls, d))
               /\ IsFiltered(Tell(b[3], process), polls, d)
<1>1. Of(polls, d) \in Names /\ polls \in Nat
  BY IdName DEF TypeInv, Marks
<1> DEFINE g == GuardDecision(Of(polls, d), polls, reason)
           a == NoAction(Of(polls, d), polls, reason)
           f == SignalFiltered(Of(polls, d), Of(polls, d), reason)
<1>2. g \in EventRecords /\ IsGuard(Tell(g, process), polls, d)
  BY <1>1, GuardDecisionIs DEF IsGuard, Tell, EventRecords
<1>3. a \in EventRecords /\ IsNoAction(Tell(a, process), polls, Of(polls, d))
  BY <1>1, NoActionIs DEF IsNoAction, Tell, EventRecords
<1>4. f \in EventRecords /\ IsFiltered(Tell(f, process), polls, d)
  BY <1>1, SignalFilteredIs DEF IsFiltered, Tell, EventRecords
<1>5. BlockEvents(d, reason) = <<g, a, f>>
  BY DEF BlockEvents
<1> HIDE DEF g, a, f
<1> QED
  BY <1>2, <1>3, <1>4, <1>5

LEMMA OneAndThree ==
    ASSUME NEW S, NEW a \in S, NEW b \in S, NEW c \in S, NEW d \in S
    PROVE  LET x == <<a>> \o <<b, c, d>>
           IN  x \in Seq(S) /\ Len(x) = 4 /\ x # <<>>
               /\ x[1] = a /\ x[2] = b /\ x[3] = c /\ x[4] = d
OBVIOUS

\* The close of a fill that is given up.
LEMMA FlattenCloseIs ==
    ASSUME NEW n \in Nat, NEW d \in Directions
    PROVE  LET t == Of(n, d)
               e == [TradeClosed(t, TRUE) EXCEPT !.reason = "slippage_flatten"]
           IN  /\ e \in EventRecords /\ e.source = "quantbuild" /\ e.type = "trade_closed"
               /\ e.trace = t /\ e.cycle = n /\ e.cycle = t[1] /\ e.signal = NoId
               /\ e.trade = t /\ e.orderRef = t
               /\ e.decision = "none" /\ e.reason = "slippage_flatten"
<1> DEFINE t == Of(n, d)
           c == TradeClosed(t, TRUE)
<1>1. t \in Names /\ t[1] = n
  BY IdName DEF Marks
<1>2. c = [Event("trade_closed", t, n) EXCEPT !.trade = t, !.orderRef = t]
  BY <1>1 DEF TradeClosed
<1> HIDE DEF t, c
<1>3. /\ c \in EventRecords /\ c.type = "trade_closed" /\ c.trace = t /\ c.cycle = n
      /\ c.signal = NoId /\ c.trade = t /\ c.orderRef = t /\ c.decision = "none"
      /\ c.source = "quantbuild"
  BY <1>1, <1>2 DEF Event, EventRecords, EventTypes
<1>4. LET e == [c EXCEPT !.reason = "slippage_flatten"]
      IN  /\ e \in EventRecords /\ e.source = c.source /\ e.type = c.type /\ e.trace = c.trace
          /\ e.cycle = c.cycle /\ e.signal = c.signal /\ e.trade = c.trade
          /\ e.orderRef = c.orderRef /\ e.decision = c.decision /\ e.reason = "slippage_flatten"
  BY <1>3 DEF EventRecords
<1> QED
  BY <1>1, <1>3, <1>4 DEF t, c

\* The close of a trade the broker no longer lists.
LEMMA CloseIs ==
    ASSUME TypeInv, NEW n \in Nat, NEW d \in Directions, NEW known \in BOOLEAN
    PROVE  LET t == Of(n, d)
               e == TradeClosed(t, known)
           IN  e \in EventRecords /\ IsClosed(Tell(e, process), t, known)
<1> DEFINE t == Of(n, d)
           trace == IF known THEN t ELSE CloseTrace(t)
           cycle == IF known THEN t[1] ELSE NoId
           e == TradeClosed(t, known)
<1>1. /\ t \in Names /\ t[1] = n /\ trace \in Names \cup CloseTraces /\ cycle \in Nat \cup {NoId}
      /\ known => trace = t /\ cycle = t[1]
      /\ ~known => trace \in CloseTraces /\ cycle = NoId
  BY IdName, CloseTraceType DEF Marks
<1>2. e = [Event("trade_closed", trace, cycle) EXCEPT !.trade = t, !.orderRef = t]
  BY DEF TradeClosed
<1> HIDE DEF t, trace, cycle, e
<1>3. /\ e \in EventRecords /\ e.source = "quantbuild" /\ e.type = "trade_closed"
      /\ e.trace = trace /\ e.cycle = cycle
      /\ e.signal = NoId /\ e.trade = t /\ e.orderRef = t /\ e.decision = "none"
  BY <1>1, <1>2 DEF Event, EventRecords, EventTypes
<1>4. IsClosed(Tell(e, process), t, known)
  BY <1>1, <1>3 DEF IsClosed, Tell
<1> QED
  BY <1>3, <1>4 DEF t, e

LEMMA ExecutionWrites ==
    ASSUME TypeInv, NEW d \in Directions, EvaluateAndExecute(d)
    PROVE  LET x == Len(journal) + 1
           IN  /\ agenda' \in Seq(Items) /\ x \in Told
               /\ IsExecute(Story[x], polls, d)
               /\ UNCHANGED <<setting, pc, process, sourceSeq, polls, journal>>
               /\ \E from, new : /\ Unfolds(from, new, x)
                                 /\ \/ Refused(new, x, polls, d) \/ GivenUp(new, x, polls, d)
                                    \/ Bought(new, x, polls, d)
               /\ End \in Nat /\ End' \in Nat /\ End' > End
<1> DEFINE x == Len(journal) + 1
           t == Of(polls, d)
<1>0. t \in Names /\ polls \in Nat /\ process \in Nat /\ Len(journal) \in Nat /\ End \in Nat
  BY IdName, LengthsType DEF TypeInv, Marks
<1>1. IsExecute(Planned(Execute(d)), polls, d)
  BY ExecuteIs DEF IsExecute
<1>2. ASSUME NEW reason, Executing(d), Continue(BlockEvents(d, reason)),
             UNCHANGED <<setting, pc, process, sourceSeq, polls, tracked, invalid, meta, journal>>,
             open' \in {open, open \cup {t}}
      PROVE  /\ agenda' \in Seq(Items) /\ x \in Told /\ IsExecute(Story[x], polls, d)
             /\ \E from, new : Unfolds(from, new, x) /\ Refused(new, x, polls, d)
             /\ End' = End + 2
  <2> DEFINE b == BlockEvents(d, reason)
  <2>1. /\ b \in Seq(EventRecords) /\ Len(b) = 3 /\ b # <<>>
        /\ IsGuard(Tell(b[1], process), polls, d)
        /\ IsNoAction(Tell(b[2], process), polls, Of(polls, d))
        /\ IsFiltered(Tell(b[3], process), polls, d)
    BY BlockEventsAre
  <2> HIDE DEF b
  <2>2. /\ agenda' \in Seq(Items) /\ x \in Told /\ Story[x] = Planned(Execute(d))
        /\ End' = End + 3 - 1
        /\ \A k \in 1 .. 3 : Story'[Len(journal) + k] = Tell(b[k], process)
        /\ \E from : Unfolds(from, x .. Len(journal) + 3, x)
    BY <1>2, <2>1, StoryUnfolded DEF b
  <2>3. /\ Story'[x] = Tell(b[1], process) /\ Story'[x + 1] = Tell(b[2], process)
        /\ Story'[x + 2] = Tell(b[3], process) /\ Len(journal) + 3 = x + 2
    <3>1. x + 1 = Len(journal) + 2 /\ x + 2 = Len(journal) + 3
      BY <1>0
    <3> QED
      BY <2>2, <3>1
  <2>4. Refused(x .. x + 2, x, polls, d)
    BY <1>2, <2>1, <2>3 DEF Refused
  <2> QED
    BY <1>0, <1>1, <2>2, <2>3, <2>4
<1>3. CASE \E reason : Blocked(d, reason)
  <2>1. PICK reason : Blocked(d, reason)
    BY <1>3
  <2> QED
    BY <1>0, <1>2, <2>1 DEF Blocked, bookVars
<1>4. CASE \E reason : ExecutionFails(d, reason)
  <2>1. PICK reason : ExecutionFails(d, reason)
    BY <1>4
  <2> QED
    BY <1>0, <1>2, <2>1 DEF ExecutionFails
<1>5. CASE SlippageGuard(d)
  <2> DEFINE b == BlockEvents(d, "slippage_block")
             c == [TradeClosed(t, TRUE) EXCEPT !.reason = "slippage_flatten"]
             events == <<c>> \o b
  <2>1. /\ b \in Seq(EventRecords) /\ Len(b) = 3 /\ b = <<b[1], b[2], b[3]>>
        /\ b[1] \in EventRecords /\ b[2] \in EventRecords /\ b[3] \in EventRecords
        /\ IsGuard(Tell(b[1], process), polls, d)
        /\ IsNoAction(Tell(b[2], process), polls, Of(polls, d))
        /\ IsFiltered(Tell(b[3], process), polls, d)
    BY BlockEventsAre
  <2>2. c \in EventRecords /\ IsClosed(Tell(c, process), t, TRUE) /\ c.reason = "slippage_flatten"
    <3>1. /\ c \in EventRecords /\ c.source = "quantbuild" /\ c.type = "trade_closed"
          /\ c.trace = t /\ c.cycle = polls /\ c.cycle = t[1] /\ c.signal = NoId
          /\ c.trade = t /\ c.orderRef = t
          /\ c.decision = "none" /\ c.reason = "slippage_flatten"
      BY <1>0, FlattenCloseIs
    <3> HIDE DEF b, c, t
    <3>2. IsClosed(Tell(c, process), t, TRUE)
      BY <3>1 DEF IsClosed, Tell
    <3> QED
      BY <3>1, <3>2
  <2> HIDE DEF b, c
  <2>3. /\ events \in Seq(EventRecords) /\ Len(events) = 4 /\ events # <<>>
        /\ events[1] = c /\ events[2] = b[1] /\ events[3] = b[2] /\ events[4] = b[3]
    <3> DEFINE u == b[1]
               v == b[2]
               w == b[3]
    <3>1. events = <<c>> \o <<u, v, w>>
      BY <2>1
    <3>2. u \in EventRecords /\ v \in EventRecords /\ w \in EventRecords
      BY <2>1
    <3> HIDE DEF events, u, v, w
    <3>3. /\ events \in Seq(EventRecords) /\ Len(events) = 4 /\ events # <<>>
          /\ events[1] = c /\ events[2] = u /\ events[3] = v /\ events[4] = w
      BY <2>2, <3>1, <3>2, OneAndThree
    <3> QED
      BY <3>3 DEF u, v, w
  <2>4. /\ Executing(d) /\ Continue(events) /\ open' \in {open, open \cup {t}}
        /\ UNCHANGED <<setting, pc, process, sourceSeq, polls, tracked, invalid, meta, journal>>
    BY <1>5 DEF SlippageGuard, b, c
  <2> HIDE DEF events
  <2>5. /\ agenda' \in Seq(Items) /\ x \in Told /\ Story[x] = Planned(Execute(d))
        /\ End' = End + 4 - 1
        /\ \A k \in 1 .. 4 : Story'[Len(journal) + k] = Tell(events[k], process)
        /\ \E from : Unfolds(from, x .. Len(journal) + 4, x)
    BY <2>3, <2>4, StoryUnfolded
  <2>6. /\ Story'[x] = Tell(c, process) /\ Story'[x + 1] = Tell(b[1], process)
        /\ Story'[x + 2] = Tell(b[2], process) /\ Story'[x + 3] = Tell(b[3], process)
        /\ Len(journal) + 4 = x + 3
    <3>1. x + 1 = Len(journal) + 2 /\ x + 2 = Len(journal) + 3 /\ x + 3 = Len(journal) + 4
      BY <1>0
    <3> QED
      BY <2>3, <2>5, <3>1
  <2>7. Tell(c, process).reason = "slippage_flatten"
    BY <2>2 DEF Tell
  <2>8. GivenUp(x .. x + 3, x, polls, d)
    BY <2>1, <2>2, <2>4, <2>6, <2>7 DEF GivenUp
  <2> QED
    BY <1>0, <1>1, <2>4, <2>5, <2>6, <2>8
<1>6. CASE Enter(d)
  <2> DEFINE e == EnterAction(t, polls, t)
             f == TradeExecuted(t, polls, t, t)
             events == <<e, f>>
  <2>1. e \in EventRecords /\ IsEnter(Tell(e, process), polls, d)
    BY <1>0, EnterActionIs DEF IsEnter, Tell, EventRecords
  <2>2. f \in EventRecords /\ IsExecuted(Tell(f, process), polls, d)
    BY <1>0, TradeExecutedIs DEF IsExecuted, Tell, EventRecords
  <2>3. /\ Executing(d) /\ Continue(events)
        /\ open' = open \cup {t} /\ tracked' = tracked \cup {t} /\ meta' = meta \cup {t}
        /\ invalid' = invalid
        /\ UNCHANGED <<setting, pc, process, sourceSeq, polls, journal>>
    BY <1>6 DEF Enter
  <2> HIDE DEF e, f
  <2>4. /\ events \in Seq(EventRecords) /\ Len(events) = 2 /\ events # <<>>
        /\ events[1] = e /\ events[2] = f
    BY <2>1, <2>2
  <2> HIDE DEF events
  <2>5. /\ agenda' \in Seq(Items) /\ x \in Told /\ Story[x] = Planned(Execute(d))
        /\ End' = End + 2 - 1
        /\ \A k \in 1 .. 2 : Story'[Len(journal) + k] = Tell(events[k], process)
        /\ \E from : Unfolds(from, x .. Len(journal) + 2, x)
    BY <2>3, <2>4, StoryUnfolded
  <2>6. /\ Story'[x] = Tell(e, process) /\ Story'[x + 1] = Tell(f, process)
        /\ Len(journal) + 2 = x + 1
    <3>1. x + 1 = Len(journal) + 2
      BY <1>0
    <3> QED
      BY <2>4, <2>5, <3>1
  <2>7. Bought(x .. x + 1, x, polls, d)
    BY <2>1, <2>2, <2>3, <2>6 DEF Bought
  <2> QED
    BY <1>0, <1>1, <2>3, <2>5, <2>6, <2>7
<1> QED
  BY <1>3, <1>4, <1>5, <1>6
  DEF EvaluateAndExecute, NewsGate, LlmAdvice, SpreadGuard, AtrGuard, PriceFeed, PositionSizing,
      ExecutionException, ExecutionReject

-----------------------------------------------------------------------------
(* The steps, by what they do to the story *)

\* An event is written, a bar or news arrives, the broker closes a trade, a handler has
\* nothing to write.
Idles ==
    /\ End' = End /\ Told' = Told /\ Story' = Story
    /\ open' \subseteq open
    /\ UNCHANGED <<setting, process, polls, tracked, meta>>
    /\ pc' = "down" <=> pc = "down"
\* A process starts.
Begins ==
    /\ End' = End /\ Told' = Told /\ Story' = Story
    /\ pc = "down" /\ agenda = <<>> /\ agenda' = <<>> /\ process' = process + 1
    /\ tracked' = {} /\ meta' = {} /\ UNCHANGED <<setting, polls, open>>
\* It dies: what was not written never will be.
Dies ==
    /\ End' = Len(journal) /\ Told' = Rows /\ Told' \subseteq Told
    /\ \A i \in Told' : Story'[i] = Story[i]
    /\ pc' = "down" /\ UNCHANGED <<setting, process, polls, bookVars, journal>>
\* A handler puts rows on an empty agenda.
Adds ==
    /\ agenda = <<>> /\ pc # "down" /\ pc' # "down"
    /\ End = Len(journal) /\ Told \subseteq Told' /\ \A i \in Told : Story'[i] = Story[i]
    /\ Told' \ Told = End + 1 .. End'
    /\ UNCHANGED <<setting, process, journal>>
\* Trades that are no longer tracked are logged closed, or stale data is warned of.
Logs ==
    \E gone \in SUBSET tracked :
        /\ Adds
        /\ \A i \in Told' \ Told :
              IsStale(Story'[i]) \/ \E t \in gone : IsClosed(Story'[i], t, t \in meta)
        /\ \A t \in gone : \E i \in Told' \ Told : IsClosed(Story'[i], t, t \in meta)
        /\ tracked' \subseteq open \cup tracked /\ open' \subseteq open
        /\ meta' = meta \ gone /\ polls' = polls
Polls ==
    /\ Adds
    /\ polls' = polls + 1 /\ UNCHANGED bookVars
    /\ Len(agenda') \in Nat /\ End' = End + Len(agenda')
    /\ \A k \in 1 .. Len(agenda') :
          End + k \in Told' \ Told /\ Story'[End + k] = Planned(agenda[k])'
    /\ PollAgenda(polls + 1)
\* A signal goes through the guards.
Executes ==
    \E d \in Directions, x \in Told : \E from, new :
        /\ IsExecute(Story[x], polls, d) /\ Unfolds(from, new, x)
        /\ Refused(new, x, polls, d) \/ GivenUp(new, x, polls, d) \/ Bought(new, x, polls, d)
        /\ End' > End /\ polls > 0
        /\ UNCHANGED <<setting, pc, process, polls, journal>>

LEMMA WriteStep ==
    ASSUME TypeInv, WriteEvent
    PROVE  TypeInv' /\ Idles
<1>1. PICK S : journal \in Seq(S)
  BY DEF TypeInv
<1>2. PICK e \in EventRecords :
          /\ agenda[1] = Emit(e)
          /\ journal' = Append(journal, [e EXCEPT !.run = process, !.session = process,
                                                  !.seq = sourceSeq + 1])
  BY WriteKeepsStory
<1> DEFINE row == [e EXCEPT !.run = process, !.session = process, !.seq = sourceSeq + 1]
           T == S \cup {row}
<1> HIDE DEF row
<1>3. journal \in Seq(T)
  BY <1>1
<1>4. journal' \in Seq(T)
  <2>1. row \in T /\ journal' = Append(journal, row)
    BY <1>2 DEF row
  <2> HIDE DEF T
  <2> QED
    BY <1>3, <2>1
<1>5. agenda' \in Seq(Items)
  BY DEF TypeInv, WriteEvent
<1>6. UNCHANGED <<setting, pc, process, polls, open, tracked, invalid, meta>> /\ sourceSeq' = sourceSeq + 1
      /\ agenda # <<>>
  BY DEF WriteEvent, bookVars
<1>7. TypeInv'
  <2>1. \E X : journal' \in Seq(X)
    BY <1>4
  <2>2. pc # "down"
    BY <1>6 DEF TypeInv
  <2> QED
    BY <1>5, <1>6, <2>1, <2>2 DEF TypeInv, Ids
<1> QED
  BY <1>6, <1>7, WriteKeepsStory DEF Idles

LEMMA IdsGrow ==
    ASSUME NEW m \in Nat, NEW n \in Nat, m <= n
    PROVE  IdsOf(m) \subseteq IdsOf(n)
<1>1. 1 .. m \subseteq 1 .. n
  OBVIOUS
<1> QED
  BY <1>1 DEF IdsOf

LEMMA OfIsId ==
    ASSUME NEW n \in Nat, n > 0, NEW d \in Directions
    PROVE  Of(n, d) \in IdsOf(n)
BY DEF Of, IdsOf

LEMMA CloseStep ==
    ASSUME TypeInv, NEW gone \in SUBSET tracked, LogClosed(gone),
           agenda = <<>>, pc # "down", pc' \in {"signals", "monitor"},
           tracked' \subseteq open \cup tracked, tracked \ gone \subseteq tracked', open' \subseteq open,
           UNCHANGED <<setting, process, sourceSeq, polls, journal>>
    PROVE  TypeInv' /\ Logs
<1>1. /\ agenda' \in Seq(Items)
      /\ \A k \in 1 .. Len(agenda') :
            \E t \in gone : agenda'[k] = Emit(TradeClosed(t, t \in meta))
      /\ \A t \in gone :
            \E k \in 1 .. Len(agenda') : agenda'[k] = Emit(TradeClosed(t, t \in meta))
  BY ClosesPlanned
<1>2. meta' = meta \ gone /\ invalid' = invalid \ gone
  BY DEF LogClosed
<1>3. /\ End = Len(journal) /\ End' = End + Len(agenda')
      /\ Told \subseteq Told' /\ \A i \in Told : Story'[i] = Story[i]
      /\ Told' \ Told = End + 1 .. End'
      /\ \A k \in 1 .. Len(agenda') :
            End + k \in Told' \ Told /\ Story'[End + k] = Planned(agenda[k])'
      /\ \A i \in Told' \ Told : i - End \in 1 .. Len(agenda')
  BY <1>1, StoryContinued
<1>4. ASSUME NEW k \in 1 .. Len(agenda'), NEW t \in gone,
             agenda'[k] = Emit(TradeClosed(t, t \in meta))
      PROVE  IsClosed(Story'[End + k], t, t \in meta)
  <2>1. PICK m \in Nat, d \in Directions : t = Of(m, d)
    BY DEF TypeInv, Ids, IdsOf, Of
  <2> DEFINE known == t \in meta
             e == TradeClosed(t, known)
  <2>2. known \in BOOLEAN
    OBVIOUS
  <2>3. agenda'[k] = Emit(e)
    BY <1>4
  <2> HIDE DEF known
  <2>4. e \in EventRecords /\ IsClosed(Tell(e, process), t, known)
    BY <2>1, <2>2, CloseIs
  <2> HIDE DEF e
  <2>5. Story'[End + k] = Tell(e, process)
    <3>1. Story'[End + k] = Planned(agenda[k])' /\ process' = process
      BY <1>3
    <3> QED
      BY <2>3, <3>1 DEF Planned, Emit
  <2> QED
    BY <2>4, <2>5 DEF known
<1>5. ASSUME NEW i \in Told' \ Told
      PROVE  \E t \in gone : IsClosed(Story'[i], t, t \in meta)
  <2>1. PICK k \in 1 .. Len(agenda') : i = End + k
    <3>1. i - End \in 1 .. Len(agenda') /\ i \in End + 1 .. End' /\ End \in Nat
      BY <1>3, LengthsType
    <3>2. i = End + (i - End)
      BY <3>1
    <3> QED
      BY <3>1, <3>2
  <2> QED
    BY <1>1, <1>4, <2>1
<1>6. ASSUME NEW t \in gone PROVE \E i \in Told' \ Told : IsClosed(Story'[i], t, t \in meta)
  BY <1>1, <1>3, <1>4
<1>7. TypeInv'
  <2>1. agenda' # <<>> => polls > 0
    <3>1. ASSUME agenda' # <<>> PROVE \E t \in Ids : TRUE
      <4>1. 1 \in 1 .. Len(agenda')
        BY <1>1, <3>1
      <4> QED
        BY <1>1, <4>1 DEF TypeInv
    <3> QED
      BY <3>1 DEF TypeInv, Ids, IdsOf
  <2> QED
    BY <1>1, <1>2, <2>1 DEF TypeInv, Ids
<1>8. Adds
  BY <1>3 DEF Adds
<1> QED
  BY <1>2, <1>5, <1>6, <1>7, <1>8 DEF Logs

LEMMA SyncStep ==
    ASSUME TypeInv, SyncPositions
    PROVE  TypeInv' /\ Logs
<1> DEFINE gone == tracked \ tracked'
<1>1. /\ gone \in SUBSET tracked /\ LogClosed(gone) /\ agenda = <<>>
      /\ pc # "down" /\ pc' \in {"signals", "monitor"}
      /\ tracked' \subseteq open \cup tracked /\ tracked \ gone \subseteq tracked' /\ open' \subseteq open
      /\ UNCHANGED <<setting, process, sourceSeq, polls, journal>>
  BY DEF SyncPositions
<1> HIDE DEF gone
<1> QED
  BY <1>1, CloseStep

LEMMA MonitorStep ==
    ASSUME TypeInv, NEW t \in invalid, MonitorPositions(t)
    PROVE  TypeInv' /\ Logs
<1>1. /\ {t} \in SUBSET tracked /\ LogClosed({t}) /\ agenda = <<>>
      /\ pc # "down" /\ pc' \in {"signals", "monitor"}
      /\ tracked' \subseteq open \cup tracked /\ tracked \ {t} \subseteq tracked' /\ open' \subseteq open
      /\ UNCHANGED <<setting, process, sourceSeq, polls, journal>>
  BY DEF MonitorPositions, TypeInv
<1> QED
  BY <1>1, CloseStep

LEMMA WarnStep ==
    ASSUME TypeInv, StaleWarning
    PROVE  TypeInv' /\ (Idles \/ Logs)
<1>1. /\ pc = "stale" /\ agenda = <<>> /\ pc' = "monitor" /\ polls \in Nat /\ polls > 0
      /\ UNCHANGED <<setting, process, sourceSeq, polls, open, tracked, invalid, meta, journal>>
      /\ agenda' = agenda \/ agenda' = <<Emit(MarketDataStaleWarning(polls))>>
  BY DEF StaleWarning, bookVars, TypeInv
<1>2. CASE agenda' = agenda
  <2>1. Idles
    BY <1>1, <1>2, StoryUnmoved DEF Idles
  <2>2. TypeInv'
    BY <1>1, <1>2 DEF TypeInv, Ids
  <2> QED
    BY <2>1, <2>2
<1>3. CASE agenda' = <<Emit(MarketDataStaleWarning(polls))>>
  <2> DEFINE e == MarketDataStaleWarning(polls)
  <2>1. /\ e \in EventRecords /\ e.type = "market_data_stale_warning" /\ e.source = "quantbuild"
        /\ e.trace # NoId /\ e.cycle = NoId /\ e.signal = NoId
        /\ e.trade = NoId /\ e.orderRef = NoId /\ e.decision = "none"
    <3>1. Of(polls, "stale") # NoId
      BY <1>1, IdName DEF Marks
    <3> QED
      BY <1>1, <3>1, StaleWarningIs DEF EventRecords
  <2>2. agenda' = <<Emit(e)>>
    BY <1>3
  <2> HIDE DEF e
  <2>3. agenda' \in Seq(Items) /\ Len(agenda') = 1 /\ agenda'[1] = Emit(e) /\ Emit(e) \in Items
    BY <2>1, <2>2, EmitIs
  <2>4. /\ End = Len(journal) /\ End' = End + 1 /\ End \in Nat
        /\ Told \subseteq Told' /\ \A i \in Told : Story'[i] = Story[i]
        /\ Told' \ Told = End + 1 .. End'
        /\ Story'[End + 1] = Planned(agenda[1])'
    BY <1>1, <2>3, StoryContinued, LengthsType
  <2>5. IsStale(Tell(e, process))
    BY <2>1 DEF IsStale, Tell
  <2>6. \A i \in Told' \ Told : IsStale(Story'[i])
    <3>1. \A i \in Told' \ Told : i = End + 1
      BY <2>4
    <3>2. Story'[End + 1] = Tell(e, process)
      BY <1>1, <2>3, <2>4 DEF Planned, Emit
    <3> QED
      BY <2>5, <3>1, <3>2
  <2>7. Adds
    BY <1>1, <2>4 DEF Adds
  <2>8. Logs
    <3>1. {} \in SUBSET tracked /\ meta' = meta \ {}
      BY <1>1
    <3> QED
      BY <1>1, <2>6, <2>7, <3>1 DEF Logs
  <2>9. TypeInv'
    BY <1>1, <2>3 DEF TypeInv, Ids
  <2> QED
    BY <2>8, <2>9
<1> QED
  BY <1>1, <1>2, <1>3

LEMMA PollStep ==
    ASSUME TypeInv, CheckSignals
    PROVE  TypeInv' /\ Polls
<1>1. agenda' \in Seq(Items) /\ PollAgenda(polls + 1)
  BY PollPlans
<1>2. /\ pc = "signals" /\ agenda = <<>> /\ pc' = "stale" /\ polls' = polls + 1
      /\ UNCHANGED <<setting, process, sourceSeq, bookVars, journal>>
  BY DEF CheckSignals, Polling
<1>3. /\ End = Len(journal) /\ End' = End + Len(agenda')
      /\ Told \subseteq Told' /\ \A i \in Told : Story'[i] = Story[i]
      /\ Told' \ Told = End + 1 .. End'
      /\ \A k \in 1 .. Len(agenda') :
            End + k \in Told' \ Told /\ Story'[End + k] = Planned(agenda[k])'
  BY <1>1, <1>2, StoryContinued
<1>4. Ids \subseteq Ids'
  BY <1>2, IdsGrow DEF TypeInv, Ids
<1>5. TypeInv'
  BY <1>1, <1>2, <1>4 DEF TypeInv, bookVars
<1>6. Len(agenda') \in Nat
  BY <1>1
<1> QED
  BY <1>1, <1>2, <1>3, <1>5, <1>6 DEF Polls, Adds

LEMMA ExecutionStep ==
    ASSUME TypeInv, NEW d \in Directions, EvaluateAndExecute(d)
    PROVE  TypeInv' /\ Executes
<1> DEFINE x == Len(journal) + 1
<1>1. /\ agenda' \in Seq(Items) /\ x \in Told /\ IsExecute(Story[x], polls, d)
      /\ UNCHANGED <<setting, pc, process, sourceSeq, polls, journal>>
      /\ End' > End
  BY ExecutionWrites
<1>2. PICK from, new : /\ Unfolds(from, new, x)
                       /\ \/ Refused(new, x, polls, d) \/ GivenUp(new, x, polls, d)
                          \/ Bought(new, x, polls, d)
  BY ExecutionWrites
<1>3. agenda # <<>>
  BY DEF EvaluateAndExecute, NewsGate, LlmAdvice, SpreadGuard, AtrGuard, PriceFeed, PositionSizing,
         ExecutionException, ExecutionReject, Blocked, ExecutionFails, SlippageGuard, Enter, Executing
<1>4. polls > 0 /\ pc # "down"
  BY <1>3 DEF TypeInv
<1>5. /\ open' \subseteq Ids /\ tracked' \subseteq Ids /\ meta' \subseteq Ids
      /\ invalid' \subseteq tracked'
  <2>1. Of(polls, d) \in Ids
    BY <1>4, OfIsId DEF TypeInv, Ids
  <2> QED
    BY <1>2, <2>1 DEF Refused, GivenUp, Bought, TypeInv
<1>6. TypeInv'
  BY <1>1, <1>4, <1>5 DEF TypeInv, Ids
<1> HIDE DEF x
<1> QED
  BY <1>1, <1>2, <1>4, <1>6 DEF Executes

LEMMA Steps ==
    ASSUME TypeInv, [Next]_vars
    PROVE  TypeInv' /\ (Idles \/ Begins \/ Dies \/ Logs \/ Polls \/ Executes)
<1>1. CASE Start
  <2>1. agenda = <<>> /\ UNCHANGED <<journal, agenda>>
    BY <1>1 DEF Start, TypeInv
  <2>2. Begins
    BY <1>1, <2>1, StoryUnmoved DEF Start, Begins
  <2>3. TypeInv'
    BY <1>1, <2>1 DEF Start, TypeInv, Ids
  <2> QED
    BY <2>2, <2>3
<1>2. CASE Crash
  <2>1. Dies
    BY <1>2, StoryCut DEF Crash, Dies
  <2>2. TypeInv'
    BY <1>2 DEF Crash, TypeInv, Ids, bookVars
  <2> QED
    BY <2>1, <2>2
<1>3. CASE NewBar \/ (\E t \in open : BrokerCloses(t)) \/ PollNews \/ SkipSync \/ SkipSignals
             \/ MonitorDone \/ UNCHANGED vars
  <2>1. /\ UNCHANGED <<journal, agenda, process, polls, setting, tracked, meta, sourceSeq>>
        /\ open' \subseteq open
    BY <1>3
    DEF NewBar, BrokerCloses, PollNews, SkipSync, SkipSignals, MonitorDone, vars, loopVars, bookVars
  <2>2. /\ pc' \in {"down", "sync", "signals", "stale", "monitor"} /\ (pc' = "down" <=> pc = "down")
        /\ pc' = "stale" => pc = "stale"
        /\ invalid' \subseteq tracked
    BY <1>3
    DEF NewBar, BrokerCloses, PollNews, SkipSync, SkipSignals, MonitorDone, vars, loopVars, bookVars,
        TypeInv
  <2>3. Idles
    BY <2>1, <2>2, StoryUnmoved DEF Idles
  <2>4. TypeInv'
    BY <2>1, <2>2 DEF TypeInv, Ids
  <2> QED
    BY <2>3, <2>4
<1> QED
  BY <1>1, <1>2, <1>3, WriteStep, SyncStep, MonitorStep, WarnStep, PollStep, ExecutionStep
  DEF Next, Run

-----------------------------------------------------------------------------
(* What every row is *)

RowTypes ==
    ChainEventTypes \cup {"signal_filtered", "trade_executed", "trade_closed", "execute",
                          "market_data_stale_warning"}

Decided(r) ==
    /\ r.type = "risk_guard_decision" => r.decision = "BLOCK"
    /\ r.type = "trade_action" => r.decision = IF r.trade = NoId THEN "NO_ACTION" ELSE "ENTER"
    /\ r.type \notin {"risk_guard_decision", "trade_action"} => r.decision = "none"
    /\ r.decision = "NO_ACTION" \/ r.type = "signal_filtered" => r.reason \in NoActionReasonsAllowed

Traded(r, n) ==
    /\ r.trade = NoId \/ r.trade \in IdsOf(n)
    /\ r.trade # NoId => r.type \in {"trade_action", "trade_executed", "trade_closed"}
    /\ r.type \in {"trade_executed", "trade_closed"} => r.trade # NoId
    /\ r.trade # NoId /\ r.cycle # NoId => r.trade[1] = r.cycle /\ r.trace = r.trade
    /\ r.orderRef \in {NoId, r.trade}

Signalled(r, n) ==
    /\ r.type = "signal_detected" =>
          \/ r.signal \in IdsOf(n) /\ r.trace = r.signal
          \/ \E m \in 1 .. n : r.signal = Of(m, "synthetic")
    /\ r.type \in {"signal_filtered", "trade_executed", "execute"} =>
          r.signal \in IdsOf(n) /\ r.trace = r.signal
    /\ r.type = "execute" => r.cycle = n /\ r.signal[1] = n

\* A row after p processes and n polls.
RowOK(r, p, n) ==
    /\ r.source = "quantbuild" /\ r.type \in RowTypes /\ r.session \in 1 .. p
    /\ r.trace # NoId
    /\ r.cycle = NoId \/ r.cycle \in 1 .. n
    /\ r.type \in ChainEventTypes \cup {"trade_executed", "execute"} => r.cycle # NoId
    /\ r.type \in {"signal_filtered", "market_data_stale_warning"} => r.cycle = NoId
    /\ Signalled(r, n) /\ Decided(r) /\ Traded(r, n)

RowsInv == \A i \in Told : RowOK(Story[i], process, polls)

\* The shapes of the rows a poll begins with.
IsDetected(r, n, signal, trace) ==
    /\ r.source = "quantbuild" /\ r.type = "signal_detected" /\ r.trace = trace
    /\ r.cycle = n /\ r.signal = signal /\ r.trade = NoId /\ r.orderRef = NoId
    /\ r.decision = "none" /\ r.session = process
IsEvaluated(r, n, trace) ==
    /\ r.source = "quantbuild" /\ r.type = "signal_evaluated" /\ r.trace = trace
    /\ r.cycle = n /\ r.signal = NoId /\ r.trade = NoId /\ r.orderRef = NoId
    /\ r.decision = "none" /\ r.session = process

\* The facts of a name that make a row of it well formed.
LEMMA NameIs ==
    ASSUME NEW n \in Nat, n > 0, NEW d \in Directions
    PROVE  /\ Of(n, d) \in IdsOf(n) /\ Of(n, d) # NoId /\ Of(n, d)[1] = n /\ n # NoId
           /\ n \in 1 .. n
           /\ Of(n, "cycle") # NoId /\ Of(n, "synthetic") # NoId
<1>1. n # NoId
  BY NoIdAssumption
<1> QED
  BY <1>1, IdName, OfIsId DEF Marks

LEMMA ExecutionRowsOK ==
    ASSUME NEW n \in Nat, n > 0, NEW d \in Directions, NEW r, process \in Nat, process > 0,
           \/ IsGuard(r, n, d) \/ IsNoAction(r, n, Of(n, d)) \/ IsFiltered(r, n, d)
           \/ IsEnter(r, n, d) \/ IsExecuted(r, n, d) \/ IsExecute(r, n, d)
           \/ IsClosed(r, Of(n, d), TRUE)
    PROVE  RowOK(r, process, n)
<1>1. process \in 1 .. process
  OBVIOUS
<1>2. \A t \in {"signal_detected", "signal_evaluated", "risk_guard_decision", "trade_action"} :
          t \in ChainEventTypes
  BY DEF ChainEventTypes, ChainRank
<1>3. CASE IsGuard(r, n, d)
  BY <1>1, <1>2, <1>3, NameIs DEF IsGuard, RowOK, Signalled, Decided, Traded, RowTypes
<1>4. CASE IsNoAction(r, n, Of(n, d))
  BY <1>1, <1>2, <1>4, NameIs DEF IsNoAction, RowOK, Signalled, Decided, Traded, RowTypes
<1>5. CASE IsFiltered(r, n, d)
  BY <1>1, <1>5, NameIs
  DEF IsFiltered, RowOK, Signalled, Decided, Traded, RowTypes, ChainEventTypes, ChainRank
<1>6. CASE IsEnter(r, n, d)
  BY <1>1, <1>2, <1>6, NameIs DEF IsEnter, RowOK, Signalled, Decided, Traded, RowTypes
<1>7. CASE IsExecuted(r, n, d)
  BY <1>1, <1>7, NameIs DEF IsExecuted, RowOK, Signalled, Decided, Traded, RowTypes
<1>8. CASE IsExecute(r, n, d)
  BY <1>1, <1>8, NameIs DEF IsExecute, RowOK, Signalled, Decided, Traded, RowTypes
<1>9. CASE IsClosed(r, Of(n, d), TRUE)
  BY <1>1, <1>9, NameIs
  DEF IsClosed, RowOK, Signalled, Decided, Traded, RowTypes, ChainEventTypes, ChainRank
<1> QED
  BY <1>3, <1>4, <1>5, <1>6, <1>7, <1>8, <1>9

LEMMA CloseRowOK ==
    ASSUME NEW n \in Nat, NEW t \in IdsOf(n), NEW known \in BOOLEAN, NEW r,
           process \in Nat, process > 0, IsClosed(r, t, known)
    PROVE  RowOK(r, process, n)
<1>1. PICK m \in 1 .. n, d \in Directions : t = Of(m, d)
  BY DEF IdsOf, Of
<1>2. process \in 1 .. process /\ m \in Nat /\ m > 0
  OBVIOUS
<1>3. t # NoId /\ t[1] = m /\ m # NoId /\ \A trace \in CloseTraces : trace # NoId
  BY <1>1, <1>2, NameIs, CloseTraceIsNew
<1>4. CASE known
  BY <1>2, <1>3, <1>4
  DEF IsClosed, RowOK, Signalled, Decided, Traded, RowTypes, ChainEventTypes, ChainRank
<1>5. CASE ~known
  BY <1>2, <1>3, <1>5
  DEF IsClosed, RowOK, Signalled, Decided, Traded, RowTypes, ChainEventTypes, ChainRank
<1> QED
  BY <1>4, <1>5

LEMMA StaleRowOK ==
    ASSUME NEW n \in Nat, NEW r, process \in Nat, process > 0, IsStale(r)
    PROVE  RowOK(r, process, n)
<1>1. process \in 1 .. process
  OBVIOUS
<1> QED
  BY <1>1
  DEF IsStale, RowOK, Signalled, Decided, Traded, RowTypes, ChainEventTypes, ChainRank

LEMMA PollRowsOK ==
    ASSUME NEW n \in Nat, n > 0, NEW d \in Directions, NEW r, process \in Nat, process > 0,
           \/ IsDetected(r, n, Of(n, "synthetic"), CycleTrace(n))
           \/ IsDetected(r, n, Of(n, d), Of(n, d))
           \/ IsEvaluated(r, n, CycleTrace(n)) \/ IsEvaluated(r, n, Of(n, d))
           \/ IsNoAction(r, n, CycleTrace(n))
    PROVE  RowOK(r, process, n)
<1>1. process \in 1 .. process
  OBVIOUS
<1>2. \A t \in {"signal_detected", "signal_evaluated", "risk_guard_decision", "trade_action"} :
          t \in ChainEventTypes
  BY DEF ChainEventTypes, ChainRank
<1>3. CycleTrace(n) # NoId
  BY NameIs DEF CycleTrace
<1> QED
  BY <1>1, <1>2, <1>3, NameIs
  DEF IsDetected, IsEvaluated, IsNoAction, RowOK, Signalled, Decided, Traded, RowTypes

\* Later processes and, but for what is still to be executed, later polls.
LEMMA RowStaysOK ==
    ASSUME NEW p \in Nat, NEW q \in Nat, p <= q, NEW m \in Nat, NEW n \in Nat, m <= n, NEW r,
           RowOK(r, p, m), r.type = "execute" => n = m
    PROVE  RowOK(r, q, n)
<1>1. IdsOf(m) \subseteq IdsOf(n) /\ 1 .. m \subseteq 1 .. n /\ 1 .. p \subseteq 1 .. q
  BY IdsGrow
<1>2. Signalled(r, n)
  BY <1>1 DEF RowOK, Signalled
<1>3. Traded(r, n)
  BY <1>1 DEF RowOK, Traded
<1> QED
  BY <1>1, <1>2, <1>3 DEF RowOK

-----------------------------------------------------------------------------
(* The rows of a poll *)

Outcome(r) == r.type \in {"signal_filtered", "trade_executed", "execute"}
Acts(r) == r.type \in {"trade_action", "execute"}
Rank(r) == IF r.type = "execute" THEN 2 ELSE ChainRank[r.type]
InChain(r) == r.type \in ChainEventTypes \cup {"execute"}

New == Told' \ Told

FreshRow(r, n) ==
    /\ RowOK(r, process, n) /\ r.session = process /\ r.trade = NoId
    /\ r.type \in {"signal_detected", "signal_evaluated", "trade_action", "signal_filtered", "execute"}
    /\ r.cycle = n \/ r.type = "signal_filtered"
    /\ Outcome(r) => r.signal[1] = n

FreshRows(n) == \A i \in New : FreshRow(Story'[i], n)
FreshOutcomes ==
    /\ \A i, j \in New :
          Outcome(Story'[i]) /\ Outcome(Story'[j]) /\ Story'[i].signal = Story'[j].signal => i = j
    /\ \A i \in New :
          Story'[i].type = "signal_detected" /\ Story'[i].signal[2] \in Directions
          => \E j \in New : Outcome(Story'[j]) /\ Story'[j].signal = Story'[i].signal
FreshActs == OneWay =>
    /\ \A i \in New : Story'[i].type = "execute" => i = End'
    /\ \A i, j \in New : Acts(Story'[i]) /\ Acts(Story'[j]) => i = j
    /\ \E i \in New : Acts(Story'[i])
FreshChain == setting = {} =>
    \A i, j \in New : i < j =>
        Rank(Story'[i]) <= Rank(Story'[j]) /\ Story'[i].trace = Story'[j].trace

\* What an item of the agenda is as a row.
LEMMA ItemRows ==
    ASSUME TypeInv, Polls, NEW k \in 1 .. Len(agenda'), NEW d \in Directions
    PROVE  LET n == polls + 1
               r == Story'[End + k]
           IN  /\ agenda'[k] = Emit(PipelineGateSignalDetected(n))
                     => IsDetected(r, n, Of(n, "synthetic"), CycleTrace(n))
               /\ agenda'[k] = Detects(n, d) => IsDetected(r, n, Of(n, d), Of(n, d))
               /\ agenda'[k] = Evaluates(n, "cycle") => IsEvaluated(r, n, CycleTrace(n))
               /\ agenda'[k] = Evaluates(n, d) => IsEvaluated(r, n, Of(n, d))
               /\ \A reason : agenda'[k] = Declines(n, reason) => IsNoAction(r, n, CycleTrace(n))
               /\ \A reason : agenda'[k] = Filters(n, d, reason) => IsFiltered(r, n, d)
               /\ agenda'[k] = Execute(d) => IsExecute(r, n, d)
<1> DEFINE n == polls + 1
           r == Story'[End + k]
<1>1. /\ r = Planned(agenda[k])' /\ process' = process /\ polls' = n
  BY DEF Polls, Adds
<1>2. n \in Nat /\ Of(n, "cycle") \in Names /\ Of(n, d) \in Names /\ Of(n, "synthetic") \in Names
  BY IdName DEF TypeInv, Marks
<1>3. ASSUME NEW e \in EventRecords, agenda'[k] = Emit(e) PROVE r = Tell(e, process)
  BY <1>1, <1>3 DEF Planned, Emit
<1> HIDE DEF n, r
<1>4. ASSUME agenda'[k] = Emit(PipelineGateSignalDetected(n))
      PROVE  IsDetected(r, n, Of(n, "synthetic"), CycleTrace(n))
  <2>1. PICK e \in EventRecords :
            /\ e = PipelineGateSignalDetected(n)
            /\ e.type = "signal_detected" /\ e.source = "quantbuild"
            /\ e.trace = CycleTrace(n) /\ e.cycle = n /\ e.signal = Of(n, "synthetic")
            /\ e.trade = NoId /\ e.orderRef = NoId /\ e.decision = "none"
    <3>1. PipelineGateSignalDetected(n) = SignalDetected(Of(n, "cycle"), n, Of(n, "synthetic"))
      BY DEF PipelineGateSignalDetected, CycleTrace
    <3> QED
      BY <1>2, <3>1, SignalDetectedIs DEF CycleTrace, EventRecords
  <2> QED
    BY <1>3, <1>4, <2>1 DEF IsDetected, Tell
<1>5. ASSUME NEW x \in Marks, agenda'[k] = Emit(SignalDetected(Of(n, x), n, Of(n, x)))
      PROVE  IsDetected(r, n, Of(n, x), Of(n, x))
  <2>1. PICK e \in EventRecords :
            /\ e = SignalDetected(Of(n, x), n, Of(n, x))
            /\ e.type = "signal_detected" /\ e.source = "quantbuild"
            /\ e.trace = Of(n, x) /\ e.cycle = n /\ e.signal = Of(n, x)
            /\ e.trade = NoId /\ e.orderRef = NoId /\ e.decision = "none"
    BY <1>2, IdName, SignalDetectedIs DEF EventRecords
  <2> QED
    BY <1>3, <1>5, <2>1 DEF IsDetected, Tell
<1>6. ASSUME NEW x \in Marks, agenda'[k] = Evaluates(n, x)
      PROVE  IsEvaluated(r, n, Of(n, x))
  <2>1. PICK e \in EventRecords :
            /\ Evaluates(n, x) = Emit(e)
            /\ e.type = "signal_evaluated" /\ e.source = "quantbuild"
            /\ e.trace = Of(n, x) /\ e.cycle = n /\ e.signal = NoId
            /\ e.trade = NoId /\ e.orderRef = NoId /\ e.decision = "none"
    BY <1>2, IdName, SignalEvaluatedIs DEF Evaluates, EventRecords
  <2> QED
    BY <1>3, <1>6, <2>1 DEF IsEvaluated, Tell
<1>7. ASSUME NEW reason, agenda'[k] = Declines(n, reason)
      PROVE  IsNoAction(r, n, CycleTrace(n))
  <2>1. PICK e \in EventRecords :
            /\ Declines(n, reason) = Emit(e)
            /\ e.type = "trade_action" /\ e.source = "quantbuild"
            /\ e.trace = CycleTrace(n) /\ e.cycle = n /\ e.signal = NoId
            /\ e.trade = NoId /\ e.orderRef = NoId /\ e.decision = "NO_ACTION"
            /\ e.reason \in NoActionReasonsAllowed
    BY <1>2, NoActionIs DEF Declines, CycleTrace, EventRecords
  <2> QED
    BY <1>3, <1>7, <2>1 DEF IsNoAction, Tell
<1>8. ASSUME NEW reason, agenda'[k] = Filters(n, d, reason)
      PROVE  IsFiltered(r, n, d)
  <2>1. PICK e \in EventRecords :
            /\ Filters(n, d, reason) = Emit(e)
            /\ e.type = "signal_filtered" /\ e.source = "quantbuild"
            /\ e.trace = Of(n, d) /\ e.cycle = NoId /\ e.signal = Of(n, d)
            /\ e.trade = NoId /\ e.orderRef = NoId /\ e.decision = "none"
            /\ e.reason \in NoActionReasonsAllowed
    BY <1>2, SignalFilteredIs DEF Filters, EventRecords
  <2> QED
    BY <1>3, <1>8, <2>1 DEF IsFiltered, Tell
<1>9. ASSUME agenda'[k] = Execute(d)
      PROVE  IsExecute(r, n, d)
  <2>1. r = [Tell(Event("execute", Of(n, d), n), process) EXCEPT !.signal = Of(n, d)]
    BY <1>1, <1>9 DEF Planned, Execute
  <2> QED
    BY <2>1 DEF IsExecute, Tell, Event
<1>10. d \in Marks /\ "cycle" \in Marks
  BY DEF Marks
<1>11. /\ agenda'[k] = Detects(n, d) => IsDetected(r, n, Of(n, d), Of(n, d))
       /\ agenda'[k] = Evaluates(n, "cycle") => IsEvaluated(r, n, CycleTrace(n))
       /\ agenda'[k] = Evaluates(n, d) => IsEvaluated(r, n, Of(n, d))
  BY <1>5, <1>6, <1>10 DEF Detects, CycleTrace
<1> QED
  BY <1>4, <1>7, <1>8, <1>9, <1>11 DEF n, r

\* What a row of a poll is.
LEMMA PollRowIsFresh ==
    ASSUME NEW n \in Nat, n > 0, NEW d \in Directions, NEW r, process \in Nat, process > 0,
           \/ IsDetected(r, n, Of(n, "synthetic"), CycleTrace(n))
           \/ IsDetected(r, n, Of(n, d), Of(n, d))
           \/ IsEvaluated(r, n, CycleTrace(n)) \/ IsEvaluated(r, n, Of(n, d))
           \/ IsNoAction(r, n, CycleTrace(n))
           \/ IsFiltered(r, n, d) \/ IsExecute(r, n, d)
    PROVE  FreshRow(r, n)
<1>1. RowOK(r, process, n)
  BY PollRowsOK, ExecutionRowsOK
<1>2. Of(n, d)[1] = n
  BY NameIs
<1> QED
  BY <1>1, <1>2
  DEF FreshRow, IsDetected, IsEvaluated, IsNoAction, IsFiltered, IsExecute, Outcome

LEMMA GatePollFresh ==
    ASSUME TypeInv, Polls, GateAgenda(polls + 1)
    PROVE  FreshRows(polls + 1) /\ FreshOutcomes /\ FreshActs /\ FreshChain
<1> DEFINE n == polls + 1
           r(k) == Story'[End + k]
<1>1. n \in Nat /\ n > 0 /\ process \in Nat /\ process > 0 /\ "LONG" \in Directions
  BY DEF TypeInv, Polls, Adds, Directions
<1>2. Len(agenda') = 3 /\ End' = End + 3 /\ End \in Nat /\ New = End + 1 .. End + 3
  BY LengthsType DEF Polls, Adds, GateAgenda, New
<1>3. /\ 1 \in 1 .. Len(agenda') /\ 2 \in 1 .. Len(agenda') /\ 3 \in 1 .. Len(agenda')
      /\ End + 1 \in New /\ End + 2 \in New /\ End + 3 \in New
  BY <1>2
<1>4. /\ IsDetected(r(1), n, Of(n, "synthetic"), CycleTrace(n))
      /\ IsEvaluated(r(2), n, CycleTrace(n)) /\ IsNoAction(r(3), n, CycleTrace(n))
  BY <1>1, <1>3, ItemRows DEF GateAgenda
<1>5. \A i \in New : i = End + 1 \/ i = End + 2 \/ i = End + 3
  BY <1>2
<1>6. /\ r(1).type = "signal_detected" /\ r(1).signal = Of(n, "synthetic")
      /\ r(2).type = "signal_evaluated" /\ r(3).type = "trade_action"
      /\ r(1).trace = r(2).trace /\ r(2).trace = r(3).trace
  BY <1>4 DEF IsDetected, IsEvaluated, IsNoAction
<1>7. Of(n, "synthetic")[2] \notin Directions
  BY <1>1, IdName DEF Marks, Directions
<1>8. FreshRows(n)
  BY <1>1, <1>4, <1>5, PollRowIsFresh DEF FreshRows
<1> HIDE DEF n
<1>9. FreshOutcomes
  BY <1>5, <1>6, <1>7 DEF FreshOutcomes, Outcome
<1>10. FreshActs
  BY <1>2, <1>3, <1>5, <1>6 DEF FreshActs, Acts
<1>11. FreshChain
  <2>1. Rank(r(1)) = 0 /\ Rank(r(2)) = 1 /\ Rank(r(3)) = 3
    BY <1>6 DEF Rank, ChainRank
  <2> QED
    BY <1>2, <1>5, <1>6, <2>1 DEF FreshChain
<1> QED
  BY <1>8, <1>9, <1>10, <1>11 DEF n

LEMMA SignalPollFresh ==
    ASSUME TypeInv, Polls, NEW d \in Directions, SignalAgenda(polls + 1, d)
    PROVE  FreshRows(polls + 1) /\ FreshOutcomes /\ FreshActs /\ FreshChain
<1> DEFINE n == polls + 1
           r(k) == Story'[End + k]
<1>1. n \in Nat /\ n > 0 /\ process \in Nat /\ process > 0
  BY DEF TypeInv, Polls, Adds
<1>2. Len(agenda') = 3 /\ End' = End + 3 /\ End \in Nat /\ New = End + 1 .. End + 3
  BY LengthsType DEF Polls, Adds, SignalAgenda, New
<1>3. /\ 1 \in 1 .. Len(agenda') /\ 2 \in 1 .. Len(agenda') /\ 3 \in 1 .. Len(agenda')
      /\ End + 1 \in New /\ End + 2 \in New /\ End + 3 \in New
  BY <1>2
<1>4. /\ IsDetected(r(1), n, Of(n, d), Of(n, d))
      /\ IsEvaluated(r(2), n, Of(n, d)) /\ IsExecute(r(3), n, d)
  BY <1>1, <1>3, ItemRows DEF SignalAgenda
<1>5. \A i \in New : i = End + 1 \/ i = End + 2 \/ i = End + 3
  BY <1>2
<1>6. /\ r(1).type = "signal_detected" /\ r(1).signal = Of(n, d)
      /\ r(2).type = "signal_evaluated"
      /\ r(3).type = "execute" /\ r(3).signal = Of(n, d)
      /\ r(1).trace = r(2).trace /\ r(2).trace = r(3).trace
  BY <1>4 DEF IsDetected, IsEvaluated, IsExecute
<1>8. FreshRows(n)
  BY <1>1, <1>4, <1>5, PollRowIsFresh DEF FreshRows
<1> HIDE DEF n
<1>9. FreshOutcomes
  BY <1>3, <1>5, <1>6 DEF FreshOutcomes, Outcome
<1>10. FreshActs
  BY <1>2, <1>3, <1>5, <1>6 DEF FreshActs, Acts
<1>11. FreshChain
  <2>1. Rank(r(1)) = 0 /\ Rank(r(2)) = 1 /\ Rank(r(3)) = 2
    BY <1>6 DEF Rank, ChainRank
  <2> QED
    BY <1>2, <1>5, <1>6, <2>1 DEF FreshChain
<1> QED
  BY <1>8, <1>9, <1>10, <1>11 DEF n

LEMMA FilterPollFresh ==
    ASSUME TypeInv, Polls, NEW d \in Directions, FilterAgenda(polls + 1, d), setting # {}
    PROVE  FreshRows(polls + 1) /\ FreshOutcomes /\ FreshActs /\ FreshChain
<1> DEFINE n == polls + 1
           r(k) == Story'[End + k]
<1>1. n \in Nat /\ n > 0 /\ process \in Nat /\ process > 0
  BY DEF TypeInv, Polls, Adds
<1>2. Len(agenda') = 4 /\ End' = End + 4 /\ End \in Nat /\ New = End + 1 .. End + 4
  BY LengthsType DEF Polls, Adds, FilterAgenda, New
<1>3. /\ 1 \in 1 .. Len(agenda') /\ 2 \in 1 .. Len(agenda')
      /\ 3 \in 1 .. Len(agenda') /\ 4 \in 1 .. Len(agenda')
      /\ End + 1 \in New /\ End + 2 \in New /\ End + 3 \in New /\ End + 4 \in New
  BY <1>2
<1>4. /\ IsDetected(r(1), n, Of(n, d), Of(n, d)) /\ IsFiltered(r(2), n, d)
      /\ IsEvaluated(r(3), n, CycleTrace(n)) /\ IsNoAction(r(4), n, CycleTrace(n))
  BY <1>1, <1>3, ItemRows DEF FilterAgenda
<1>5. \A i \in New : i = End + 1 \/ i = End + 2 \/ i = End + 3 \/ i = End + 4
  BY <1>2
<1>6. /\ r(1).type = "signal_detected" /\ r(1).signal = Of(n, d)
      /\ r(2).type = "signal_filtered" /\ r(2).signal = Of(n, d)
      /\ r(3).type = "signal_evaluated" /\ r(4).type = "trade_action"
  BY <1>4 DEF IsDetected, IsEvaluated, IsFiltered, IsNoAction
<1>8. FreshRows(n)
  BY <1>1, <1>4, <1>5, PollRowIsFresh DEF FreshRows
<1> HIDE DEF n
<1>9. FreshOutcomes
  BY <1>3, <1>5, <1>6 DEF FreshOutcomes, Outcome
<1>10. FreshActs
  BY <1>2, <1>3, <1>5, <1>6 DEF FreshActs, Acts
<1> QED
  BY <1>8, <1>9, <1>10 DEF n, FreshChain

\* Two directions; only what holds of them.
LEMMA BothPollFresh ==
    ASSUME TypeInv, Polls, ~OneWay,
           \/ BothAgenda(polls + 1, "LONG", "SHORT")
           \/ BothResearchAgenda(polls + 1, "LONG", "SHORT")
           \/ BothFilterAgenda(polls + 1, "LONG", "SHORT")
    PROVE  FreshRows(polls + 1) /\ FreshOutcomes /\ FreshActs /\ FreshChain
<1> DEFINE n == polls + 1
           r(k) == Story'[End + k]
           long == Of(n, "LONG")
           short == Of(n, "SHORT")
<1>1. /\ n \in Nat /\ n > 0 /\ process \in Nat /\ process > 0
      /\ "LONG" \in Directions /\ "SHORT" \in Directions
  BY DEF TypeInv, Polls, Adds, Directions
<1>2. Len(agenda') = 6 /\ End' = End + 6 /\ End \in Nat /\ New = End + 1 .. End + 6
  BY LengthsType DEF Polls, Adds, BothAgenda, BothResearchAgenda, BothFilterAgenda, New
<1>3. \A k \in {1, 2, 3, 4, 5, 6} : k \in 1 .. Len(agenda') /\ End + k \in New
  BY <1>2
<1>4. \A i \in New : \/ i = End + 1 \/ i = End + 2 \/ i = End + 3
                     \/ i = End + 4 \/ i = End + 5 \/ i = End + 6
  BY <1>2
<1>5. long # short
  BY DEF Of
<1>6. OneWay = FALSE /\ setting # {}
  BY DEF OneWay
<1>7. CASE BothAgenda(n, "LONG", "SHORT")
  <2>1. /\ IsDetected(r(1), n, long, long) /\ IsEvaluated(r(2), n, long) /\ IsExecute(r(3), n, "LONG")
        /\ IsDetected(r(4), n, short, short) /\ IsEvaluated(r(5), n, short)
        /\ IsExecute(r(6), n, "SHORT")
    BY <1>1, <1>3, <1>7, ItemRows DEF BothAgenda
  <2>2. FreshRows(n)
    BY <1>1, <1>4, <2>1, PollRowIsFresh DEF FreshRows
  <2>3. /\ r(1).type = "signal_detected" /\ r(1).signal = long
        /\ r(2).type = "signal_evaluated" /\ r(3).type = "execute" /\ r(3).signal = long
        /\ r(4).type = "signal_detected" /\ r(4).signal = short
        /\ r(5).type = "signal_evaluated" /\ r(6).type = "execute" /\ r(6).signal = short
    BY <2>1 DEF IsDetected, IsEvaluated, IsExecute
  <2> HIDE DEF n, long, short
  <2>4. FreshOutcomes
    BY <1>3, <1>4, <1>5, <2>3 DEF FreshOutcomes, Outcome
  <2> QED
    BY <1>6, <2>2, <2>4 DEF FreshActs, FreshChain, n
<1>8. CASE BothResearchAgenda(n, "LONG", "SHORT")
  <2>1. /\ IsDetected(r(1), n, long, long) /\ IsDetected(r(2), n, short, short)
        /\ IsEvaluated(r(3), n, long) /\ IsExecute(r(4), n, "LONG")
        /\ IsEvaluated(r(5), n, short) /\ IsExecute(r(6), n, "SHORT")
    BY <1>1, <1>3, <1>8, ItemRows DEF BothResearchAgenda
  <2>2. FreshRows(n)
    BY <1>1, <1>4, <2>1, PollRowIsFresh DEF FreshRows
  <2>3. /\ r(1).type = "signal_detected" /\ r(1).signal = long
        /\ r(2).type = "signal_detected" /\ r(2).signal = short
        /\ r(3).type = "signal_evaluated" /\ r(4).type = "execute" /\ r(4).signal = long
        /\ r(5).type = "signal_evaluated" /\ r(6).type = "execute" /\ r(6).signal = short
    BY <2>1 DEF IsDetected, IsEvaluated, IsExecute
  <2> HIDE DEF n, long, short
  <2>4. FreshOutcomes
    BY <1>3, <1>4, <1>5, <2>3 DEF FreshOutcomes, Outcome
  <2> QED
    BY <1>6, <2>2, <2>4 DEF FreshActs, FreshChain, n
<1>9. CASE BothFilterAgenda(n, "LONG", "SHORT")
  <2>1. /\ IsDetected(r(1), n, long, long) /\ IsDetected(r(2), n, short, short)
        /\ IsFiltered(r(3), n, "LONG") /\ IsFiltered(r(4), n, "SHORT")
        /\ IsEvaluated(r(5), n, CycleTrace(n)) /\ IsNoAction(r(6), n, CycleTrace(n))
    BY <1>1, <1>3, <1>9, ItemRows DEF BothFilterAgenda
  <2>2. FreshRows(n)
    BY <1>1, <1>4, <2>1, PollRowIsFresh DEF FreshRows
  <2>3. /\ r(1).type = "signal_detected" /\ r(1).signal = long
        /\ r(2).type = "signal_detected" /\ r(2).signal = short
        /\ r(3).type = "signal_filtered" /\ r(3).signal = long
        /\ r(4).type = "signal_filtered" /\ r(4).signal = short
        /\ r(5).type = "signal_evaluated" /\ r(6).type = "trade_action"
    BY <2>1 DEF IsDetected, IsEvaluated, IsFiltered, IsNoAction
  <2> HIDE DEF n, long, short
  <2>4. FreshOutcomes
    BY <1>3, <1>4, <1>5, <2>3 DEF FreshOutcomes, Outcome
  <2> QED
    BY <1>6, <2>2, <2>4 DEF FreshActs, FreshChain, n
<1> QED
  BY <1>7, <1>8, <1>9

LEMMA PollFresh ==
    ASSUME TypeInv, Polls
    PROVE  FreshRows(polls') /\ FreshOutcomes /\ FreshActs /\ FreshChain
BY GatePollFresh, SignalPollFresh, FilterPollFresh, BothPollFresh DEF Polls, PollAgenda

-----------------------------------------------------------------------------
(* The rows of the journal are numbered *)

JournalInv ==
    /\ \A i \in Rows : /\ journal[i].type # "execute" /\ journal[i].run = journal[i].session
                       /\ journal[i].session \in 1 .. process /\ journal[i].seq \in Nat
                       /\ journal[i].session = process => journal[i].seq <= sourceSeq
    /\ \A i, j \in Rows : i < j /\ journal[i].session = journal[j].session
                            => journal[i].seq < journal[j].seq

LEMMA JournalStep ==
    ASSUME TypeInv, JournalInv, [Next]_vars
    PROVE  JournalInv'
<1>1. CASE WriteEvent
  <2>1. PICK e \in EventRecords :
            /\ journal' = Append(journal, [e EXCEPT !.run = process, !.session = process,
                                                    !.seq = sourceSeq + 1])
            /\ Len(journal') = Len(journal) + 1
            /\ \A i \in Rows : journal'[i] = journal[i]
    BY <1>1, WriteKeepsStory
  <2> DEFINE row == [e EXCEPT !.run = process, !.session = process, !.seq = sourceSeq + 1]
             x == Len(journal) + 1
  <2>2. /\ sourceSeq' = sourceSeq + 1 /\ process' = process /\ agenda # <<>>
        /\ sourceSeq \in Nat /\ process \in Nat /\ process > 0 /\ Len(journal) \in Nat
    BY <1>1, LengthsType DEF WriteEvent, TypeInv
  <2>3. /\ row.type # "execute" /\ row.run = process /\ row.session = process
        /\ row.seq = sourceSeq + 1
    BY DEF EventRecords, EventTypes, ChainEventTypes, ChainRank
  <2>4. journal'[x] = row
    <3>1. PICK S : journal \in Seq(S)
      BY DEF TypeInv
    <3> HIDE DEF row
    <3> QED
      BY <2>1, <3>1 DEF row
  <2>5. Rows' = Rows \cup {x} /\ \A i \in Rows : i < x
    BY <2>1, <2>2 DEF Rows
  <2> HIDE DEF row, x
  <2>6. ASSUME NEW i \in Rows'
        PROVE  /\ journal'[i].type # "execute" /\ journal'[i].run = journal'[i].session
               /\ journal'[i].session \in 1 .. process /\ journal'[i].seq \in Nat
               /\ journal'[i].session = process => journal'[i].seq <= sourceSeq + 1
    <3>1. CASE i \in Rows
      <4>1. /\ journal'[i] = journal[i] /\ journal[i].type # "execute"
            /\ journal[i].run = journal[i].session /\ journal[i].session \in 1 .. process
            /\ journal[i].seq \in Nat
            /\ journal[i].session = process => journal[i].seq <= sourceSeq
        BY <2>1, <3>1 DEF JournalInv
      <4> QED
        BY <2>2, <4>1
    <3>2. CASE i = x
      <4>1. process \in 1 .. process /\ sourceSeq + 1 \in Nat /\ sourceSeq + 1 <= sourceSeq + 1
        BY <2>2
      <4> QED
        BY <2>3, <2>4, <3>2, <4>1
    <3> QED
      BY <2>5, <3>1, <3>2
  <2>7. ASSUME NEW i \in Rows', NEW j \in Rows', i < j, journal'[i].session = journal'[j].session
        PROVE  journal'[i].seq < journal'[j].seq
    <3>1. CASE i \in Rows /\ j \in Rows
      BY <2>1, <2>7, <3>1 DEF JournalInv
    <3>2. CASE i \in Rows /\ j = x
      <4>1. journal'[i] = journal[i] /\ journal[i].session = process
        BY <2>1, <2>3, <2>4, <2>7, <3>2
      <4>2. journal[i].seq \in Nat /\ journal[i].seq <= sourceSeq
        BY <3>2, <4>1 DEF JournalInv
      <4> QED
        BY <2>2, <2>3, <2>4, <3>2, <4>1, <4>2
    <3>3. CASE i = x
      <4>1. j = x \/ j < x
        BY <2>5
      <4>2. x \in Nat /\ j \in Nat
        BY <2>2, <2>5 DEF Rows, x
      <4> QED
        BY <2>7, <3>3, <4>1, <4>2
    <3> QED
      BY <2>5, <3>1, <3>2, <3>3
  <2> QED
    BY <2>2, <2>6, <2>7 DEF JournalInv
<1>2. CASE Start
  <2>1. process \in Nat /\ process' = process + 1 /\ UNCHANGED journal
    BY <1>2 DEF Start, TypeInv
  <2>2. Rows' = Rows
    BY <2>1 DEF Rows
  <2> QED
    BY <2>1, <2>2 DEF JournalInv
<1>3. CASE UNCHANGED <<journal, process, sourceSeq>>
  BY <1>3 DEF JournalInv, Rows
<1>4. Crash \/ NewBar \/ (\E t \in open : BrokerCloses(t)) \/ PollNews \/ SyncPositions \/ SkipSync
        \/ CheckSignals \/ SkipSignals \/ StaleWarning \/ (\E t \in invalid : MonitorPositions(t))
        \/ MonitorDone \/ UNCHANGED vars \/ (\E d \in Directions : EvaluateAndExecute(d))
      => UNCHANGED <<journal, process, sourceSeq>>
  <2>1. ASSUME NEW d \in Directions, EvaluateAndExecute(d)
        PROVE  UNCHANGED <<journal, process, sourceSeq>>
    BY <2>1, ExecutionWrites
  <2> QED
    BY <2>1
    DEF Crash, NewBar, BrokerCloses, PollNews, SyncPositions, SkipSync, CheckSignals, Polling,
        SkipSignals, StaleWarning, MonitorPositions, MonitorDone, vars, loopVars
<1> QED
  BY <1>1, <1>2, <1>3, <1>4 DEF Next, Run

\* With nothing on the agenda the story is what the journal tells.
LEMMA NothingToExecute ==
    ASSUME TypeInv, JournalInv, agenda = <<>>
    PROVE  /\ Told = Rows /\ End = Len(journal)
           /\ \A i \in Told : Story[i] = Tell(journal[i], journal[i].session)
           /\ \A i \in Told : Story[i].type # "execute"
<1>1. Told = Rows /\ End = Len(journal)
  BY LengthsType DEF Told, End, Rows
<1>2. \A i \in Told : Story[i] = Tell(journal[i], journal[i].session)
  BY <1>1, LengthsType DEF Story, Rows
<1>3. ASSUME NEW i \in Told PROVE Story[i].type # "execute"
  <2>1. Story[i] = Tell(journal[i], journal[i].session)
    BY <1>2, <1>3
  <2>2. Tell(journal[i], journal[i].session).type = journal[i].type
    BY DEF Tell
  <2>3. Story[i].type = journal[i].type
    BY <2>1, <2>2
  <2> QED
    BY <1>1, <2>3 DEF JournalInv
<1> QED
  BY <1>1, <1>2, <1>3

-----------------------------------------------------------------------------
(* Every row is well formed *)

\* The rows a signal became, each of a shape.
LEMMA ExecutionRows ==
    ASSUME TypeInv, NEW d \in Directions, NEW x \in Nat, NEW new,
           \/ Refused(new, x, polls, d) \/ GivenUp(new, x, polls, d) \/ Bought(new, x, polls, d)
    PROVE  \A i \in new :
              LET r == Story'[i]
              IN  \/ IsGuard(r, polls, d) \/ IsNoAction(r, polls, Of(polls, d))
                  \/ IsFiltered(r, polls, d) \/ IsEnter(r, polls, d) \/ IsExecuted(r, polls, d)
                  \/ IsClosed(r, Of(polls, d), TRUE) /\ r.reason = "slippage_flatten"
<1>1. CASE Refused(new, x, polls, d)
  <2>1. \A i \in new : i = x \/ i = x + 1 \/ i = x + 2
    BY <1>1 DEF Refused
  <2> QED
    BY <1>1, <2>1 DEF Refused
<1>2. CASE GivenUp(new, x, polls, d)
  <2>1. \A i \in new : i = x \/ i = x + 1 \/ i = x + 2 \/ i = x + 3
    BY <1>2 DEF GivenUp
  <2> QED
    BY <1>2, <2>1 DEF GivenUp
<1>3. CASE Bought(new, x, polls, d)
  <2>1. \A i \in new : i = x \/ i = x + 1
    BY <1>3 DEF Bought
  <2> QED
    BY <1>3, <2>1 DEF Bought
<1> QED
  BY <1>1, <1>2, <1>3

LEMMA RowsStep ==
    ASSUME TypeInv, JournalInv, RowsInv,
           Idles \/ Begins \/ Dies \/ Logs \/ Polls \/ Executes
    PROVE  RowsInv'
<1>0. process \in Nat /\ polls \in Nat /\ (pc # "down" => process > 0)
  BY DEF TypeInv
<1>1. CASE Idles
  BY <1>1 DEF Idles, RowsInv
<1>2. CASE Begins
  <2>1. ASSUME NEW i \in Told PROVE RowOK(Story[i], process + 1, polls)
    <3>1. process + 1 \in Nat /\ process <= process + 1 /\ polls <= polls
      BY <1>0
    <3> QED
      BY <1>0, <3>1, RowStaysOK DEF RowsInv
  <2> QED
    BY <1>2, <2>1 DEF Begins, RowsInv
<1>3. CASE Dies
  BY <1>3 DEF Dies, RowsInv
<1>4. CASE Logs
  <2>1. ASSUME NEW i \in Told' \ Told PROVE RowOK(Story'[i], process, polls)
    <3>1. process > 0
      BY <1>0, <1>4 DEF Logs, Adds
    <3>2. CASE IsStale(Story'[i])
      BY <1>0, <3>1, <3>2, StaleRowOK
    <3>3. CASE \E t \in tracked : IsClosed(Story'[i], t, t \in meta)
      <4>1. PICK t \in tracked : IsClosed(Story'[i], t, t \in meta)
        BY <3>3
      <4> DEFINE known == t \in meta
      <4>2. known \in BOOLEAN /\ t \in IdsOf(polls)
        BY DEF TypeInv, Ids
      <4>3. IsClosed(Story'[i], t, known)
        BY <4>1
      <4> HIDE DEF known
      <4> QED
        BY <1>0, <3>1, <4>2, <4>3, CloseRowOK
    <3> QED
      BY <1>4, <3>2, <3>3 DEF Logs
  <2>2. ASSUME NEW i \in Told PROVE RowOK(Story'[i], process, polls)
    BY <1>4 DEF Logs, Adds, RowsInv
  <2> QED
    BY <1>4, <2>1, <2>2 DEF Logs, Adds, RowsInv
<1>5. CASE Polls
  <2>1. ASSUME NEW i \in Told' \ Told PROVE RowOK(Story'[i], process, polls')
    BY <1>5, PollFresh DEF FreshRows, FreshRow, New
  <2>2. ASSUME NEW i \in Told PROVE RowOK(Story'[i], process, polls')
    <3>1. Story[i].type # "execute"
      BY <1>5, NothingToExecute DEF Polls, Adds
    <3> QED
      BY <1>0, <1>5, <3>1, RowStaysOK DEF Polls, Adds, RowsInv
  <2> QED
    BY <1>5, <2>1, <2>2 DEF Polls, Adds, RowsInv
<1>6. CASE Executes
  <2>1. PICK d \in Directions, x \in Told : \E from, new :
            /\ IsExecute(Story[x], polls, d) /\ Unfolds(from, new, x)
            /\ Refused(new, x, polls, d) \/ GivenUp(new, x, polls, d) \/ Bought(new, x, polls, d)
            /\ polls > 0 /\ UNCHANGED <<process, polls>>
    BY <1>6 DEF Executes
  <2>10. PICK from, new :
            /\ IsExecute(Story[x], polls, d) /\ Unfolds(from, new, x)
            /\ Refused(new, x, polls, d) \/ GivenUp(new, x, polls, d) \/ Bought(new, x, polls, d)
            /\ polls > 0 /\ UNCHANGED <<process, polls>>
    BY <2>1
  <2>2. ASSUME NEW i \in new PROVE RowOK(Story'[i], process, polls)
    <3>1. x \in Nat
      BY DEF Told
    <3>2. Story[x].session \in 1 .. process
      BY DEF RowsInv, RowOK
    <3>3. process > 0
      BY <1>0, <3>2
    <3> QED
      BY <1>0, <2>10, <3>1, <3>3, ExecutionRows, ExecutionRowsOK
  <2>3. ASSUME NEW i \in Told' \ new PROVE RowOK(Story'[i], process, polls)
    BY <2>10 DEF Unfolds, RowsInv
  <2> QED
    BY <2>10, <2>2, <2>3 DEF RowsInv
<1> QED
  BY <1>1, <1>2, <1>3, <1>4, <1>5, <1>6

-----------------------------------------------------------------------------
(* Every signal has one outcome *)

OutcomeInv ==
    /\ \A i, j \in Told :
          Outcome(Story[i]) /\ Outcome(Story[j]) /\ Story[i].signal = Story[j].signal => i = j
    /\ pc # "down" =>
          \A i \in Told :
              /\ Story[i].session = process
              /\ Story[i].type = "signal_detected" /\ Story[i].signal[2] \in Directions
              => \E j \in Told : Outcome(Story[j]) /\ Story[j].signal = Story[i].signal

\* What a signal becomes ends it once.
LEMMA ExecutionResolves ==
    ASSUME TypeInv, NEW d \in Directions, NEW x \in Nat, NEW new,
           \/ Refused(new, x, polls, d) \/ GivenUp(new, x, polls, d) \/ Bought(new, x, polls, d)
    PROVE  /\ \E o \in new : /\ Outcome(Story'[o]) /\ Story'[o].signal = Of(polls, d)
                             /\ \A i \in new : Outcome(Story'[i]) => i = o
           /\ \A i \in new : Story'[i].type \notin {"signal_detected", "signal_evaluated", "execute"}
<1>1. CASE Refused(new, x, polls, d)
  <2>1. x + 2 \in new /\ \A i \in new : i = x \/ i = x + 1 \/ i = x + 2
    BY <1>1 DEF Refused
  <2>2. /\ Story'[x].type = "risk_guard_decision" /\ Story'[x + 1].type = "trade_action"
        /\ Story'[x + 2].type = "signal_filtered" /\ Story'[x + 2].signal = Of(polls, d)
    BY <1>1 DEF Refused, IsGuard, IsNoAction, IsFiltered
  <2> QED
    BY <2>1, <2>2 DEF Outcome
<1>2. CASE GivenUp(new, x, polls, d)
  <2>1. x + 3 \in new /\ \A i \in new : i = x \/ i = x + 1 \/ i = x + 2 \/ i = x + 3
    BY <1>2 DEF GivenUp
  <2>2. /\ Story'[x].type = "trade_closed" /\ Story'[x + 1].type = "risk_guard_decision"
        /\ Story'[x + 2].type = "trade_action"
        /\ Story'[x + 3].type = "signal_filtered" /\ Story'[x + 3].signal = Of(polls, d)
    BY <1>2 DEF GivenUp, IsClosed, IsGuard, IsNoAction, IsFiltered
  <2> QED
    BY <2>1, <2>2 DEF Outcome
<1>3. CASE Bought(new, x, polls, d)
  <2>1. x + 1 \in new /\ \A i \in new : i = x \/ i = x + 1
    BY <1>3 DEF Bought
  <2>2. /\ Story'[x].type = "trade_action" /\ Story'[x + 1].type = "trade_executed"
        /\ Story'[x + 1].signal = Of(polls, d)
    BY <1>3 DEF Bought, IsEnter, IsExecuted
  <2> QED
    BY <2>1, <2>2 DEF Outcome
<1> QED
  BY <1>1, <1>2, <1>3

LEMMA OutcomeStep ==
    ASSUME TypeInv, RowsInv, OutcomeInv,
           Idles \/ Begins \/ Dies \/ Logs \/ Polls \/ Executes
    PROVE  OutcomeInv'
<1>1. CASE Idles
  BY <1>1 DEF Idles, OutcomeInv
<1>2. CASE Begins
  <2>1. \A i \in Told : Story[i].session # process + 1
    BY DEF RowsInv, RowOK, TypeInv
  <2> QED
    BY <1>2, <2>1 DEF Begins, OutcomeInv
<1>3. CASE Dies
  BY <1>3 DEF Dies, OutcomeInv
<1>4. CASE Logs
  <2>1. ASSUME NEW i \in Told' \ Told
        PROVE  ~Outcome(Story'[i]) /\ Story'[i].type # "signal_detected"
    BY <1>4 DEF Logs, IsClosed, IsStale, Outcome
  <2> QED
    BY <1>4, <2>1 DEF Logs, Adds, OutcomeInv
<1>5. CASE Polls
  <2>1. FreshOutcomes /\ FreshRows(polls')
    BY <1>5, PollFresh
  <2>2. ASSUME NEW i \in Told, NEW j \in New, Outcome(Story[i]), Outcome(Story'[j])
        PROVE  Story[i].signal # Story'[j].signal
    <3>1. Story[i].signal \in IdsOf(polls)
      BY <2>2 DEF RowsInv, RowOK, Signalled, Outcome
    <3>2. Story'[j].signal[1] = polls + 1
      BY <1>5, <2>1, <2>2 DEF FreshRows, FreshRow, Polls
    <3> QED
      BY <3>1, <3>2 DEF IdsOf, TypeInv
  <2>3. /\ \A i \in Told' : i \in Told \/ i \in New
        /\ \A i \in Told : Story'[i] = Story[i]
        /\ process' = process /\ pc # "down" /\ New \subseteq Told' /\ Told \subseteq Told'
    BY <1>5 DEF Polls, Adds, New
  <2>4. ASSUME NEW i \in Told', NEW j \in Told',
               Outcome(Story'[i]), Outcome(Story'[j]), Story'[i].signal = Story'[j].signal
        PROVE  i = j
    BY <2>1, <2>2, <2>3, <2>4 DEF OutcomeInv, FreshOutcomes
  <2>5. ASSUME NEW i \in Told', Story'[i].session = process,
               Story'[i].type = "signal_detected", Story'[i].signal[2] \in Directions
        PROVE  \E j \in Told' : Outcome(Story'[j]) /\ Story'[j].signal = Story'[i].signal
    <3>1. CASE i \in New
      BY <2>1, <2>3, <2>5, <3>1 DEF FreshOutcomes
    <3>2. CASE i \in Told
      BY <2>3, <2>5, <3>2 DEF OutcomeInv
    <3> QED
      BY <2>3, <3>1, <3>2
  <2> QED
    BY <2>3, <2>4, <2>5 DEF OutcomeInv
<1>6. CASE Executes
  <2>1. PICK d \in Directions, x \in Told : \E from, new :
            /\ IsExecute(Story[x], polls, d) /\ Unfolds(from, new, x)
            /\ Refused(new, x, polls, d) \/ GivenUp(new, x, polls, d) \/ Bought(new, x, polls, d)
            /\ UNCHANGED <<process, pc>>
    BY <1>6 DEF Executes
  <2>2. PICK from, new :
            /\ IsExecute(Story[x], polls, d) /\ Unfolds(from, new, x)
            /\ Refused(new, x, polls, d) \/ GivenUp(new, x, polls, d) \/ Bought(new, x, polls, d)
            /\ UNCHANGED <<process, pc>>
    BY <2>1
  <2>3. x \in Nat
    BY DEF Told
  <2>4. PICK o \in new : /\ Outcome(Story'[o]) /\ Story'[o].signal = Of(polls, d)
                         /\ \A i \in new : Outcome(Story'[i]) => i = o
    BY <2>2, <2>3, ExecutionResolves
  <2>5. \A i \in new : Story'[i].type # "signal_detected"
    BY <2>2, <2>3, ExecutionResolves
  <2>6. Outcome(Story[x]) /\ Story[x].signal = Of(polls, d)
    BY <2>2 DEF IsExecute, Outcome
  <2>7. /\ new \subseteq Told' /\ \A i \in Told' : from[i] \in Told
        /\ \A i \in new : from[i] = x
        /\ \A i \in Told' \ new : Story'[i] = Story[from[i]] /\ from[i] # x
        /\ \A j \in Told \ {x} : \E i \in Told' \ new : from[i] = j
        /\ \A i, j \in Told' : i < j /\ from[i] = from[j] => i \in new /\ j \in new
    BY <2>2 DEF Unfolds
  <2>8. ASSUME NEW i \in Told', Outcome(Story'[i])
        PROVE  Outcome(Story[from[i]]) /\ Story[from[i]].signal = Story'[i].signal
    <3>1. CASE i \in new
      BY <2>4, <2>6, <2>7, <2>8, <3>1
    <3>2. CASE i \notin new
      BY <2>7, <2>8, <3>2
    <3> QED
      BY <3>1, <3>2
  <2>9. ASSUME NEW i \in Told', NEW j \in Told', i < j,
               Outcome(Story'[i]), Outcome(Story'[j]), Story'[i].signal = Story'[j].signal
        PROVE  FALSE
    <3>1. from[i] = from[j]
      BY <2>7, <2>8, <2>9 DEF OutcomeInv
    <3>2. i \in new /\ j \in new
      BY <2>7, <2>9, <3>1
    <3>3. i = o /\ j = o
      BY <2>4, <2>9, <3>2
    <3> QED
      BY <2>9, <3>3 DEF Told
  <2>10. ASSUME NEW i \in Told', NEW j \in Told',
                Outcome(Story'[i]), Outcome(Story'[j]), Story'[i].signal = Story'[j].signal
         PROVE  i = j
    <3>1. i < j \/ j < i \/ i = j
      BY DEF Told
    <3> QED
      BY <2>9, <2>10, <3>1
  <2>11. ASSUME NEW i \in Told', Story'[i].session = process, pc # "down",
               Story'[i].type = "signal_detected", Story'[i].signal[2] \in Directions
        PROVE  \E j \in Told' : Outcome(Story'[j]) /\ Story'[j].signal = Story'[i].signal
    <3>1. i \notin new /\ Story'[i] = Story[from[i]] /\ from[i] \in Told
      BY <2>5, <2>7, <2>11
    <3>2. PICK k \in Told : Outcome(Story[k]) /\ Story[k].signal = Story'[i].signal
      BY <2>11, <3>1 DEF OutcomeInv
    <3>3. CASE k = x
      BY <2>4, <2>6, <2>7, <3>2, <3>3
    <3>4. CASE k # x
      <4>1. PICK j \in Told' \ new : from[j] = k
        BY <2>7, <3>4
      <4> QED
        BY <2>7, <3>2, <4>1
    <3> QED
      BY <3>3, <3>4
  <2> QED
    BY <2>2, <2>10, <2>11 DEF OutcomeInv
<1> QED
  BY <1>1, <1>2, <1>3, <1>4, <1>5, <1>6

-----------------------------------------------------------------------------
(* The rows of a trade *)

ClosedAmong(places, told, t) ==
    \E k \in places : told[k].trade = t /\ told[k].type = "trade_closed"

\* A trade has no row before its signal is executed; a process that has told of it either
\* holds its trace or has logged it closed; and it keeps one trace until then.
TradeInv ==
    /\ \A i \in Told : Story[i].type = "execute" =>
          /\ Story[i].signal \notin open \cup tracked \cup meta
          /\ \A j \in Told : Story[j].trade # Story[i].signal
    /\ pc # "down" =>
          \A i \in Told : Story[i].session = process /\ Story[i].trade # NoId =>
              Story[i].trade \in meta \/ ClosedAmong(Told, Story, Story[i].trade)
    /\ \A i, j \in Told :
          /\ j < i /\ Story[j].trade = Story[i].trade /\ Story[i].trade # NoId
          /\ Story[j].session = Story[i].session /\ Story[j].trace # Story[i].trace
          => \E k \in Told : k < i /\ Story[k].trade = Story[i].trade
                                   /\ Story[k].type = "trade_closed"

\* What becomes of a signal speaks of its own trade, under its trace and cycle.
LEMMA ExecutionTrades ==
    ASSUME TypeInv, polls > 0, NEW d \in Directions, NEW x \in Nat, NEW new,
           \/ Refused(new, x, polls, d) \/ GivenUp(new, x, polls, d) \/ Bought(new, x, polls, d)
    PROVE  LET t == Of(polls, d)
           IN  /\ t # NoId
               /\ open' \subseteq open \cup {t} /\ tracked' \subseteq tracked \cup {t}
               /\ meta' \subseteq meta \cup {t} /\ meta \subseteq meta'
               /\ \A i \in new :
                     \/ Story'[i].trade = NoId
                     \/ /\ Story'[i].trade = t /\ Story'[i].trace = t
                        /\ t \in meta' \/ Story'[i].type = "trade_closed"
<1> DEFINE t == Of(polls, d)
<1>1. t # NoId /\ t[1] = polls /\ polls # NoId
  BY NameIs DEF TypeInv
<1>2. \A i \in new :
          LET r == Story'[i]
          IN  \/ IsGuard(r, polls, d) \/ IsNoAction(r, polls, Of(polls, d))
              \/ IsFiltered(r, polls, d) \/ IsEnter(r, polls, d) \/ IsExecuted(r, polls, d)
              \/ IsClosed(r, Of(polls, d), TRUE) /\ r.reason = "slippage_flatten"
  BY ExecutionRows
<1>3. ASSUME NEW i \in new
      PROVE  \/ Story'[i].trade = NoId
             \/ Story'[i].trade = t /\ Story'[i].trace = t
  BY <1>1, <1>2 DEF IsGuard, IsNoAction, IsFiltered, IsEnter, IsExecuted, IsClosed
<1>4. CASE Refused(new, x, polls, d)
  <2>1. \A i \in new : i = x \/ i = x + 1 \/ i = x + 2
    BY <1>4 DEF Refused
  <2>2. \A i \in new : Story'[i].trade = NoId
    BY <1>4, <2>1 DEF Refused, IsGuard, IsNoAction, IsFiltered
  <2> QED
    BY <1>1, <1>4, <2>2 DEF Refused
<1>5. CASE GivenUp(new, x, polls, d)
  <2>1. \A i \in new : i = x \/ i = x + 1 \/ i = x + 2 \/ i = x + 3
    BY <1>5 DEF GivenUp
  <2>2. \A i \in new : Story'[i].trade = NoId \/ Story'[i].type = "trade_closed"
    BY <1>5, <2>1 DEF GivenUp, IsClosed, IsGuard, IsNoAction, IsFiltered
  <2> QED
    BY <1>1, <1>3, <1>5, <2>2 DEF GivenUp
<1>6. CASE Bought(new, x, polls, d)
  BY <1>1, <1>3, <1>6 DEF Bought
<1> QED
  BY <1>4, <1>5, <1>6

LEMMA LogsKeepTrades ==
    ASSUME TypeInv, JournalInv, RowsInv, TradeInv, Logs
    PROVE  TradeInv'
<1>1. PICK gone \in SUBSET tracked :
        /\ Adds
        /\ \A i \in Told' \ Told :
              IsStale(Story'[i]) \/ \E t \in gone : IsClosed(Story'[i], t, t \in meta)
        /\ \A t \in gone : \E i \in Told' \ Told : IsClosed(Story'[i], t, t \in meta)
        /\ meta' = meta \ gone
  BY DEF Logs
<1>2. /\ \A i \in Told : Story'[i] = Story[i] /\ Story[i].type # "execute"
      /\ Told \subseteq Told' /\ process' = process /\ Told = 1 .. End /\ End \in Nat
      /\ Told' \ Told = End + 1 .. End' /\ pc # "down"
  BY <1>1, NothingToExecute, LengthsType DEF Adds, Told
<1>3. ASSUME NEW i \in Told' \ Told, Story'[i].trade # NoId
      PROVE  /\ Story'[i].type = "trade_closed" /\ Story'[i].session = process
             /\ Story'[i].trade \in meta => Story'[i].trace = Story'[i].trade
  BY <1>1, <1>3 DEF IsClosed, IsStale
<1>4. ASSUME NEW i \in Told', Story'[i].type = "execute" PROVE FALSE
  <2>1. CASE i \in Told
    BY <1>2, <1>4, <2>1
  <2>2. CASE i \in Told' \ Told
    BY <1>1, <1>4, <2>2 DEF IsClosed, IsStale
  <2> QED
    BY <2>1, <2>2
<1>5. \A t : ClosedAmong(Told, Story, t) => ClosedAmong(Told', Story', t)
  BY <1>2 DEF ClosedAmong
<1>6. ASSUME NEW i \in Told', Story'[i].session = process, Story'[i].trade # NoId
      PROVE  Story'[i].trade \in meta' \/ ClosedAmong(Told', Story', Story'[i].trade)
  <2>1. CASE i \in Told' \ Told
    BY <1>3, <1>6, <2>1 DEF ClosedAmong
  <2>2. CASE i \in Told
    <3>1. Story[i].trade \in meta \/ ClosedAmong(Told, Story, Story[i].trade)
      BY <1>2, <1>6, <2>2 DEF TradeInv
    <3>2. ASSUME Story[i].trade \in gone PROVE ClosedAmong(Told', Story', Story[i].trade)
      <4>1. PICK k \in Told' \ Told : IsClosed(Story'[k], Story[i].trade, Story[i].trade \in meta)
        BY <1>1, <3>2
      <4> QED
        BY <4>1 DEF IsClosed, ClosedAmong
    <3> QED
      BY <1>1, <1>2, <1>5, <2>2, <3>1, <3>2
  <2> QED
    BY <2>1, <2>2
<1>7. ASSUME NEW i \in Told', NEW j \in Told', j < i,
             Story'[j].trade = Story'[i].trade, Story'[i].trade # NoId,
             Story'[j].session = Story'[i].session, Story'[j].trace # Story'[i].trace
      PROVE  \E k \in Told' : k < i /\ Story'[k].trade = Story'[i].trade
                                    /\ Story'[k].type = "trade_closed"
  <2>1. CASE i \in Told
    <3>1. j \in Told
      BY <1>2, <1>7, <2>1
    <3> QED
      BY <1>2, <1>7, <2>1, <3>1 DEF TradeInv
  <2>2. CASE i \in Told' \ Told /\ j \in Told
    <3>1. /\ Story'[j] = Story[j] /\ Story[j].session = process
          /\ Story[j].trade = Story'[i].trade /\ Story[j].trade # NoId
      BY <1>2, <1>3, <1>7, <2>2
    <3>2. CASE Story[j].trace # Story[j].trade
      <4>1. Story[j].type = "trade_closed"
        BY <2>2, <3>1, <3>2 DEF RowsInv, RowOK, Traded, ChainEventTypes, ChainRank
      <4> QED
        BY <1>7, <3>1, <4>1
    <3>3. CASE Story[j].trace = Story[j].trade
      <4>1. Story[j].trade \notin meta
        BY <1>3, <1>7, <2>2, <3>1, <3>3
      <4>2. PICK k \in Told : Story[k].trade = Story[j].trade /\ Story[k].type = "trade_closed"
        BY <1>2, <2>2, <3>1, <4>1 DEF TradeInv, ClosedAmong
      <4>3. k < i
        BY <1>2, <2>2
      <4> QED
        BY <1>2, <3>1, <4>2, <4>3
    <3> QED
      BY <3>2, <3>3
  <2>3. CASE i \in Told' \ Told /\ j \in Told' \ Told
    BY <1>3, <1>7, <2>3
  <2> QED
    BY <2>1, <2>2, <2>3
<1> QED
  BY <1>2, <1>4, <1>6, <1>7 DEF TradeInv

LEMMA PollKeepsTrades ==
    ASSUME TypeInv, JournalInv, RowsInv, TradeInv, Polls
    PROVE  TradeInv'
<1>1. /\ \A i \in Told : Story'[i] = Story[i] /\ Story[i].type # "execute"
      /\ Told \subseteq Told' /\ process' = process /\ Told = 1 .. End /\ End \in Nat
      /\ Told' \ Told = End + 1 .. End' /\ pc # "down"
  BY NothingToExecute, LengthsType DEF Polls, Adds, Told
<1>2. tracked' = tracked /\ meta' = meta /\ open' = open
  BY DEF Polls, bookVars
<1>3. ASSUME NEW i \in Told' \ Told
      PROVE  Story'[i].trade = NoId /\ (Story'[i].type = "execute" => Story'[i].signal[1] = polls + 1)
  BY PollFresh DEF FreshRows, FreshRow, New, Outcome, Polls
<1>4. NoId \notin open \cup tracked /\ open \cup tracked \cup meta \subseteq IdsOf(polls)
  BY NoIdAssumption DEF TypeInv, Ids, IdsOf
<1>5. ASSUME NEW i \in Told', Story'[i].type = "execute"
      PROVE  /\ Story'[i].signal \notin open' \cup tracked' \cup meta'
             /\ \A j \in Told' : Story'[j].trade # Story'[i].signal
  <2>1. i \in Told' \ Told
    BY <1>1, <1>5
  <2>2. Story'[i].signal \notin IdsOf(polls)
    BY <1>3, <1>5, <2>1 DEF IdsOf, TypeInv
  <2>3. Story'[i].signal # NoId
    <3>1. Story'[i].signal \in IdsOf(polls')
      BY <1>5, <2>1, PollFresh DEF FreshRows, FreshRow, New, RowOK, Signalled
    <3> QED
      BY <3>1, NoIdAssumption DEF IdsOf
  <2>4. \A j \in Told : Story[j].trade = NoId \/ Story[j].trade \in IdsOf(polls)
    BY DEF RowsInv, RowOK, Traded
  <2> QED
    BY <1>1, <1>2, <1>3, <1>4, <2>2, <2>3, <2>4
<1>6. ASSUME NEW i \in Told', Story'[i].trade # NoId
      PROVE  i \in Told
  BY <1>3, <1>6
<1>7. ASSUME NEW i \in Told', Story'[i].session = process, Story'[i].trade # NoId
      PROVE  Story'[i].trade \in meta' \/ ClosedAmong(Told', Story', Story'[i].trade)
  <2>1. i \in Told /\ Story'[i] = Story[i]
    BY <1>1, <1>6, <1>7
  <2>2. Story[i].trade \in meta \/ ClosedAmong(Told, Story, Story[i].trade)
    BY <1>1, <1>7, <2>1 DEF TradeInv
  <2> QED
    BY <1>1, <1>2, <2>1, <2>2 DEF ClosedAmong
<1>8. ASSUME NEW i \in Told', NEW j \in Told', j < i,
             Story'[j].trade = Story'[i].trade, Story'[i].trade # NoId,
             Story'[j].session = Story'[i].session, Story'[j].trace # Story'[i].trace
      PROVE  \E k \in Told' : k < i /\ Story'[k].trade = Story'[i].trade
                                    /\ Story'[k].type = "trade_closed"
  BY <1>1, <1>6, <1>8 DEF TradeInv
<1> QED
  BY <1>1, <1>5, <1>7, <1>8 DEF TradeInv

LEMMA ExecutionKeepsTrades ==
    ASSUME TypeInv, RowsInv, OutcomeInv, TradeInv, Executes
    PROVE  TradeInv'
<1>1. PICK d \in Directions, x \in Told : \E from, new :
          /\ IsExecute(Story[x], polls, d) /\ Unfolds(from, new, x)
          /\ Refused(new, x, polls, d) \/ GivenUp(new, x, polls, d) \/ Bought(new, x, polls, d)
          /\ polls > 0 /\ UNCHANGED <<pc, process>>
  BY DEF Executes
<1>2. PICK from, new :
          /\ IsExecute(Story[x], polls, d) /\ Unfolds(from, new, x)
          /\ Refused(new, x, polls, d) \/ GivenUp(new, x, polls, d) \/ Bought(new, x, polls, d)
          /\ polls > 0 /\ UNCHANGED <<pc, process>>
  BY <1>1
<1> DEFINE t == Of(polls, d)
<1>3. x \in Nat
  BY DEF Told
<1>4. /\ t # NoId
      /\ open' \subseteq open \cup {t} /\ tracked' \subseteq tracked \cup {t}
      /\ meta' \subseteq meta \cup {t} /\ meta \subseteq meta'
      /\ \A i \in new :
            \/ Story'[i].trade = NoId
            \/ /\ Story'[i].trade = t /\ Story'[i].trace = t
               /\ t \in meta' \/ Story'[i].type = "trade_closed"
  BY <1>2, <1>3, ExecutionTrades
<1>5. /\ new \subseteq Told' /\ \A i \in Told' : from[i] \in Told
      /\ \A i \in Told' \ new : Story'[i] = Story[from[i]] /\ from[i] # x
      /\ \A j \in Told \ {x} : \E i \in Told' \ new : from[i] = j
      /\ \A i, j \in Told' : i < j => /\ from[i] <= from[j]
                                      /\ from[i] = from[j] => i \in new /\ j \in new
  BY <1>2 DEF Unfolds
<1>6. \A i \in new : Story'[i].type # "execute"
  BY <1>2, <1>3, ExecutionResolves
<1>7. Story[x].type = "execute" /\ Story[x].signal = t /\ Story[x].trade = NoId
  BY <1>2 DEF IsExecute
<1>8. t \notin open \cup tracked \cup meta /\ \A j \in Told : Story[j].trade # t
  BY <1>7 DEF TradeInv
<1> HIDE DEF t
<1>9. NoId \notin open \cup tracked
  BY NoIdAssumption DEF TypeInv, Ids, IdsOf
<1>10. ASSUME NEW i \in Told', Story'[i].type = "execute"
       PROVE  /\ Story'[i].signal \notin open' \cup tracked' \cup meta'
              /\ \A j \in Told' : Story'[j].trade # Story'[i].signal
  <2>1. i \notin new /\ Story'[i] = Story[from[i]] /\ from[i] # x /\ from[i] \in Told
    BY <1>5, <1>6, <1>10
  <2>2. Story'[i].signal # t
    BY <1>7, <1>10, <2>1 DEF OutcomeInv, Outcome
  <2>3. Story'[i].signal # NoId
    <3>1. Story'[i].signal \in IdsOf(polls)
      BY <1>10, <2>1 DEF RowsInv, RowOK, Signalled
    <3> QED
      BY <3>1, NoIdAssumption DEF IdsOf
  <2>4. /\ Story'[i].signal \notin open \cup tracked \cup meta
        /\ \A j \in Told : Story[j].trade # Story'[i].signal
    BY <1>10, <2>1 DEF TradeInv
  <2>5. ASSUME NEW j \in Told' PROVE Story'[j].trade # Story'[i].signal
    BY <1>4, <1>5, <2>2, <2>3, <2>4
  <2> QED
    BY <1>4, <2>2, <2>4, <2>5
<1>11. ASSUME NEW i \in Told', pc # "down", Story'[i].session = process, Story'[i].trade # NoId
       PROVE  Story'[i].trade \in meta' \/ ClosedAmong(Told', Story', Story'[i].trade)
  <2>1. CASE i \in new
    BY <1>4, <1>5, <1>11, <2>1 DEF ClosedAmong
  <2>2. CASE i \notin new
    <3>1. Story'[i] = Story[from[i]] /\ from[i] \in Told
      BY <1>5, <2>2
    <3>2. Story'[i].trade \in meta \/ ClosedAmong(Told, Story, Story'[i].trade)
      BY <1>11, <3>1 DEF TradeInv
    <3>3. ASSUME ClosedAmong(Told, Story, Story'[i].trade) PROVE ClosedAmong(Told', Story', Story'[i].trade)
      <4>1. PICK m \in Told : Story[m].trade = Story'[i].trade /\ Story[m].type = "trade_closed"
        BY <3>3 DEF ClosedAmong
      <4>2. m # x
        BY <1>7, <4>1
      <4>3. PICK k \in Told' \ new : from[k] = m
        BY <1>5, <4>2
      <4> QED
        BY <1>5, <4>1, <4>3 DEF ClosedAmong
    <3> QED
      BY <1>4, <3>2, <3>3
  <2> QED
    BY <2>1, <2>2
<1>12. ASSUME NEW i \in Told', NEW j \in Told', j < i,
              Story'[j].trade = Story'[i].trade, Story'[i].trade # NoId,
              Story'[j].session = Story'[i].session, Story'[j].trace # Story'[i].trace
       PROVE  \E k \in Told' : k < i /\ Story'[k].trade = Story'[i].trade
                                     /\ Story'[k].type = "trade_closed"
  <2>1. \A k \in Told' \ new : Story'[k].trade # t
    BY <1>5, <1>8
  <2>2. i \notin new /\ j \notin new
    BY <1>4, <1>12, <2>1
  <2>3. /\ from[i] \in Told /\ from[j] \in Told /\ from[j] < from[i]
        /\ Story'[i] = Story[from[i]] /\ Story'[j] = Story[from[j]]
    <3>1. from[j] <= from[i] /\ from[j] # from[i]
      BY <1>5, <1>12, <2>2
    <3>2. from[j] \in Nat /\ from[i] \in Nat
      BY <1>5 DEF Told
    <3> QED
      BY <1>5, <2>2, <3>1, <3>2
  <2>4. PICK m \in Told : /\ m < from[i] /\ Story[m].trade = Story'[i].trade
                          /\ Story[m].type = "trade_closed"
    BY <1>12, <2>3 DEF TradeInv
  <2>5. m # x
    BY <1>7, <1>12, <2>4
  <2>6. PICK k \in Told' \ new : from[k] = m
    BY <1>5, <2>5
  <2>7. k < i
    <3>1. ~(i < k)
      <4>1. ~(from[i] <= m)
        BY <2>3, <2>4 DEF Told
      <4> QED
        BY <1>5, <2>6, <4>1
    <3>2. k # i
      BY <2>3, <2>4, <2>6 DEF Told
    <3> QED
      BY <3>1, <3>2 DEF Told
  <2> QED
    BY <1>5, <2>4, <2>6, <2>7
<1> QED
  BY <1>2, <1>10, <1>11, <1>12 DEF TradeInv

LEMMA TradeStep ==
    ASSUME TypeInv, JournalInv, RowsInv, OutcomeInv, TradeInv,
           Idles \/ Begins \/ Dies \/ Logs \/ Polls \/ Executes
    PROVE  TradeInv'
<1>1. CASE Idles
  BY <1>1 DEF Idles, TradeInv, ClosedAmong
<1>2. CASE Begins
  <2>1. \A i \in Told : Story[i].session # process + 1
    BY DEF RowsInv, RowOK, TypeInv
  <2>2. /\ Told' = Told /\ Story' = Story /\ process' = process + 1
        /\ open' \cup tracked' \cup meta' \subseteq open \cup tracked \cup meta
    BY <1>2 DEF Begins
  <2> QED
    BY <2>1, <2>2 DEF TradeInv
<1>3. CASE Dies
  <2>1. /\ Told' \subseteq Told /\ \A i \in Told' : Story'[i] = Story[i]
        /\ pc' = "down" /\ open' = open /\ tracked' = tracked /\ meta' = meta
    BY <1>3 DEF Dies, bookVars
  <2>2. \A i \in Told' : \A k \in Told : k < i => k \in Told'
    BY <1>3, LengthsType DEF Dies, Rows, Told
  <2> QED
    BY <2>1, <2>2 DEF TradeInv
<1> QED
  BY <1>1, <1>2, <1>3, LogsKeepTrades, PollKeepsTrades, ExecutionKeepsTrades

-----------------------------------------------------------------------------
(* A poll acts once, where it decides on one direction at most *)

ActionInv == OneWay =>
    /\ \A i \in Told : Story[i].type = "execute" => i = End
    /\ \A i, j \in Told :
          Acts(Story[i]) /\ Acts(Story[j]) /\ Story[i].cycle = Story[j].cycle => i = j
    /\ pc # "down" =>
          \A n \in 1 .. polls :
              \/ process = 1 \/ \E t \in meta : t[1] = n
              \/ \E i \in Told : Story[i].session = process /\ Story[i].cycle = n
              => \E j \in Told : Acts(Story[j]) /\ Story[j].cycle = n

\* What a signal becomes is one action.
LEMMA ExecutionActs ==
    ASSUME TypeInv, polls > 0, NEW d \in Directions, NEW x \in Nat, NEW new,
           \/ Refused(new, x, polls, d) \/ GivenUp(new, x, polls, d) \/ Bought(new, x, polls, d)
    PROVE  /\ \E o \in new : /\ Acts(Story'[o]) /\ Story'[o].cycle = polls
                             /\ \A i \in new : Acts(Story'[i]) => i = o
           /\ \A i \in new : Story'[i].cycle = polls \/ Story'[i].type = "signal_filtered"
<1>1. CASE Refused(new, x, polls, d)
  <2>1. x + 1 \in new /\ \A i \in new : i = x \/ i = x + 1 \/ i = x + 2
    BY <1>1 DEF Refused
  <2>2. /\ Story'[x].type = "risk_guard_decision" /\ Story'[x + 1].type = "trade_action"
        /\ Story'[x + 2].type = "signal_filtered"
        /\ Story'[x].cycle = polls /\ Story'[x + 1].cycle = polls
    BY <1>1 DEF Refused, IsGuard, IsNoAction, IsFiltered
  <2> QED
    BY <2>1, <2>2 DEF Acts
<1>2. CASE GivenUp(new, x, polls, d)
  <2>1. x + 2 \in new /\ \A i \in new : i = x \/ i = x + 1 \/ i = x + 2 \/ i = x + 3
    BY <1>2 DEF GivenUp
  <2>2. /\ Story'[x].type = "trade_closed" /\ Story'[x + 1].type = "risk_guard_decision"
        /\ Story'[x + 2].type = "trade_action" /\ Story'[x + 3].type = "signal_filtered"
        /\ Story'[x].cycle = polls /\ Story'[x + 1].cycle = polls /\ Story'[x + 2].cycle = polls
    <3>1. Of(polls, d)[1] = polls
      BY NameIs DEF TypeInv
    <3> QED
      BY <1>2, <3>1 DEF GivenUp, IsClosed, IsGuard, IsNoAction, IsFiltered
  <2> QED
    BY <2>1, <2>2 DEF Acts
<1>3. CASE Bought(new, x, polls, d)
  <2>1. x \in new /\ \A i \in new : i = x \/ i = x + 1
    BY <1>3 DEF Bought
  <2>2. /\ Story'[x].type = "trade_action" /\ Story'[x + 1].type = "trade_executed"
        /\ Story'[x].cycle = polls /\ Story'[x + 1].cycle = polls
    BY <1>3 DEF Bought, IsEnter, IsExecuted
  <2> QED
    BY <2>1, <2>2 DEF Acts
<1> QED
  BY <1>1, <1>2, <1>3

LEMMA JournalRows ==
    ASSUME TypeInv, JournalInv
    PROVE  \A i \in Rows : /\ i \in Told /\ Story[i] = Tell(journal[i], journal[i].session)
                           /\ Story[i].type # "execute"
<1> SUFFICES ASSUME NEW i \in Rows
             PROVE  /\ i \in Told /\ Story[i] = Tell(journal[i], journal[i].session)
                    /\ Story[i].type # "execute"
  OBVIOUS
<1>1. i \in Told /\ Story[i] = Tell(journal[i], journal[i].session)
  BY LengthsType DEF Rows, Told, End, Story
<1>2. Tell(journal[i], journal[i].session).type = journal[i].type
  BY DEF Tell
<1> QED
  BY <1>1, <1>2 DEF JournalInv

LEMMA PollKeepsActions ==
    ASSUME TypeInv, JournalInv, RowsInv, ActionInv, Polls, OneWay
    PROVE  ActionInv'
<1>1. /\ \A i \in Told : Story'[i] = Story[i] /\ Story[i].type # "execute"
      /\ Told \subseteq Told' /\ New \subseteq Told' /\ process' = process
      /\ \A i \in Told' : i \in Told \/ i \in New
      /\ polls' = polls + 1 /\ polls \in Nat /\ pc # "down" /\ meta' = meta
  BY NothingToExecute DEF Polls, Adds, New, TypeInv, bookVars
<1>2. /\ \A i \in New : Story'[i].type = "execute" => i = End'
      /\ \A i, j \in New : Acts(Story'[i]) /\ Acts(Story'[j]) => i = j
      /\ \E i \in New : Acts(Story'[i])
  BY PollFresh DEF FreshActs
<1>3. \A i \in New : /\ Story'[i].cycle = polls + 1 \/ Story'[i].cycle = NoId
                     /\ Story'[i].cycle = polls + 1 \/ Story'[i].type = "signal_filtered"
  BY <1>1, PollFresh DEF FreshRows, FreshRow, RowOK
<1>4. ASSUME NEW i \in Told, Acts(Story[i]) PROVE Story[i].cycle \in 1 .. polls
  <2>1. RowOK(Story[i], process, polls)
    BY DEF RowsInv
  <2>2. Story[i].type \in ChainEventTypes \cup {"execute"}
    BY <1>4 DEF Acts, ChainEventTypes, ChainRank
  <2> QED
    BY <2>1, <2>2 DEF RowOK
<1>5. \A i \in New : Acts(Story'[i]) => Story'[i].cycle = polls + 1
  BY <1>3 DEF Acts
<1>6. ASSUME NEW i \in Told', NEW j \in Told',
             Acts(Story'[i]), Acts(Story'[j]), Story'[i].cycle = Story'[j].cycle
      PROVE  i = j
  <2>1. CASE i \in Told /\ j \in Told
    BY <1>1, <1>6, <2>1 DEF ActionInv
  <2>2. CASE i \in New /\ j \in New
    BY <1>2, <1>6, <2>2
  <2>3. CASE i \in Told /\ j \in New
    BY <1>1, <1>4, <1>5, <1>6, <2>3
  <2>4. CASE i \in New /\ j \in Told
    BY <1>1, <1>4, <1>5, <1>6, <2>4
  <2> QED
    BY <1>1, <2>1, <2>2, <2>3, <2>4
<1>7. ASSUME NEW n \in 1 .. polls + 1,
             \/ process = 1 \/ \E t \in meta : t[1] = n
             \/ \E i \in Told' : Story'[i].session = process /\ Story'[i].cycle = n
      PROVE  \E j \in Told' : Acts(Story'[j]) /\ Story'[j].cycle = n
  <2>1. CASE n = polls + 1
    BY <1>1, <1>2, <1>5, <2>1
  <2>2. CASE n \in 1 .. polls
    <3>1. \/ process = 1 \/ \E t \in meta : t[1] = n
          \/ \E i \in Told : Story[i].session = process /\ Story[i].cycle = n
      <4>1. n # polls + 1 /\ n # NoId
        BY <1>1, <2>2, NoIdAssumption
      <4>2. ASSUME NEW i \in Told', Story'[i].cycle = n
            PROVE  i \in Told /\ Story'[i] = Story[i]
        <5>1. i \notin New
          BY <1>3, <4>1, <4>2
        <5> QED
          BY <1>1, <4>2, <5>1
      <4> QED
        BY <1>7, <4>2
    <3>2. \E j \in Told : Acts(Story[j]) /\ Story[j].cycle = n
      BY <1>1, <2>2, <3>1 DEF ActionInv
    <3> QED
      BY <1>1, <3>2
  <2> QED
    BY <1>1, <2>1, <2>2
<1>8. \A i \in Told' : Story'[i].type = "execute" => i = End'
  BY <1>1, <1>2
<1> QED
  BY <1>1, <1>6, <1>7, <1>8 DEF ActionInv

LEMMA ExecutionKeepsActions ==
    ASSUME TypeInv, RowsInv, RowsInv', ActionInv, Executes, OneWay
    PROVE  ActionInv' /\ \A i \in Told' : Story'[i].type # "execute"
<1>1. PICK d \in Directions, x \in Told : \E from, new :
          /\ IsExecute(Story[x], polls, d) /\ Unfolds(from, new, x)
          /\ Refused(new, x, polls, d) \/ GivenUp(new, x, polls, d) \/ Bought(new, x, polls, d)
          /\ polls > 0 /\ UNCHANGED <<pc, process, polls>>
  BY DEF Executes
<1>2. PICK from, new :
          /\ IsExecute(Story[x], polls, d) /\ Unfolds(from, new, x)
          /\ Refused(new, x, polls, d) \/ GivenUp(new, x, polls, d) \/ Bought(new, x, polls, d)
          /\ polls > 0 /\ UNCHANGED <<pc, process, polls>>
  BY <1>1
<1>3. x \in Nat
  BY DEF Told
<1>4. /\ new \subseteq Told' /\ \A i \in Told' : from[i] \in Told
      /\ \A i \in new : from[i] = x
      /\ \A i \in Told' \ new : Story'[i] = Story[from[i]] /\ from[i] # x
      /\ \A j \in Told \ {x} : \E i \in Told' \ new : from[i] = j
      /\ \A i, j \in Told' : i < j /\ from[i] = from[j] => i \in new /\ j \in new
  BY <1>2 DEF Unfolds
<1>5. PICK o \in new : /\ Acts(Story'[o]) /\ Story'[o].cycle = polls
                       /\ \A i \in new : Acts(Story'[i]) => i = o
  BY <1>2, <1>3, ExecutionActs
<1>6. \A i \in new : Story'[i].type # "execute"
  BY <1>2, <1>3, ExecutionResolves
<1>7. Acts(Story[x]) /\ Story[x].cycle = polls /\ Story[x].type = "execute"
  BY <1>2 DEF IsExecute, Acts
<1>8. ASSUME NEW i \in Told' PROVE Story'[i].type # "execute"
  <2>1. CASE i \notin new
    BY <1>4, <1>7, <2>1 DEF ActionInv
  <2> QED
    BY <1>6, <2>1
<1>9. ASSUME NEW i \in Told', Acts(Story'[i])
      PROVE  Acts(Story[from[i]]) /\ Story[from[i]].cycle = Story'[i].cycle
  BY <1>4, <1>5, <1>7, <1>9
<1>10. ASSUME NEW i \in Told', NEW j \in Told', i < j,
              Acts(Story'[i]), Acts(Story'[j]), Story'[i].cycle = Story'[j].cycle
       PROVE  FALSE
  <2>1. from[i] = from[j]
    BY <1>4, <1>9, <1>10 DEF ActionInv
  <2>2. i = o /\ j = o
    BY <1>4, <1>5, <1>10, <2>1
  <2> QED
    BY <1>10, <2>2 DEF Told
<1>11. ASSUME NEW i \in Told', NEW j \in Told',
              Acts(Story'[i]), Acts(Story'[j]), Story'[i].cycle = Story'[j].cycle
       PROVE  i = j
  <2>1. i < j \/ j < i \/ i = j
    BY DEF Told
  <2> QED
    BY <1>10, <1>11, <2>1
<1>12. ASSUME pc # "down", NEW n \in 1 .. polls,
              \/ process = 1 \/ \E t \in meta' : t[1] = n
              \/ \E i \in Told' : Story'[i].session = process /\ Story'[i].cycle = n
       PROVE  \E j \in Told' : Acts(Story'[j]) /\ Story'[j].cycle = n
  <2>1. CASE n = polls
    BY <1>4, <1>5, <2>1
  <2>2. CASE n # polls
    <3>1. \/ process = 1 \/ \E t \in meta : t[1] = n
          \/ \E i \in Told : Story[i].session = process /\ Story[i].cycle = n
      <4>1. ASSUME NEW i \in new PROVE Story'[i].cycle # n
        <5>1. Story'[i].cycle = polls \/ Story'[i].type = "signal_filtered"
          BY <1>2, <1>3, ExecutionActs
        <5>2. n # NoId
          BY NoIdAssumption DEF TypeInv
        <5> QED
          BY <1>4, <2>2, <5>1, <5>2 DEF RowsInv, RowOK
      <4>2. meta' \subseteq meta \cup {Of(polls, d)} /\ Of(polls, d)[1] = polls
        BY <1>2, <1>3, ExecutionTrades, NameIs DEF TypeInv
      <4> QED
        BY <1>4, <1>12, <2>2, <4>1, <4>2
    <3>2. PICK m \in Told : Acts(Story[m]) /\ Story[m].cycle = n
      BY <1>12, <3>1 DEF ActionInv
    <3>3. PICK j \in Told' \ new : from[j] = m
      BY <1>4, <1>7, <2>2, <3>2
    <3> QED
      BY <1>4, <3>2, <3>3
  <2> QED
    BY <2>1, <2>2
<1> QED
  BY <1>2, <1>8, <1>11, <1>12 DEF ActionInv

LEMMA ActionStep ==
    ASSUME TypeInv, JournalInv, RowsInv, RowsInv', ActionInv,
           Idles \/ Begins \/ Dies \/ Logs \/ Polls \/ Executes
    PROVE  ActionInv'
<1>0. SUFFICES ASSUME OneWay PROVE ActionInv'
  <2>1. setting' = setting
    BY DEF Idles, Begins, Dies, Logs, Polls, Adds, Executes
  <2> QED
    BY <2>1 DEF ActionInv, OneWay
<1>1. CASE Idles
  BY <1>0, <1>1 DEF Idles, ActionInv
<1>2. CASE Begins
  <2>1. \A i \in Told : Story[i].session # process + 1
    BY DEF RowsInv, RowOK, TypeInv
  <2>2. process + 1 = 1 => 1 .. polls = {}
    BY DEF TypeInv
  <2> QED
    BY <1>0, <1>2, <2>1, <2>2 DEF Begins, ActionInv
<1>3. CASE Dies
  <2>1. \A i \in Told' : Story'[i].type # "execute"
    BY <1>3, JournalRows DEF Dies
  <2> QED
    BY <1>0, <1>3, <2>1 DEF Dies, ActionInv
<1>4. CASE Logs
  <2>1. ASSUME NEW i \in Told' \ Told
        PROVE  /\ ~Acts(Story'[i]) /\ Story'[i].type # "execute"
               /\ Story'[i].cycle = NoId \/ \E t \in meta : t[1] = Story'[i].cycle
    BY <1>4 DEF Logs, IsClosed, IsStale, Acts
  <2>2. \A i \in Told : Story[i].type # "execute" /\ Story'[i] = Story[i] /\ i \in Told'
    BY <1>4, NothingToExecute DEF Logs, Adds
  <2>3. UNCHANGED <<process, polls>> /\ pc # "down" /\ meta' \subseteq meta
    BY <1>4 DEF Logs, Adds
  <2>4. \A i, j \in Told' :
            Acts(Story'[i]) /\ Acts(Story'[j]) /\ Story'[i].cycle = Story'[j].cycle => i = j
    BY <1>0, <2>1, <2>2 DEF ActionInv
  <2>5. \A i \in Told' : Story'[i].type # "execute"
    BY <2>1, <2>2
  <2>6. ASSUME NEW n \in 1 .. polls,
               \/ process = 1 \/ \E t \in meta' : t[1] = n
               \/ \E i \in Told' : Story'[i].session = process /\ Story'[i].cycle = n
        PROVE  \E j \in Told' : Acts(Story'[j]) /\ Story'[j].cycle = n
    <3>1. n # NoId
      BY NoIdAssumption DEF TypeInv
    <3>2. \/ process = 1 \/ \E t \in meta : t[1] = n
          \/ \E i \in Told : Story[i].session = process /\ Story[i].cycle = n
      BY <2>1, <2>2, <2>3, <2>6, <3>1
    <3> QED
      BY <1>0, <2>2, <2>3, <3>2 DEF ActionInv
  <2> QED
    BY <2>3, <2>4, <2>5, <2>6 DEF ActionInv
<1> QED
  BY <1>0, <1>1, <1>2, <1>3, <1>4, PollKeepsActions, ExecutionKeepsActions

-----------------------------------------------------------------------------
(* A poll has one trade *)

Known ==
    open \cup tracked \cup meta \cup {Story[i].trade : i \in Told}
        \cup {Story[i].signal : i \in {j \in Told : Story[j].type = "execute"}}
OneTradeInv == OneWay =>
    \A t, u \in Known : t # NoId /\ u # NoId /\ t[1] = u[1] => t = u

LEMMA OneTradeStep ==
    ASSUME TypeInv, JournalInv, RowsInv, OneTradeInv,
           Idles \/ Begins \/ Dies \/ Logs \/ Polls \/ Executes
    PROVE  OneTradeInv'
<1>0. SUFFICES ASSUME OneWay PROVE OneTradeInv'
  <2>1. setting' = setting
    BY DEF Idles, Begins, Dies, Logs, Polls, Adds, Executes
  <2> QED
    BY <2>1 DEF OneTradeInv, OneWay
<1>1. ASSUME Known' \subseteq Known \cup {NoId} PROVE OneTradeInv'
  BY <1>0, <1>1 DEF OneTradeInv
<1>2. CASE Idles
  <2>1. Known' \subseteq Known
    BY <1>2 DEF Idles, Known
  <2> QED
    BY <1>1, <2>1
<1>3. CASE Begins
  <2>1. Known' \subseteq Known
    BY <1>3 DEF Begins, Known
  <2> QED
    BY <1>1, <2>1
<1>4. CASE Dies
  <2>1. Known' \subseteq Known
    BY <1>4 DEF Dies, bookVars, Known
  <2> QED
    BY <1>1, <2>1
<1>5. CASE Logs
  <2>1. ASSUME NEW i \in Told' \ Told
        PROVE  Story'[i].trade \in tracked \cup {NoId} /\ Story'[i].type # "execute"
    BY <1>5 DEF Logs, IsClosed, IsStale
  <2>2. /\ tracked' \cup meta' \cup open' \subseteq open \cup tracked \cup meta
        /\ \A i \in Told' : i \in Told' \ Told \/ i \in Told
        /\ \A i \in Told : Story'[i] = Story[i]
    BY <1>5 DEF Logs, Adds
  <2>3. Known' \subseteq Known \cup {NoId}
    BY <2>1, <2>2 DEF Known
  <2> QED
    BY <1>1, <2>3
<1>6. CASE Polls
  <2>1. /\ UNCHANGED <<open, tracked, meta>> /\ polls' = polls + 1 /\ polls \in Nat
        /\ \A i \in Told' : i \in New \/ i \in Told
        /\ \A i \in Told : Story'[i] = Story[i] /\ Story[i].type # "execute"
    BY <1>6, NothingToExecute DEF Polls, Adds, bookVars, New, TypeInv
  <2>2. /\ \A i \in New : Story'[i].type = "execute" => i = End'
        /\ \A i \in New : Story'[i].trade = NoId
        /\ \A i \in New : Story'[i].type = "execute" => Story'[i].signal[1] = polls + 1
    BY <1>0, <2>1, <1>6, PollFresh DEF FreshActs, FreshRows, FreshRow, Outcome
  <2> DEFINE s == Story'[End'].signal
  <2>3. ASSUME NEW t \in Known' PROVE t \in Known \/ t = NoId \/ (t = s /\ t[1] = polls + 1)
    <3>1. CASE t \in open' \cup tracked' \cup meta'
      BY <2>1, <3>1 DEF Known
    <3>2. CASE \E i \in Told' : t = Story'[i].trade
      <4>1. PICK i \in Told' : t = Story'[i].trade
        BY <3>2
      <4> QED
        BY <2>1, <2>2, <4>1 DEF Known
    <3>3. CASE \E i \in Told' : Story'[i].type = "execute" /\ t = Story'[i].signal
      <4>1. PICK i \in Told' : Story'[i].type = "execute" /\ t = Story'[i].signal
        BY <3>3
      <4>2. i \in New
        BY <2>1, <4>1
      <4> QED
        BY <2>2, <4>1, <4>2
    <3> QED
      BY <2>3, <3>1, <3>2, <3>3 DEF Known
  <2>4. ASSUME NEW t \in Known, t # NoId PROVE t[1] # polls + 1
    <3>1. t \in IdsOf(polls)
      <4>1. open \cup tracked \cup meta \subseteq IdsOf(polls)
        BY DEF TypeInv, Ids
      <4>2. \A i \in Told : Story[i].trade = NoId \/ Story[i].trade \in IdsOf(polls)
        BY DEF RowsInv, RowOK, Traded
      <4> QED
        BY <2>1, <2>4, <4>1, <4>2 DEF Known
    <3> QED
      BY <2>1, <3>1 DEF IdsOf
  <2> HIDE DEF s
  <2>5. ASSUME NEW t \in Known', NEW u \in Known', t # NoId, u # NoId, t[1] = u[1]
        PROVE  t = u
    <3>1. CASE t \in Known /\ u \in Known
      BY <1>0, <2>5, <3>1 DEF OneTradeInv
    <3>2. CASE t \notin Known
      <4>1. t = s /\ t[1] = polls + 1
        BY <2>3, <2>5, <3>2
      <4>2. u \notin Known
        BY <2>4, <2>5, <4>1
      <4> QED
        BY <2>3, <2>5, <4>1, <4>2
    <3>3. CASE t \in Known /\ u \notin Known
      BY <2>3, <2>4, <2>5, <3>3
    <3> QED
      BY <3>1, <3>2, <3>3
  <2> QED
    BY <2>5 DEF OneTradeInv
<1>7. CASE Executes
  <2>1. PICK d \in Directions, x \in Told : \E from, new :
            /\ IsExecute(Story[x], polls, d) /\ Unfolds(from, new, x)
            /\ Refused(new, x, polls, d) \/ GivenUp(new, x, polls, d) \/ Bought(new, x, polls, d)
            /\ polls > 0
    BY <1>7 DEF Executes
  <2>2. PICK from, new :
            /\ IsExecute(Story[x], polls, d) /\ Unfolds(from, new, x)
            /\ Refused(new, x, polls, d) \/ GivenUp(new, x, polls, d) \/ Bought(new, x, polls, d)
            /\ polls > 0
    BY <2>1
  <2> DEFINE t == Of(polls, d)
  <2>3. /\ open' \subseteq open \cup {t} /\ tracked' \subseteq tracked \cup {t}
        /\ meta' \subseteq meta \cup {t}
        /\ \A i \in new : Story'[i].trade = NoId \/ Story'[i].trade = t
    <3>1. x \in Nat
      BY DEF Told
    <3> QED
      BY <2>2, <3>1, ExecutionTrades
  <2>4. \A i \in Told' \ new : from[i] \in Told /\ Story'[i] = Story[from[i]]
    BY <2>2 DEF Unfolds
  <2>5. t \in Known
    BY <2>2 DEF IsExecute, Known
  <2> HIDE DEF t
  <2>6. \A i \in new : Story'[i].type # "execute"
    <3>1. x \in Nat
      BY DEF Told
    <3> QED
      BY <2>2, <3>1, ExecutionResolves
  <2>7. Known' \subseteq Known \cup {NoId}
    <3>1. open' \cup tracked' \cup meta' \subseteq Known
      BY <2>3, <2>5 DEF Known
    <3>2. ASSUME NEW i \in Told' PROVE Story'[i].trade \in Known \cup {NoId}
      <4>1. CASE i \in new
        BY <2>3, <2>5, <4>1
      <4>2. CASE i \notin new
        BY <2>4, <4>2 DEF Known
      <4> QED
        BY <4>1, <4>2
    <3>3. ASSUME NEW i \in Told', Story'[i].type = "execute" PROVE Story'[i].signal \in Known
      BY <2>4, <2>6, <3>3 DEF Known
    <3> QED
      BY <3>1, <3>2, <3>3 DEF Known
  <2> QED
    BY <1>1, <2>7
<1> QED
  BY <1>2, <1>3, <1>4, <1>5, <1>6, <1>7

-----------------------------------------------------------------------------
(* What is blocked is never held *)

HeldRow(r) ==
    \/ r.decision = "ENTER" \/ r.type = "trade_executed"
    \/ r.type = "trade_closed" /\ r.reason # "slippage_flatten"
Held(n) ==
    \/ \E t \in meta : t[1] = n
    \/ \E i \in Told : Story[i].cycle = n /\ HeldRow(Story[i])
Guarded(n) == \E i \in Told : Story[i].cycle = n /\ Story[i].type = "risk_guard_decision"
ToExecute(n) == \E i \in Told : Story[i].cycle = n /\ Story[i].type = "execute"
Entered(n) == \E i \in Told : Story[i].cycle = n /\ Story[i].decision = "ENTER"
Executed(n) == \E i \in Told : Story[i].cycle = n /\ Story[i].type = "trade_executed"

GuardInv == OneWay =>
    \A n \in 1 .. polls :
        /\ ~(Held(n) /\ Guarded(n))
        /\ ToExecute(n) => ~Held(n) /\ ~Guarded(n)
        /\ pc # "down" /\ process = 1 => (Entered(n) <=> Executed(n))

\* What a signal becomes is either blocked or held.
LEMMA ExecutionGuards ==
    ASSUME TypeInv, polls > 0, NEW d \in Directions, NEW x \in Nat, NEW new,
           \/ Refused(new, x, polls, d) \/ GivenUp(new, x, polls, d) \/ Bought(new, x, polls, d)
    PROVE  \/ /\ meta' = meta
              /\ \A i \in new : ~HeldRow(Story'[i])
           \/ /\ \A i \in new : Story'[i].type # "risk_guard_decision"
              /\ \E i \in new : Story'[i].cycle = polls /\ Story'[i].decision = "ENTER"
              /\ \E i \in new : Story'[i].cycle = polls /\ Story'[i].type = "trade_executed"
<1>1. CASE Refused(new, x, polls, d)
  <2>1. \A i \in new : i = x \/ i = x + 1 \/ i = x + 2
    BY <1>1 DEF Refused
  <2>2. ~HeldRow(Story'[x]) /\ ~HeldRow(Story'[x + 1]) /\ ~HeldRow(Story'[x + 2])
    BY <1>1 DEF Refused, IsGuard, IsNoAction, IsFiltered, HeldRow
  <2> QED
    BY <1>1, <2>1, <2>2 DEF Refused
<1>2. CASE GivenUp(new, x, polls, d)
  <2>1. \A i \in new : i = x \/ i = x + 1 \/ i = x + 2 \/ i = x + 3
    BY <1>2 DEF GivenUp
  <2>2. /\ ~HeldRow(Story'[x]) /\ ~HeldRow(Story'[x + 1]) /\ ~HeldRow(Story'[x + 2])
        /\ ~HeldRow(Story'[x + 3])
    BY <1>2 DEF GivenUp, IsClosed, IsGuard, IsNoAction, IsFiltered, HeldRow
  <2> QED
    BY <1>2, <2>1, <2>2 DEF GivenUp
<1>3. CASE Bought(new, x, polls, d)
  <2>1. x \in new /\ x + 1 \in new /\ \A i \in new : i = x \/ i = x + 1
    BY <1>3 DEF Bought
  <2>2. /\ Story'[x].type = "trade_action" /\ Story'[x + 1].type = "trade_executed"
        /\ Story'[x].decision = "ENTER"
        /\ Story'[x].cycle = polls /\ Story'[x + 1].cycle = polls
    BY <1>3 DEF Bought, IsEnter, IsExecuted
  <2> QED
    BY <2>1, <2>2
<1> QED
  BY <1>1, <1>2, <1>3

LEMMA PollKeepsGuards ==
    ASSUME TypeInv, JournalInv, RowsInv, GuardInv, Polls, OneWay
    PROVE  GuardInv'
<1>1. /\ UNCHANGED <<meta, process>> /\ polls' = polls + 1 /\ polls \in Nat /\ pc # "down"
      /\ \A i \in Told' : i \in New \/ i \in Told
      /\ Told \subseteq Told' /\ \A i \in Told : Story'[i] = Story[i]
      /\ \A i \in Told : Story[i].type # "execute"
  BY NothingToExecute DEF Polls, Adds, bookVars, New, TypeInv
<1>2. ASSUME NEW i \in New
      PROVE  /\ Story'[i].cycle = polls + 1 \/ Story'[i].cycle = NoId
             /\ ~HeldRow(Story'[i])
             /\ Story'[i].type \notin {"risk_guard_decision", "trade_executed"}
             /\ Story'[i].decision # "ENTER"
  <2>1. /\ RowOK(Story'[i], process, polls + 1) /\ FreshRow(Story'[i], polls + 1)
    BY <1>1, PollFresh DEF FreshRows, FreshRow
  <2>2. Story'[i].decision # "ENTER"
    BY <2>1 DEF RowOK, Decided, FreshRow
  <2> QED
    BY <2>1, <2>2 DEF RowOK, FreshRow, HeldRow
<1>3. ASSUME NEW i \in Told PROVE Story[i].cycle # polls + 1
  BY <1>1, NoIdAssumption DEF RowsInv, RowOK
<1>4. \A t \in meta : t[1] # polls + 1
  BY <1>1 DEF TypeInv, Ids, IdsOf
<1>5. ASSUME NEW n \in 1 .. polls
      PROVE  /\ ~(Held(n)' /\ Guarded(n)')
             /\ ~ToExecute(n)'
             /\ process = 1 => (Entered(n)' <=> Executed(n)')
  <2>1. n # polls + 1 /\ n # NoId
    BY <1>1, NoIdAssumption
  <2>2. /\ Held(n)' => Held(n)
        /\ Guarded(n)' => Guarded(n)
        /\ Entered(n)' <=> Entered(n)
        /\ Executed(n)' <=> Executed(n)
        /\ ~ToExecute(n)'
    <3>1. Held(n)' => Held(n)
      BY <1>1, <1>2, <2>1 DEF Held
    <3>2. Guarded(n)' => Guarded(n)
      BY <1>1, <1>2, <2>1 DEF Guarded
    <3>3. Entered(n)' <=> Entered(n)
      BY <1>1, <1>2, <2>1 DEF Entered
    <3>4. Executed(n)' <=> Executed(n)
      BY <1>1, <1>2, <2>1 DEF Executed
    <3>5. ~ToExecute(n)'
      BY <1>1, <1>2, <2>1 DEF ToExecute
    <3> QED
      BY <3>1, <3>2, <3>3, <3>4, <3>5
  <2> QED
    BY <1>1, <2>2 DEF GuardInv
<1>6. ASSUME NEW n, n = polls + 1
      PROVE  ~Held(n)' /\ ~Guarded(n)' /\ ~Entered(n)' /\ ~Executed(n)'
  <2>1. ~Held(n)'
    BY <1>1, <1>2, <1>3, <1>4, <1>6 DEF Held
  <2>2. ~Guarded(n)'
    BY <1>1, <1>2, <1>3, <1>6 DEF Guarded
  <2>3. ~Entered(n)'
    BY <1>1, <1>2, <1>3, <1>6 DEF Entered
  <2>4. ~Executed(n)'
    BY <1>1, <1>2, <1>3, <1>6 DEF Executed
  <2> QED
    BY <2>1, <2>2, <2>3, <2>4
<1>7. ASSUME NEW n \in 1 .. polls'
      PROVE  /\ ~(Held(n)' /\ Guarded(n)')
             /\ ToExecute(n)' => ~Held(n)' /\ ~Guarded(n)'
             /\ process = 1 => (Entered(n)' <=> Executed(n)')
  <2>1. n \in 1 .. polls \/ n = polls + 1
    BY <1>1
  <2> QED
    BY <1>5, <1>6, <2>1
<1> QED
  BY <1>1, <1>7 DEF GuardInv

LEMMA ExecutionKeepsGuards ==
    ASSUME TypeInv, RowsInv, RowsInv', ActionInv, GuardInv, Executes, OneWay
    PROVE  GuardInv'
<1>1. PICK d \in Directions, x \in Told : \E from, new :
          /\ IsExecute(Story[x], polls, d) /\ Unfolds(from, new, x)
          /\ Refused(new, x, polls, d) \/ GivenUp(new, x, polls, d) \/ Bought(new, x, polls, d)
          /\ polls > 0 /\ UNCHANGED <<pc, process, polls>>
  BY DEF Executes
<1>2. PICK from, new :
          /\ IsExecute(Story[x], polls, d) /\ Unfolds(from, new, x)
          /\ Refused(new, x, polls, d) \/ GivenUp(new, x, polls, d) \/ Bought(new, x, polls, d)
          /\ polls > 0 /\ UNCHANGED <<pc, process, polls>>
  BY <1>1
<1>3. x \in Nat /\ polls \in Nat /\ polls \in 1 .. polls
  BY <1>2 DEF Told, TypeInv
<1>4. /\ new \subseteq Told' /\ \A i \in Told' : from[i] \in Told
      /\ \A i \in Told' \ new : Story'[i] = Story[from[i]]
      /\ \A j \in Told \ {x} : \E i \in Told' \ new : from[i] = j
  BY <1>2 DEF Unfolds
<1>5. \A i \in Told' : Story'[i].type # "execute"
  BY ExecutionKeepsActions
<1>6. ~Held(polls) /\ ~Guarded(polls)
  <2>1. ToExecute(polls)
    BY <1>2 DEF IsExecute, ToExecute
  <2> QED
    BY <1>3, <2>1 DEF GuardInv
<1>7. \A i \in new : Story'[i].cycle = polls \/ Story'[i].cycle = NoId
  <2>1. \A i \in new : Story'[i].cycle = polls \/ Story'[i].type = "signal_filtered"
    BY <1>2, <1>3, ExecutionActs
  <2> QED
    BY <1>4, <2>1 DEF RowsInv, RowOK
<1>8. /\ meta' \subseteq meta \cup {Of(polls, d)} /\ Of(polls, d)[1] = polls
  BY <1>2, <1>3, ExecutionTrades, NameIs
<1>9. Story[x].cycle = polls /\ Story[x].type = "execute" /\ ~HeldRow(Story[x])
      /\ Story[x].decision # "ENTER"
  BY <1>2 DEF IsExecute, HeldRow
<1>10. ASSUME NEW n \in 1 .. polls, n # polls
       PROVE  /\ Held(n)' => Held(n)
              /\ Guarded(n)' => Guarded(n)
              /\ Entered(n)' <=> Entered(n)
              /\ Executed(n)' <=> Executed(n)
  <2>1. n # NoId
    BY NoIdAssumption
  <2>2. \A i \in Told' : Story'[i].cycle = n => i \notin new
    BY <1>7, <1>10, <2>1
  <2>3. Held(n)' => Held(n)
    BY <1>4, <1>8, <1>10, <2>2 DEF Held
  <2>4. Guarded(n)' => Guarded(n)
    BY <1>4, <2>2 DEF Guarded
  <2>5. Entered(n)' <=> Entered(n)
    BY <1>4, <1>9, <2>2 DEF Entered
  <2>6. Executed(n)' <=> Executed(n)
    BY <1>4, <1>9, <2>2 DEF Executed
  <2> QED
    BY <2>3, <2>4, <2>5, <2>6
<1>11. /\ ~(Held(polls)' /\ Guarded(polls)')
       /\ Entered(polls)' <=> Executed(polls)'
  <2>1. \A i \in Told' \ new : Story'[i].cycle = polls =>
            ~HeldRow(Story'[i]) /\ Story'[i].type # "risk_guard_decision"
    BY <1>4, <1>6 DEF Held, Guarded
  <2>2. CASE meta' = meta /\ \A i \in new : ~HeldRow(Story'[i])
    <3>1. ~Held(polls)'
      BY <1>2, <1>6, <2>1, <2>2 DEF Held
    <3>2. ~Entered(polls)' /\ ~Executed(polls)'
      BY <1>2, <2>1, <2>2 DEF Entered, Executed, HeldRow
    <3> QED
      BY <3>1, <3>2
  <2>3. CASE /\ \A i \in new : Story'[i].type # "risk_guard_decision"
             /\ \E i \in new : Story'[i].cycle = polls /\ Story'[i].decision = "ENTER"
             /\ \E i \in new : Story'[i].cycle = polls /\ Story'[i].type = "trade_executed"
    <3>1. ~Guarded(polls)'
      BY <1>2, <2>1, <2>3 DEF Guarded
    <3>2. Entered(polls)' /\ Executed(polls)'
      BY <1>2, <1>4, <2>3 DEF Entered, Executed
    <3> QED
      BY <3>1, <3>2
  <2> QED
    BY <1>2, <1>3, <2>2, <2>3, ExecutionGuards
<1>12. ASSUME NEW n \in 1 .. polls
       PROVE  /\ ~(Held(n)' /\ Guarded(n)') /\ ~ToExecute(n)'
              /\ pc # "down" /\ process = 1 => (Entered(n)' <=> Executed(n)')
  <2>1. ~ToExecute(n)'
    BY <1>5 DEF ToExecute
  <2>2. CASE n = polls
    BY <1>2, <1>11, <2>1, <2>2
  <2>3. CASE n # polls
    BY <1>10, <2>1, <2>3 DEF GuardInv
  <2> QED
    BY <2>2, <2>3
<1> QED
  BY <1>2, <1>12 DEF GuardInv

LEMMA GuardStep ==
    ASSUME TypeInv, JournalInv, RowsInv, RowsInv', ActionInv, GuardInv,
           Idles \/ Begins \/ Dies \/ Logs \/ Polls \/ Executes
    PROVE  GuardInv'
<1>0. SUFFICES ASSUME OneWay PROVE GuardInv'
  <2>1. setting' = setting
    BY DEF Idles, Begins, Dies, Logs, Polls, Adds, Executes
  <2> QED
    BY <2>1 DEF GuardInv, OneWay
<1>1. CASE Idles
  <2>1. /\ Told' = Told /\ Story' = Story /\ meta' = meta /\ UNCHANGED <<polls, process>>
        /\ (pc' = "down" <=> pc = "down")
    BY <1>1 DEF Idles
  <2>2. \A n \in 1 .. polls : /\ Held(n)' <=> Held(n)
                              /\ Guarded(n)' <=> Guarded(n)
                              /\ ToExecute(n)' <=> ToExecute(n)
                              /\ Entered(n)' <=> Entered(n)
                              /\ Executed(n)' <=> Executed(n)
    BY <2>1 DEF Held, Guarded, ToExecute, Entered, Executed
  <2> QED
    BY <1>0, <2>1, <2>2 DEF GuardInv
<1>2. CASE Begins
  <2>1. /\ Told' = Told /\ Story' = Story /\ meta' = {} /\ polls' = polls
        /\ process' = process + 1 /\ (process + 1 = 1 => 1 .. polls = {})
    BY <1>2 DEF Begins, TypeInv
  <2>2. \A n \in 1 .. polls : /\ Held(n)' => Held(n)
                              /\ Guarded(n)' <=> Guarded(n)
                              /\ ToExecute(n)' <=> ToExecute(n)
    BY <2>1 DEF Held, Guarded, ToExecute
  <2> QED
    BY <1>0, <2>1, <2>2 DEF GuardInv
<1>3. CASE Dies
  <2>1. /\ Told' \subseteq Told /\ \A i \in Told' : Story'[i] = Story[i]
        /\ meta' = meta /\ polls' = polls /\ pc' = "down"
    BY <1>3 DEF Dies, bookVars
  <2>2. \A n \in 1 .. polls : /\ Held(n)' => Held(n)
                              /\ Guarded(n)' => Guarded(n)
                              /\ ToExecute(n)' => ToExecute(n)
    BY <2>1 DEF Held, Guarded, ToExecute
  <2> QED
    BY <1>0, <2>1, <2>2 DEF GuardInv
<1>4. CASE Logs
  <2>1. /\ \A i \in Told : i \in Told' /\ Story'[i] = Story[i]
        /\ meta' \subseteq meta /\ UNCHANGED <<polls, process>> /\ pc # "down"
    BY <1>4 DEF Logs, Adds
  <2>2. ASSUME NEW i \in Told' \ Told
        PROVE  /\ Story'[i].type \in {"trade_closed", "market_data_stale_warning"}
               /\ Story'[i].decision = "none"
               /\ Story'[i].cycle = NoId \/ \E t \in meta : Story'[i].cycle = t[1]
    BY <1>4 DEF Logs, IsClosed, IsStale
  <2>3. ASSUME NEW n \in 1 .. polls
        PROVE  /\ Held(n)' => Held(n)
               /\ Guarded(n)' => Guarded(n)
               /\ ToExecute(n)' => ToExecute(n)
               /\ Entered(n)' <=> Entered(n)
               /\ Executed(n)' <=> Executed(n)
    <3>0. n # NoId
      BY NoIdAssumption DEF TypeInv
    <3>1. Held(n)' => Held(n)
      BY <2>1, <2>2, <3>0 DEF Held
    <3>2. Guarded(n)' => Guarded(n)
      BY <2>1, <2>2 DEF Guarded
    <3>3. ToExecute(n)' => ToExecute(n)
      BY <2>1, <2>2 DEF ToExecute
    <3>4. Entered(n)' <=> Entered(n)
      BY <2>1, <2>2 DEF Entered
    <3>5. Executed(n)' <=> Executed(n)
      BY <2>1, <2>2 DEF Executed
    <3> QED
      BY <3>1, <3>2, <3>3, <3>4, <3>5
  <2> QED
    BY <1>0, <2>1, <2>3 DEF GuardInv
<1> QED
  BY <1>0, <1>1, <1>2, <1>3, <1>4, PollKeepsGuards, ExecutionKeepsGuards

-----------------------------------------------------------------------------
(* The chain of a poll, on the standard path with one direction *)

ChainInv == setting = {} =>
    \A i, j \in Told :
        i < j /\ InChain(Story[i]) /\ InChain(Story[j]) /\ Story[i].cycle = Story[j].cycle =>
            /\ Rank(Story[i]) <= Rank(Story[j])
            /\ Story[i].session = Story[j].session /\ Story[i].trace = Story[j].trace

\* What a signal becomes goes on where its chain stands.
LEMMA ExecutionChain ==
    ASSUME TypeInv, NEW d \in Directions, NEW x \in Nat, NEW new,
           \/ Refused(new, x, polls, d) \/ GivenUp(new, x, polls, d) \/ Bought(new, x, polls, d)
    PROVE  /\ \A i \in new : InChain(Story'[i]) =>
                  /\ Rank(Story'[i]) >= 2 /\ Rank(Story'[i]) \in Nat
                  /\ Story'[i].session = process /\ Story'[i].trace = Of(polls, d)
                  /\ Story'[i].cycle = polls
           /\ \A i, j \in new : i < j /\ InChain(Story'[i]) /\ InChain(Story'[j])
                                 => Rank(Story'[i]) <= Rank(Story'[j])
<1> DEFINE s == Story'
<1>0. /\ \A r : r.type = "risk_guard_decision" => Rank(r) = 2 /\ InChain(r)
      /\ \A r : r.type = "trade_action" => Rank(r) = 3 /\ InChain(r)
      /\ \A r : r.type \in {"signal_filtered", "trade_closed", "trade_executed"} => ~InChain(r)
  BY DEF Rank, InChain, ChainRank, ChainEventTypes
<1>1. CASE Refused(new, x, polls, d)
  <2>1. \A i \in new : i = x \/ i = x + 1 \/ i = x + 2
    BY <1>1 DEF Refused
  <2>2. /\ s[x].type = "risk_guard_decision" /\ s[x + 1].type = "trade_action"
        /\ s[x + 2].type = "signal_filtered"
        /\ s[x].session = process /\ s[x].trace = Of(polls, d) /\ s[x].cycle = polls
        /\ s[x + 1].session = process /\ s[x + 1].trace = Of(polls, d) /\ s[x + 1].cycle = polls
    BY <1>1 DEF Refused, IsGuard, IsNoAction, IsFiltered
  <2> QED
    BY <1>0, <2>1, <2>2
<1>2. CASE GivenUp(new, x, polls, d)
  <2>1. \A i \in new : i = x \/ i = x + 1 \/ i = x + 2 \/ i = x + 3
    BY <1>2 DEF GivenUp
  <2>2. /\ s[x].type = "trade_closed" /\ s[x + 1].type = "risk_guard_decision"
        /\ s[x + 2].type = "trade_action" /\ s[x + 3].type = "signal_filtered"
        /\ s[x + 1].session = process /\ s[x + 1].trace = Of(polls, d) /\ s[x + 1].cycle = polls
        /\ s[x + 2].session = process /\ s[x + 2].trace = Of(polls, d) /\ s[x + 2].cycle = polls
    BY <1>2 DEF GivenUp, IsClosed, IsGuard, IsNoAction, IsFiltered
  <2> QED
    BY <1>0, <2>1, <2>2
<1>3. CASE Bought(new, x, polls, d)
  <2>1. \A i \in new : i = x \/ i = x + 1
    BY <1>3 DEF Bought
  <2>2. /\ s[x].type = "trade_action" /\ s[x + 1].type = "trade_executed"
        /\ s[x].session = process /\ s[x].trace = Of(polls, d) /\ s[x].cycle = polls
    BY <1>3 DEF Bought, IsEnter, IsExecuted
  <2> QED
    BY <1>0, <2>1, <2>2
<1> QED
  BY <1>1, <1>2, <1>3

LEMMA ChainStep ==
    ASSUME TypeInv, JournalInv, RowsInv, ActionInv, ChainInv,
           Idles \/ Begins \/ Dies \/ Logs \/ Polls \/ Executes
    PROVE  ChainInv'
<1>0. SUFFICES ASSUME setting = {} PROVE ChainInv'
  <2>1. setting' = setting
    BY DEF Idles, Begins, Dies, Logs, Polls, Adds, Executes
  <2> QED
    BY <2>1 DEF ChainInv
<1>1. CASE Idles \/ Begins \/ Dies
  BY <1>0, <1>1 DEF Idles, Begins, Dies, ChainInv
<1>2. CASE Logs
  <2>1. \A i \in Told' \ Told : ~InChain(Story'[i])
    BY <1>2 DEF Logs, IsClosed, IsStale, InChain, ChainEventTypes, ChainRank
  <2>2. \A i \in Told : Story'[i] = Story[i]
    BY <1>2 DEF Logs, Adds
  <2> QED
    BY <1>0, <2>1, <2>2 DEF ChainInv
<1>3. CASE Polls
  <2>1. /\ \A i \in Told' : i \in New \/ i \in Told
        /\ \A i \in Told : Story'[i] = Story[i]
        /\ Told = 1 .. End /\ New = End + 1 .. End' /\ End \in Nat
        /\ polls' = polls + 1 /\ polls \in Nat
    BY <1>3, LengthsType DEF Polls, Adds, New, Told, TypeInv
  <2>2. FreshRows(polls + 1) /\ FreshChain
    BY <1>3, <2>1, PollFresh
  <2>3. ASSUME NEW i \in Told, NEW j \in New, InChain(Story[i]), InChain(Story'[j])
        PROVE  Story[i].cycle # Story'[j].cycle
    <3>1. Story[i].cycle \in 1 .. polls
      BY <2>3 DEF RowsInv, RowOK, InChain
    <3>2. Story'[j].cycle = polls + 1
      BY <2>2, <2>3 DEF FreshRows, FreshRow, InChain, ChainEventTypes, ChainRank
    <3> QED
      BY <2>1, <3>1, <3>2
  <2>4. ASSUME NEW i \in Told', NEW j \in Told', i < j,
               InChain(Story'[i]), InChain(Story'[j]), Story'[i].cycle = Story'[j].cycle
        PROVE  /\ Rank(Story'[i]) <= Rank(Story'[j])
               /\ Story'[i].session = Story'[j].session /\ Story'[i].trace = Story'[j].trace
    <3>1. CASE i \in Told /\ j \in Told
      BY <1>0, <2>1, <2>4, <3>1 DEF ChainInv
    <3>2. CASE i \in New /\ j \in New
      BY <1>0, <2>2, <2>4, <3>2 DEF FreshChain, FreshRows, FreshRow
    <3>3. CASE i \in Told /\ j \in New
      BY <2>1, <2>3, <2>4, <3>3
    <3>4. CASE i \in New /\ j \in Told
      BY <2>1, <2>4, <3>4
    <3> QED
      BY <2>1, <3>1, <3>2, <3>3, <3>4
  <2> QED
    BY <2>4 DEF ChainInv
<1>4. CASE Executes
  <2>1. PICK d \in Directions, x \in Told : \E from, new :
            /\ IsExecute(Story[x], polls, d) /\ Unfolds(from, new, x)
            /\ Refused(new, x, polls, d) \/ GivenUp(new, x, polls, d) \/ Bought(new, x, polls, d)
    BY <1>4 DEF Executes
  <2>2. PICK from, new :
            /\ IsExecute(Story[x], polls, d) /\ Unfolds(from, new, x)
            /\ Refused(new, x, polls, d) \/ GivenUp(new, x, polls, d) \/ Bought(new, x, polls, d)
    BY <2>1
  <2>3. x \in Nat
    BY DEF Told
  <2>4. /\ \A i \in Told' : from[i] \in Told /\ from[i] \in Nat
        /\ \A i \in new : from[i] = x
        /\ \A i \in Told' \ new : Story'[i] = Story[from[i]] /\ from[i] # x
        /\ \A i, j \in Told' : i < j => /\ from[i] <= from[j]
                                        /\ from[i] = from[j] => i \in new /\ j \in new
    BY <2>2 DEF Unfolds, Told
  <2>5. \A i \in Told : i <= x
    <3>1. x = End
      BY <1>0, <2>2 DEF ActionInv, OneWay, IsExecute
    <3> QED
      BY <3>1 DEF Told
  <2>6. /\ InChain(Story[x]) /\ Rank(Story[x]) = 2 /\ Story[x].session = process
        /\ Story[x].trace = Of(polls, d) /\ Story[x].cycle = polls
    BY <2>2 DEF IsExecute, InChain, Rank
  <2>7. /\ \A i \in new : InChain(Story'[i]) =>
               /\ Rank(Story'[i]) >= 2 /\ Rank(Story'[i]) \in Nat
               /\ Story'[i].session = process /\ Story'[i].trace = Of(polls, d)
               /\ Story'[i].cycle = polls
        /\ \A i, j \in new : i < j /\ InChain(Story'[i]) /\ InChain(Story'[j])
                              => Rank(Story'[i]) <= Rank(Story'[j])
    BY <2>2, <2>3, ExecutionChain
  <2>8. ASSUME NEW r, InChain(r) PROVE Rank(r) \in Nat
    BY <2>8 DEF InChain, Rank, ChainRank, ChainEventTypes
  <2>9. ASSUME NEW i \in Told', NEW j \in Told', i < j,
               InChain(Story'[i]), InChain(Story'[j]), Story'[i].cycle = Story'[j].cycle
        PROVE  /\ Rank(Story'[i]) <= Rank(Story'[j])
               /\ Story'[i].session = Story'[j].session /\ Story'[i].trace = Story'[j].trace
    <3>1. CASE i \notin new /\ j \notin new
      <4>1. /\ from[i] < from[j] /\ from[i] \in Told /\ from[j] \in Told
            /\ Story'[i] = Story[from[i]] /\ Story'[j] = Story[from[j]]
        <5>1. from[i] <= from[j] /\ from[i] # from[j]
          BY <2>4, <2>9, <3>1
        <5> QED
          BY <2>4, <3>1, <5>1
      <4> QED
        BY <1>0, <2>9, <4>1 DEF ChainInv
    <3>2. CASE i \in new /\ j \in new
      BY <2>7, <2>9, <3>2
    <3>3. CASE i \notin new /\ j \in new
      <4>1. /\ from[i] < x /\ from[i] \in Told /\ Story'[i] = Story[from[i]]
        BY <2>3, <2>4, <2>5, <3>3
      <4>2. /\ Rank(Story[from[i]]) <= 2 /\ Story[from[i]].session = process
            /\ Story[from[i]].trace = Of(polls, d)
        BY <1>0, <2>6, <2>7, <2>9, <3>3, <4>1 DEF ChainInv
      <4>3. Rank(Story'[i]) \in Nat /\ Rank(Story'[j]) \in Nat
        BY <2>8, <2>9
      <4> QED
        BY <2>7, <2>9, <3>3, <4>1, <4>2, <4>3
    <3>4. CASE i \in new /\ j \notin new
      <4>1. x <= from[j] /\ from[j] <= x /\ from[j] # x
        BY <2>4, <2>5, <2>9, <3>4
      <4> QED
        BY <2>3, <2>4, <4>1
    <3> QED
      BY <3>1, <3>2, <3>3, <3>4
  <2> QED
    BY <2>9 DEF ChainInv
<1> QED
  BY <1>1, <1>2, <1>3, <1>4

-----------------------------------------------------------------------------
(* The inductive invariant *)

IInv ==
    /\ TypeInv /\ JournalInv /\ RowsInv /\ OutcomeInv /\ TradeInv
    /\ ActionInv /\ OneTradeInv /\ GuardInv /\ ChainInv

LEMMA InitIInv == Init => IInv
<1> SUFFICES ASSUME Init PROVE IInv
  OBVIOUS
<1>1. /\ journal = <<>> /\ agenda = <<>> /\ polls = 0 /\ process = 0 /\ pc = "down"
      /\ open = {} /\ tracked = {} /\ invalid = {} /\ meta = {} /\ sourceSeq = 0
  BY DEF Init
<1>2. Len(journal) = 0 /\ Len(agenda) = 0
  BY <1>1
<1>3. Rows = {} /\ Told = {}
  BY <1>2 DEF Rows, Told, End
<1>4. TypeInv
  <2>1. journal \in Seq({}) /\ agenda \in Seq(Items)
    BY <1>1
  <2> QED
    BY <1>1, <2>1 DEF TypeInv
<1>5. JournalInv /\ RowsInv
  BY <1>3 DEF JournalInv, RowsInv
<1>6. OutcomeInv /\ TradeInv
  BY <1>3 DEF OutcomeInv, TradeInv
<1>7. ActionInv /\ ChainInv
  BY <1>1, <1>3 DEF ActionInv, ChainInv
<1>8. OneTradeInv
  BY <1>1, <1>3 DEF OneTradeInv, Known
<1>9. GuardInv
  BY <1>1 DEF GuardInv
<1> QED
  BY <1>4, <1>5, <1>6, <1>7, <1>8, <1>9 DEF IInv

LEMMA NextIInv == IInv /\ [Next]_vars => IInv'
<1> SUFFICES ASSUME IInv, [Next]_vars PROVE IInv'
  OBVIOUS
<1>1. /\ TypeInv /\ JournalInv /\ RowsInv /\ OutcomeInv /\ TradeInv
      /\ ActionInv /\ OneTradeInv /\ GuardInv /\ ChainInv
  BY DEF IInv
<1>2. TypeInv' /\ (Idles \/ Begins \/ Dies \/ Logs \/ Polls \/ Executes)
  BY <1>1, Steps
<1>3. JournalInv' /\ RowsInv'
  BY <1>1, <1>2, JournalStep, RowsStep
<1>4. OutcomeInv' /\ TradeInv'
  BY <1>1, <1>2, OutcomeStep, TradeStep
<1>5. ActionInv' /\ OneTradeInv'
  BY <1>1, <1>2, <1>3, ActionStep, OneTradeStep
<1>6. GuardInv' /\ ChainInv'
  BY <1>1, <1>2, <1>3, GuardStep, ChainStep
<1> QED
  BY <1>2, <1>3, <1>4, <1>5, <1>6 DEF IInv

THEOREM IInvCorrect == Spec => []IInv
<1>1. Init => IInv
  BY InitIInv
<1>2. IInv /\ [Next]_vars => IInv'
  BY NextIInv
<1> QED
  BY <1>1, <1>2, PTL DEF Spec

-----------------------------------------------------------------------------
(* The journal, as its readers see it *)

LEMMA FirstIs ==
    ASSUME NEW S, S \subseteq Nat, S # {}
    PROVE  FirstOf(S) \in S /\ \A j \in S : FirstOf(S) <= j
<1> DEFINE Less == {p \in Nat \X Nat : p[1] < p[2]}
<1>1. IsWellFoundedOn(Less, Nat)
  BY NatLessThanWellFounded, Zenon DEF OpToRel
<1>2. PICK x \in S : \A y \in S : <<y, x>> \notin Less
  BY <1>1, WFMin
<1>3. ASSUME NEW y \in Nat, x \in Nat, <<y, x>> \notin Less
      PROVE  x <= y
  BY <1>3
<1>4. \A y \in S : x <= y
  BY <1>2, <1>3
<1> QED
  BY <1>4 DEF FirstOf

LEMMA LastIs ==
    ASSUME NEW n \in Nat, NEW S, S \subseteq 1 .. n, S # {}
    PROVE  \E i \in S : \A j \in S : j <= i
<1> DEFINE T == {n - j : j \in S}
<1>1. T \subseteq Nat /\ T # {}
  <2>1. \A j \in S : n - j \in Nat
    OBVIOUS
  <2> QED
    BY <2>1
<1>2. FirstOf(T) \in T /\ \A k \in T : FirstOf(T) <= k
  <2> HIDE DEF T
  <2> QED
    BY <1>1, FirstIs
<1>3. PICK i \in S : FirstOf(T) = n - i
  BY <1>2
<1>4. ASSUME NEW j \in S PROVE j <= i
  <2>1. n - i <= n - j
    BY <1>2, <1>3
  <2> QED
    BY <2>1
<1> QED
  BY <1>3, <1>4

LEMMA RowIs ==
    ASSUME IInv, NEW i \in Rows
    PROVE  /\ RowOK(journal[i], process, polls) /\ journal[i].type \in EventTypes
           /\ journal[i].run = journal[i].session /\ journal[i].run # NoId
           /\ i \in Told /\ i \in Nat
<1>1. /\ i \in Told /\ Story[i] = Tell(journal[i], journal[i].session)
      /\ journal[i].type # "execute" /\ journal[i].run = journal[i].session
      /\ journal[i].session \in 1 .. process
  BY JournalRows DEF IInv, JournalInv
<1>2. RowOK(Tell(journal[i], journal[i].session), process, polls)
  BY <1>1 DEF IInv, RowsInv
<1>3. RowOK(journal[i], process, polls)
  BY <1>2 DEF Tell, RowOK, Signalled, Decided, Traded
<1>4. journal[i].type \in EventTypes
  BY <1>1, <1>3 DEF RowOK, RowTypes, EventTypes
<1>5. journal[i].session \in Nat
  BY <1>1 DEF IInv, TypeInv
<1> QED
  BY <1>1, <1>3, <1>4, <1>5, NoIdAssumption DEF Rows

\* What the invariants say of the story they say of the rows.
LEMMA RowTold ==
    ASSUME IInv, NEW i \in Rows
    PROVE  /\ Story[i].type = journal[i].type /\ Story[i].trace = journal[i].trace
           /\ Story[i].cycle = journal[i].cycle /\ Story[i].signal = journal[i].signal
           /\ Story[i].trade = journal[i].trade /\ Story[i].decision = journal[i].decision
           /\ Story[i].reason = journal[i].reason /\ Story[i].session = journal[i].session
<1>1. Story[i] = Tell(journal[i], journal[i].session)
  BY JournalRows DEF IInv
<1> QED
  BY <1>1 DEF Tell

\* With nothing on the agenda the rows are the story.
LEMMA SettledTells ==
    ASSUME IInv, Settled
    PROVE  Told = Rows /\ pc # "down" /\ process > 0
BY NothingToExecute DEF Settled, IInv, TypeInv

LEMMA RowsAccepted == IInv => RefRows(journal) = Rows
<1> SUFFICES ASSUME IInv PROVE RefRows(journal) = Rows
  OBVIOUS
<1>1. ASSUME NEW i \in Rows
      PROVE  EnvelopeValid(journal[i]) /\ PayloadValid(journal[i])
  <2> DEFINE r == journal[i]
  <2>1. /\ RowOK(r, process, polls) /\ r.run # NoId /\ r.session # NoId /\ r.type \in EventTypes
    BY <1>1, RowIs
  <2> HIDE DEF r
  <2>2. r.trace # NoId /\ (r.type \in ChainEventTypes => r.cycle # NoId)
    BY <2>1 DEF RowOK
  <2>3. EnvelopeValid(r)
    BY <2>1, <2>2 DEF EnvelopeValid, IsChainRow
  <2>4. /\ r.decision = "NO_ACTION" \/ r.type = "signal_filtered" => r.reason \in NoActionReasonsAllowed
        /\ r.type = "trade_action" /\ r.decision = "ENTER" => r.trade # NoId
    BY <2>1 DEF RowOK, Decided
  <2>5. PayloadValid(r)
    BY <2>4 DEF PayloadValid
  <2> QED
    BY <2>3, <2>5 DEF r
<1>2. ASSUME NEW i \in Rows, SourceSeqNotMonotonic(journal, i) PROVE FALSE
  <2>1. PICK j \in 1 .. i - 1 :
            Stream(journal[j]) = Stream(journal[i]) /\ journal[i].seq <= journal[j].seq
    BY <1>2 DEF SourceSeqNotMonotonic
  <2>2. j \in Rows /\ j < i /\ journal[j].session = journal[i].session
    BY <2>1 DEF Rows, Stream
  <2>3. journal[j].seq \in Nat /\ journal[i].seq \in Nat /\ journal[j].seq < journal[i].seq
    BY <2>2 DEF IInv, JournalInv
  <2> QED
    BY <2>1, <2>3
<1> QED
  BY <1>1, <1>2 DEF RefRows, Rows

LEMMA OneAtMost ==
    ASSUME NEW S, IsFiniteSet(S), \A i, j \in S : i = j
    PROVE  /\ Cardinality(S) = 0 \/ Cardinality(S) = 1
           /\ S # {} => Cardinality(S) = 1
<1>1. CASE S = {}
  BY <1>1, FS_EmptySet
<1>2. CASE S # {}
  <2>1. PICK x \in S : TRUE
    BY <1>2
  <2>2. S = {x}
    BY <2>1
  <2> QED
    BY <2>2, FS_Singleton
<1> QED
  BY <1>1, <1>2

LEMMA RowsFinite ==
    ASSUME IInv, NEW S, S \subseteq Rows
    PROVE  IsFiniteSet(S)
<1>1. Len(journal) \in Nat
  BY LengthsType DEF IInv
<1>2. IsFiniteSet(Rows)
  BY <1>1, FS_Interval DEF Rows
<1> QED
  BY <1>2, FS_Subset

\* Two chain rows of a cycle come in order, from one process, under one trace.
LEMMA ChainRows ==
    ASSUME IInv, setting = {}, NEW i \in Rows, NEW j \in Rows, j < i,
           IsChainRow(journal[i]), IsChainRow(journal[j]), journal[i].cycle = journal[j].cycle
    PROVE  /\ ChainRank[journal[j].type] <= ChainRank[journal[i].type]
           /\ RunSessionTrace(journal[j]) = RunSessionTrace(journal[i])
<1>1. /\ i \in Told /\ j \in Told /\ InChain(Story[i]) /\ InChain(Story[j])
      /\ Story[i].cycle = Story[j].cycle
  BY RowIs, RowTold DEF InChain, IsChainRow
<1>2. /\ Rank(Story[j]) <= Rank(Story[i])
      /\ Story[j].session = Story[i].session /\ Story[j].trace = Story[i].trace
  BY <1>1 DEF IInv, ChainInv
<1>3. \A k \in {i, j} : Rank(Story[k]) = ChainRank[journal[k].type]
  <2> SUFFICES ASSUME NEW k \in {i, j} PROVE Rank(Story[k]) = ChainRank[journal[k].type]
    OBVIOUS
  <2>1. Story[k].type = journal[k].type /\ journal[k].type # "execute"
    BY RowTold, RowIs DEF EventTypes, ChainEventTypes, ChainRank
  <2> QED
    BY <2>1 DEF Rank
<1>4. journal[i].run = journal[i].session /\ journal[j].run = journal[j].session
  BY RowIs
<1> QED
  BY <1>2, <1>3, <1>4, RowTold DEF RunSessionTrace

LEMMA ChainsOfInv == IInv => StandardChainsAccepted
<1> SUFFICES ASSUME IInv, setting = {}, NEW dc \in Cycles(journal)
             PROVE  /\ SequenceIssues(journal, dc) \subseteq {"decision_cycle_missing_trade_action"}
                    /\ Settled /\ (\E i \in Rows : journal[i].cycle = dc /\ OfThisProcess(i))
                         => SequenceIssues(journal, dc) = {}
  BY DEF StandardChainsAccepted, ChainsAccepted
<1> DEFINE anchors == Anchors(journal, RefRows(journal), dc)
           acts == TradeActions(journal, anchors)
<1>1. /\ anchors = {i \in Rows : IsChainRow(journal[i]) /\ journal[i].cycle = dc}
      /\ anchors # {}
  BY RowsAccepted DEF Anchors, Cycles
<1>2. acts = {i \in anchors : journal[i].type = "trade_action"}
  BY DEF TradeActions
<1>3. SequenceIssues(journal, dc) =
        {code \in {"decision_cycle_identity_mismatch"} :
              DecisionCycleIdentityMismatch(journal, anchors)}
          \cup {code \in {"decision_cycle_missing_trade_action"} : Cardinality(acts) = 0}
          \cup {code \in {"duplicate_trade_action_decision_cycle"} : Cardinality(acts) > 1}
          \cup {code \in {"decision_chain_order_violation"} :
              DecisionChainOrderViolation(journal, anchors)}
  BY DEF SequenceIssues
<1> HIDE DEF anchors, acts
<1>4. ~DecisionCycleIdentityMismatch(journal, anchors)
  <2>1. anchors \subseteq Nat
    BY <1>1 DEF Rows
  <2>2. FirstOf(anchors) \in anchors /\ \A j \in anchors : FirstOf(anchors) <= j
    BY <1>1, <2>1, FirstIs
  <2>3. ASSUME NEW i \in anchors
        PROVE  RunSessionTrace(journal[i]) = RunSessionTrace(journal[FirstOf(anchors)])
    <3> DEFINE first == FirstOf(anchors)
    <3>1. first \in anchors /\ first <= i
      BY <2>2
    <3> HIDE DEF first
    <3>2. /\ i \in Rows /\ IsChainRow(journal[i]) /\ journal[i].cycle = dc
          /\ first \in Rows /\ IsChainRow(journal[first]) /\ journal[first].cycle = dc
      BY <1>1, <3>1
    <3>3. first = i \/ first < i
      BY <3>1, <3>2 DEF Rows
    <3>4. RunSessionTrace(journal[i]) = RunSessionTrace(journal[first])
      BY <3>2, <3>3, ChainRows
    <3> QED
      BY <3>4 DEF first
  <2> QED
    BY <2>3 DEF DecisionCycleIdentityMismatch
<1>5. ~DecisionChainOrderViolation(journal, anchors)
  <2> SUFFICES ASSUME NEW i \in anchors, NEW j \in anchors, j < i,
                      ChainRank[journal[i].type] < ChainRank[journal[j].type]
               PROVE  FALSE
    BY DEF DecisionChainOrderViolation
  <2>1. /\ i \in Rows /\ IsChainRow(journal[i]) /\ journal[i].cycle = dc
        /\ j \in Rows /\ IsChainRow(journal[j]) /\ journal[j].cycle = dc
    BY <1>1
  <2>2. ChainRank[journal[j].type] <= ChainRank[journal[i].type]
    BY <2>1, ChainRows
  <2>3. ChainRank[journal[i].type] \in Int /\ ChainRank[journal[j].type] \in Int
    BY <2>1 DEF IsChainRow, ChainEventTypes, ChainRank
  <2> QED
    BY <2>2, <2>3
<1>6. OneWay
  BY DEF OneWay
<1>7. \A i, j \in acts : i = j
  <2> SUFFICES ASSUME NEW i \in acts, NEW j \in acts PROVE i = j
    OBVIOUS
  <2>1. /\ i \in Rows /\ journal[i].type = "trade_action" /\ journal[i].cycle = dc
        /\ j \in Rows /\ journal[j].type = "trade_action" /\ journal[j].cycle = dc
    BY <1>1, <1>2
  <2>2. /\ i \in Told /\ j \in Told /\ Acts(Story[i]) /\ Acts(Story[j])
        /\ Story[i].cycle = Story[j].cycle
    BY <2>1, RowIs, RowTold DEF Acts
  <2> QED
    BY <1>6, <2>2 DEF IInv, ActionInv
<1>8. IsFiniteSet(acts)
  <2>1. acts \subseteq Rows
    BY <1>1, <1>2
  <2> QED
    BY <2>1, RowsFinite
<1>9. Cardinality(acts) = 0 \/ Cardinality(acts) = 1
  BY <1>7, <1>8, OneAtMost
<1>10. SequenceIssues(journal, dc) \subseteq {"decision_cycle_missing_trade_action"}
  BY <1>3, <1>4, <1>5, <1>9
<1>11. ASSUME Settled, NEW i \in Rows, journal[i].cycle = dc, OfThisProcess(i)
       PROVE  SequenceIssues(journal, dc) = {}
  <2>1. dc \in 1 .. polls
    <3>1. PICK k \in Rows : IsChainRow(journal[k]) /\ journal[k].cycle = dc
      BY <1>1
    <3>2. RowOK(journal[k], process, polls)
      BY RowIs
    <3> QED
      BY <3>1, <3>2 DEF RowOK, IsChainRow
  <2>2. i \in Told /\ Story[i].session = process /\ Story[i].cycle = dc
    BY <1>11, RowIs, RowTold DEF OfThisProcess
  <2>3. Told = Rows /\ pc # "down"
    BY <1>11, SettledTells
  <2>4. PICK j \in Told : Acts(Story[j]) /\ Story[j].cycle = dc
    BY <1>6, <2>1, <2>2, <2>3 DEF IInv, ActionInv
  <2>5. journal[j].type = "trade_action" /\ journal[j].cycle = dc /\ j \in Rows
    <3>1. j \in Rows /\ Story[j].type = journal[j].type /\ Story[j].cycle = journal[j].cycle
      BY <2>3, <2>4, RowTold
    <3>2. journal[j].type # "execute"
      BY <3>1, RowIs DEF EventTypes, ChainEventTypes, ChainRank
    <3> QED
      BY <2>4, <3>1, <3>2 DEF Acts
  <2>6. IsChainRow(journal[j])
    <3>1. journal[j].source = "quantbuild"
      BY <2>5, RowIs DEF RowOK
    <3> QED
      BY <2>5, <3>1 DEF IsChainRow, ChainEventTypes, ChainRank
  <2>7. acts # {}
    BY <1>1, <1>2, <2>5, <2>6
  <2>8. Cardinality(acts) = 1
    BY <1>7, <1>8, <2>7, OneAtMost
  <2> QED
    BY <1>3, <1>4, <1>5, <2>8
<1> QED
  BY <1>10, <1>11

LEMMA OutcomesOfInv == IInv => EverySignalResolved
<1> SUFFICES ASSUME IInv, Settled, NEW i \in Rows,
                    journal[i].type = "signal_detected", journal[i].signal[2] \in Directions,
                    OfThisProcess(i)
             PROVE  /\ Cardinality(SignalOutcomes(i)) = 1
                    /\ \A j \in SignalOutcomes(i) : journal[j].trace = journal[i].trace
  BY DEF EverySignalResolved
<1> DEFINE S == SignalOutcomes(i)
<1>1. Told = Rows /\ pc # "down"
  BY SettledTells
<1>2. S # {}
  <2>1. /\ i \in Told /\ Story[i].session = process /\ Story[i].type = "signal_detected"
        /\ Story[i].signal[2] \in Directions /\ Story[i].signal = journal[i].signal
    BY RowIs, RowTold DEF OfThisProcess
  <2>2. PICK j \in Told : Outcome(Story[j]) /\ Story[j].signal = Story[i].signal
    BY <1>1, <2>1 DEF IInv, OutcomeInv
  <2>3. j \in Rows /\ Story[j].type = journal[j].type /\ Story[j].signal = journal[j].signal
    BY <1>1, <2>2, RowTold
  <2>4. journal[j].type # "execute"
    BY <2>3, RowIs DEF EventTypes, ChainEventTypes, ChainRank
  <2>5. j \in S
    BY <2>1, <2>2, <2>3, <2>4 DEF Outcome, SignalOutcomes
  <2> QED
    BY <2>5
<1>3. ASSUME NEW j \in S
      PROVE  /\ j \in Rows /\ j \in Told /\ Outcome(Story[j])
             /\ Story[j].signal = journal[i].signal /\ journal[j].signal = journal[i].signal
             /\ journal[j].type \in {"signal_filtered", "trade_executed"}
  BY <1>3, RowIs, RowTold DEF SignalOutcomes, Outcome
<1> HIDE DEF S
<1>4. \A j, k \in S : j = k
  <2> SUFFICES ASSUME NEW j \in S, NEW k \in S PROVE j = k
    OBVIOUS
  <2>1. /\ j \in Told /\ Outcome(Story[j]) /\ Story[j].signal = journal[i].signal
        /\ k \in Told /\ Outcome(Story[k]) /\ Story[k].signal = journal[i].signal
    BY <1>3
  <2> QED
    BY <2>1 DEF IInv, OutcomeInv
<1>5. S \subseteq Rows
  BY <1>3
<1>6. Cardinality(S) = 1
  BY <1>2, <1>4, <1>5, RowsFinite, OneAtMost
<1>7. journal[i].trace = journal[i].signal
  <2>1. RowOK(journal[i], process, polls)
    BY RowIs
  <2>2. ASSUME NEW m \in 1 .. polls, journal[i].signal = Of(m, "synthetic") PROVE FALSE
    <3>1. Of(m, "synthetic")[2] = "synthetic"
      BY DEF Of
    <3> QED
      BY <2>2, <3>1 DEF Directions
  <2> QED
    BY <2>1, <2>2 DEF RowOK, Signalled
<1>8. ASSUME NEW j \in S PROVE journal[j].trace = journal[i].trace
  <2>1. RowOK(journal[j], process, polls)
    BY <1>3, RowIs
  <2>2. journal[j].trace = journal[j].signal
    BY <1>3, <2>1 DEF RowOK, Signalled
  <2> QED
    BY <1>3, <1>7, <2>2
<1> QED
  BY <1>6, <1>8 DEF S

-----------------------------------------------------------------------------

LEMMA RefIsTrade ==
    ASSUME IInv, NEW i \in Rows, journal[i].orderRef # NoId
    PROVE  journal[i].orderRef = journal[i].trade
<1>1. RowOK(journal[i], process, polls)
  BY RowIs
<1> QED
  BY <1>1 DEF RowOK, Traded

\* Why a row may differ from the first of its trade.
Excused(i) ==
    \E j \in 1 .. i - 1 :
        /\ journal[j].trade = journal[i].trade
        /\ journal[j].session # journal[i].session \/ journal[j].type = "trade_closed"

LEMMA TradeIdExcused ==
    ASSUME IInv, NEW i \in Rows, TradeIdCorrelationMismatch(journal, Rows, i)
    PROVE  Excused(i)
<1> DEFINE seen == {j \in Rows : j <= i /\ journal[j].trade = journal[i].trade}
           first == FirstOf(seen)
<1>1. i \in Nat /\ i \in seen /\ seen \subseteq Nat
  BY RowIs DEF Rows
<1>2. first \in seen /\ \A j \in seen : first <= j
  <2> HIDE DEF seen
  <2> QED
    BY <1>1, FirstIs
<1>3. journal[i].trade # NoId /\ RunSessionTrace(journal[i]) # RunSessionTrace(journal[first])
  BY DEF TradeIdCorrelationMismatch
<1> HIDE DEF first
<1>4. first \in Rows /\ first <= i /\ first # i /\ journal[first].trade = journal[i].trade
  BY <1>2, <1>3
<1>5. first < i /\ first \in 1 .. i - 1
  BY <1>4 DEF Rows
<1>6. CASE journal[first].session # journal[i].session
  BY <1>4, <1>5, <1>6 DEF Excused
<1>7. CASE journal[first].session = journal[i].session
  <2>1. journal[first].trace # journal[i].trace
    <3>1. journal[first].run = journal[first].session /\ journal[i].run = journal[i].session
      BY <1>4, RowIs
    <3> QED
      BY <1>3, <1>7, <3>1 DEF RunSessionTrace
  <2>2. /\ i \in Told /\ first \in Told /\ first < i /\ Story[first].trade = Story[i].trade
        /\ Story[i].trade # NoId /\ Story[first].session = Story[i].session
        /\ Story[first].trace # Story[i].trace
    BY <1>3, <1>4, <1>5, <1>7, <2>1, RowIs, RowTold
  <2>3. PICK k \in Told : k < i /\ Story[k].trade = Story[i].trade
                          /\ Story[k].type = "trade_closed"
    BY <2>2 DEF IInv, TradeInv
  <2>4. k \in Rows /\ k \in 1 .. i - 1
    BY <2>3 DEF Rows, Told
  <2>5. journal[k].trade = journal[i].trade /\ journal[k].type = "trade_closed"
    BY <2>3, <2>4, RowTold
  <2> QED
    BY <2>4, <2>5 DEF Excused
<1> QED
  BY <1>6, <1>7

LEMMA OrderRefExcused ==
    ASSUME IInv, NEW i \in Rows, OrderRefRunSessionMismatch(journal, Rows, i)
    PROVE  Excused(i)
<1> DEFINE seen == OrderRefRows(journal, Rows, i)
           first == FirstOf(seen)
<1>1. i \in Nat /\ i \in seen /\ seen \subseteq Nat
  BY RowIs DEF Rows, OrderRefRows
<1>2. first \in seen /\ \A j \in seen : first <= j
  <2> HIDE DEF seen
  <2> QED
    BY <1>1, FirstIs
<1>3. journal[i].orderRef # NoId /\ RunSession(journal[i]) # RunSession(journal[first])
  BY DEF OrderRefRunSessionMismatch
<1>4. first \in Rows /\ first <= i /\ journal[first].orderRef = journal[i].orderRef
  BY <1>2 DEF OrderRefRows
<1> HIDE DEF first
<1>5. first # i /\ journal[first].trade = journal[i].trade
  BY <1>3, <1>4, RefIsTrade
<1>6. first \in 1 .. i - 1
  BY <1>4, <1>5 DEF Rows
<1>7. journal[first].session # journal[i].session
  <2>1. journal[first].run = journal[first].session /\ journal[i].run = journal[i].session
    BY <1>4, RowIs
  <2> QED
    BY <1>3, <2>1 DEF RunSession
<1> QED
  BY <1>5, <1>6, <1>7 DEF Excused

LEMMA OrderRefKeepsTrade ==
    ASSUME IInv, NEW i \in Rows
    PROVE  ~OrderRefTradeIdMismatch(journal, Rows, i)
<1> SUFFICES ASSUME OrderRefTradeIdMismatch(journal, Rows, i) PROVE FALSE
  OBVIOUS
<1> DEFINE seen == {j \in OrderRefRows(journal, Rows, i) :
                        journal[j].trade # NoId /\ ~OrderRefRunSessionMismatch(journal, Rows, j)}
           first == FirstOf(seen)
<1>1. i \in Nat /\ i \in seen /\ seen \subseteq Nat
  BY RowIs DEF Rows, OrderRefRows, OrderRefTradeIdMismatch
<1>2. first \in seen
  <2> HIDE DEF seen
  <2> QED
    BY <1>1, FirstIs
<1>3. journal[i].orderRef # NoId /\ journal[i].trade # journal[first].trade
  BY DEF OrderRefTradeIdMismatch
<1>4. first \in Rows /\ journal[first].orderRef = journal[i].orderRef
  BY <1>2 DEF OrderRefRows
<1> HIDE DEF first
<1> QED
  BY <1>3, <1>4, RefIsTrade

\* Rows of one cycle that carry a trade carry the same one.
LEMMA Linked ==
    ASSUME IInv, OneWay, NEW i \in Rows, NEW j \in Rows, journal[i].cycle = journal[j].cycle,
           journal[i].cycle # NoId, journal[i].trade # NoId, journal[j].trade # NoId
    PROVE  journal[i].trade = journal[j].trade
<1>1. RowOK(journal[i], process, polls) /\ RowOK(journal[j], process, polls)
  BY RowIs
<1>2. journal[i].trade[1] = journal[j].trade[1]
  BY <1>1 DEF RowOK, Traded
<1>3. /\ i \in Told /\ Story[i].trade = journal[i].trade
      /\ j \in Told /\ Story[j].trade = journal[j].trade
  BY RowIs, RowTold
<1>4. journal[i].trade \in Known /\ journal[j].trade \in Known
  BY <1>3 DEF Known
<1> QED
  BY <1>2, <1>4 DEF IInv, OneTradeInv

LEMMA TradesOfInv == IInv => TradeEventsCorrelate
<1> SUFFICES ASSUME IInv PROVE TradeEventsCorrelate
  OBVIOUS
<1>1. ASSUME NEW issue \in CorrelationIssues(journal) PROVE Excused(issue[1])
  <2>1. PICK i \in Rows :
            /\ issue[1] = i
            /\ \/ TradeIdCorrelationMismatch(journal, Rows, i)
               \/ OrderRefRunSessionMismatch(journal, Rows, i)
               \/ OrderRefTradeIdMismatch(journal, Rows, i)
    BY <1>1, RowsAccepted DEF CorrelationIssues
  <2> QED
    BY <2>1, TradeIdExcused, OrderRefExcused, OrderRefKeepsTrade
<1>2. ASSUME OneWay PROVE LinkageIssues(journal) = {}
  <2> DEFINE enters(i) == EnterRows(journal, Rows, journal[i].cycle)
             linked == {i \in Rows : journal[i].cycle # NoId /\ journal[i].trade # NoId
                                     /\ enters(i) # {}}
  <2>1. ASSUME NEW k \in linked PROVE journal[k].trade = journal[FirstOf(enters(k))].trade
    <3> DEFINE S == enters(k)
    <3>1. S \subseteq Nat /\ S # {}
      BY DEF EnterRows, Rows
    <3>2. FirstOf(S) \in S
      <4> HIDE DEF S
      <4> QED
        BY <3>1, FirstIs
    <3> DEFINE f == FirstOf(S)
    <3>3. /\ f \in Rows /\ journal[f].cycle = journal[k].cycle /\ journal[f].trade # NoId
      BY <3>2 DEF EnterRows
    <3> HIDE DEF f
    <3>4. journal[k].trade = journal[f].trade
      BY <1>2, <3>3, Linked
    <3> QED
      BY <3>4 DEF f
  <2>2. LinkageIssues(journal) =
          {<<i, "decision_cycle_trade_id_linkage_mismatch">> :
              i \in {k \in linked : journal[k].trade # journal[FirstOf(enters(k))].trade}}
    BY RowsAccepted DEF LinkageIssues
  <2> QED
    BY <2>1, <2>2
<1> QED
  BY <1>1, <1>2 DEF TradeEventsCorrelate, Excused, OneWay

LEMMA CycleIdIs ==
    ASSUME IInv, NEW i \in Rows
    PROVE  \/ /\ journal[i].cycle \in 1 .. polls
              /\ CycleId(journal, i) = <<"cycle", journal[i].cycle>>
           \/ journal[i].cycle = NoId /\ CycleId(journal, i) = <<"missing-cycle", i>>
<1>1. RowOK(journal[i], process, polls)
  BY RowIs
<1>2. \A n \in 1 .. polls : n # NoId
  BY NoIdAssumption DEF IInv, TypeInv
<1> QED
  BY <1>1, <1>2 DEF RowOK, CycleId

LEMMA CycleIdsAre == CycleIds(journal) = {CycleId(journal, i) : i \in Rows}
BY DEF CycleIds, Rows

LEMMA FilledIs ==
    ASSUME NEW c, NEW type
    PROVE  /\ OfType(journal, c, type)
                = {i \in Rows : CycleId(journal, i) = c /\ journal[i].type = type}
           /\ Filled(journal, c, type)
                <=> \E i \in Rows : CycleId(journal, i) = c /\ journal[i].type = type
BY DEF OfType, Filled, Group, Rows

\* A row of the chain or of an execution belongs to the group of its poll.
LEMMA CycleOfRow ==
    ASSUME IInv, NEW i \in Rows,
           journal[i].type \in ChainEventTypes \cup {"trade_executed"}
    PROVE  /\ journal[i].cycle \in 1 .. polls
           /\ CycleId(journal, i) = <<"cycle", journal[i].cycle>>
<1>1. journal[i].cycle # NoId
  BY RowIs DEF RowOK
<1> QED
  BY <1>1, CycleIdIs

LEMMA SameGroup ==
    ASSUME IInv, NEW i \in Rows, NEW j \in Rows, CycleId(journal, i) = CycleId(journal, j)
    PROVE  journal[i].cycle = journal[j].cycle
<1>1. \/ CycleId(journal, i) = <<"cycle", journal[i].cycle>>
      \/ journal[i].cycle = NoId /\ CycleId(journal, i) = <<"missing-cycle", i>>
  BY CycleIdIs
<1>2. \/ CycleId(journal, j) = <<"cycle", journal[j].cycle>>
      \/ journal[j].cycle = NoId /\ CycleId(journal, j) = <<"missing-cycle", j>>
  BY CycleIdIs
<1> QED
  BY <1>1, <1>2

\* A block and a held trade are never of the same group.
LEMMA BlockedNotHeld ==
    ASSUME IInv, OneWay, NEW i \in Rows, NEW j \in Rows,
           CycleId(journal, i) = CycleId(journal, j),
           journal[i].type = "risk_guard_decision", HeldRow(journal[j])
    PROVE  FALSE
<1> DEFINE n == journal[i].cycle
<1>1. n \in 1 .. polls /\ journal[j].cycle = n
  BY CycleOfRow, SameGroup DEF ChainEventTypes, ChainRank
<1>2. /\ i \in Told /\ Story[i].type = "risk_guard_decision" /\ Story[i].cycle = n
      /\ j \in Told /\ Story[j].cycle = n
  BY <1>1, RowIs, RowTold
<1>3. HeldRow(Story[j])
  <2>1. /\ Story[j].type = journal[j].type /\ Story[j].decision = journal[j].decision
        /\ Story[j].reason = journal[j].reason
    BY RowTold
  <2> QED
    BY <2>1 DEF HeldRow
<1> HIDE DEF n
<1>4. Guarded(n) /\ Held(n)
  BY <1>2, <1>3 DEF Guarded, Held
<1> QED
  BY <1>1, <1>4 DEF IInv, GuardInv

LEMMA BlocksOfInv == IInv => BlockOutcomeIsSlippage
<1> SUFFICES ASSUME IInv, OneWay, NEW c \in CycleIds(journal), CounterfactualAvailable(journal, c)
             PROVE  \E i \in Group(journal, c) : journal[i].reason = "slippage_flatten"
  BY DEF BlockOutcomeIsSlippage, OneWay
<1> DEFINE decided == {i \in Group(journal, c) : journal[i].decision # "none"}
           first == FirstOf(decided)
<1>1. GuardDecisionOf(journal, c) = IF decided = {} THEN "none" ELSE journal[first].decision
  BY DEF GuardDecisionOf
<1>2. GuardDecisionOf(journal, c) = "BLOCK" /\ Filled(journal, c, "trade_closed")
  BY DEF CounterfactualAvailable
<1>3. decided # {} /\ journal[first].decision = "BLOCK"
  BY <1>1, <1>2
<1>4. first \in decided
  <2>1. decided \subseteq Nat
    BY DEF Group
  <2> HIDE DEF decided
  <2> QED
    BY <1>3, <2>1, FirstIs
<1>5. first \in Rows /\ CycleId(journal, first) = c
  BY <1>4 DEF Group, Rows
<1> HIDE DEF first
<1>6. journal[first].type = "risk_guard_decision"
  <2>1. RowOK(journal[first], process, polls)
    BY <1>5, RowIs
  <2> QED
    BY <1>3, <2>1 DEF RowOK, Decided
<1>7. PICK j \in Rows : CycleId(journal, j) = c /\ journal[j].type = "trade_closed"
  BY <1>2, FilledIs
<1>8. ~HeldRow(journal[j])
  BY <1>5, <1>6, <1>7, BlockedNotHeld
<1>9. journal[j].reason = "slippage_flatten" /\ j \in Group(journal, c)
  BY <1>7, <1>8 DEF HeldRow, Group, Rows
<1> QED
  BY <1>9

-----------------------------------------------------------------------------

\* The group of an action has no other, so its slot holds it.
LEMMA ActionSlot ==
    ASSUME IInv, OneWay, NEW i \in Rows, journal[i].type = "trade_action"
    PROVE  LET c == CycleId(journal, i)
           IN  /\ c \in CycleIds(journal) /\ c \in PollCycles
               /\ Filled(journal, c, "trade_action") /\ Slot(journal, c, "trade_action") = journal[i]
<1> DEFINE c == CycleId(journal, i)
           S == OfType(journal, c, "trade_action")
<1>1. i \in S /\ Filled(journal, c, "trade_action") /\ c \in CycleIds(journal)
  BY FilledIs, CycleIdsAre
<1>2. ASSUME NEW j \in S PROVE j = i
  <2>1. /\ j \in Rows /\ CycleId(journal, j) = CycleId(journal, i)
        /\ journal[j].type = "trade_action"
    BY <1>2, FilledIs
  <2>2. journal[j].cycle = journal[i].cycle
    BY <2>1, SameGroup
  <2>3. /\ i \in Told /\ Acts(Story[i]) /\ j \in Told /\ Acts(Story[j])
        /\ Story[i].cycle = Story[j].cycle
    BY <2>1, <2>2, RowIs, RowTold DEF Acts
  <2> QED
    BY <2>3 DEF IInv, ActionInv
<1>3. S = {i} /\ i \in Nat
  BY <1>1, <1>2, RowIs
<1>4. Slot(journal, c, "trade_action") = journal[i]
  <2>1. (CHOOSE k \in {i} : \A j \in {i} : j <= k) = i
    BY <1>3
  <2> HIDE DEF c
  <2> QED
    BY <1>3, <2>1 DEF Slot
<1>5. c \in PollCycles
  BY CycleOfRow DEF PollCycles, ChainEventTypes, ChainRank
<1> QED
  BY <1>1, <1>4, <1>5

LEMMA ActionDecision ==
    ASSUME IInv, NEW i \in Rows
    PROVE  /\ journal[i].type = "trade_action" => journal[i].decision \in {"ENTER", "NO_ACTION"}
           /\ journal[i].decision \in {"ENTER", "NO_ACTION"} => journal[i].type = "trade_action"
           /\ journal[i].type = "risk_guard_decision" => journal[i].decision = "BLOCK"
<1>1. RowOK(journal[i], process, polls)
  BY RowIs
<1> QED
  BY <1>1 DEF RowOK, Decided

\* The cycles that act in one way are those of the rows that say so.
LEMMA ActingAre ==
    ASSUME IInv, OneWay, NEW c, NEW D
    PROVE  c \in Acting(journal, D) <=>
               \E i \in Rows : CycleId(journal, i) = c /\ journal[i].type = "trade_action"
                               /\ journal[i].decision \in D
<1>1. ASSUME c \in Acting(journal, D)
      PROVE  \E i \in Rows : CycleId(journal, i) = c /\ journal[i].type = "trade_action"
                             /\ journal[i].decision \in D
  <2>1. Filled(journal, c, "trade_action") /\ Slot(journal, c, "trade_action").decision \in D
    BY <1>1 DEF Acting
  <2>2. PICK i \in Rows : CycleId(journal, i) = c /\ journal[i].type = "trade_action"
    BY <2>1, FilledIs
  <2>3. Slot(journal, c, "trade_action") = journal[i]
    BY <2>2, ActionSlot
  <2> QED
    BY <2>1, <2>2, <2>3
<1>2. ASSUME NEW i \in Rows, CycleId(journal, i) = c, journal[i].type = "trade_action",
             journal[i].decision \in D
      PROVE  c \in Acting(journal, D)
  BY <1>2, ActionSlot DEF Acting
<1> QED
  BY <1>1, <1>2

\* The rows without a cycle are groups of their own.
Loose(type) == {i \in Rows : journal[i].type = type /\ journal[i].cycle = NoId}

LEMMA LooseGroups ==
    ASSUME IInv
    PROVE  Cardinality(CycleIds(journal) \ PollCycles)
             = Cardinality({i \in Rows : journal[i].type = "signal_filtered"})
                 + Cardinality({i \in Rows : journal[i].type = "market_data_stale_warning"})
                 + Cardinality(Loose("trade_closed"))
<1> DEFINE M == {i \in Rows : journal[i].cycle = NoId}
           F == {i \in Rows : journal[i].type = "signal_filtered"}
           W == {i \in Rows : journal[i].type = "market_data_stale_warning"}
           C == Loose("trade_closed")
           D == CycleIds(journal) \ PollCycles
           f == [i \in M |-> <<"missing-cycle", i>>]
<1>1. M = (F \cup W) \cup C /\ F \cap W = {} /\ (F \cup W) \cap C = {}
  <2>1. \A i \in F \cup W : journal[i].cycle = NoId
    BY RowIs DEF RowOK
  <2>2. \A i \in M :
            journal[i].type \in {"signal_filtered", "market_data_stale_warning", "trade_closed"}
    <3> SUFFICES ASSUME NEW i \in M
                 PROVE  journal[i].type
                          \in {"signal_filtered", "market_data_stale_warning", "trade_closed"}
      OBVIOUS
    <3>1. journal[i].type \in EventTypes /\ RowOK(journal[i], process, polls)
      BY RowIs
    <3> QED
      BY <3>1 DEF RowOK, EventTypes
  <2> QED
    BY <2>1, <2>2 DEF Loose
<1>2. D = {<<"missing-cycle", i>> : i \in M}
  <2>1. ASSUME NEW i \in M PROVE <<"missing-cycle", i>> \in D
    <3>1. CycleId(journal, i) = <<"missing-cycle", i>>
      BY DEF CycleId
    <3>2. <<"missing-cycle", i>> \notin PollCycles
      BY DEF PollCycles
    <3> QED
      BY <3>1, <3>2, CycleIdsAre
  <2>2. ASSUME NEW c \in D PROVE \E i \in M : c = <<"missing-cycle", i>>
    <3>1. PICK i \in Rows : c = CycleId(journal, i)
      BY CycleIdsAre
    <3>2. CASE journal[i].cycle = NoId
      BY <3>1, <3>2 DEF CycleId
    <3>3. CASE journal[i].cycle \in 1 .. polls /\ c = <<"cycle", journal[i].cycle>>
      BY <3>3 DEF PollCycles
    <3> QED
      BY <3>1, <3>2, <3>3, CycleIdIs
  <2> HIDE DEF D
  <2> QED
    BY <2>1, <2>2
<1>3. IsFiniteSet(F) /\ IsFiniteSet(W) /\ IsFiniteSet(C) /\ IsFiniteSet(M)
  <2>1. F \subseteq Rows /\ W \subseteq Rows /\ C \subseteq Rows /\ M \subseteq Rows
    BY DEF Loose
  <2> HIDE DEF F, W, C, M
  <2> QED
    BY <2>1, RowsFinite
<1> HIDE DEF M, F, W, C, D
<1>4. Cardinality(D) = Cardinality(M)
  <2>1. f \in Bijection(M, D)
    <3>1. f \in [M -> D]
      BY <1>2
    <3>2. \A i, j \in M : f[i] = f[j] => i = j
      OBVIOUS
    <3>3. \A c \in D : \E i \in M : f[i] = c
      BY <1>2
    <3> HIDE DEF f
    <3> QED
      BY <3>1, <3>2, <3>3 DEF Bijection, Injection, Surjection, IsInjective
  <2>2. ExistsBijection(M, D)
    BY <2>1 DEF ExistsBijection
  <2> QED
    BY <1>3, <2>2, FS_Bijection
<1>5. Cardinality(M) = Cardinality(F) + Cardinality(W) + Cardinality(C)
  <2>1. /\ IsFiniteSet(F \cup W)
        /\ Cardinality(F \cup W) = Cardinality(F) + Cardinality(W) - Cardinality(F \cap W)
    BY <1>3, FS_Union
  <2>2. Cardinality((F \cup W) \cup C)
          = Cardinality(F \cup W) + Cardinality(C) - Cardinality((F \cup W) \cap C)
    BY <1>3, <2>1, FS_Union
  <2>3. Cardinality(F \cap W) = 0 /\ Cardinality((F \cup W) \cap C) = 0
    BY <1>1, FS_EmptySet
  <2>4. Cardinality(F) \in Nat /\ Cardinality(W) \in Nat /\ Cardinality(C) \in Nat
    BY <1>3, FS_CardinalityType
  <2> QED
    BY <1>1, <2>1, <2>2, <2>3, <2>4
<1> QED
  BY <1>4, <1>5 DEF D, F, W, C

LEMMA FunnelOfInv == IInv => FunnelAddsUp
<1> SUFFICES ASSUME IInv, Settled, process = 1, OneWay
             PROVE  /\ EnteredCycles(journal) = ExecutedCycles(journal)
                    /\ EnteredCycles(journal) \cup NoActionCycles(journal) = PollCycles
                    /\ EnteredCycles(journal) \cap BlockedCycles(journal) = {}
                    /\ Cardinality(CycleIds(journal) \ PollCycles)
                        = Cardinality({i \in Rows : journal[i].type = "signal_filtered"})
                            + Cardinality({i \in Rows : journal[i].type
                                                            = "market_data_stale_warning"})
                            + Cardinality({i \in Rows : /\ journal[i].type = "trade_closed"
                                                        /\ journal[i].cycle = NoId})
                    /\ SignalsAfterFilters(journal) = {}
                    /\ \A c \in ExecutedCycles(journal) :
                          /\ {"EXECUTION_WITHOUT_DECISION", "CYCLE_INCOMPLETE"}
                                 \subseteq Warnings(journal, c)
                          /\ ShapePenalty(journal, c) = 3
  BY DEF FunnelAddsUp, OneWay
<1>1. Told = Rows /\ pc # "down"
  BY SettledTells
<1>2. \A c : c \in EnteredCycles(journal) <=>
                 \E i \in Rows : CycleId(journal, i) = c /\ journal[i].decision = "ENTER"
  <2>1. \A c : c \in EnteredCycles(journal) <=>
                 \E i \in Rows : CycleId(journal, i) = c /\ journal[i].type = "trade_action"
                                 /\ journal[i].decision \in {"ENTER", "REVERSE"}
    BY ActingAre DEF EnteredCycles
  <2> QED
    BY <2>1, ActionDecision
<1>3. \A c : c \in NoActionCycles(journal) <=>
                 \E i \in Rows : CycleId(journal, i) = c /\ journal[i].decision = "NO_ACTION"
  <2>1. \A c : c \in NoActionCycles(journal) <=>
                 \E i \in Rows : CycleId(journal, i) = c /\ journal[i].type = "trade_action"
                                 /\ journal[i].decision \in {"NO_ACTION"}
    BY ActingAre DEF NoActionCycles
  <2> QED
    BY <2>1, ActionDecision
<1>4. \A c : c \in ExecutedCycles(journal) <=>
                 \E i \in Rows : CycleId(journal, i) = c /\ journal[i].type = "trade_executed"
  BY FilledIs, CycleIdsAre DEF ExecutedCycles
<1>5. \A c : c \in RiskDecided(journal) <=>
                 \E i \in Rows : CycleId(journal, i) = c /\ journal[i].type = "risk_guard_decision"
  BY FilledIs, CycleIdsAre DEF RiskDecided
<1>6. \A n \in 1 .. polls : Entered(n) <=> Executed(n)
  BY <1>1 DEF IInv, GuardInv
<1>7. EnteredCycles(journal) = ExecutedCycles(journal)
  <2>1. ASSUME NEW i \in Rows, journal[i].decision = "ENTER"
        PROVE  \E j \in Rows : CycleId(journal, j) = CycleId(journal, i)
                               /\ journal[j].type = "trade_executed"
    <3> DEFINE n == journal[i].cycle
    <3>1. journal[i].type = "trade_action"
      BY <2>1, ActionDecision
    <3>2. n \in 1 .. polls /\ CycleId(journal, i) = <<"cycle", n>>
      BY <3>1, CycleOfRow DEF ChainEventTypes, ChainRank
    <3>3. i \in Told /\ Story[i].cycle = n /\ Story[i].decision = "ENTER"
      BY <2>1, RowIs, RowTold
    <3> HIDE DEF n
    <3>4. PICK j \in Told : Story[j].cycle = n /\ Story[j].type = "trade_executed"
      BY <1>6, <3>2, <3>3 DEF Entered, Executed
    <3>5. j \in Rows /\ journal[j].cycle = n /\ journal[j].type = "trade_executed"
      BY <1>1, <3>4, RowTold
    <3> QED
      BY <3>2, <3>5, CycleOfRow
  <2>2. ASSUME NEW i \in Rows, journal[i].type = "trade_executed"
        PROVE  \E j \in Rows : CycleId(journal, j) = CycleId(journal, i)
                               /\ journal[j].decision = "ENTER"
    <3> DEFINE n == journal[i].cycle
    <3>1. n \in 1 .. polls /\ CycleId(journal, i) = <<"cycle", n>>
      BY <2>2, CycleOfRow
    <3>2. i \in Told /\ Story[i].cycle = n /\ Story[i].type = "trade_executed"
      BY <2>2, RowIs, RowTold
    <3> HIDE DEF n
    <3>3. PICK j \in Told : Story[j].cycle = n /\ Story[j].decision = "ENTER"
      BY <1>6, <3>1, <3>2 DEF Entered, Executed
    <3>4. j \in Rows /\ journal[j].cycle = n /\ journal[j].decision = "ENTER"
      BY <1>1, <3>3, RowTold
    <3>5. journal[j].type = "trade_action"
      BY <3>4, ActionDecision
    <3>6. CycleId(journal, j) = <<"cycle", n>>
      BY <3>4, <3>5, CycleOfRow DEF ChainEventTypes, ChainRank
    <3> QED
      BY <3>1, <3>4, <3>6
  <2>3. \A c : c \in EnteredCycles(journal) <=> c \in ExecutedCycles(journal)
    BY <1>2, <1>4, <2>1, <2>2
  <2> QED
    BY <2>3
<1>8. \A n \in 1 .. polls :
          \E i \in Rows : journal[i].type = "trade_action" /\ CycleId(journal, i) = <<"cycle", n>>
  <2> SUFFICES ASSUME NEW n \in 1 .. polls
               PROVE  \E i \in Rows : journal[i].type = "trade_action"
                                      /\ CycleId(journal, i) = <<"cycle", n>>
    OBVIOUS
  <2>1. PICK i \in Told : Acts(Story[i]) /\ Story[i].cycle = n
    BY <1>1 DEF IInv, ActionInv
  <2>2. /\ i \in Rows /\ Story[i].type = journal[i].type /\ journal[i].cycle = n
    BY <1>1, <2>1, RowTold
  <2>3. journal[i].type = "trade_action"
    BY <2>1, <2>2, RowIs DEF Acts, EventTypes, ChainEventTypes, ChainRank
  <2>4. CycleId(journal, i) = <<"cycle", n>>
    BY <2>2, <2>3, CycleOfRow DEF ChainEventTypes, ChainRank
  <2> QED
    BY <2>2, <2>3, <2>4
<1>9. EnteredCycles(journal) \cup NoActionCycles(journal) = PollCycles
  <2>1. ASSUME NEW c \in EnteredCycles(journal) \cup NoActionCycles(journal) PROVE c \in PollCycles
    <3>1. PICK i \in Rows : CycleId(journal, i) = c /\ journal[i].decision \in {"ENTER", "NO_ACTION"}
      BY <1>2, <1>3
    <3>2. journal[i].type = "trade_action"
      BY <3>1, ActionDecision
    <3> QED
      BY <3>1, <3>2, ActionSlot
  <2>2. ASSUME NEW c \in PollCycles PROVE c \in EnteredCycles(journal) \cup NoActionCycles(journal)
    <3>1. PICK n \in 1 .. polls : c = <<"cycle", n>>
      BY DEF PollCycles
    <3>2. PICK i \in Rows : journal[i].type = "trade_action" /\ CycleId(journal, i) = c
      BY <1>8, <3>1
    <3>3. journal[i].decision \in {"ENTER", "NO_ACTION"}
      BY <3>2, ActionDecision
    <3> QED
      BY <1>2, <1>3, <3>2, <3>3
  <2> QED
    BY <2>1, <2>2
<1>10. EnteredCycles(journal) \cap BlockedCycles(journal) = {}
  <2> SUFFICES ASSUME NEW c, c \in EnteredCycles(journal), c \in BlockedCycles(journal) PROVE FALSE
    OBVIOUS
  <2>1. PICK i \in Rows : CycleId(journal, i) = c /\ journal[i].decision = "ENTER"
    BY <1>2
  <2>2. c \in RiskDecided(journal)
    BY DEF BlockedCycles
  <2>3. PICK j \in Rows : CycleId(journal, j) = c /\ journal[j].type = "risk_guard_decision"
    BY <1>5, <2>2
  <2> QED
    BY <2>1, <2>3, BlockedNotHeld DEF HeldRow
<1>11. Cardinality(CycleIds(journal) \ PollCycles)
         = Cardinality({i \in Rows : journal[i].type = "signal_filtered"})
             + Cardinality({i \in Rows : journal[i].type = "market_data_stale_warning"})
             + Cardinality({i \in Rows : /\ journal[i].type = "trade_closed"
                                         /\ journal[i].cycle = NoId})
  BY LooseGroups DEF Loose
<1>12. SignalsAfterFilters(journal) = {}
  <2> SUFFICES ASSUME NEW c \in RiskDecided(journal) PROVE c \in BlockedCycles(journal)
    BY DEF SignalsAfterFilters
  <2> DEFINE S == OfType(journal, c, "risk_guard_decision")
  <2>1. S # {} /\ S \subseteq Rows /\ \A i \in S : journal[i].type = "risk_guard_decision"
    BY <1>5, FilledIs
  <2> HIDE DEF S
  <2>2. \E i \in S : \A j \in S : j <= i
    BY <2>1, LengthsType, LastIs DEF Rows, IInv
  <2> DEFINE last == CHOOSE i \in S : \A j \in S : j <= i
  <2>3. last \in S
    BY <2>2
  <2>4. Slot(journal, c, "risk_guard_decision") = journal[last]
    BY DEF Slot, S
  <2> HIDE DEF last
  <2>5. journal[last].decision = "BLOCK"
    BY <2>1, <2>3, ActionDecision
  <2> QED
    BY <2>4, <2>5 DEF BlockedCycles
<1>13. ASSUME NEW c \in ExecutedCycles(journal)
       PROVE  /\ {"EXECUTION_WITHOUT_DECISION", "CYCLE_INCOMPLETE"} \subseteq Warnings(journal, c)
              /\ ShapePenalty(journal, c) = 3
  <2>1. PICK i \in Rows : CycleId(journal, i) = c /\ journal[i].type = "trade_executed"
    BY <1>4
  <2>2. Filled(journal, c, "trade_executed")
    BY <2>1, FilledIs
  <2>3. ~Filled(journal, c, "risk_guard_decision")
    <3> SUFFICES ASSUME NEW j \in Rows, CycleId(journal, j) = c,
                        journal[j].type = "risk_guard_decision"
                 PROVE  FALSE
      BY FilledIs
    <3> QED
      BY <2>1, BlockedNotHeld DEF HeldRow
  <2>4. Filled(journal, c, "trade_action")
    <3>1. PICK j \in Rows : CycleId(journal, j) = c /\ journal[j].decision = "ENTER"
      BY <1>2, <1>7
    <3> QED
      BY <3>1, ActionDecision, FilledIs
  <2>5. ~ChainComplete(journal, c)
    BY <2>3 DEF ChainComplete, ChainEventTypes, ChainRank
  <2>6. {"EXECUTION_WITHOUT_DECISION", "CYCLE_INCOMPLETE"} \subseteq Warnings(journal, c)
    BY <2>2, <2>3, <2>5 DEF Warnings
  <2> QED
    BY <2>4, <2>5, <2>6 DEF ShapePenalty
<1> QED
  BY <1>7, <1>9, <1>10, <1>11, <1>12, <1>13

-----------------------------------------------------------------------------

\* QuantLog's chain check (DECISION_CHAIN_EVENT_ORDER_RANK and the identity of
\* a cycle) accepts every cycle the standard path of _check_signals emits; only
\* one its process did not survive may lack its trade_action.
THEOREM StandardChainsAcceptedCorrect == Spec => []StandardChainsAccepted
BY IInvCorrect, ChainsOfInv, PTL

\* Every signal_detected that names a direction is followed by exactly one
\* signal_filtered or trade_executed, under the trace of the signal, whichever
\* guard of _evaluate_and_execute or gate of the research path stops it.
THEOREM EverySignalResolvedCorrect == Spec => []EverySignalResolved
BY IInvCorrect, OutcomesOfInv, PTL

\* The validator reports a row of a trade only after a restart or when the trade was
\* logged closed before (a slippage flatten, an exit or a listing of the broker that
\* failed), and never ties a cycle to two trades where a poll decides on one
\* direction: what _open_trade_quantlog is kept for.
THEOREM TradeEventsCorrelateCorrect == Spec => []TradeEventsCorrelate
BY IInvCorrect, TradesOfInv, PTL

\* The counts of analyze_throughput and the warnings of guard attribution on
\* the journal of a first process: a poll is an entry or a NO_ACTION, an entry
\* is what was executed, no signal is counted as having passed the guards, and the groups
\* that are no poll's are filtered signals, warnings of stale data and closes under a trace
\* of their own.
THEOREM FunnelAddsUpCorrect == Spec => []FunnelAddsUp
BY IInvCorrect, FunnelOfInv, PTL

\* What analyze_guards takes for the outcome of a block is the close the
\* slippage guard logged itself, in every process and across restarts.
THEOREM BlockOutcomeIsSlippageCorrect == Spec => []BlockOutcomeIsSlippage
BY IInvCorrect, BlocksOfInv, PTL
=============================================================================
