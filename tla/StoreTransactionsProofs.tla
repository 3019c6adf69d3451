------------------------ MODULE StoreTransactionsProofs ------------------------
(***************************************************************************)
(* Proofs about StoreTransactions, for every number of tasks and callers.  *)
(***************************************************************************)
EXTENDS StoreTransactions, TLAPS

\* A locked caller in the middle of a call is the one that has the write lock,
\* what it read is still there, and every caller holds an edge of the table.
TransactionInv ==
    /\ TypeOK
    /\ \A c \in Locked : call[c] # Idle => writer = c
    /\ LockedSeesCurrent
    /\ \A c \in Callers : call[c] # Idle => call[c].to \in ValidTransitions(call[c].saw)

-------------------------------------------------------------------------------
\* The table leads from statuses of the program to statuses of the program.
LEMMA Edges ==
    ASSUME NEW s, NEW to \in ValidTransitions(s)
    PROVE  s \in Status /\ to \in Status
BY DEF ValidTransitions, Status, Active, Terminal

\* A call in progress is never mistaken for no call.
LEMMA CallShape ==
    ASSUME TypeOK, NEW c \in Callers, call[c] # Idle
    PROVE  call[c] \in Calls
BY DEF TypeOK

\* The invariant holds at the start and no step of any caller breaks it.
LEMMA Inductive ==
    /\ Init => TransactionInv
    /\ TransactionInv /\ [Next]_vars => TransactionInv'
<1>1. Init => TransactionInv
  BY DEF Init, TransactionInv, TypeOK, LockedSeesCurrent, Callers
<1>2. ASSUME TransactionInv, [Next]_vars PROVE TransactionInv'
  <2> USE CallerAssumption, <1>2 DEF TransactionInv, TypeOK, LockedSeesCurrent, Callers
  <2>1. ASSUME NEW t \in Tasks, Insert(t) PROVE TransactionInv'
    <3>1. "QUEUED" \in Status
      BY DEF Status
    <3>2. \A c \in Locked : call[c] = Idle
      BY <2>1 DEF Insert
    <3> QED
      BY <2>1, <3>1, <3>2 DEF Insert
  <2>2. ASSUME NEW c \in Callers, NEW t \in Tasks, NEW to \in Status, Select(c, t, to),
               writer' \in Locked \cup {NoCaller},
               c \in Locked => writer = NoCaller /\ writer' = c,
               c \in Plain => writer' = writer
        PROVE TransactionInv'
    <3> DEFINE new == [task |-> t, saw |-> status[t], to |-> to]
    <3>1. new \in Calls
      BY <2>2, Edges DEF Select, Calls
    <3>2. call' = [call EXCEPT ![c] = new] /\ status' = status
      BY <2>2 DEF Select
    <3>3. TypeOK'
      BY <2>2, <3>1, <3>2
    <3>4. \A d \in Callers \ {c} : call'[d] = call[d]
      BY <3>2
    <3>5. call'[c] = new
      BY <3>2
    <3>6. (\A d \in Locked : call[d] # Idle => writer = d)'
      BY <2>2, <3>4
    <3>7. LockedSeesCurrent'
      BY <3>2, <3>4, <3>5
    <3>8. (\A d \in Callers : call[d] # Idle => call[d].to \in ValidTransitions(call[d].saw))'
      BY <2>2, <3>4, <3>5 DEF Select
    <3> QED
      BY <3>3, <3>6, <3>7, <3>8
  <2>3. ASSUME NEW c \in Callers, NEW t \in Tasks, NEW to \in Status, PlainRead(c, t, to)
        PROVE TransactionInv'
    BY <2>2, <2>3 DEF PlainRead
  <2>4. ASSUME NEW c \in Callers, NEW t \in Tasks, NEW to \in Status, LockedRead(c, t, to)
        PROVE TransactionInv'
    BY <2>2, <2>4 DEF LockedRead
  <2>5. ASSUME NEW c \in Callers, Write(c) PROVE TransactionInv'
    <3>1. call[c] \in Calls
      BY <2>5, CallShape DEF Write
    <3>2. \A d \in Locked : d # c => call[d] = Idle
      BY <2>5 DEF Write
    <3> QED
      BY <2>5, <3>1, <3>2 DEF Write, Calls
  <2>6. ASSUME NEW c \in Callers, Rollback(c) PROVE TransactionInv'
    BY <2>6 DEF Rollback
  <2>7. CASE UNCHANGED vars
    BY <2>7 DEF vars
  <2> QED
    BY <2>1, <2>3, <2>4, <2>5, <2>6, <2>7 DEF Next
<1> QED
  BY <1>1, <1>2

\* The invariant is one of the specification.
LEMMA TransactionInvariant == Spec => []TransactionInv
BY Inductive, PTL DEF Spec

\* Type correctness: no caller writes a status the program does not have.
THEOREM TypeCorrect == Spec => []TypeOK
<1>1. TransactionInv => TypeOK
  BY DEF TransactionInv
<1> QED
  BY <1>1, TransactionInvariant, PTL

\* A caller that said BEGIN IMMEDIATE decides on a status that is still the
\* task's when it writes, however many plain and locked callers there are.
THEOREM LockedReadsStay == Spec => []LockedSeesCurrent
<1>1. TransactionInv => LockedSeesCurrent
  BY DEF TransactionInv
<1> QED
  BY <1>1, TransactionInvariant, PTL

\* The instance of TaskLifecycle has the same statuses and the same table.
LEMMA SameTable ==
    /\ Lifecycle!Status = Status
    /\ \A s : Lifecycle!ValidTransitions(s) = ValidTransitions(s)
<1>1. Lifecycle!Status = Status
  BY DEF Status, Active, Terminal, Lifecycle!Status, Lifecycle!Active, Lifecycle!Terminal
<1>2. ASSUME NEW s PROVE Lifecycle!ValidTransitions(s) = ValidTransitions(s)
  BY DEF ValidTransitions, Lifecycle!ValidTransitions
<1> QED
  BY <1>1, <1>2

\* The transactions of queue_store.py implement the racy lifecycle, for any
\* number of plain and of locked callers: the table of moves is left only by a
\* plain caller whose read has been overtaken, and a read is overtaken only by a
\* write.
THEOREM StraysAreOvertaken == Spec => OnlyTheOvertakenStray
<1>1. Init => Lifecycle!Init
  BY DEF Init, Lifecycle!Init, Overtaken, Callers
<1>2. ASSUME TransactionInv, TransactionInv', [Next]_vars
      PROVE  [Lifecycle!RacyNext]_<<status, Overtaken>>
  <2> USE DEF TransactionInv, TypeOK
  <2>1. status' \in [Tasks -> Lifecycle!Status \cup {"ABSENT"}]
    BY <1>2, SameTable
  <2>2. ASSUME NEW t \in Tasks
        PROVE  Lifecycle!Legal(t) \/ t \in Overtaken
    <3>1. CASE status'[t] = status[t]
      BY <3>1 DEF Lifecycle!Legal
    <3>2. ASSUME NEW u \in Tasks, Insert(u) PROVE Lifecycle!Legal(t)
      BY <1>2, <3>2 DEF Insert, Lifecycle!Legal, Lifecycle!Created
    <3>3. ASSUME NEW c \in Callers, Write(c) PROVE Lifecycle!Legal(t) \/ t \in Overtaken
      <4>1. CASE call[c].task # t
        BY <1>2, <4>1, <3>3 DEF Write, Lifecycle!Legal
      <4>2. CASE call[c].task = t /\ call[c].saw # status[t]
        <5>1. c \in Plain
          BY <1>2, <3>3, <4>2 DEF Write, LockedSeesCurrent, Callers
        <5> QED
          BY <3>3, <4>2, <5>1 DEF Write, Overtaken
      <4>3. CASE call[c].task = t /\ call[c].saw = status[t]
        <5>1. status'[t] = call[c].to /\ call[c].to \in ValidTransitions(status[t])
          BY <1>2, <3>3, <4>3 DEF Write
        <5> QED
          BY <5>1, SameTable DEF Lifecycle!Legal, Lifecycle!Moved
      <4> QED
        BY <4>1, <4>2, <4>3
    <3> QED
      BY <1>2, <3>1, <3>2, <3>3 DEF Next, PlainRead, LockedRead, Select, Rollback, vars
  <2>3. ASSUME NEW t \in Tasks, t \in Overtaken', t \notin Overtaken
        PROVE  status'[t] # status[t]
    <3> SUFFICES ASSUME status'[t] = status[t] PROVE FALSE
      OBVIOUS
    <3>1. PICK c \in Plain : call'[c] # Idle /\ call'[c].task = t /\ call'[c].saw # status'[t]
      BY <2>3 DEF Overtaken
    <3>2. CASE call'[c] = call[c]
      BY <2>3, <3>1, <3>2 DEF Overtaken
    <3>3. ASSUME NEW d \in Callers, NEW u \in Tasks, NEW to \in Status, Select(d, u, to) PROVE FALSE
      <4>1. CASE d = c
        BY <1>2, <3>1, <3>3, <4>1 DEF Select, Callers
      <4>2. CASE d # c
        BY <1>2, <3>2, <3>3, <4>2 DEF Select, Callers
      <4> QED
        BY <4>1, <4>2
    <3>4. ASSUME NEW d \in Callers, Write(d) \/ Rollback(d) PROVE FALSE
      <4>1. CASE d = c
        BY <1>2, <3>1, <3>4, <4>1 DEF Write, Rollback, Callers
      <4>2. CASE d # c
        BY <1>2, <3>2, <3>4, <4>2 DEF Write, Rollback, Callers
      <4> QED
        BY <4>1, <4>2
    <3> QED
      BY <1>2, <3>2, <3>3, <3>4 DEF Next, PlainRead, LockedRead, Insert, vars
  <2> QED
    BY <2>1, <2>2, <2>3 DEF Lifecycle!RacyNext
<1> QED
  BY <1>1, <1>2, TransactionInvariant, PTL DEF Spec, OnlyTheOvertakenStray, Lifecycle!RacySpec
===============================================================================
