------------------------------ MODULE LeaseProofs ------------------------------
(***************************************************************************)
(* Proofs about the two users of the lease table: PaneSend, for every      *)
(* number of attempts, panes and keys and every choice of the time         *)
(* constants that keeps the stated relation, and ResourceLocks, for every  *)
(* number of agents, operators, projects and resources.                    *)
(***************************************************************************)
EXTENDS PaneSend, ResourceLocks, TLAPS

\* The clock never passes the end of a running attempt's phase, and a
\* statement waiting for the write lock took its stamp at most LockWait ago.
PhaseOK ==
    \A a \in Attempts :
        /\ pc[a] \in Live => stamp[a] <= now /\ now <= due[a]
        /\ pc[a] \in {"claiming", "acquiring"} => due[a] = stamp[a] + LockWait

\* A typing attempt owns the row of its pane, and the row outlives its send.
LeaseHeld ==
    \A a \in Attempts : pc[a] = "sending" =>
        /\ leases[pane[a]].owner = a
        /\ due[a] <= leases[pane[a]].expires

PaneInv == TypeOK /\ PhaseOK /\ LeaseHeld

-------------------------------------------------------------------------------
\* Every reachable state is well typed: in particular no step leaves a row or
\* an attempt half-written.
LEMMA TypeStep == TypeOK /\ [Next]_vars => TypeOK'
<1> SUFFICES ASSUME TypeOK, [Next]_vars PROVE TypeOK'
  OBVIOUS
<1> USE PaneSendAssumption, LeaseAssumption DEF TypeOK, ClaimRow, LeaseRow, Live, call, timers
\* The attempt ends, or enters a phase that needs no key, or a key it has.
<1>a. ASSUME NEW a \in Attempts, NEW h \in {"done", "dead"}, End(a, h),
             now' = now, leases' \in [Panes -> LeaseRow], claims' \in [Keys -> ClaimRow],
             UNCHANGED <<born, typed, call>>
      PROVE TypeOK'
  BY <1>a DEF End
<1>b. ASSUME NEW a \in Attempts, NEW f \in Live, NEW d \in Nat, NEW dl \in Nat \cup {-1},
             Enter(a, f, d, dl), f \in {"claiming", "storing"} => key[a] \in Keys,
             now' = now, leases' \in [Panes -> LeaseRow], claims' \in [Keys -> ClaimRow],
             UNCHANGED <<born, typed, call>>
      PROVE TypeOK'
  BY <1>b DEF Enter
<1>c. ASSUME NEW a \in Attempts, Answer(a),
             now' = now, leases' \in [Panes -> LeaseRow], claims' \in [Keys -> ClaimRow],
             UNCHANGED <<born, typed, call>>
      PROVE TypeOK'
  <2>1. CASE key[a] = NoKey /\ End(a, "done")
    BY <1>a, <1>c, <2>1
  <2>2. CASE key[a] # NoKey /\ Enter(a, "storing", LockWait, -1)
    BY <1>b, <1>c, <2>2
  <2> QED
    BY <1>c, <2>1, <2>2 DEF Answer
<1>1. ASSUME NEW a \in Attempts, NEW p \in Panes, NEW k \in Keys \cup {NoKey}, Begin(a, p, k)
      PROVE TypeOK'
  BY <1>1 DEF Begin, Enter
<1>2. ASSUME NEW a \in Attempts, ClaimWin(a) PROVE TypeOK'
  BY <1>2 DEF ClaimWin, Enter
<1>3. ASSUME NEW a \in Attempts, ClaimLose(a) PROVE TypeOK'
  BY <1>3, <1>a DEF ClaimLose
<1>4. ASSUME NEW a \in Attempts, AcquireWin(a) PROVE TypeOK'
  BY <1>4 DEF AcquireWin, Acquired, Enter
<1>5. ASSUME NEW a \in Attempts, AcquireRetry(a) PROVE TypeOK'
  BY <1>5 DEF AcquireRetry, Enter
<1>6. ASSUME NEW a \in Attempts, PaneBusy(a) PROVE TypeOK'
  BY <1>6, <1>c DEF PaneBusy
<1>7. ASSUME NEW a \in Attempts, Type(a) PROVE TypeOK'
  BY <1>7 DEF Type
<1>8. ASSUME NEW a \in Attempts, SendReturns(a) PROVE TypeOK'
  BY <1>8, <1>b DEF SendReturns
<1>9. ASSUME NEW a \in Attempts, SendRaises(a) PROVE TypeOK'
  BY <1>9, <1>b DEF SendRaises
<1>10. ASSUME NEW a \in Attempts, Release(a) PROVE TypeOK'
  <2>1. leases' \in [Panes -> LeaseRow]
    BY <1>10 DEF Release, Released, NoLease
  <2>2. CASE pc[a] = "unwinding" /\ End(a, "dead")
    BY <1>10, <1>a, <2>1, <2>2 DEF Release
  <2>3. CASE pc[a] = "releasing" /\ Answer(a)
    BY <1>10, <1>c, <2>1, <2>3 DEF Release
  <2> QED
    BY <1>10, <2>2, <2>3 DEF Release
<1>11. ASSUME NEW a \in Attempts, StoreResult(a) PROVE TypeOK'
  <2>1. claims' \in [Keys -> ClaimRow]
    BY <1>11 DEF StoreResult
  <2> QED
    BY <1>11, <1>a, <2>1 DEF StoreResult
<1>12. ASSUME NEW a \in Attempts, Abort(a) PROVE TypeOK'
  BY <1>12, <1>a DEF Abort
<1>13. CASE Prune
  BY <1>13 DEF Prune, Pruned, NoLease
<1>14. CASE Tick
  BY <1>14 DEF Tick
<1>15. CASE UNCHANGED vars
  BY <1>15 DEF vars
<1> QED
  BY <1>1, <1>2, <1>3, <1>4, <1>5, <1>6, <1>7, <1>8, <1>9, <1>10, <1>11, <1>12, <1>13,
     <1>14, <1>15 DEF Next

\* The initial state satisfies the invariant of the exclusion proof.
LEMMA InitInv == Init => PaneInv
  BY PaneSendAssumption, LeaseAssumption
     DEF Init, PaneInv, TypeOK, PhaseOK, LeaseHeld, ClaimRow, LeaseRow, Live,
         NoClaim, NoLease

\* The spec keeps its type invariant: rows, claims and attempts only ever take
\* the shapes the tables and the send path give them.
THEOREM TypeCorrect == Spec => []TypeOK
<1>1. Init => TypeOK
  BY InitInv DEF PaneInv
<1> QED
  BY <1>1, TypeStep, PTL DEF Spec

-------------------------------------------------------------------------------
(* Mutual exclusion on a pane.                                             *)

\* What the clock may have done to a running attempt is preserved: Tick is
\* the only step that moves it and stops at every phase's end.
LEMMA PhaseStep == TypeOK /\ PhaseOK /\ [Next]_vars => PhaseOK'
<1> SUFFICES ASSUME TypeOK, PhaseOK, [Next]_vars PROVE PhaseOK'
  OBVIOUS
<1> USE PaneSendAssumption, LeaseAssumption DEF TypeOK, PhaseOK, Live, call, timers
<1>a. ASSUME NEW a \in Attempts, NEW h \in {"done", "dead"}, End(a, h), now' = now
      PROVE PhaseOK'
  BY <1>a DEF End
<1>b. ASSUME NEW a \in Attempts, NEW f \in Live, NEW d \in Nat, NEW dl,
             Enter(a, f, d, dl), f \in {"claiming", "acquiring"} => d = LockWait, now' = now
      PROVE PhaseOK'
  BY <1>b DEF Enter
<1>c. ASSUME NEW a \in Attempts, Answer(a), now' = now PROVE PhaseOK'
  BY <1>a, <1>b, <1>c DEF Answer
<1>1. ASSUME NEW a \in Attempts, NEW p \in Panes, NEW k \in Keys \cup {NoKey}, Begin(a, p, k)
      PROVE PhaseOK'
  BY <1>1, <1>b DEF Begin
<1>2. ASSUME NEW a \in Attempts, ClaimWin(a) \/ AcquireWin(a) \/ AcquireRetry(a)
      PROVE PhaseOK'
  BY <1>2, <1>b DEF ClaimWin, AcquireWin, AcquireRetry
<1>3. ASSUME NEW a \in Attempts, SendReturns(a) \/ SendRaises(a) PROVE PhaseOK'
  BY <1>3, <1>b DEF SendReturns, SendRaises
<1>4. ASSUME NEW a \in Attempts, ClaimLose(a) \/ StoreResult(a) \/ Abort(a) PROVE PhaseOK'
  BY <1>4, <1>a DEF ClaimLose, StoreResult, Abort
<1>5. ASSUME NEW a \in Attempts, PaneBusy(a) \/ Release(a) PROVE PhaseOK'
  BY <1>5, <1>a, <1>c DEF PaneBusy, Release
<1>6. ASSUME NEW a \in Attempts, Type(a) PROVE PhaseOK'
  BY <1>6 DEF Type
<1>7. CASE Prune
  BY <1>7 DEF Prune
<1>8. CASE Tick
  BY <1>8 DEF Tick
<1>9. CASE UNCHANGED vars
  BY <1>9 DEF vars
<1> QED
  BY <1>1, <1>2, <1>3, <1>4, <1>5, <1>6, <1>7, <1>8, <1>9 DEF Next

\* A sending attempt keeps its row: no other acquire, release or prune can
\* touch a row that expires no earlier than the send ends.
LEMMA LeaseStep ==
    ASSUME LeaseCoversSend, PaneInv, [Next]_vars PROVE LeaseHeld'
<1> USE PaneSendAssumption, LeaseAssumption DEF PaneInv, TypeOK, PhaseOK, LeaseHeld, LeaseRow,
        Live, call, timers, LeaseCoversSend
\* The steps that leave the leases alone and make no attempt start sending.
<1>a. ASSUME NEW a \in Attempts, NEW f, f # "sending", pc' = [pc EXCEPT ![a] = f],
             due' = [due EXCEPT ![a] = due'[a]], UNCHANGED <<leases, pane>>
      PROVE LeaseHeld'
  BY <1>a
<1>b. ASSUME NEW a \in Attempts, NEW h \in {"done", "dead"}, End(a, h), UNCHANGED <<leases, pane>>
      PROVE LeaseHeld'
  BY <1>a, <1>b DEF End
<1>c. ASSUME NEW a \in Attempts, NEW f \in Live \ {"sending"}, NEW d, NEW dl,
             Enter(a, f, d, dl), UNCHANGED <<leases, pane>>
      PROVE LeaseHeld'
  BY <1>a, <1>c DEF Enter
<1>1. ASSUME NEW a \in Attempts, NEW p \in Panes, NEW k \in Keys \cup {NoKey}, Begin(a, p, k)
      PROVE LeaseHeld'
  BY <1>1 DEF Begin, Enter
<1>2. ASSUME NEW a \in Attempts, ClaimWin(a) \/ AcquireRetry(a) \/ SendReturns(a) \/ SendRaises(a)
      PROVE LeaseHeld'
  BY <1>2, <1>c DEF ClaimWin, AcquireRetry, SendReturns, SendRaises
<1>3. ASSUME NEW a \in Attempts, ClaimLose(a) \/ StoreResult(a) \/ Abort(a) \/ PaneBusy(a)
      PROVE LeaseHeld'
  BY <1>3, <1>b, <1>c DEF ClaimLose, StoreResult, Abort, PaneBusy, Answer
<1>4. ASSUME NEW a \in Attempts, AcquireWin(a) PROVE LeaseHeld'
  <2>1. SUFFICES ASSUME NEW b \in Attempts, pc'[b] = "sending"
                 PROVE /\ leases'[pane'[b]].owner = b
                       /\ due'[b] <= leases'[pane'[b]].expires
    OBVIOUS
  <2>2. CASE b = a
    BY <1>4, <2>2 DEF AcquireWin, Acquired, Enter
  <2>3. CASE b # a
    <3>1. pc[b] = "sending" /\ due'[b] = due[b] /\ pane'[b] = pane[b]
      BY <1>4, <2>1, <2>3 DEF AcquireWin, Enter
    <3>2. pane[b] # pane[a]
      BY <1>4, <2>3, <3>1 DEF AcquireWin, CanAcquire
    <3>3. leases'[pane[b]] = leases[pane[b]]
      BY <1>4, <3>2 DEF AcquireWin
    <3> QED
      BY <3>1, <3>3
  <2> QED
    BY <2>2, <2>3
<1>5. ASSUME NEW a \in Attempts, Release(a) PROVE LeaseHeld'
  <2>1. SUFFICES ASSUME NEW b \in Attempts, pc'[b] = "sending"
                 PROVE /\ leases'[pane'[b]].owner = b
                       /\ due'[b] <= leases'[pane'[b]].expires
    OBVIOUS
  <2>2. b # a
    BY <1>5, <2>1 DEF Release, Answer, End, Enter
  <2>3. pc[b] = "sending" /\ due'[b] = due[b] /\ pane'[b] = pane[b]
    BY <1>5, <2>1, <2>2 DEF Release, Answer, End, Enter
  <2>4. leases'[pane[b]] = leases[pane[b]]
    BY <1>5, <2>2, <2>3 DEF Release, Released
  <2> QED
    BY <2>3, <2>4
<1>6. ASSUME NEW a \in Attempts, Type(a) PROVE LeaseHeld'
  BY <1>6 DEF Type
<1>7. CASE Prune
  BY <1>7 DEF Prune, Pruned
<1>8. CASE Tick
  BY <1>8 DEF Tick
<1>9. CASE UNCHANGED vars
  BY <1>9 DEF vars
<1> QED
  BY <1>1, <1>2, <1>3, <1>4, <1>5, <1>6, <1>7, <1>8, <1>9 DEF Next

\* Two attempts never type into one pane at once, however many processes send
\* to however many panes, as long as the lease outlives the wait for the
\* database plus one send.
THEOREM MutualExclusion ==
    ASSUME LeaseCoversSend PROVE Spec => []PaneExclusive
<1>1. Init => PaneInv
  BY InitInv
<1>2. PaneInv /\ [Next]_vars => PaneInv'
  BY TypeStep, PhaseStep, LeaseStep DEF PaneInv
<1>3. PaneInv => PaneExclusive
  BY DEF PaneInv, LeaseHeld, PaneExclusive
<1> QED
  BY <1>1, <1>2, <1>3, PTL DEF Spec

-------------------------------------------------------------------------------
(* Who is granted a key, and when.                                         *)

\* The claims an attempt was granted are rows, none younger than the row is
\* now; an attempt that has not got past its claim was granted none.
GrantOK ==
    \A a \in Attempts :
        /\ pc[a] \in {"idle", "claiming"} => born[a] = -1
        /\ born[a] # -1 => /\ key[a] \in Keys
                           /\ claims[key[a]].held
                           /\ born[a] <= claims[key[a]].created

\* Only an existing row has a result.
ResultOK == \A k \in Keys : ~claims[k].held => claims[k].result = NoOwner

KeyInv == TypeOK /\ PhaseOK /\ ResultOK /\ GrantOK /\ ClaimsAreSpaced

\* What one attempt does to the claims leaves every other grant as it was.
LEMMA KeyStep == KeyInv /\ [Next]_vars => ResultOK' /\ GrantOK' /\ ClaimsAreSpaced'
<1> SUFFICES ASSUME KeyInv, [Next]_vars PROVE ResultOK' /\ GrantOK' /\ ClaimsAreSpaced'
  OBVIOUS
<1> USE PaneSendAssumption, LeaseAssumption DEF KeyInv, TypeOK, PhaseOK, ResultOK, GrantOK,
        ClaimRow, Live, call, timers
<1> DEFINE Goal == ResultOK' /\ GrantOK' /\ ClaimsAreSpaced'
\* A step of an attempt past its claim, or one that refuses it.
<1>a. ASSUME NEW a \in Attempts, NEW f, f \notin {"idle", "claiming"}, pc' = [pc EXCEPT ![a] = f],
             UNCHANGED <<claims, born, key>>
      PROVE Goal
  BY <1>a DEF ClaimsAreSpaced
<1>b. ASSUME UNCHANGED <<claims, born, pc, key>> PROVE Goal
  BY <1>b DEF ClaimsAreSpaced
<1>1. ASSUME NEW a \in Attempts, NEW p \in Panes, NEW k \in Keys \cup {NoKey}, Begin(a, p, k)
      PROVE Goal
  <2>1. born[a] = -1 /\ born' = born /\ claims' = claims
    BY <1>1 DEF Begin
  <2>2. pc' = [pc EXCEPT ![a] = IF k = NoKey THEN "acquiring" ELSE "claiming"]
    BY <1>1 DEF Begin, Enter
  <2>3. key' = [key EXCEPT ![a] = k]
    BY <1>1 DEF Begin
  <2>4. GrantOK'
    BY <2>1, <2>2, <2>3
  <2>5. ClaimsAreSpaced'
    BY <2>1, <2>3 DEF ClaimsAreSpaced
  <2> QED
    BY <2>1, <2>4, <2>5
<1>2. ASSUME NEW a \in Attempts, ClaimWin(a) PROVE Goal
  <2>0. PICK k \in Keys, t \in Nat : k = key[a] /\ t = stamp[a]
    BY <1>2 DEF ClaimWin
  <2>1. /\ claims' = [claims EXCEPT ![k] = [held |-> TRUE, created |-> t, result |-> NoOwner]]
        /\ born' = [born EXCEPT ![a] = t]
        /\ pc' = [pc EXCEPT ![a] = "acquiring"]
        /\ key' = key
    BY <1>2, <2>0 DEF ClaimWin, Enter
  \* The row was absent, or so old that no stamp of a waiting claim is near it.
  <2>2. claims[k].held => claims[k].created + ClaimStale < t + LockWait
    BY <1>2, <2>0 DEF ClaimWin, CanClaim
  <2>3. ASSUME NEW b \in Attempts, born[b] # -1, key[b] = k
        PROVE  born[b] + ClaimStale < t + LockWait /\ born[b] <= t /\ b # a
    BY <1>2, <2>0, <2>2, <2>3 DEF ClaimWin
  <2>4. ResultOK'
    BY <2>1
  <2>5. GrantOK'
    BY <2>0, <2>1, <2>3
  <2>6. ClaimsAreSpaced'
    BY <2>0, <2>1, <2>3 DEF ClaimsAreSpaced
  <2> QED
    BY <2>4, <2>5, <2>6
<1>3. ASSUME NEW a \in Attempts, ClaimLose(a) \/ Abort(a) PROVE Goal
  BY <1>3, <1>a DEF ClaimLose, Abort, End
<1>4. ASSUME NEW a \in Attempts,
             AcquireWin(a) \/ AcquireRetry(a) \/ PaneBusy(a) \/ SendReturns(a) \/ SendRaises(a)
               \/ Release(a)
      PROVE Goal
  BY <1>4, <1>a DEF AcquireWin, AcquireRetry, PaneBusy, SendReturns, SendRaises, Release, Answer,
                    Enter, End
<1>5. ASSUME NEW a \in Attempts, StoreResult(a) PROVE Goal
  <2>0. PICK k \in Keys : k = key[a]
    BY <1>5 DEF StoreResult
  <2>1. /\ claims' = [claims EXCEPT ![k] = IF @.held THEN [@ EXCEPT !.result = a] ELSE @]
        /\ pc' = [pc EXCEPT ![a] = "done"]
        /\ UNCHANGED <<born, key>>
    BY <1>5, <2>0 DEF StoreResult, End
  <2>2. ASSUME NEW j \in Keys
        PROVE  claims'[j].held = claims[j].held /\ claims'[j].created = claims[j].created
    BY <2>1
  <2>3. ResultOK'
    BY <2>1
  <2>4. GrantOK'
    BY <2>1, <2>2
  <2>5. ClaimsAreSpaced'
    BY <2>1 DEF ClaimsAreSpaced
  <2> QED
    BY <2>3, <2>4, <2>5
<1>6. ASSUME NEW a \in Attempts, Type(a) PROVE Goal
  BY <1>6, <1>b DEF Type
<1>7. CASE Prune \/ Tick \/ UNCHANGED vars
  BY <1>7, <1>b DEF Prune, Tick, vars
<1> QED
  BY <1>1, <1>2, <1>3, <1>4, <1>5, <1>6, <1>7 DEF Next

\* The key invariant holds in every reachable state.
LEMMA KeyInvariant == Spec => []KeyInv
<1>1. Init => KeyInv
  BY InitInv DEF Init, KeyInv, PaneInv, ResultOK, GrantOK, ClaimsAreSpaced, NoClaim
<1>2. KeyInv /\ [Next]_vars => KeyInv'
  BY TypeStep, PhaseStep, KeyStep DEF KeyInv
<1> QED
  BY <1>1, <1>2, PTL DEF Spec

\* However many processes send under however many keys, and for any times of
\* which the threshold covers the database wait: two grants of one key are
\* further apart than the threshold less that wait.
THEOREM ClaimsStayApart == Spec => []ClaimsAreSpaced
<1>1. KeyInv => ClaimsAreSpaced
  BY DEF KeyInv
<1> QED
  BY <1>1, KeyInvariant, PTL

\* A key that has a stored result is never granted again and never loses it,
\* although store_idempotent_result writes over whatever is there.
THEOREM AnsweredIsFinal == Spec => AnsweredKeyIsClosed
<1> DEFINE Closed == \A k \in Keys : claims[k].result # NoOwner
                        => /\ claims'[k].result # NoOwner
                           /\ claims'[k].created = claims[k].created
<1>1. KeyInv /\ [Next]_vars => [Closed]_vars
  <2> SUFFICES ASSUME KeyInv, [Next]_vars PROVE Closed
    OBVIOUS
  <2>1. ASSUME NEW a \in Attempts, ClaimWin(a) PROVE Closed
    BY <2>1 DEF ClaimWin, CanClaim, KeyInv, ResultOK, TypeOK
  <2>2. ASSUME NEW a \in Attempts, StoreResult(a) PROVE Closed
    BY <2>2, LeaseAssumption, PaneSendAssumption DEF StoreResult, KeyInv, TypeOK, ClaimRow
  <2>3. CASE UNCHANGED claims
    BY <2>3
  <2>4. (\E a \in Attempts : ClaimWin(a) \/ StoreResult(a)) \/ UNCHANGED claims
    BY DEF Next, vars, Begin, ClaimLose, AcquireWin, AcquireRetry, PaneBusy, Type, SendReturns,
           SendRaises, Release, Abort, Prune, Tick
  <2> QED
    BY <2>1, <2>2, <2>3, <2>4
<1> QED
  BY <1>1, KeyInvariant, PTL DEF Spec, AnsweredKeyIsClosed

-------------------------------------------------------------------------------
\* ResourceLocks.

\* The clock an acquire or a renew stamped its statement with is never ahead
\* of the clock, and an agent that only bundles sends no such statement.
StampOK ==
    \A o \in Owners : request[o].op # "none" => request[o].stamp <= now /\ o \notin Bundlers

\* What an agent counts on is in the table with the very expiry it was told,
\* or an operator broke it.
Backed ==
    \A o \in Owners, k \in Resources :
        belief[o][k] >= now
        => \/ locks[k] = [owner |-> o, expires |-> belief[o][k]]
           \/ Broken(o, k, belief[o][k])

LockInv == LockTypeOK /\ StampOK /\ Backed /\ NoPartialHold

\* There is a resource to name in an idle request: NoRequest and NoReading
\* are well typed.
LEMMA IdleRequest ==
    /\ NoRequest \in Request /\ NoRequest.op = "none"
    /\ NoReading \in Reading
<1>1. (CHOOSE k \in Resources : TRUE) \in Resources
  <2>1. PICK p \in Projects, n \in Names : TRUE
    BY ResourceAssumption
  <2>2. <<p, n>> \in Resources
    BY DEF Resources
  <2> QED
    BY <2>2
<1> HIDE DEF Resources
<1> QED
  BY <1>1 DEF NoRequest, NoReading, Request, Reading

\* Every step of the store leaves well-typed rows, beliefs and log entries; in
\* particular force_release never logs a lock nobody had.
LEMMA LockTypeStep == LockTypeOK /\ [LockNext]_lockVars => LockTypeOK'
<1> SUFFICES ASSUME LockTypeOK, [LockNext]_lockVars PROVE LockTypeOK'
  OBVIOUS
<1> USE ResourceAssumption, LeaseAssumption, IdleRequest DEF LockTypeOK, LeaseRow
<1>k. \A p \in Projects : ProjectKeys(p) \subseteq Resources
  BY DEF ProjectKeys, Resources
<1>1. ASSUME NEW o \in Owners, NEW op \in {"acquire", "renew"}, NEW k \in Resources, Stamp(o, op, k)
      PROVE LockTypeOK'
  BY <1>1 DEF Stamp, Request
<1>2. ASSUME NEW o \in Owners, AcquireTakes(o) \/ RenewTakes(o) \/ Refused(o) PROVE LockTypeOK'
  <2>0. request[o].key \in Resources /\ request[o].stamp \in Nat
    BY DEF Request
  <2>1. CASE AcquireTakes(o) \/ RenewTakes(o)
    <3>0. PICK k \in Resources, s \in Nat : k = request[o].key /\ s = request[o].stamp
      BY <2>0
    <3>1. /\ locks' = [locks EXCEPT ![k] = [owner |-> o, expires |-> s + TTL]]
          /\ belief' = [belief EXCEPT ![o][k] = s + TTL]
          /\ request' = [request EXCEPT ![o] = NoRequest]
          /\ UNCHANGED <<now, overrides, reading>>
      BY <2>1, <3>0 DEF AcquireTakes, RenewTakes, Acquired
    <3>2. [owner |-> o, expires |-> s + TTL] \in LeaseRow
      OBVIOUS
    <3> QED
      BY <3>1, <3>2
  <2>2. CASE Refused(o)
    BY <2>0, <2>2 DEF Refused
  <2> QED
    BY <1>2, <2>1, <2>2
<1>3. ASSUME NEW o \in Owners, NEW K \in SUBSET Resources, AcquireMany(o, K) PROVE LockTypeOK'
  BY <1>3 DEF AcquireMany, Acquired
<1>4. ASSUME NEW o \in Owners, NEW k \in Resources, ReleaseLock(o, k) PROVE LockTypeOK'
  BY <1>4 DEF ReleaseLock, Released, NoLease
<1>5. ASSUME NEW o \in Owners, NEW K \in SUBSET Resources, ReleaseAll(o, K) PROVE LockTypeOK'
  BY <1>5 DEF ReleaseAll, Released, NoLease
<1>6. ASSUME NEW q \in Operators, ForceDelete(q) PROVE LockTypeOK'
  <2>0. reading[q].key \in Resources /\ reading[q].previous \in Owners \cup {NoOwner}
    BY DEF Reading
  <2>1. overrides' \subseteq Override
    BY <1>6, <2>0 DEF ForceDelete, Override
  <2> QED
    BY <1>6, <2>0, <2>1 DEF ForceDelete, NoLease
<1>7. ASSUME NEW q \in Operators, NEW k \in Resources, ForceRead(q, k) PROVE LockTypeOK'
  BY <1>7 DEF ForceRead, Reading
<1>8. CASE PruneLocks
  BY <1>8 DEF PruneLocks, Pruned, NoLease
<1>9. CASE LockTick
  BY <1>9 DEF LockTick
<1>10. CASE UNCHANGED lockVars
  BY <1>10 DEF lockVars
<1> QED
  BY <1>k, <1>1, <1>2, <1>3, <1>4, <1>5, <1>6, <1>7, <1>8, <1>9, <1>10 DEF LockNext

\* A statement that waits for the write lock carries a stamp of the past.
LEMMA StampStep == LockTypeOK /\ StampOK /\ [LockNext]_lockVars => StampOK'
<1> SUFFICES ASSUME LockTypeOK, StampOK, [LockNext]_lockVars PROVE StampOK'
  OBVIOUS
<1> USE IdleRequest DEF LockTypeOK, StampOK, Request
<1>1. ASSUME NEW o \in Owners, NEW op \in {"acquire", "renew"}, NEW k \in Resources, Stamp(o, op, k)
      PROVE StampOK'
  BY <1>1 DEF Stamp
<1>2. ASSUME NEW o \in Owners, AcquireTakes(o) \/ RenewTakes(o) \/ Refused(o) PROVE StampOK'
  BY <1>2 DEF AcquireTakes, RenewTakes, Refused
<1>3. CASE LockTick
  BY <1>3 DEF LockTick
<1>4. ASSUME UNCHANGED <<now, request>> PROVE StampOK'
  BY <1>4
<1> QED
  BY <1>1, <1>2, <1>3, <1>4
     DEF LockNext, AcquireMany, ReleaseLock, ReleaseAll, ForceDelete, ForceRead, PruneLocks, lockVars

\* The log of broken locks only grows.
LEMMA BrokenStays ==
    ASSUME NEW o, NEW k, NEW t, Broken(o, k, t), [LockNext]_lockVars
    PROVE  Broken(o, k, t)'
<1>1. overrides \subseteq overrides'
  BY DEF LockNext, Stamp, AcquireTakes, RenewTakes, Refused, AcquireMany, ReleaseLock,
         ReleaseAll, ForceDelete, ForceRead, PruneLocks, LockTick, lockVars
<1> QED
  BY <1>1 DEF Broken

\* force_release that deletes a row logs whose it was and until when.
LEMMA ForceDeleteLogs ==
    ASSUME NEW q \in Operators, ForceDelete(q), NEW o \in Owners, NEW t,
           NEW k, k = reading[q].key, locks[k].owner = o, locks[k].expires = t
    PROVE  Broken(o, k, t)'
<1>1. o # NoOwner
  BY LeaseAssumption
<1>2. [key |-> k, previous |-> reading[q].previous, broken |-> o, until |-> t] \in overrides'
  BY <1>1 DEF ForceDelete
<1> QED
  BY <1>2 DEF Broken

\* What an agent was told stays true until it lapses: another agent's
\* statement never fits a live row, however old its stamp, and a prune never
\* meets one.
LEMMA BackedStep == LockInv /\ [LockNext]_lockVars => Backed'
<1> SUFFICES ASSUME LockInv, [LockNext]_lockVars, NEW o \in Owners, NEW k \in Resources,
                    NEW t, t = belief'[o][k], t >= now'
             PROVE  locks'[k] = [owner |-> o, expires |-> t] \/ Broken(o, k, t)'
  BY DEF Backed, Broken
<1> USE ResourceAssumption, LeaseAssumption DEF LockInv, LockTypeOK, StampOK, Request, LeaseRow
<1>now. now \in Nat /\ now' \in Nat /\ now <= now'
  BY DEF LockNext, Stamp, AcquireTakes, RenewTakes, Refused, AcquireMany, ReleaseLock,
         ReleaseAll, ForceDelete, ForceRead, PruneLocks, LockTick, lockVars
\* An agent that was told nothing new: its row has to stay.
<1>a. ASSUME t = belief[o][k], locks[k] = [owner |-> o, expires |-> t] => locks'[k] = locks[k]
      PROVE  locks'[k] = [owner |-> o, expires |-> t] \/ Broken(o, k, t)'
  <2>1. locks[k] = [owner |-> o, expires |-> t] \/ Broken(o, k, t)
    BY <1>a, <1>now DEF Backed
  <2> QED
    BY <2>1, <1>a, BrokenStays
<1>1. ASSUME NEW p \in Owners, AcquireTakes(p) \/ RenewTakes(p)
      PROVE  locks'[k] = [owner |-> o, expires |-> t] \/ Broken(o, k, t)'
  <2>0. request[p].key \in Resources /\ request[p].stamp \in Nat /\ request[p].stamp <= now
    BY <1>1 DEF AcquireTakes, RenewTakes
  <2>1. CASE p = o /\ k = request[p].key
    BY <1>1, <2>0, <2>1 DEF AcquireTakes, RenewTakes, Acquired
  <2>2. CASE k # request[p].key
    BY <1>1, <1>a, <2>0, <2>2 DEF AcquireTakes, RenewTakes
  <2>3. CASE p # o /\ k = request[p].key
    <3>1. t = belief[o][k]
      BY <1>1, <2>0, <2>3 DEF AcquireTakes, RenewTakes
    <3>2. locks[k] # [owner |-> o, expires |-> t]
      BY <1>1, <1>now, <2>0, <2>3 DEF AcquireTakes, RenewTakes, CanAcquire, CanRenew
    <3> QED
      BY <1>a, <3>1, <3>2
  <2> QED
    BY <2>1, <2>2, <2>3
<1>2. ASSUME NEW p \in Owners, Refused(p)
      PROVE  locks'[k] = [owner |-> o, expires |-> t] \/ Broken(o, k, t)'
  <2>1. t = belief[o][k]
    BY <1>2, <1>now DEF Refused
  <2> QED
    BY <1>2, <1>a, <2>1 DEF Refused
<1>3. ASSUME NEW p \in Owners, NEW K \in SUBSET Resources, AcquireMany(p, K)
      PROVE  locks'[k] = [owner |-> o, expires |-> t] \/ Broken(o, k, t)'
  <2>1. CASE p = o /\ k \in K
    BY <1>3, <2>1 DEF AcquireMany, Acquired
  <2>2. CASE k \notin K
    BY <1>3, <1>a, <2>2 DEF AcquireMany
  <2>3. CASE p # o /\ k \in K
    <3>1. t = belief[o][k]
      BY <1>3, <2>3 DEF AcquireMany
    <3>2. CanAcquire(locks[k], p, now) /\ t >= now
      BY <1>3, <2>3 DEF AcquireMany
    <3>3. locks[k] # [owner |-> o, expires |-> t]
      BY <1>now, <2>3, <3>1, <3>2 DEF CanAcquire
    <3> QED
      BY <1>a, <3>1, <3>3
  <2> QED
    BY <2>1, <2>2, <2>3
<1>4. ASSUME NEW p \in Owners, NEW r \in Resources, ReleaseLock(p, r)
      PROVE  locks'[k] = [owner |-> o, expires |-> t] \/ Broken(o, k, t)'
  <2>1. t = belief[o][k] /\ (p # o \/ k # r)
    BY <1>4, <1>now DEF ReleaseLock
  <2>2. locks[k] = [owner |-> o, expires |-> t] => locks'[k] = locks[k]
    BY <1>4, <2>1 DEF ReleaseLock, Released
  <2> QED
    BY <1>a, <2>1, <2>2
<1>5. ASSUME NEW p \in Owners, NEW K \in SUBSET Resources, ReleaseAll(p, K)
      PROVE  locks'[k] = [owner |-> o, expires |-> t] \/ Broken(o, k, t)'
  <2>1. t = belief[o][k] /\ (p # o \/ k \notin K)
    BY <1>5, <1>now DEF ReleaseAll
  <2>2. locks[k] = [owner |-> o, expires |-> t] => locks'[k] = locks[k]
    BY <1>5, <2>1 DEF ReleaseAll, Released
  <2> QED
    BY <1>a, <2>1, <2>2
<1>6. ASSUME NEW q \in Operators, ForceDelete(q)
      PROVE  locks'[k] = [owner |-> o, expires |-> t] \/ Broken(o, k, t)'
  <2>0. t = belief[o][k]
    BY <1>6 DEF ForceDelete
  <2>1. CASE k # reading[q].key
    BY <1>6, <1>a, <2>0, <2>1 DEF ForceDelete
  <2>2. CASE k = reading[q].key /\ locks[k] = [owner |-> o, expires |-> t]
    BY <1>6, <2>2, ForceDeleteLogs
  <2>3. CASE locks[k] # [owner |-> o, expires |-> t]
    BY <1>a, <2>0, <2>3
  <2> QED
    BY <2>1, <2>2, <2>3
<1>7. CASE PruneLocks
  <2>1. t = belief[o][k]
    BY <1>7 DEF PruneLocks
  <2>2. locks[k] = [owner |-> o, expires |-> t] => locks'[k] = locks[k]
    BY <1>7, <2>1 DEF PruneLocks, Pruned
  <2> QED
    BY <1>a, <2>1, <2>2
<1>8. ASSUME UNCHANGED <<locks, belief>>
      PROVE  locks'[k] = [owner |-> o, expires |-> t] \/ Broken(o, k, t)'
  BY <1>8, <1>a
<1>k. \A p \in Projects : ProjectKeys(p) \subseteq Resources
  BY DEF ProjectKeys, Resources
<1> QED
  BY <1>k, <1>1, <1>2, <1>3, <1>4, <1>5, <1>6, <1>7, <1>8
     DEF LockNext, Stamp, ForceRead, LockTick, lockVars

\* Two resources of one project are in a project's bundle together.
LEMMA BundleIsWhole ==
    ASSUME NEW p \in Projects, NEW q \in Projects, NEW j \in ProjectKeys(p), NEW k \in ProjectKeys(p)
    PROVE  /\ j \in Resources /\ k \in Resources
           /\ j \in ProjectKeys(q) <=> k \in ProjectKeys(q)
BY DEF ProjectKeys, Resources

\* A bundle is taken together, given back together and pruned together.  Only
\* an operator takes one lock out of it, and that is logged.
LEMMA BundleStep == LockInv /\ [LockNext]_lockVars => NoPartialHold'
<1> SUFFICES ASSUME LockInv, [LockNext]_lockVars PROVE NoPartialHold'
  OBVIOUS
<1>t. \A r \in Resources : locks'[r].expires \in Nat
  BY LockTypeStep DEF LockInv, LockTypeOK, LeaseRow
<1> SUFFICES ASSUME NEW o \in Bundlers, NEW p \in Projects, NEW j \in ProjectKeys(p),
                    NEW k \in ProjectKeys(p), NEW t \in Nat,
                    locks'[j].owner = o, t = locks'[j].expires, t >= now'
             PROVE  locks'[k] = locks'[j] \/ Broken(o, k, t)'
  BY <1>t, BundleIsWhole DEF NoPartialHold, Broken
<1> USE ResourceAssumption, LeaseAssumption DEF LockInv, LockTypeOK, StampOK, Request, LeaseRow
<1>0. /\ j \in Resources /\ k \in Resources /\ o \in Owners /\ o # NoOwner
      /\ locks \in [Resources -> LeaseRow]
  BY BundleIsWhole
<1>now. now \in Nat /\ now' \in Nat /\ now <= now'
  BY DEF LockNext, Stamp, AcquireTakes, RenewTakes, Refused, AcquireMany, ReleaseLock,
         ReleaseAll, ForceDelete, ForceRead, PruneLocks, LockTick, lockVars
\* The lock on j is not new: the bundle was whole before the step.
<1>a. ASSUME locks'[j] = locks[j], locks[k] = locks[j] => locks'[k] = locks[k]
      PROVE  locks'[k] = locks'[j] \/ Broken(o, k, t)'
  <2>1. locks[k] = locks[j] \/ Broken(o, k, t)
    BY <1>a, <1>now, <1>0 DEF NoPartialHold
  <2> QED
    BY <2>1, <1>a, BrokenStays
<1>1. ASSUME NEW a \in Owners, AcquireTakes(a) \/ RenewTakes(a)
      PROVE  locks'[k] = locks'[j] \/ Broken(o, k, t)'
  <2>0. PICK r \in Resources, s \in Nat : r = request[a].key /\ s = request[a].stamp
    OBVIOUS
  <2>1. a \notin Bundlers /\ s <= now
    BY <1>1, <2>0 DEF AcquireTakes, RenewTakes
  <2>2. locks' = [locks EXCEPT ![r] = [owner |-> a, expires |-> s + TTL]] /\ now' = now
    BY <1>1, <2>0 DEF AcquireTakes, RenewTakes, Acquired
  <2>3. CanAcquire(locks[r], a, s)
    BY <1>1, <2>0 DEF AcquireTakes, RenewTakes, CanAcquire, CanRenew
  <2>4. j # r /\ locks'[j] = locks[j]
    BY <1>0, <2>1, <2>2
  <2>5. CASE k # r
    BY <1>a, <1>0, <2>2, <2>4, <2>5
  <2>6. CASE k = r
    <3>1. locks[k] # locks[j]
      BY <1>0, <1>now, <2>1, <2>2, <2>3, <2>4, <2>6 DEF CanAcquire
    <3> QED
      BY <1>a, <2>4, <3>1
  <2> QED
    BY <2>5, <2>6
<1>2. ASSUME NEW a \in Owners, NEW q \in Projects, NEW K \in SUBSET ProjectKeys(q),
             a \in Bundlers => K = ProjectKeys(q), AcquireMany(a, K)
      PROVE  locks'[k] = locks'[j] \/ Broken(o, k, t)'
  <2>1. /\ \A r \in Resources : locks'[r] = IF r \in K THEN [owner |-> a, expires |-> now + TTL]
                                             ELSE locks[r]
        /\ \A r \in K : CanAcquire(locks[r], a, now)
        /\ now' = now
    BY <1>2 DEF AcquireMany, Acquired
  <2>2. CASE j \in K
    <3>1. a = o
      BY <1>0, <2>1, <2>2
    <3>2. k \in K
      BY <1>2, <2>2, <3>1, BundleIsWhole
    <3> QED
      BY <1>0, <2>1, <2>2, <3>2
  <2>3. CASE j \notin K /\ k \notin K
    BY <1>0, <1>a, <2>1, <2>3
  <2>4. CASE j \notin K /\ k \in K
    <3>1. a # o
      BY <1>2, <2>4, BundleIsWhole
    <3>2. locks'[j] = locks[j] /\ CanAcquire(locks[k], a, now)
      BY <1>0, <2>1, <2>4
    <3>3. locks[k] # locks[j]
      BY <1>0, <1>now, <2>1, <3>1, <3>2 DEF CanAcquire
    <3> QED
      BY <1>a, <3>2, <3>3
  <2> QED
    BY <2>2, <2>3, <2>4
<1>3. ASSUME NEW a \in Owners, NEW r \in Resources, ReleaseLock(a, r)
      PROVE  locks'[k] = locks'[j] \/ Broken(o, k, t)'
  <2>1. a # o /\ locks' = [locks EXCEPT ![r] = Released(locks[r], a)]
    BY <1>3 DEF ReleaseLock
  <2>2. locks'[j] = locks[j] /\ locks[j].owner = o
    BY <1>0, <2>1 DEF Released, NoLease
  <2>3. locks[k] = locks[j] => locks'[k] = locks[k]
    BY <1>0, <2>1, <2>2 DEF Released
  <2> QED
    BY <1>a, <2>2, <2>3
<1>4. ASSUME NEW a \in Owners, NEW K \in SUBSET Resources, j \in K <=> k \in K, ReleaseAll(a, K)
      PROVE  locks'[k] = locks'[j] \/ Broken(o, k, t)'
  <2>1. \A r \in Resources : locks'[r] = IF r \in K THEN Released(locks[r], a) ELSE locks[r]
    BY <1>4 DEF ReleaseAll
  <2>2. locks'[j] = locks[j] /\ locks[j].owner = o
    BY <1>0, <2>1 DEF Released, NoLease
  <2>3. locks[k] = locks[j] => locks'[k] = locks[k]
    BY <1>0, <1>4, <2>1, <2>2 DEF Released
  <2> QED
    BY <1>a, <2>2, <2>3
<1>5. ASSUME NEW q \in Operators, ForceDelete(q)
      PROVE  locks'[k] = locks'[j] \/ Broken(o, k, t)'
  <2>0. PICK r : r = reading[q].key
    OBVIOUS
  <2>1. locks' = [locks EXCEPT ![r] = NoLease] /\ now' = now
    BY <1>5, <2>0 DEF ForceDelete
  <2>2. locks'[j] = locks[j]
    BY <1>0, <2>1 DEF NoLease
  <2>3. CASE k = r /\ locks[k] = locks[j]
    BY <1>5, <1>0, <2>0, <2>2, <2>3, ForceDeleteLogs
  <2>4. CASE k # r \/ locks[k] # locks[j]
    BY <1>a, <1>0, <2>1, <2>2, <2>4
  <2> QED
    BY <2>3, <2>4
<1>6. CASE PruneLocks
  <2>1. \A r \in Resources : locks'[r] = Pruned(locks[r], now - Grace)
    BY <1>6 DEF PruneLocks
  <2>2. locks'[j] = locks[j] /\ ~(locks[j].expires < now - Grace)
    BY <1>0, <2>1 DEF Pruned, NoLease
  <2>3. locks[k] = locks[j] => locks'[k] = locks[k]
    BY <1>0, <2>1, <2>2 DEF Pruned
  <2> QED
    BY <1>a, <2>2, <2>3
<1>7. ASSUME UNCHANGED locks
      PROVE  locks'[k] = locks'[j] \/ Broken(o, k, t)'
  BY <1>7, <1>a
<1>8. /\ j \in Resources <=> k \in Resources
      /\ \A q \in Projects : (j \in ProjectKeys(q) <=> k \in ProjectKeys(q))
                             /\ ProjectKeys(q) \subseteq Resources
  BY BundleIsWhole DEF ProjectKeys, Resources
<1> QED
  BY <1>1, <1>2, <1>3, <1>4, <1>5, <1>6, <1>7, <1>8
     DEF LockNext, Stamp, Refused, ForceRead, LockTick, lockVars

-------------------------------------------------------------------------------
\* The invariant holds in every reachable state of the resource lock store.
LEMMA LockInvariant == LockSpec => []LockInv
<1>1. LockInit => LockInv
  <2> SUFFICES ASSUME LockInit PROVE LockInv
    OBVIOUS
  <2>1. LockTypeOK
    BY IdleRequest, LeaseAssumption DEF LockInit, LockTypeOK, LeaseRow, NoLease
  <2>2. StampOK
    BY IdleRequest DEF LockInit, StampOK
  <2>3. Backed
    BY DEF LockInit, Backed
  <2>4. NoPartialHold
    BY BundleIsWhole, LeaseAssumption, ResourceAssumption DEF LockInit, NoPartialHold, NoLease
  <2> QED
    BY <2>1, <2>2, <2>3, <2>4 DEF LockInv
<1>2. LockInv /\ [LockNext]_lockVars => LockInv'
  BY LockTypeStep, StampStep, BackedStep, BundleStep DEF LockInv
<1> QED
  BY <1>1, <1>2, PTL DEF LockSpec

\* acquire, renew, release, force_release and prune keep the table, the log
\* and the answers well typed; no override is logged for a lock nobody had.
THEOREM LocksTypeCorrect == LockSpec => []LockTypeOK
<1>1. LockInv => LockTypeOK
  BY DEF LockInv
<1> QED
  BY <1>1, LockInvariant, PTL

\* For any number of agents and resources, any TTL, however long a statement
\* waits for the write lock: no two agents that act within the time they were
\* told hold one resource, unless force_release broke the lock of one of them.
THEOREM LocksAreExclusive == LockSpec => []OneHolder
<1>1. LockInv => OneHolder
  <2> SUFFICES ASSUME LockInv, NEW k \in Resources, NEW o \in Owners, NEW p \in Owners,
                      belief[o][k] >= now, belief[p][k] >= now, o # p,
                      ~Broken(o, k, belief[o][k]), ~Broken(p, k, belief[p][k])
               PROVE  FALSE
    BY DEF OneHolder, Holds
  <2>1. /\ locks[k] = [owner |-> o, expires |-> belief[o][k]]
        /\ locks[k] = [owner |-> p, expires |-> belief[p][k]]
    BY Zenon DEF LockInv, Backed
  <2> QED
    BY <2>1
<1> QED
  BY <1>1, LockInvariant, PTL

\* An agent that only takes whole projects (acquire_many) is never left with
\* part of one while its locks live, unless an operator took the other part.
THEOREM BundlesAreWhole == LockSpec => []NoPartialHold
<1>1. LockInv => NoPartialHold
  BY DEF LockInv
<1> QED
  BY <1>1, LockInvariant, PTL
===============================================================================
