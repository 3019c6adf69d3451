------------------------------- MODULE PaneSend -------------------------------
(***************************************************************************)
(* The send path of core.py (_send_text_and_verify, _send_keys_leased):    *)
(* every attempt to type into a tmux pane, from any process, first claims  *)
(* its idempotency key in audit.db (if the caller gave one), then takes    *)
(* the pane's lease in leases.db, types, releases the lease and stores the *)
(* result under the key.                                                   *)
(*                                                                         *)
(* Each database write is two steps: the time stamp is read first, the     *)
(* statement takes effect when SQLite grants the write lock, at most       *)
(* LockWait later (sqlite3.connect(timeout=10)).  Time is discrete; the    *)
(* guard of Tick is the promise that a phase of an attempt ends in the     *)
(* time the code bounds it to.  Abort covers what ends an attempt early:   *)
(* the process is killed, or SQLite answers "database is locked".          *)
(*                                                                         *)
(* Abstracted: what is typed and how the submission is verified (a send    *)
(* lasts at most SendMax), the in-process PaneLockRegistry (the attempts   *)
(* are in different processes, the case the lease exists for).             *)
(***************************************************************************)
EXTENDS LeaseTable

CONSTANTS
    Attempts,       \* send attempts; an attempt is its own lease owner
    Panes,          \* lease keys of panes
    Keys,           \* idempotency keys
    NoKey,          \* a call that passes no idempotency_key
    LeaseTTL,       \* DEFAULT_LEASE_TTL_SECONDS
    PruneGrace,     \* grace_seconds of prune_expired
    WaitMax,        \* PANE_LEASE_WAIT_SECONDS
    SendMax,        \* bound on typing plus verification
    ClaimStale      \* stale_after_seconds of claim_idempotency_key

ASSUME PaneSendAssumption ==
    /\ Owners = Attempts
    /\ NoKey \notin Keys
    /\ Panes # {}
    /\ LeaseTTL \in Nat /\ PruneGrace \in Nat /\ WaitMax \in Nat
    /\ SendMax \in Nat /\ ClaimStale \in Nat
    /\ LockWait <= ClaimStale

VARIABLES
    leases,     \* pane_leases: one row per pane
    claims,     \* idempotent_sends: one row per key
    born,       \* history: created_at of the claim each attempt was granted,
                \* -1 while it has been granted none
    typed,      \* attempts that have written to their pane
    pc,         \* where each attempt is
    pane, key,  \* the arguments of each attempt's call
    stamp,      \* the time stamp of the statement the attempt executes
    due,        \* when the attempt's current phase must have ended
    deadline    \* of its bounded wait for the lease, -1 before a refusal
call == <<pane, key>>
timers == <<stamp, due, deadline>>
vars == <<now, leases, claims, born, typed, pc, call, timers>>

\* A row of idempotent_sends.  held: the row exists; result: the attempt
\* whose result is stored, NoOwner while result_json IS NULL.
NoClaim == [held |-> FALSE, created |-> 0, result |-> NoOwner]
ClaimRow == [held : BOOLEAN, created : Nat, result : Attempts \cup {NoOwner}]

\* pc values of an attempt that is running and has yet to return.
Live == {"claiming", "acquiring", "sending", "releasing", "unwinding", "storing"}

TypeOK ==
    /\ now \in Nat
    /\ leases \in [Panes -> LeaseRow]
    /\ claims \in [Keys -> ClaimRow]
    /\ born \in [Attempts -> Nat \cup {-1}]
    /\ typed \subseteq Attempts
    /\ pc \in [Attempts -> Live \cup {"idle", "done", "dead"}]
    /\ pane \in [Attempts -> Panes]
    /\ key \in [Attempts -> Keys \cup {NoKey}]
    /\ stamp \in [Attempts -> Nat]
    /\ due \in [Attempts -> Nat]
    /\ deadline \in [Attempts -> Nat \cup {-1}]
    /\ \A a \in Attempts : pc[a] \in {"claiming", "storing"} => key[a] \in Keys

Init ==
    /\ now = 0
    /\ leases = [p \in Panes |-> NoLease]
    /\ claims = [k \in Keys |-> NoClaim]
    /\ born = [a \in Attempts |-> -1]
    /\ typed = {}
    /\ pc = [a \in Attempts |-> "idle"]
    /\ pane = [a \in Attempts |-> CHOOSE p \in Panes : TRUE]
    /\ key = [a \in Attempts |-> NoKey]
    /\ stamp = [a \in Attempts |-> 0]
    /\ due = [a \in Attempts |-> 0]
    /\ deadline = [a \in Attempts |-> -1]

\* The attempt enters a phase that lasts at most d; dl is its lease deadline.
Enter(a, phase, d, dl) ==
    /\ pc' = [pc EXCEPT ![a] = phase]
    /\ stamp' = [stamp EXCEPT ![a] = now]
    /\ due' = [due EXCEPT ![a] = now + d]
    /\ deadline' = [deadline EXCEPT ![a] = dl]

\* The attempt is over (it returned: "done", or it never will: "dead"); its
\* locals are gone.
End(a, how) ==
    /\ pc' = [pc EXCEPT ![a] = how]
    /\ stamp' = [stamp EXCEPT ![a] = 0]
    /\ due' = [due EXCEPT ![a] = 0]
    /\ deadline' = [deadline EXCEPT ![a] = -1]

AnswerUnkeyed(a) == Enter(a, "storing", LockWait, -1)

\* The attempt has its result: it returns it, after storing it under its key.
Answer(a) ==
    \/ key[a] = NoKey /\ End(a, "done")
    \/ key[a] # NoKey /\ Enter(a, "storing", LockWait, -1)

-------------------------------------------------------------------------------
\* A call arrives for a pane, with or without a key.
Begin(a, p, k) ==
    /\ pc[a] = "idle"
    /\ Enter(a, IF k = NoKey THEN "acquiring" ELSE "claiming", LockWait, -1)
    /\ pane' = [pane EXCEPT ![a] = p]
    /\ key' = [key EXCEPT ![a] = k]
    /\ UNCHANGED <<now, leases, claims, born, typed>>

\* claim_idempotency_key wins by INSERT OR IGNORE, or by reclaiming a row
\* that has no result and is older than the cutoff.  The cutoff is computed
\* while the write lock is already held; created_at is the earlier stamp.
CanClaimAnyAge(k) == claims[k].result = NoOwner

CanClaimAnswered(k) ==
    \/ ~claims[k].held
    \/ claims[k].created < now - ClaimStale

CanClaim(k) ==
    \/ ~claims[k].held
    \/ /\ claims[k].result = NoOwner
       /\ claims[k].created < now - ClaimStale

ClaimWin(a) ==
    /\ pc[a] = "claiming"
    /\ CanClaim(key[a])
    /\ claims' = [claims EXCEPT ![key[a]] =
                    [held |-> TRUE, created |-> stamp[a], result |-> NoOwner]]
    /\ born' = [born EXCEPT ![a] = stamp[a]]
    /\ Enter(a, "acquiring", LockWait, -1)
    /\ UNCHANGED <<now, leases, typed, call>>

\* The key belongs to another call: its stored result is returned, or
\* DUPLICATE_IN_PROGRESS; nothing is sent.
ClaimLose(a) ==
    /\ pc[a] = "claiming"
    /\ ~CanClaim(key[a])
    /\ End(a, "done")
    /\ UNCHANGED <<now, leases, claims, born, typed, call>>

\* PaneLeaseStore.acquire succeeds; the lease runs from the stamp.
AcquireWin(a) ==
    /\ pc[a] = "acquiring"
    /\ CanAcquire(leases[pane[a]], a, stamp[a])
    /\ leases' = [leases EXCEPT ![pane[a]] = Acquired(a, stamp[a], LeaseTTL)]
    /\ Enter(a, "sending", SendMax, -1)
    /\ UNCHANGED <<now, claims, born, typed, call>>

\* Refused: _acquire_pane_lease retries with a fresh stamp until its
\* deadline, which starts at the first refusal.
AcquireRetry(a) ==
    /\ pc[a] = "acquiring"
    /\ ~CanAcquire(leases[pane[a]], a, stamp[a])
    /\ deadline[a] = -1 \/ now < deadline[a]
    /\ Enter(a, "acquiring", LockWait, IF deadline[a] = -1 THEN now + WaitMax ELSE deadline[a])
    /\ UNCHANGED <<now, leases, claims, born, typed, call>>

\* PANE_BUSY: the refusal is the result, stored under the key if any.
PaneBusy(a) ==
    /\ pc[a] = "acquiring"
    /\ ~CanAcquire(leases[pane[a]], a, stamp[a])
    /\ deadline[a] # -1 /\ now >= deadline[a]
    /\ Answer(a)
    /\ UNCHANGED <<now, leases, claims, born, typed, call>>

\* send_text / send_keys reach the pane.
Type(a) ==
    /\ pc[a] = "sending"
    /\ typed' = typed \cup {a}
    /\ UNCHANGED <<now, leases, claims, born, pc, call, timers>>

\* The send returned (it may have refused to type): the finally clause
\* releases the lease.
SendReturns(a) ==
    /\ pc[a] = "sending"
    /\ Enter(a, "releasing", LockWait, -1)
    /\ UNCHANGED <<now, leases, claims, born, typed, call>>

\* The send raised: the lease is released, no result is stored.
SendRaises(a) ==
    /\ pc[a] = "sending"
    /\ Enter(a, "unwinding", LockWait, -1)
    /\ UNCHANGED <<now, leases, claims, born, typed, call>>

Release(a) ==
    /\ leases' = [leases EXCEPT ![pane[a]] = Released(@, a)]
    /\ \/ pc[a] = "unwinding" /\ End(a, "dead")
       \/ pc[a] = "releasing" /\ Answer(a)
    /\ UNCHANGED <<now, claims, born, typed, call>>

\* store_idempotent_result: UPDATE ... WHERE idempotency_key = ?, which
\* checks neither the owner nor an earlier result.
StoreResult(a) ==
    /\ pc[a] = "storing"
    /\ claims' = [claims EXCEPT ![key[a]] =
                    IF @.held THEN [@ EXCEPT !.result = a] ELSE @]
    /\ End(a, "done")
    /\ UNCHANGED <<now, leases, born, typed, call>>

\* The process is killed, or a statement times out waiting for the lock.
Abort(a) ==
    /\ pc[a] \in Live
    /\ End(a, "dead")
    /\ UNCHANGED <<now, leases, claims, born, typed, call>>

\* maintenance.py runs prune_expired.
Prune ==
    /\ leases' = [p \in Panes |-> Pruned(leases[p], now - PruneGrace)]
    /\ UNCHANGED <<now, claims, born, pc, call, timers, typed>>

\* Time passes, but never past the end of a running attempt's phase.
Tick ==
    /\ now < MaxTime
    /\ \A a \in Attempts : pc[a] \in Live => now < due[a]
    /\ now' = now + 1
    /\ UNCHANGED <<leases, claims, born, pc, call, timers, typed>>

Next ==
    \/ \E a \in Attempts :
         \/ \E p \in Panes, k \in Keys \cup {NoKey} : Begin(a, p, k)
         \/ ClaimWin(a) \/ ClaimLose(a)
         \/ AcquireWin(a) \/ AcquireRetry(a) \/ PaneBusy(a)
         \/ Type(a) \/ SendReturns(a) \/ SendRaises(a)
         \/ Release(a) \/ StoreResult(a) \/ Abort(a)
    \/ Prune
    \/ Tick

Spec == Init /\ [][Next]_vars

-------------------------------------------------------------------------------
\* The timing the code relies on: a lease taken by a statement that waited
\* LockWait still covers a whole send.
LeaseCoversSend == LockWait + SendMax <= LeaseTTL

\* Two attempts never type into one pane at the same time: "whichever process
\* holds the current, unexpired lease row for a given pane is the only one
\* allowed to send to it" (lease.py), although no process looks at its lease
\* again while it types.
PaneExclusive ==
    \A a, b \in Attempts :
        /\ pc[a] = "sending" /\ pc[b] = "sending"
        /\ pane[a] = pane[b]
        => a = b

\* How often one key can be granted, and so its text typed again: the claims
\* of two attempts with one key were created more than the reclaim threshold,
\* less the time a statement may wait with its stamp, apart
\* (claim_idempotency_key).  It bounds re-sending by time only: an attempt that
\* is still running when its claim is reclaimed types as well.
ClaimsAreSpaced ==
    \A a, b \in Attempts :
        /\ a # b /\ key[a] = key[b]
        /\ born[a] # -1 /\ born[b] # -1
        => \/ born[a] > born[b] + ClaimStale - LockWait
           \/ born[b] > born[a] + ClaimStale - LockWait

\* Once any attempt has stored a result under a key, the key is never granted
\* again and every later call is answered from the store, although attempts
\* whose claim was taken over from them go on, and store their own result over
\* it (store_idempotent_result checks neither owner nor earlier result).
AnsweredKeyIsClosed ==
    [][\A k \in Keys : claims[k].result # NoOwner
          => /\ claims'[k].result # NoOwner
             /\ claims'[k].created = claims[k].created]_vars
===============================================================================
