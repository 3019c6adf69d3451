----------------------------- MODULE ResourceLocks -----------------------------
(***************************************************************************)
(* lease.py's ResourceLockStore: named-resource locks agents take for      *)
(* minutes and renew, one at a time (acquire) or all or none               *)
(* (acquire_many), with an operator override (force_release).              *)
(*                                                                         *)
(* acquire and renew read the clock first and take effect when SQLite      *)
(* grants the write lock, at most LockWait later.  acquire_many reads it   *)
(* inside BEGIN IMMEDIATE, so it is one step.  force_release reads the     *)
(* holder on one connection and deletes the row on another: two steps.     *)
(*                                                                         *)
(* belief is not in the database: it is what the last answer told the      *)
(* agent, and what the agent acts on.                                      *)
(***************************************************************************)
EXTENDS LeaseTable, FiniteSets

CONSTANTS
    Projects, Names,    \* a lock key is a project and a resource name
    Operators,          \* callers of force_release
    Bundlers,           \* agents that only ever take and release a whole project
    TTL,                \* DEFAULT_RESOURCE_LOCK_TTL_SECONDS
    Grace,              \* grace_seconds of prune_expired
    MaxOverrides        \* bound on the override log

ASSUME ResourceAssumption ==
    /\ Projects # {} /\ Names # {}
    /\ TTL \in Nat /\ Grace \in Nat /\ MaxOverrides \in Nat
    /\ Bundlers \subseteq Owners

Resources == Projects \X Names

VARIABLES
    locks,      \* resource_locks
    overrides,  \* resource_lock_overrides: what was logged, what was broken
    request,    \* the single-key statement each agent is executing
    belief,     \* per agent and resource: the expiry it was last told, -1 if none
    reading     \* per operator: the holder force_release read
lockVars == <<now, locks, overrides, request, belief, reading>>

NoRequest == [op |-> "none", key |-> CHOOSE k \in Resources : TRUE, stamp |-> 0]
Request == [op : {"none", "acquire", "renew"}, key : Resources, stamp : Nat]
NoReading == [key |-> CHOOSE k \in Resources : TRUE, previous |-> NoOwner, active |-> FALSE]
Reading == [key : Resources, previous : Owners \cup {NoOwner}, active : BOOLEAN]
\* broken and until, the lock that was really deleted, are not logged: history.
Override == [key : Resources, previous : Owners \cup {NoOwner}, broken : Owners, until : Nat]

LockTypeOK ==
    /\ now \in Nat
    /\ locks \in [Resources -> LeaseRow]
    /\ overrides \subseteq Override
    /\ request \in [Owners -> Request]
    /\ belief \in [Owners -> [Resources -> Nat \cup {-1}]]
    /\ reading \in [Operators -> Reading]

LockInit ==
    /\ now = 0
    /\ locks = [k \in Resources |-> NoLease]
    /\ overrides = {}
    /\ request = [o \in Owners |-> NoRequest]
    /\ belief = [o \in Owners |-> [k \in Resources |-> -1]]
    /\ reading = [q \in Operators |-> NoReading]

-------------------------------------------------------------------------------
\* acquire / renew: the clock is read.
Stamp(o, op, k) ==
    /\ o \notin Bundlers
    /\ request[o].op = "none"
    /\ op = "renew" => belief[o][k] # -1
    /\ request' = [request EXCEPT ![o] = [op |-> op, key |-> k, stamp |-> now]]
    /\ UNCHANGED <<now, locks, overrides, belief, reading>>

\* The single-key statements, once the write lock is granted.  The agent
\* learns whether it holds the lock and until when.
AcquireTakes(o) ==
    /\ request[o].op = "acquire"
    /\ CanAcquire(locks[request[o].key], o, request[o].stamp)
    /\ locks' = [locks EXCEPT ![request[o].key] = Acquired(o, request[o].stamp, TTL)]
    /\ belief' = [belief EXCEPT ![o][request[o].key] = request[o].stamp + TTL]
    /\ request' = [request EXCEPT ![o] = NoRequest]
    /\ UNCHANGED <<now, overrides, reading>>

RenewTakes(o) ==
    /\ request[o].op = "renew"
    /\ CanRenew(locks[request[o].key], o, request[o].stamp)
    /\ locks' = [locks EXCEPT ![request[o].key] = Acquired(o, request[o].stamp, TTL)]
    /\ belief' = [belief EXCEPT ![o][request[o].key] = request[o].stamp + TTL]
    /\ request' = [request EXCEPT ![o] = NoRequest]
    /\ UNCHANGED <<now, overrides, reading>>

Refused(o) ==
    /\ \/ /\ request[o].op = "acquire"
          /\ ~CanAcquire(locks[request[o].key], o, request[o].stamp)
       \/ /\ request[o].op = "renew"
          /\ ~CanRenew(locks[request[o].key], o, request[o].stamp)
    /\ belief' = [belief EXCEPT ![o][request[o].key] = -1]
    /\ request' = [request EXCEPT ![o] = NoRequest]
    /\ UNCHANGED <<now, locks, overrides, reading>>

\* acquire_many: every key of the set under one write lock, or a rollback.
AcquireManyPartial(o, K) ==
    /\ request[o].op = "none"
    /\ \E k \in K : CanAcquire(locks[k], o, now)
    /\ locks' = [k \in Resources |->
                   IF k \in K /\ CanAcquire(locks[k], o, now)
                   THEN Acquired(o, now, TTL) ELSE locks[k]]
    /\ belief' = [belief EXCEPT ![o] =
                    [k \in Resources |-> IF k \in K /\ CanAcquire(locks[k], o, now)
                                         THEN now + TTL ELSE @[k]]]
    /\ UNCHANGED <<now, overrides, request, reading>>

AcquireMany(o, K) ==
    /\ request[o].op = "none"
    /\ \A k \in K : CanAcquire(locks[k], o, now)
    /\ locks' = [k \in Resources |-> IF k \in K THEN Acquired(o, now, TTL) ELSE locks[k]]
    /\ belief' = [belief EXCEPT ![o] =
                    [k \in Resources |-> IF k \in K THEN now + TTL ELSE @[k]]]
    /\ UNCHANGED <<now, overrides, request, reading>>

\* release: deletes the row only if it is still the agent's own.
ReleaseLock(o, k) ==
    /\ o \notin Bundlers
    /\ request[o].op = "none" /\ belief[o][k] # -1
    /\ locks' = [locks EXCEPT ![k] = Released(@, o)]
    /\ belief' = [belief EXCEPT ![o][k] = -1]
    /\ UNCHANGED <<now, overrides, request, reading>>

\* release_all, of one project's locks or (K = Resources) of every project's.
ReleaseAll(o, K) ==
    /\ request[o].op = "none"
    /\ \E k \in K : belief[o][k] # -1
    /\ locks' = [k \in Resources |-> IF k \in K THEN Released(locks[k], o) ELSE locks[k]]
    /\ belief' = [belief EXCEPT ![o] = [k \in Resources |-> IF k \in K THEN -1 ELSE @[k]]]
    /\ UNCHANGED <<now, overrides, request, reading>>

\* force_release, first half: the holder is read on its own connection.
ForceRead(q, k) ==
    /\ ~reading[q].active
    /\ reading' = [reading EXCEPT ![q] = [key |-> k, previous |-> locks[k].owner, active |-> TRUE]]
    /\ UNCHANGED <<now, locks, overrides, request, belief>>

\* force_release, second half: the row is deleted whoever owns it now, and the
\* owner read before is logged.
ForceDeleteLogsAlways(q) ==
    /\ reading[q].active
    /\ Cardinality(overrides) < MaxOverrides
    /\ LET k == reading[q].key IN
       /\ locks' = [locks EXCEPT ![k] = NoLease]
       /\ overrides' = overrides \cup {[key |-> k, previous |-> reading[q].previous,
                                        broken |-> locks[k].owner,
                                        until |-> locks[k].expires]}
    /\ reading' = [reading EXCEPT ![q] = NoReading]
    /\ UNCHANGED <<now, request, belief>>

ForceDelete(q) ==
    /\ reading[q].active
    /\ Cardinality(overrides) < MaxOverrides
    /\ LET k == reading[q].key IN
       /\ locks' = [locks EXCEPT ![k] = NoLease]
       /\ overrides' = IF locks[k].owner = NoOwner THEN overrides
                       ELSE overrides \cup {[key |-> k, previous |-> reading[q].previous,
                                             broken |-> locks[k].owner,
                                             until |-> locks[k].expires]}
    /\ reading' = [reading EXCEPT ![q] = NoReading]
    /\ UNCHANGED <<now, request, belief>>

PruneLocks ==
    /\ locks' = [k \in Resources |-> Pruned(locks[k], now - Grace)]
    /\ UNCHANGED <<now, overrides, request, belief, reading>>

LockTick ==
    /\ now < MaxTime
    /\ \A o \in Owners : request[o].op # "none" => now < request[o].stamp + LockWait
    /\ now' = now + 1
    /\ UNCHANGED <<locks, overrides, request, belief, reading>>

ProjectKeys(p) == {p} \X Names

LockNext ==
    \/ \E o \in Owners :
         \/ \E op \in {"acquire", "renew"}, k \in Resources : Stamp(o, op, k)
         \/ AcquireTakes(o) \/ RenewTakes(o) \/ Refused(o)
         \/ \E p \in Projects : \E K \in SUBSET ProjectKeys(p) \ {{}} :
              (o \in Bundlers => K = ProjectKeys(p)) /\ AcquireMany(o, K)
         \/ \E k \in Resources : ReleaseLock(o, k)
         \/ ReleaseAll(o, Resources) \/ \E p \in Projects : ReleaseAll(o, ProjectKeys(p))
    \/ \E q \in Operators : ForceDelete(q) \/ \E k \in Resources : ForceRead(q, k)
    \/ PruneLocks
    \/ LockTick

LockSpec == LockInit /\ [][LockNext]_lockVars

-------------------------------------------------------------------------------
\* The agent was told it holds the lock and its TTL has not lapsed.
Holds(o, k) == belief[o][k] >= now

\* An operator broke the lock this agent had on k until t.
Broken(o, k, t) == \E v \in overrides : v.key = k /\ v.broken = o /\ v.until = t

\* "No two agents touch the same file/module/branch at once" (ResourceLockStore):
\* two agents that may both act on what they were told never hold one resource,
\* unless an operator broke the very lock one of them still counts on.
OneHolder ==
    \A k \in Resources : \A o, p \in Owners :
        Holds(o, k) /\ Holds(p, k) /\ o # p => Broken(o, k, belief[o][k]) \/ Broken(p, k, belief[p][k])

\* The deadlock story of acquire_many: an agent that takes a project's locks
\* only together never owns a live lock on one of them without owning the
\* others until the same moment, unless an operator broke one.
NoPartialHold ==
    \A o \in Bundlers, p \in Projects : \A j, k \in ProjectKeys(p) :
        locks[j].owner = o /\ locks[j].expires >= now
        => locks[k] = locks[j] \/ Broken(o, k, locks[j].expires)
===============================================================================
