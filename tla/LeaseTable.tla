------------------------------ MODULE LeaseTable ------------------------------
(***************************************************************************)
(* The durable check-and-set lease algorithm of lease.py's _LeaseTable,    *)
(* shared by the pane leases (PaneSend) and the resource locks             *)
(* (ResourceLocks).  A row of the table is one lease; every operator here  *)
(* is the effect of ONE SQL statement on one row, so it is atomic.         *)
(*                                                                         *)
(* The caller passes the time stamp: the code reads the clock in Python,   *)
(* before SQLite grants it the write lock, so the stamp a statement uses   *)
(* may be older than the moment the statement takes effect.                *)
(***************************************************************************)
EXTENDS Integers

CONSTANTS
    Owners,     \* owner ids: one per send attempt, or one per agent
    NoOwner,    \* the owner of an absent row
    LockWait,   \* timeout of sqlite3.connect
    MaxTime     \* bound on the clock

ASSUME LeaseAssumption ==
    /\ NoOwner \notin Owners
    /\ LockWait \in Nat /\ MaxTime \in Nat

VARIABLE now    \* the wall clock

\* No row for this key.
NoLease == [owner |-> NoOwner, expires |-> 0]

LeaseRow == [owner : Owners \cup {NoOwner}, expires : Nat]

\* The WHERE clause of _acquire_sql: an INSERT that meets no row, a row of
\* the same owner, or a row whose expires_at is before the caller's stamp.
CanAcquireAtExpiry(row, o, stamp) ==
    \/ row.owner = NoOwner
    \/ row.owner = o
    \/ row.expires <= stamp

CanAcquire(row, o, stamp) ==
    \/ row.owner = NoOwner
    \/ row.owner = o
    \/ row.expires < stamp

\* The row _acquire_locked leaves when the statement changes it.
Acquired(o, stamp, ttl) == [owner |-> o, expires |-> stamp + ttl]

CanRenewForeign(row, o, stamp) == row.expires >= stamp

\* The WHERE clause of _renew_locked.
CanRenew(row, o, stamp) ==
    /\ row.owner = o
    /\ row.expires >= stamp

\* _release_locked: DELETE ... WHERE key = ? AND owner_id = ?
Released(row, o) == IF row.owner = o THEN NoLease ELSE row

\* prune_expired: DELETE ... WHERE expires_at < cutoff
Pruned(row, cutoff) == IF row.expires < cutoff THEN NoLease ELSE row
===============================================================================
