------------------------------ MODULE OneAtATime ------------------------------
(***************************************************************************)
(* What integration_store.py gives a project of its promise ("A project's  *)
(* Integration Agent processes ONE handoff at a time"): work on a handoff  *)
(* starts only when no other is worked on, a handoff is finished only from *)
(* under work, and what is finished stays finished, except where a caller  *)
(* holds a read of the handoff that another write has overtaken.           *)
(***************************************************************************)
CONSTANT Handoffs

VARIABLES
    worked,
    finished,
    overtaken   \* the handoffs some caller has read and that have changed since

Init == worked = {} /\ finished = {} /\ overtaken = {}

Keeps(h) == (h \in worked <=> h \in worked') /\ (h \in finished <=> h \in finished')

Taken(h) ==
    /\ worked = {} /\ worked' = {h}
    /\ h \notin finished /\ h \notin finished'

\* Given back to the pool, sent to rework or blocked; or finished.
Dropped(h) == h \in worked /\ h \notin worked' /\ h \notin finished /\ h \notin finished'

Finished(h) == h \in worked /\ h \notin worked' /\ h \notin finished /\ h \in finished'

Next == \A h \in Handoffs : Keeps(h) \/ Taken(h) \/ Dropped(h) \/ Finished(h) \/ h \in overtaken

Spec == Init /\ [][Next]_<<worked, finished, overtaken>>
===============================================================================
