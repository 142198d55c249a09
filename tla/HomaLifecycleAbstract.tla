------------------------- MODULE HomaLifecycleAbstract -------------------------
(***************************************************************************)
(* What bringing struct homa up and down promises (spec sections 4.3, 5    *)
(* and 7), with no allocation order, loop or completion in it: homa_init   *)
(* acquires resources and ends up, or fails with part of them held;        *)
(* reading the metrics file adds the metrics buffer; homa_destroy, once    *)
(* init has returned, stops a running pacer and waits for it, and only     *)
(* then releases resources, ending with none held.  homa_init may also     *)
(* never return.                                                           *)
(***************************************************************************)

Resources == {"numa", "cores", "tables", "metrics"}

VARIABLES
    phase,     \* homa_init: "init" (running), "up", "failed"
    held,      \* the resources allocated and not yet released
    thread,    \* the pacer: "none", "running", "stopping", "stopped"
    teardown   \* homa_destroy: "idle", "stopping", "releasing", "done"

avars == <<phase, held, thread, teardown>>

Init ==
    /\ phase = "init"
    /\ held = {}
    /\ thread = "none"
    /\ teardown = "idle"

\* homa_init acquires resources, and may fail with what it holds.
Acquire ==
    /\ phase = "init"
    /\ \E more \in SUBSET (Resources \ {"metrics"}) :
        held' = held \cup more
    /\ phase' \in {"init", "failed"}
    /\ UNCHANGED <<thread, teardown>>

\* homa_init succeeds with the pacer running and the tables in place.
Up ==
    /\ phase = "init" /\ "tables" \in held
    /\ phase' = "up"
    /\ thread' = "running"
    /\ UNCHANGED <<held, teardown>>

OpenMetrics ==
    /\ phase = "up" /\ teardown = "idle"
    /\ held' = held \cup {"metrics"}
    /\ UNCHANGED <<phase, thread, teardown>>

\* homa_destroy starts after homa_init returned, asking a running pacer to
\* stop.
StartDestroy ==
    /\ phase \in {"up", "failed"} /\ teardown \in {"idle", "done"}
    /\ IF thread = "running"
       THEN thread' = "stopping" /\ teardown' = "stopping"
       ELSE UNCHANGED thread /\ teardown' = "releasing"
    /\ UNCHANGED <<phase, held>>

PacerStops ==
    /\ thread = "stopping"
    /\ thread' = "stopped"
    /\ UNCHANGED <<phase, held, teardown>>

\* homa_destroy goes on once the pacer has stopped.
Stopped ==
    /\ teardown = "stopping" /\ thread = "stopped"
    /\ teardown' = "releasing"
    /\ UNCHANGED <<phase, held, thread>>

\* Release runs with no pacer left, and ends with nothing held.
Release ==
    /\ teardown = "releasing" /\ thread \in {"none", "stopped"}
    /\ \E kept \in SUBSET held :
        /\ held' = kept
        /\ teardown' \in IF kept = {} THEN {"releasing", "done"}
                         ELSE {"releasing"}
    /\ UNCHANGED <<phase, thread>>

Next ==
    \/ Acquire \/ Up \/ OpenMetrics
    \/ StartDestroy \/ PacerStops \/ Stopped \/ Release

\* The safety part: what may happen.
SafeSpec == Init /\ [][Next]_avars

\* A called homa_destroy returns: the pacer and homa_destroy are scheduled.
Spec == Init /\ [][Next]_avars
        /\ WF_avars(PacerStops) /\ WF_avars(Stopped \/ Release)

=============================================================================
