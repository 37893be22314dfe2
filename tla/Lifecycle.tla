------------------------------ MODULE Lifecycle ------------------------------
(***************************************************************************)
(* What "gtctl cluster create --bare-metal" promises: the components are   *)
(* started one after the other, up to a gate at a time; with all of them   *)
(* started the cluster serves; it ends by success only after it served and *)
(* its context was cancelled, and by failure at any time.  Components may  *)
(* be lost at any time, before and after the end.                          *)
(***************************************************************************)
EXTENDS Naturals

CONSTANTS
    N,      \* the number of components, started in the order 1 .. N
    Gates   \* the components after which creation waits for health

VARIABLES
    phase,      \* creating, serving, ended
    open,       \* components up to this one may be started
    started,    \* components that were started
    running,    \* those of them that run
    cancelled,  \* the cluster was told to stop, or stops for a failure
    outcome     \* how it ended

vars == <<phase, open, started, running, cancelled, outcome>>

Init ==
    /\ phase = "creating"
    /\ open = 1
    /\ started = {} /\ running = {}
    /\ cancelled = FALSE
    /\ outcome = "none"

\* The next component, once and in order, behind the gate.
Start ==
    /\ phase = "creating"
    /\ \E p \in 1 .. open :
          /\ started = 1 .. (p - 1)
          /\ started' = 1 .. p
          /\ running' = running \cup {p}
    /\ UNCHANGED <<phase, open, cancelled, outcome>>

\* Everything behind the gate is started: the next gate becomes the limit.
Open ==
    /\ phase = "creating"
    /\ started = 1 .. open
    /\ open' \in Gates
    /\ open < open'
    /\ \A g \in Gates : open < g => open' <= g
    /\ UNCHANGED <<phase, started, running, cancelled, outcome>>

Serve ==
    /\ phase = "creating"
    /\ started = 1 .. N
    /\ phase' = "serving"
    /\ UNCHANGED <<open, started, running, cancelled, outcome>>

Cancel ==
    /\ phase # "ended"
    /\ cancelled' = TRUE
    /\ UNCHANGED <<phase, open, started, running, outcome>>

Lose ==
    /\ \E p \in running : running' = running \ {p}
    /\ UNCHANGED <<phase, open, started, cancelled, outcome>>

Finish ==
    /\ phase = "serving"
    /\ cancelled
    /\ phase' = "ended"
    /\ outcome' = "ok"
    /\ UNCHANGED <<open, started, running, cancelled>>

Abort ==
    /\ phase # "ended"
    /\ phase' = "ended"
    /\ outcome' = "failed"
    /\ UNCHANGED <<open, started, running, cancelled>>

Next == Start \/ Open \/ Serve \/ Cancel \/ Lose \/ Finish \/ Abort

Spec == Init /\ [][Next]_vars
=============================================================================
