------------------------------ MODULE MapTick ------------------------------
(***************************************************************************)
(* What the update of the maps promises to the rest of the server, without *)
(* threads, queues and condition variables.  The server alternates between *)
(* a serial part, in which the world thread owns all maps, and a parallel  *)
(* part, in which every map is updated at most once, in any order.  The    *)
(* parallel part ends when no update is open.  MapUpdater implements it.   *)
(***************************************************************************)
CONSTANTS BaseMap, Instance

VARIABLES
    phase,      \* "serial", "parallel" or "stopped"
    maps,       \* the maps that exist
    open,       \* maps whose update was asked for and is not finished
    updated     \* maps whose update is finished in this parallel part

tick == <<phase, maps, open, updated>>

TickInit ==
    /\ phase = "serial"
    /\ maps = BaseMap
    /\ open = {}
    /\ updated = {}

Create(i) ==
    /\ phase = "serial"
    /\ i \notin maps
    /\ maps' = maps \cup {i}
    /\ UNCHANGED <<phase, open, updated>>

Begin ==
    /\ phase = "serial"
    /\ phase' = "parallel"
    /\ updated' = {}
    /\ UNCHANGED <<maps, open>>

\* A map is updated at most once, and only while it exists.
Ask(m) ==
    /\ phase = "parallel"
    /\ m \in maps \ (open \cup updated)
    /\ open' = open \cup {m}
    /\ UNCHANGED <<phase, maps, updated>>

Complete(m) ==
    /\ m \in open
    /\ open' = open \ {m}
    /\ updated' = updated \cup {m}
    /\ UNCHANGED <<phase, maps>>

\* An instance that is not used any more goes while other maps are updated.
Destroy(i) ==
    /\ phase = "parallel"
    /\ i \in maps \ open
    /\ maps' = maps \ {i}
    /\ UNCHANGED <<phase, open, updated>>

End ==
    /\ phase = "parallel"
    /\ open = {}
    /\ phase' = "serial"
    /\ UNCHANGED <<maps, open, updated>>

Stop ==
    /\ phase = "serial"
    /\ phase' = "stopped"
    /\ maps' = {}
    /\ UNCHANGED <<open, updated>>

TickNext ==
    \/ \E i \in Instance : Create(i) \/ Destroy(i)
    \/ \E m \in BaseMap \cup Instance : Ask(m) \/ Complete(m)
    \/ Begin
    \/ End
    \/ Stop

\* What may happen, without what must.
TickSteps == TickInit /\ [][TickNext]_tick

TickSpec ==
    /\ TickSteps
    /\ WF_tick(\E m \in BaseMap \cup Instance : Complete(m))
    /\ WF_tick(End)
=============================================================================
