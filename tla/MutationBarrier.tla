--------------------------- MODULE MutationBarrier ---------------------------
(***************************************************************************)
(* What the device's mutation barrier promises to the tasks of the app:    *)
(* any number of them may hold local access at the same time; one may ask  *)
(* for a transition, from then on nobody is admitted, and the transition   *)
(* is granted when the last local access has been given back.  DeviceMode  *)
(* implements this specification.                                          *)
(***************************************************************************)
CONSTANTS
    Task,           \* the asynchronous tasks of the app
    Nobody          \* no task

VARIABLES
    leases,         \* the tasks with local access (activeLocalMutations)
    transition,     \* the task that asked for the transition (activeTransition)
    granted         \* whether its request has been granted

vars == <<leases, transition, granted>>

Init ==
    /\ leases = {}
    /\ transition = Nobody
    /\ granted = FALSE

(* beginLocalMutation refuses during a transition, beginModeSafeLocalAccess *)
(* waits for its end: neither admits anybody.                               *)
Admit(t) ==
    /\ transition = Nobody
    /\ leases' = leases \cup {t}
    /\ UNCHANGED <<transition, granted>>

Return(t) ==
    /\ t \in leases
    /\ leases' = leases \ {t}
    /\ UNCHANGED <<transition, granted>>

(* beginModeTransition closes admission before it waits. *)
Close(t) ==
    /\ transition = Nobody
    /\ t \notin leases
    /\ transition' = t
    /\ UNCHANGED <<leases, granted>>

Grant ==
    /\ transition # Nobody
    /\ leases = {}
    /\ granted' = TRUE
    /\ UNCHANGED <<leases, transition>>

Open ==
    /\ transition # Nobody
    /\ transition' = Nobody
    /\ granted' = FALSE
    /\ UNCHANGED leases

(* The process of the app ends and starts again. *)
Kill == leases' = {} /\ transition' = Nobody /\ granted' = FALSE

Next ==
    \/ \E t \in Task : Admit(t) \/ Return(t) \/ Close(t)
    \/ Grant
    \/ Open
    \/ Kill

Spec == Init /\ [][Next]_vars
=============================================================================
