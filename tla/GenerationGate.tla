--------------------------- MODULE GenerationGate ---------------------------
(***************************************************************************)
(* What the Sandbox of one tenant promises to the sessions that use it,    *)
(* without transactions, locks or reads that go stale: one generation is   *)
(* current, a session is inside the current generation or outside, a       *)
(* reset turns everybody out at the moment it starts the next generation,  *)
(* and business rows are written by insiders only.  SandboxLifecycle       *)
(* implements this specification.                                          *)
(***************************************************************************)
EXTENDS Naturals

CONSTANTS
    Session,        \* session identifiers
    Outside         \* where a session is that uses no Sandbox generation

VARIABLES
    current,        \* the current generation, 0 before the first
    inside,         \* the generation each session is inside, or Outside
    written         \* business rows: <<generation, session that wrote it>>

vars == <<current, inside, written>>

Init ==
    /\ current \in {0, 1}
    /\ inside = [s \in Session |-> Outside]
    /\ written = {}

(* The next generation starts, and nobody is inside any generation.        *)
Advance ==
    /\ current' = current + 1
    /\ inside' = [s \in Session |-> Outside]
    /\ UNCHANGED written

Enter(s) ==
    /\ current > 0
    /\ inside[s] = Outside
    /\ inside' = [inside EXCEPT ![s] = current]
    /\ UNCHANGED <<current, written>>

Leave(leavers) ==
    /\ inside' = [s \in Session |-> IF s \in leavers THEN Outside ELSE inside[s]]
    /\ UNCHANGED <<current, written>>

Write(s) ==
    /\ current > 0
    /\ inside[s] = current
    /\ written' = written \cup {<<current, s>>}
    /\ UNCHANGED <<current, inside>>

(* Only the rows of past generations are ever erased.                      *)
Purge(past) ==
    /\ \A g \in past : g < current
    /\ written' = {row \in written : row[1] \notin past}
    /\ UNCHANGED <<current, inside>>

Next ==
    \/ Advance
    \/ \E s \in Session : Enter(s) \/ Write(s)
    \/ \E leavers \in SUBSET Session : Leave(leavers)
    \/ \E past \in SUBSET (1 .. current) : Purge(past)

Spec == Init /\ [][Next]_vars
=============================================================================
