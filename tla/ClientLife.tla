------------------------------ MODULE ClientLife ------------------------------
(***************************************************************************)
(* The life of one LspClient object and of the process it spawns, as the    *)
(* rest of the MCP server sees it.  The object starts once; start() ends    *)
(* "ready" or "failed" for good; the process ends once; the object learns   *)
(* of it later, once, and a start() that is still waiting then fails.       *)
(***************************************************************************)
VARIABLES phase, proc, dead

lifeVars == <<phase, proc, dead>>

Init == phase = "new" /\ proc = "none" /\ dead = FALSE

Spawn ==
    /\ phase = "new"
    /\ phase' = "starting"
    /\ proc' \in {"running", "exited"}
    /\ UNCHANGED dead

\* The answer to initialize, or its error, or its timeout.  A timeout does
\* nothing to the process.
Started ==
    /\ phase = "starting"
    /\ ~dead
    /\ phase' \in {"ready", "failed"}
    /\ UNCHANGED <<proc, dead>>

Exit ==
    /\ proc = "running"
    /\ proc' = "exited"
    /\ UNCHANGED <<phase, dead>>

Learn ==
    /\ proc = "exited"
    /\ ~dead
    /\ dead' = TRUE
    /\ phase' = IF phase = "starting" THEN "failed" ELSE phase
    /\ UNCHANGED proc

Next == Spawn \/ Started \/ Exit \/ Learn

Spec == Init /\ [][Next]_lifeVars
=============================================================================
