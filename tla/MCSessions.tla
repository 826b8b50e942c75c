----------------------------- MODULE MCSessions -----------------------------
(***************************************************************************)
(* A session of the daemon and a run of mini init: what an agent's calls   *)
(* share, and what a user's screens share. They have no state in common,   *)
(* and a behaviour exercises one of them.                                  *)
(***************************************************************************)
EXTENDS InitRun, SessionConns

VARIABLE part

\* How the servers of an init run log in, by the settings they have.
LoginKind == [p \in Servers \X (1 .. 3) |->
    CASE p[2] = 1 -> "oauth"
      [] p[2] = 2 -> "declared"
      [] OTHER -> "manual"]

partsVars == <<vars, runVars, part>>

PartsInit ==
    /\ Init /\ RunInit
    /\ part \in {"calls", "init"} /\ (part = "calls" => agent.mini = "none")

\* The calls may all have ended, while a run of init only stops when it is done.
CallsStep == part = "calls" /\ (Next \/ UNCHANGED vars) /\ UNCHANGED <<runVars, part>>
InitStep == part = "init" /\ RunNext /\ UNCHANGED <<vars, part>>

PartsSpec == PartsInit /\ [][CallsStep \/ InitStep]_partsVars /\ Fairness
=============================================================================
