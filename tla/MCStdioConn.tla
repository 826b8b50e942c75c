---------------------------- MODULE MCStdioConn ----------------------------
EXTENDS StdioConn

\* Two concurrent calls of a child that may misbehave; one beside the subscription of a
\* modern child and beside the pings of a legacy one.
MCCalling == [k \in Kinds |-> CASE k = "faulty" -> Callers [] k \in {"modern", "legacy"} -> {"a"} [] OTHER -> {}]
=============================================================================
