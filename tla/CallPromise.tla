----------------------------- MODULE CallPromise -----------------------------
(***************************************************************************)
(* What transport.Connection promises the server of Call (connection.go):  *)
(* a call returns once; it returns an answer only when the upstream ran    *)
(* that very request, and an error only when there is a reason for one.    *)
(* The reasons are the caller's own context, a connection that is cut for  *)
(* that call, and an upstream that answered with an error.  The upstream   *)
(* runs a request at most once, though it may do so after the caller left. *)
(***************************************************************************)
EXTENDS Naturals

CONSTANT Callers

VARIABLES
    call,  \* the state of each call
    ran,   \* how often the upstream ran the request of each call
    quit,  \* calls whose context has ended
    cut    \* calls whose connection was lost

promise == <<call, ran, quit, cut>>

Init ==
    /\ call = [c \in Callers |-> "idle"]
    /\ ran = [c \in Callers |-> 0] /\ quit = {} /\ cut = {}

\* Call.
Begin(c) ==
    /\ call[c] = "idle" /\ call' = [call EXCEPT ![c] = "open"]
    /\ UNCHANGED <<ran, quit, cut>>

\* The upstream runs the request, which may reach it after the caller gave up.
Run(c) ==
    /\ call[c] # "idle" /\ ran[c] = 0
    /\ ran' = [ran EXCEPT ![c] = 1]
    /\ UNCHANGED <<call, quit, cut>>

\* The upstream's answer is returned.
Answer(c) ==
    /\ call[c] = "open" /\ ran[c] = 1
    /\ call' = [call EXCEPT ![c] = "answered"]
    /\ UNCHANGED <<ran, quit, cut>>

\* An error is returned.
Fail(c) ==
    /\ call[c] = "open" /\ (ran[c] = 1 \/ c \in quit \cup cut)
    /\ call' = [call EXCEPT ![c] = "failed"]
    /\ UNCHANGED <<ran, quit, cut>>

\* The caller's context ends, or connections are lost; a lost connection may fail
\* calls at once and may be replaced by a new one for calls that come later.
Trouble ==
    /\ quit \subseteq quit'
    /\ \A c \in Callers : call'[c] # call[c] => call[c] = "open" /\ call'[c] = "failed" /\ c \in quit' \cup cut'
    /\ ran' = ran

Next == Trouble \/ \E c \in Callers : Begin(c) \/ Run(c) \/ Answer(c) \/ Fail(c)

Spec == Init /\ [][Next]_promise
=============================================================================
