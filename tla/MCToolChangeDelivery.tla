------------------------ MODULE MCToolChangeDelivery ------------------------
(* The scenarios TLC explores of ToolChangeDelivery. *)
EXTENDS ToolChangeDelivery, TLC

Nothing == [e \in Events |-> 0]

\* A link replaced, a daemon restarted and a session evicted while changes are
\* published; then the agent's own moves: listens, closing its end, going away.
Deliveries ==
    {("change" :> 2 @@ "relink" :> 1) @@ Nothing,
     ("change" :> 1 @@ "relink" :> 1 @@ "restart" :> 1 @@ "listen" :> 1) @@ Nothing,
     ("change" :> 1 @@ "evict" :> 1 @@ "listen" :> 1) @@ Nothing,
     ("change" :> 2 @@ "listen" :> 2 @@ "cancel" :> 1) @@ Nothing,
     ("change" :> 1 @@ "relink" :> 1 @@ "close" :> 1) @@ Nothing,
     ("change" :> 1 @@ "listen" :> 1 @@ "gone" :> 1) @@ Nothing}

=============================================================================
