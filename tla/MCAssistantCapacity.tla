------------------------- MODULE MCAssistantCapacity -------------------------
(* Instances of AssistantCapacity for TLC. *)
EXTENDS AssistantCapacity, TLC

CONSTANTS t1, t2, c1, c2, c3, c4

\* One turn runs three tools at once, another one.
MCCaller == c1 :> t1 @@ c2 :> t1 @@ c3 :> t1 @@ c4 :> t2

\* The embedding lane is the narrower one: turns that stream wait for it.
MCMaxConcurrent == "chat" :> 2 @@ "embedding" :> 1

\* One embedding call runs, two wait, and the fourth is refused.
MCMaxQueue == "chat" :> 1 @@ "embedding" :> 2

=============================================================================
