----------------------------- MODULE MCPipeline -----------------------------
(* Command lines of up to three commands.                                  *)
EXTENDS Pipeline, TLC

\* "echo" only writes, "cat" copies all there is and "head" one item.
MCMakes == "echo" :> 2 @@ "cat" :> 0 @@ "head" :> 0
MCCopies == "echo" :> 0 @@ "cat" :> 9 @@ "head" :> 1
MCTyped == <<<<0, 1>>, <<0, 2>>>>

Commands == {"echo", "cat", "head", "missing"}
MCLines == UNION {[1..n -> Commands] : n \in 1..3}
=============================================================================
