------------------------------ MODULE MCTraceStore ------------------------------
(* Small instances of the trace store, with a digest that keeps all it has seen:  *)
(* the hash of a record is the sequence of runs up to it, so it has no collisions. *)
EXTENDS TraceStore

MaxChain == 4
MCDigests == UNION {[1 .. n -> Runs] : n \in 0 .. MaxChain}
MCGenesis == <<>>
MCDigest == [c \in Runs \X MCDigests |->
               IF Len(c[2]) < MaxChain THEN Append(c[2], c[1]) ELSE c[2]]

================================================================================
