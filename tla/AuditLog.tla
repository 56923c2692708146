-------------------------------- MODULE AuditLog --------------------------------
(******************************************************************************)
(* What the trace store promises its callers, with no file and no hash: one     *)
(* log per day to which runs are added, each once and for good, and a run whose *)
(* record() returned is in the log.                                             *)
(******************************************************************************)
EXTENDS Naturals, Sequences

CONSTANTS Runs, Days

VARIABLES log,      \* day -> the runs recorded on it, in order
          returned  \* the runs whose record() has returned their id

logVars == <<log, returned>>

LogInit == /\ log = [d \in Days |-> <<>>]
           /\ returned = {}

Logged(r) == \E d \in Days : \E i \in DOMAIN log[d] : log[d][i] = r

Record(d, r) ==
  /\ ~Logged(r)
  /\ log' = [log EXCEPT ![d] = Append(@, r)]
  /\ returned' = returned \cup {r}

LogNext == \E d \in Days, r \in Runs : Record(d, r)

LogSpec == LogInit /\ [][LogNext]_logVars

================================================================================
