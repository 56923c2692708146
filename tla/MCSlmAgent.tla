------------------------------- MODULE MCSlmAgent -------------------------------
(* A small scenario for the SLM agent: port P1 serves a chain of two amps, port P2 *)
(* resolves to nothing. The model may capture all of the segment or part of it.     *)
EXTENDS SlmAgent

TwoAmps ==
  {[segments |-> [p \in {"P1"} |-> [parent |-> <<None, 1>>, kind |-> <<"AMP", "AMP">>]],
    looks |-> [d \in {RpdRef, 1, 2} |-> IF d = 2 THEN Classes ELSE {"CPD"}],
    faults |-> {}, failedAmps |-> {}]}

SmallAlarms ==
  {[entity |-> "rpdPort", alarmType |-> "highUpstreamFecErrors", port |-> {"P2"}],
   [entity |-> "rpdPort", alarmType |-> "highDownstreamSnr", port |-> {"P1"}]}

FirstOrBoth == {{1}, {1, 2}}

\* Two kinds of model. One asks for anything, up to FreeCalls times. The other keeps the
\* recommended order in a first, direct run: it measures, classifies and localizes, with up to
\* two calls in each turn, so its localizations can rest on different captures and race for
\* last_localization. In a second run it stops at once.
VARIABLE orderly

FreeCalls == 3
FreeTurns == 2
Free == asked' <= FreeCalls /\ turns' <= FreeTurns
ToolsOfTurn == <<{"measureById"}, {"analyzeSet"}, {"localize"}>>
InOrder == /\ Len(jobs') > Len(jobs) => jobs'[Len(jobs')].tool \in ToolsOfTurn[turns]
           /\ runs' = 2 => turns' = 0
           /\ trigger' = {}

MCInit == Init /\ orderly \in BOOLEAN
MCNext == Next /\ (IF orderly THEN InOrder ELSE Free) /\ UNCHANGED orderly
MCSpec == MCInit /\ [][MCNext]_<<vars, orderly>>

================================================================================
