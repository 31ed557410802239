----------------------------- MODULE AtLeastOnce -----------------------------
(***************************************************************************)
(* What a consumer group of the mp:updates stream promises its handler     *)
(* (stream_bus.py): an entry addressed to the group is settled only after  *)
(* the handler was given it, unless the stream was trimmed meanwhile, and  *)
(* a settled entry is never given to the handler again.                    *)
(* How often an unsettled entry is handed over is not limited.             *)
(***************************************************************************)
EXTENDS Naturals

VARIABLES
  appended,   \* entries 1..appended were appended to the stream
  trimmed,    \* entries 1..trimmed are gone from it
  from,       \* the group gets the entries after this one
  attempted,  \* entries handed to the handler at least once
  settled     \* entries the group is done with

vars == <<appended, trimmed, from, attempted, settled>>

Addressed == from + 1 .. appended

Init ==
  /\ appended = 0 /\ trimmed = 0 /\ from = 0
  /\ attempted = {} /\ settled = {}

\* An entry is appended, or old ones are trimmed, or both.
Grow ==
  /\ appended' \in {appended, appended + 1}
  /\ trimmed' \in trimmed..appended'
  /\ UNCHANGED <<from, attempted, settled>>

\* The group is created, at the end of the stream.
Join ==
  /\ from' = appended
  /\ settled' = {}
  /\ UNCHANGED <<appended, trimmed, attempted>>

Attempt ==
  /\ \E e \in Addressed \ settled : attempted' = attempted \cup {e}
  /\ UNCHANGED <<appended, trimmed, from, settled>>

\* Entries are settled in one step: those acknowledged or found trimmed.
Settle ==
  /\ settled \subseteq settled' /\ settled' \subseteq Addressed
  /\ \A e \in settled' \ settled : e \in attempted \/ e <= trimmed
  /\ UNCHANGED <<appended, trimmed, from, attempted>>

\* Redis loses the stream and the group with it.
Lose ==
  /\ trimmed' = appended
  /\ settled \subseteq settled' /\ settled' \subseteq Addressed
  /\ UNCHANGED <<appended, from, attempted>>

Next == Grow \/ Join \/ Attempt \/ Settle \/ Lose

Spec == Init /\ [][Next]_vars

=============================================================================
