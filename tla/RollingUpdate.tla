---------------------------- MODULE RollingUpdate ----------------------------
(***************************************************************************)
(* What a lifecycle execution promises about a set of hosts, whatever      *)
(* controllers crash, overlap or lose replies underneath: each host is     *)
(* disrupted at most once, accepted after its disruption and finalized     *)
(* after its acceptance, and a wave of hosts is disrupted only after every *)
(* earlier wave has been finalized.                                        *)
(*                                                                         *)
(* The promise is the barrier comment and loop of                          *)
(* src/plans/host/update_lifecycle.pp; HostLifecycle implements it.        *)
(***************************************************************************)
EXTENDS Naturals

CONSTANTS
  Hosts,        \* the hosts of one update policy
  Waves,        \* how many waves src/tasks/update_wave_plan.py made of them
  Wave,         \* Wave[h], the wave of host h
  Conflicts     \* pairs of hosts that may not be out at the same time

VARIABLE life   \* life[h]: "pending", "disrupted", "accepted" or "finalized"

Init == life = [h \in Hosts |-> "pending"]

EarlierWavesFinalized(h) ==
  \A g \in Hosts : Wave[g] < Wave[h] => life[g] = "finalized"

Disrupt(h) ==
  /\ life[h] = "pending"
  /\ EarlierWavesFinalized(h)
  /\ life' = [life EXCEPT ![h] = "disrupted"]

Accept(h) ==
  /\ life[h] = "disrupted"
  /\ life' = [life EXCEPT ![h] = "accepted"]

Finalize(h) ==
  /\ life[h] = "accepted"
  /\ life' = [life EXCEPT ![h] = "finalized"]

Next == \E h \in Hosts : Disrupt(h) \/ Accept(h) \/ Finalize(h)

Spec == Init /\ [][Next]_life

Out(h) == life[h] \in {"disrupted", "accepted"}

\* No two conflicting hosts are out of service at once: the whole point of
\* cutting the update into waves.
ConflictingHostsNeverOutTogether ==
  \A g, h \in Hosts : g # h /\ <<g, h>> \in Conflicts => ~ (Out(g) /\ Out(h))
==============================================================================
