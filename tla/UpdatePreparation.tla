------------------------- MODULE UpdatePreparation -------------------------
(***************************************************************************)
(* The preparation and observation modes of src/plans/host/update.pp: the  *)
(* wave plan of src/tasks/update_wave_plan.py, the gates every host has to *)
(* pass before the first native reset, and the waves in which the hosts    *)
(* are then reset.  One execution of the plan is modelled; whatever a      *)
(* check has found may stop being so at any later moment.                  *)
(*                                                                         *)
(* Names of excluded hosts and of recovery consoles never are in Hosts:    *)
(* plan() refuses a policy that lists or selects one.                      *)
(*                                                                         *)
(* External: the native `nest reset` command, and what a host answers to a *)
(* check (the seal of its root generation, room for a reset, the held      *)
(* backup generation, the survivors of a controller).                      *)
(***************************************************************************)
EXTENDS Naturals, FiniteSets, SequencesExt

CONSTANTS
  Hosts,
  Domains,       \* failure domains
  Controllers,   \* the hosts that run the control plane
  MaxChanges     \* bound: how many findings stop being so

Checks == {"maintenance", "seal", "room", "backup"}
Stages == {"preflight", "initiation"}

\* A frozen policy: the hosts in order, how many of them are canaries, each
\* host's domains, the width of a wave, the hosts with a backup requirement.
Policies == [order : {s \in [1 .. Cardinality(Hosts) -> Hosts] : IsInjective(s)},
             canaries : 1 .. Cardinality(Hosts),
             member : [Hosts -> (SUBSET Domains) \ {{}}],
             limit : 0 .. 4,
             guarded : SUBSET Hosts]

VARIABLES
  mode,       \* "prepare" or "observe"
  policy,     \* the policy the plan was given
  targets,    \* the hosts the operator selected
  waves,      \* the bound waves: a sequence of sets of hosts
  stage,      \* "bind", "gates", "waves", "scope", "done", "stopped"
  current,    \* the wave being run
  thread,     \* thread[h]: where the thread of host h is
  receipts,   \* the retained observations: <<host, check, stage>>
  broken,     \* findings that do not hold (any more): <<host, check>>
  window,     \* the preparation window: "early", "open", "closed"
  reset,      \* reset[h]: "none", "running", "prepared", "failed"
  changes     \* how many findings have stopped being so

prepVars == <<mode, policy, targets, waves, stage, current, thread, receipts,
              broken, window, reset, changes>>

PrepTypeOK ==
  /\ mode \in {"prepare", "observe"}
  /\ targets \subseteq Hosts
  /\ \A n \in DOMAIN waves : waves[n] \subseteq Hosts /\ waves[n] # {}
  /\ stage \in {"bind", "gates", "waves", "scope", "done", "stopped"}
  /\ current \in 1 .. Cardinality(Hosts) + 1
  /\ thread \in [Hosts -> {"wait", "check", "admit", "native", "retain",
                           "ok", "bad"}]
  /\ receipts \subseteq Hosts \X Checks \X Stages
  /\ broken \subseteq Hosts \X Checks
  /\ window \in {"early", "open", "closed"}
  /\ reset \in [Hosts -> {"none", "running", "prepared", "failed"}]
  /\ changes \in 0 .. MaxChanges

-----------------------------------------------------------------------------
(* The wave plan.  Every canary is a wave of its own; the others are taken *)
(* first-fit, in policy order, into waves of disjoint domains.  The code   *)
(* fills one wave after the other with what remains; as a host fits a wave *)
(* or not by the hosts before it alone, each is in the first it fits.      *)

Admissible(p, selected) ==
  /\ selected = Hosts
  /\ p.limit >= 1
  /\ UNION {p.member[h] : h \in Hosts} = Domains

Fits(p, wave, h) ==
  /\ Cardinality(wave) < p.limit
  /\ \A g \in wave : p.member[g] \cap p.member[h] = {}

\* Positions in the policy of the hosts that are no canaries.
Others(p) == p.canaries + 1 .. Cardinality(Hosts)

\* What wave w holds when the host at position n is considered.
Placed(p, slot, w, n) == {p.order[m] : m \in {k \in Others(p) : k < n /\ slot[k] = w}}

FirstFit(p, slot, n) ==
  /\ Fits(p, Placed(p, slot, slot[n], n), p.order[n])
  /\ \A w \in 1 .. slot[n] - 1 : ~ Fits(p, Placed(p, slot, w, n), p.order[n])

Slots(p) ==
  CHOOSE slot \in [Others(p) -> 1 .. Cardinality(Hosts)] :
    \A n \in Others(p) : FirstFit(p, slot, n)

WavesOf(p) ==
  LET slot == Slots(p)
      last == Max({0} \cup {slot[n] : n \in Others(p)})
  IN  [n \in 1 .. p.canaries + last |->
         IF n <= p.canaries THEN {p.order[n]}
         ELSE {p.order[m] : m \in {k \in Others(p) : slot[k] = n - p.canaries}}]

-----------------------------------------------------------------------------
(* What is asked of a host before the first reset, and again right before  *)
(* its own.  Capacity is asked once: the native command admits it itself.  *)

Asked(h, s) ==
  {"seal"} \cup (IF h \in Controllers THEN {"maintenance"} ELSE {})
           \cup (IF h \in policy.guarded THEN {"backup"} ELSE {})
           \cup (IF s = "preflight" THEN {"room"} ELSE {})

Passed(h, s) == \A c \in Asked(h, s) : <<h, c, s>> \in receipts

\* Controllers first, then the seals of all hosts, their room, their backups;
\* at initiation the seal is the last.  Hosts are taken in policy order.
Sequence == [preflight |-> <<"maintenance", "seal", "room", "backup">>,
             initiation |-> <<"maintenance", "backup", "seal", "room">>]

\* The questions still open, as <<turn, position>>.
Pending(s, hosts) ==
  {q \in (1 .. 4) \X DOMAIN policy.order :
     /\ policy.order[q[2]] \in hosts
     /\ Sequence[s][q[1]] \in Asked(policy.order[q[2]], s)
     /\ <<policy.order[q[2]], Sequence[s][q[1]], s>> \notin receipts}

FirstOf(pending) ==
  CHOOSE q \in pending : \A r \in pending :
    q[1] < r[1] \/ (q[1] = r[1] /\ q[2] <= r[2])

Stop == stage' = "stopped"

Go(h, to) == thread' = [thread EXCEPT ![h] = to]

\* The next question is put: the finding holds and is retained, or not.
Ask(s, hosts, refused) ==
  LET next == FirstOf(Pending(s, hosts))
      h == policy.order[next[2]]
      check == Sequence[s][next[1]]
  IN  \/ /\ <<h, check>> \notin broken
         /\ receipts' = receipts \cup {<<h, check, s>>}
         /\ UNCHANGED <<stage, thread>>
      \/ refused /\ UNCHANGED receipts

PrepInit ==
  /\ mode \in {"prepare", "observe"}
  /\ policy \in Policies
  /\ targets \in SUBSET Hosts
  /\ window \in {"early", "open"}
  /\ waves = <<>>
  /\ stage = "bind"
  /\ current = 1
  /\ thread = [h \in Hosts |-> "wait"]
  /\ receipts = {}
  /\ broken = {}
  /\ reset = [h \in Hosts |-> "none"]
  /\ changes = 0

\* One input task validates the whole policy; preparation also needs its
\* window.  A controller has to be alone in its wave.
Bind ==
  /\ stage = "bind"
  /\ LET plan == WavesOf(policy)
         alone == \A n \in DOMAIN plan :
                    plan[n] \cap Controllers # {} => Cardinality(plan[n]) = 1
     IN  IF /\ Admissible(policy, targets)
            /\ mode = "prepare" => window = "open" /\ alone
         THEN waves' = plan /\ stage' = "gates"
         ELSE Stop /\ UNCHANGED waves
  /\ UNCHANGED <<mode, policy, targets, current, thread, receipts, broken,
                 window, reset, changes>>

\* The preflight is sequential.  A finding that does not hold, or that is
\* not retained, ends the plan before any reset.
Gate ==
  /\ stage = "gates" /\ mode = "prepare"
  /\ Pending("preflight", Hosts) # {}
  /\ Ask("preflight", Hosts, Stop /\ UNCHANGED thread)
  /\ UNCHANGED <<mode, policy, targets, waves, current, broken, window, reset,
                 changes>>

GatesPassedCurrent ==
  mode = "prepare" => \A h \in waves[current] : Passed(h, "preflight")

GatesPassed == mode = "prepare" => \A h \in Hosts : Passed(h, "preflight")

StartWaves ==
  /\ stage = "gates" /\ GatesPassed
  /\ stage' = "waves"
  /\ UNCHANGED <<mode, policy, targets, waves, current, thread, receipts,
                 broken, window, reset, changes>>

-----------------------------------------------------------------------------
(* The thread of a host of the current wave.                               *)

Enter(h) ==
  /\ thread[h] = "wait"
  /\ Go(h, IF mode = "prepare" THEN "check" ELSE "native")
  /\ UNCHANGED <<mode, policy, targets, waves, stage, current, receipts,
                 broken, window, reset, changes>>

\* The gates of this host are asked again, and retained again.
Recheck(h) ==
  /\ thread[h] = "check"
  /\ IF Pending("initiation", {h}) = {}
     THEN Go(h, "admit") /\ UNCHANGED <<stage, receipts>>
     ELSE Ask("initiation", {h}, Go(h, "bad") /\ UNCHANGED stage)
  /\ UNCHANGED <<mode, policy, targets, waves, current, broken, window, reset,
                 changes>>

\* Time and exact inputs are admitted once more before the native command.
Admit(h) ==
  /\ thread[h] = "admit"
  /\ Go(h, IF window = "open" THEN "native" ELSE "bad")
  /\ UNCHANGED <<mode, policy, targets, waves, stage, current, receipts,
                 broken, window, reset, changes>>

\* The command may not reach the host at all; status changes nothing there.
Command(h) ==
  /\ thread[h] = "native"
  /\ \/ /\ mode = "prepare"
        /\ reset' = [reset EXCEPT ![h] = "running"]
     \/ UNCHANGED reset
  /\ Go(h, "retain")
  /\ UNCHANGED <<mode, policy, targets, waves, stage, current, receipts,
                 broken, window, changes>>

\* Mutant: a retained answer is enough.
RetainAnswered(h) ==
  /\ thread[h] = "retain"
  /\ Go(h, "ok")
  /\ UNCHANGED <<mode, policy, targets, waves, stage, current, receipts,
                 broken, window, reset, changes>>

\* An answer is retained whatever it says; only a prepared receipt (or a live
\* observation) lets the thread end well.  Without one the host may still be
\* busy.
Retain(h) ==
  /\ thread[h] = "retain"
  /\ \/ /\ reset[h] = "prepared" \/ mode = "observe"
        /\ Go(h, "ok")
     \/ Go(h, "bad")
  /\ UNCHANGED <<mode, policy, targets, waves, stage, current, receipts,
                 broken, window, reset, changes>>

\* parallelize() lets every thread of the wave end, then raises what failed.
WaveEnds ==
  /\ stage = "waves" /\ current <= Len(waves)
  /\ \A h \in waves[current] : thread[h] \in {"ok", "bad"}
  /\ IF \A h \in waves[current] : thread[h] = "ok"
     THEN current' = current + 1 /\ UNCHANGED stage
     ELSE Stop /\ UNCHANGED current
  /\ UNCHANGED <<mode, policy, targets, waves, thread, receipts, broken,
                 window, reset, changes>>

\* The index is published only when every host of every wave has its report.
RetainScope ==
  /\ stage = "waves" /\ current > Len(waves)
  /\ \/ stage' = "done"
     \/ Stop
  /\ UNCHANGED <<mode, policy, targets, waves, current, thread, receipts,
                 broken, window, reset, changes>>

HostStep(h) == Enter(h) \/ Recheck(h) \/ Admit(h) \/ Command(h) \/ Retain(h)

Die ==
  /\ stage \in {"gates", "waves"}
  /\ Stop
  /\ UNCHANGED <<mode, policy, targets, waves, current, thread, receipts,
                 broken, window, reset, changes>>

-----------------------------------------------------------------------------
(* The world: resets end whether or not the plan still waits for them.     *)

ResetEnds(h) ==
  /\ reset[h] = "running"
  /\ \E outcome \in {"prepared", "failed"} :
       reset' = [reset EXCEPT ![h] = outcome]
  /\ UNCHANGED <<mode, policy, targets, waves, stage, current, thread,
                 receipts, broken, window, changes>>

Spoil(h, c) ==
  /\ changes < MaxChanges
  /\ c \in Asked(h, "preflight") /\ <<h, c>> \notin broken
  /\ changes' = changes + 1
  /\ broken' = broken \cup {<<h, c>>}
  /\ UNCHANGED <<mode, policy, targets, waves, stage, current, thread,
                 receipts, window, reset>>

WindowMoves ==
  /\ window # "closed"
  /\ window' = IF window = "early" THEN "open" ELSE "closed"
  /\ UNCHANGED <<mode, policy, targets, waves, stage, current, thread,
                 receipts, broken, reset, changes>>

Active == IF stage = "waves" /\ current <= Len(waves) THEN waves[current] ELSE {}

PrepNext ==
  \/ Bind \/ Gate \/ StartWaves \/ WaveEnds \/ RetainScope \/ Die
  \/ \E h \in Active : HostStep(h)
  \/ \E h \in Hosts : ResetEnds(h)
  \/ \E h \in Hosts, c \in Checks : Spoil(h, c)
  \/ WindowMoves

PrepSpec == PrepInit /\ [][PrepNext]_prepVars

-----------------------------------------------------------------------------
(* Once any host was told to reset, every selected host had passed every   *)
(* gate of the preflight; and a host that was told so had passed its own   *)
(* gates again after all hosts of the earlier waves were prepared          *)
(* (update.pp:127-197 before update.pp:199-262).                           *)
GatesPrecedeResets ==
  \A h \in Hosts :
    /\ reset[h] # "none" =>
         /\ \A g \in Hosts : Passed(g, "preflight")
         /\ Passed(h, "initiation")
    /\ (\E c \in Checks : <<h, c, "initiation">> \in receipts) =>
         \A m, n \in DOMAIN waves :
           m < n /\ h \in waves[n] => \A g \in waves[m] : reset[g] = "prepared"

(* Whatever fails, and whoever dies: the hosts that were told to reset and *)
(* are not known prepared fit into one wave of the policy.  They share no  *)
(* failure domain, are no more than the policy allows, and a canary among  *)
(* them is alone (update_wave_plan.py:146-158 with update.pp:199-283).     *)
DamageIsContained ==
  LET damaged == {h \in Hosts : reset[h] \in {"running", "failed"}}
      canaries == {policy.order[n] : n \in 1 .. policy.canaries}
  IN  /\ \A g, h \in damaged :
           g # h => policy.member[g] \cap policy.member[h] = {}
      /\ Cardinality(damaged) <= policy.limit
      /\ damaged \cap canaries # {} => Cardinality(damaged) = 1
=============================================================================
